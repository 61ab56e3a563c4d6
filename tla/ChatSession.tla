----------------------------- MODULE ChatSession -----------------------------
(***************************************************************************)
(* Persistent chat sessions: ChatSession of skilllite-agent                *)
(* (chat_session.rs) over the transcripts and the session store of         *)
(* skilllite-executor (transcript.rs, session.rs), shared on disk with the *)
(* desktop's session commands (skilllite_bridge/sessions.rs).              *)
(*                                                                         *)
(* An actor is a process that holds one ChatSession, or the desktop.       *)
(* Processes share nothing but files, so a step is one access to the disk  *)
(* or the end of one await (LLM call, silent flush turn, agent loop).      *)
(* std::fs::write truncates and then writes: two steps.  writeln! to a     *)
(* File writes the line and then its newline: two steps.                   *)
(*                                                                         *)
(* Left out: rows that read_history ignores (header, tool, custom rows),   *)
(* message texts, and failures of the file system itself.  Every row takes *)
(* one unit of a file's length.                                            *)
(***************************************************************************)
EXTENDS Integers, Sequences, FiniteSets, Functions

CONSTANTS
  Procs,          \* processes holding a ChatSession
  Desktop,        \* the desktop application
  Keys,           \* session keys
  Default,        \* the key "default"
  KeyOf,          \* the session key of each process
  NamePrefix,     \* the pairs <<k, j>> of keys such that j begins with k
  DashPrefix,     \* the pairs <<k, j>> such that j is k or begins with k and "-"
  Suffix,         \* alphabetical rank of what follows k and "-" in a file's name
  Directory,      \* the order in which the directory names its files
  MaxDay,         \* bound: days
  MaxOps,         \* bound: operations started
  MaxCrashes,     \* bound: crashes
  FlushThreshold, \* get_memory_flush_threshold
  CompactionThreshold, \* get_compaction_threshold
  KeepRecent,     \* get_compaction_keep_recent
  Window,         \* history_window_messages_limit; 0 is unlimited
  SessionOps,     \* operations the processes perform
  DesktopOps      \* operations the desktop performs

Actors == Procs \cup {Desktop}
Files == Keys \X (1..MaxDay)

ASSUME SessionAssumption ==
  /\ Desktop \notin Procs /\ KeyOf \in [Procs -> Keys]
  /\ IsFiniteSet(Keys) /\ Default \in Keys
  /\ DashPrefix \subseteq NamePrefix /\ NamePrefix \subseteq Keys \X Keys
  /\ \A k \in Keys : <<k, k>> \in DashPrefix
  /\ Suffix \in [Keys -> [Files -> Int]]
  /\ \A k \in Keys, d, e \in 1..MaxDay : d < e => Suffix[k][<<k, d>>] < Suffix[k][<<k, e>>]
  /\ Directory \in [Files -> Nat] /\ IsInjective(Directory)
  /\ MaxDay \in Nat \ {0}
  /\ {MaxOps, MaxCrashes, FlushThreshold, CompactionThreshold, KeepRecent,
      Window} \subseteq Nat
  /\ SessionOps \subseteq {"turn", "compact", "clear", "clear_full"}
  /\ DesktopOps \subseteq {"create", "rename", "delete"}

(***************************************************************************)
(* A row: a message, the summary of a compaction, the summary written by a *)
(* clear or, in a history only, the memory context.  It is glued when the  *)
(* row before it had no newline yet: the two then share a line, which does *)
(* not parse.                                                              *)
(***************************************************************************)
Row == [kind : {"message", "compaction", "cleared", "context"}, id : Nat,
        glued : BOOLEAN]
IsMessage(r) == r.kind = "message"

\* A SessionEntry; flushed is memory_flush_compaction_count, 0 for None.  An
\* entry rename_session made has no session_id: SessionStore::load rejects it.
Entry == [count : Nat, flushed : Nat, complete : BOOLEAN]
NewEntry == [count |-> 0, flushed |-> 0, complete |-> TRUE]

VARIABLES
  files,    \* rows of each transcript file; an absent file is empty
  ragged,   \* files that end in a row without its newline
  store,    \* what sessions.json last contained
  torn,     \* sessions.json is truncated and not written yet
  day,      \* today
  pc, op,   \* control point and operation of each actor
  stage,    \* which memory flush or compaction a process is at
  then,     \* where an actor goes after a save or an append
  open,     \* session_id is set
  cache,    \* transcript_cache
  history,  \* the history of the current turn
  line,     \* the row whose newline is due
  snap,     \* the store an actor is about to write
  cycle,    \* next_compaction, read before the flush turn
  todo,     \* files clear_full has still to archive
  subject,  \* the session the desktop works on
  ops, crashes, said, \* operations, crashes and rows so far
  flushes,  \* observed: successful flush turns of a key since its last summary
  cleared   \* observed: rows written when the last full clear of a key returned

disk == <<files, ragged, store, torn, day>>
local == <<pc, op, stage, then, open, cache, history, line, snap, cycle, todo,
           subject>>
observed == <<flushes, cleared>>
session == <<disk, local, ops, crashes, said, observed>>

-----------------------------------------------------------------------------
(* Transcript files and the history read from them. *)

\* list_transcript_files: every file whose name starts with the key.
Listed(k) == {f \in Files : <<k, f[1]>> \in NamePrefix /\ files[f] # <<>>}

\* They are sorted by what follows "key-" in the name, the date for a file of the
\* key itself; a file whose name goes on without a dash counts as "0000-00-00",
\* rank 0; equal ones stay in the order of the directory.
Date(k, f) == IF <<k, f[1]>> \in DashPrefix THEN Suffix[k][f] ELSE 0
Before(k, f, g) == \/ Date(k, f) < Date(k, g)
                   \/ Date(k, f) = Date(k, g) /\ Directory[f] < Directory[g]
First(k, fs) == {f \in fs : \A g \in fs : g = f \/ Before(k, f, g)}
LastFile(k) == CHOOSE f \in Files : \A g \in Files : ~Before(k, f, g)

(***************************************************************************)
(* What is read is a function from places, a file and a position in it, to *)
(* rows.  Rows that are dropped leave a gap.                               *)
(***************************************************************************)
Earlier(k, x, y) == IF x[1] = y[1] THEN x[2] < y[2] ELSE Before(k, x[1], y[1])
Newer(k, h, x) == {y \in DOMAIN h : Earlier(k, x, y)}
Size(h) == Cardinality(DOMAIN h)

\* The rows of the listed files, one file after the other.
Joined(k, rows) ==
  [x \in UNION {{f} \X DOMAIN rows[f] : f \in Listed(k)} |-> rows[x[1]][x[2]]]

\* From the last summary on, it included (prune_cache_before_last_compaction).
FromLastSummary(k, h) ==
  Restrict(h, {x \in DOMAIN h : \A y \in Newer(k, h, x) : IsMessage(h[y])})

\* The oldest messages beyond the window are dropped; summaries stay.
InWindow(k, h) ==
  LET newer(x) == {y \in Newer(k, h, x) : IsMessage(h[y])}
  IN Restrict(h, {x \in DOMAIN h :
       IsMessage(h[x]) /\ Window > 0 => Cardinality(newer(x)) < Window})

Visible(k, h) == InWindow(k, FromLastSummary(k, h))

\* What stands in the files, whether or not the lines of its rows parse.
Standing(k) == Visible(k, Joined(k, files))

Uncached == [offset |-> 0, rows |-> <<>>]
EmptyCache == <<>>
OfFile(c, f) == IF f \in DOMAIN c THEN c[f] ELSE Uncached

\* A file shorter than what was read has been replaced: start over.
Rewound(c, log) == IF Len(log) < c.offset THEN Uncached ELSE c

\* Mutation: the seek to the offset is missing.
CatchUpFromStart(c, log) ==
  LET base == Rewound(c, log)
      o == base.offset
  IN [offset |-> Len(log),
      rows |-> [i \in DOMAIN base.rows \cup (o + 1)..(o + Len(log)) |->
                  IF i > o THEN log[i - o] ELSE base.rows[i]]]

CatchUp(c, log) ==
  LET base == Rewound(c, log)
  IN [offset |-> Len(log),
      rows |-> [i \in DOMAIN base.rows \cup (base.offset + 1)..Len(log) |->
                  IF i > base.offset THEN log[i] ELSE base.rows[i]]]

\* A glued line shows only to a reader that starts before its first row.
Unparsable(c, log) == \E i \in (Rewound(c, log).offset + 2)..Len(log) : log[i].glued

\* Files that are no longer listed are forgotten, the others are read on; the
\* first one that does not parse ends the read.
CaughtUp(k, c, bad) ==
  [f \in Listed(k) |->
     IF \A g \in bad : Before(k, f, g) THEN CatchUp(OfFile(c, f), files[f])
     ELSE IF f \in First(k, bad) THEN Rewound(OfFile(c, f), files[f])
     ELSE OfFile(c, f)]

-----------------------------------------------------------------------------
(* Writing: a row of a transcript, and sessions.json. *)

Goto(a, l) == pc' = [pc EXCEPT ![a] = l]
Today(p) == <<KeyOf[p], day>>

\* append_entry, up to the newline; the actor continues at l after it.
PutRow(p, kind, l) ==
  LET f == Today(p)
      row == [kind |-> kind, id |-> said, glued |-> f \in ragged]
  IN /\ files' = [files EXCEPT ![f] = Append(@, row)]
     /\ ragged' = ragged \cup {f}
     /\ said' = said + 1
     /\ line' = [line EXCEPT ![p] = [file |-> f, id |-> said]]
     /\ then' = [then EXCEPT ![p] = l]
     /\ Goto(p, "newline")

\* SessionStore::save of s; the actor continues at l after it.
Save(a, s, l) ==
  /\ snap' = [snap EXCEPT ![a] = s]
  /\ then' = [then EXCEPT ![a] = l]
  /\ Goto(a, "truncate")

\* SessionStore::load, for the agent; the desktop reads what does not parse
\* as an empty store.
Loadable == ~torn /\ \A k \in DOMAIN store : store[k].complete
With(s, k, e) == [j \in DOMAIN s \cup {k} |-> IF j = k THEN e ELSE s[j]]
Without(s, k) == [j \in DOMAIN s \ {k} |-> s[j]]
Holds(k) == Loadable /\ k \in DOMAIN store

Newline(p) ==
  /\ pc[p] = "newline"
  /\ LET f == line[p].file
         there == \E i \in DOMAIN files[f] : files[f][i].id = line[p].id
     IN ragged' = IF there THEN ragged \ {f} ELSE ragged
  /\ Goto(p, then[p])
  /\ UNCHANGED <<files, store, torn, day, op, stage, then, open, cache, history,
                 line, snap, cycle, todo, subject, ops, crashes, said, observed>>

Truncate(a) ==
  /\ pc[a] = "truncate"
  /\ torn' = TRUE
  /\ Goto(a, "write")
  /\ UNCHANGED <<files, ragged, store, day, op, stage, then, open, cache, history,
                 line, snap, cycle, todo, subject, ops, crashes, said, observed>>

Write(a) ==
  /\ pc[a] = "write"
  /\ store' = snap[a] /\ torn' = FALSE
  /\ Goto(a, then[a])
  /\ UNCHANGED <<files, ragged, day, op, stage, then, open, cache, history, line,
                 snap, cycle, todo, subject, ops, crashes, said, observed>>

-----------------------------------------------------------------------------
(* Starting an operation: ensure_session and read_history. *)

Start(p, o) ==
  /\ pc[p] = "idle" /\ ops < MaxOps /\ o \in SessionOps
  /\ ops' = ops + 1
  /\ op' = [op EXCEPT ![p] = o]
  /\ history' = [history EXCEPT ![p] = <<>>]
  /\ IF o = "clear" /\ ~open[p]
     THEN \* /clear before the first turn only drops the cache
       /\ Goto(p, "idle")
       /\ cache' = [cache EXCEPT ![p] = EmptyCache]
     ELSE
       /\ Goto(p, IF o \in {"turn", "compact"} /\ ~open[p] THEN "load" ELSE "read")
       /\ UNCHANGED cache
  /\ UNCHANGED <<disk, stage, then, open, line, snap, cycle, todo, subject,
                 crashes, said, observed>>

\* create_or_get keeps the entry of a known key.
EnsureSession(p) ==
  /\ pc[p] = "load"
  /\ IF Loadable
     THEN LET k == KeyOf[p]
              entry == IF k \in DOMAIN store THEN store[k] ELSE NewEntry
          IN Save(p, With(store, k, entry), "header")
     ELSE Goto(p, "idle") /\ UNCHANGED <<snap, then>>
  /\ UNCHANGED <<disk, op, stage, open, cache, history, line, cycle, todo, subject,
                 ops, crashes, said, observed>>

\* ensure_session_header reads today's file before it adds a header.
EnsureHeader(p) ==
  /\ pc[p] = "header"
  /\ IF Unparsable(Uncached, files[Today(p)])
     THEN Goto(p, "idle") /\ UNCHANGED open
     ELSE Goto(p, "read") /\ open' = [open EXCEPT ![p] = TRUE]
  /\ UNCHANGED <<disk, op, stage, then, cache, history, line, snap, cycle, todo,
                 subject, ops, crashes, said, observed>>

\* Where an operation goes with the history it has read.
AfterRead(o) ==
  CASE o = "turn" -> "early"
    [] o = "compact" -> "summarise"
    [] o \in {"clear", "clear_full"} -> "remember"

\* A clear goes on without a summary, a turn or a /compact returns the error.
AfterFailedRead(o) ==
  CASE o \in {"turn", "compact"} -> "idle"
    [] o = "clear" -> "reset"
    [] o = "clear_full" -> "list"

\* The files whose unread part has a line that does not parse, and what is read
\* if there are none.
Broken(k, c) == {f \in Listed(k) : Unparsable(OfFile(c, f), files[f])}
HistoryFrom(k, now) == Visible(k, Joined(k, [f \in Listed(k) |-> now[f].rows]))

ReadHistory(p) ==
  /\ pc[p] = "read"
  /\ LET k == KeyOf[p]
         bad == Broken(k, cache[p])
         now == CaughtUp(k, cache[p], bad)
         rows == HistoryFrom(k, now)
         kept(f) == {i \in DOMAIN now[f].rows : <<f, i>> \in DOMAIN rows}
     IN IF bad = {}
        THEN /\ history' = [history EXCEPT ![p] = rows]
             /\ cache' = [cache EXCEPT ![p] = [f \in Listed(k) |->
                  [now[f] EXCEPT !.rows = Restrict(@, kept(f))]]]
             /\ Goto(p, AfterRead(op[p]))
        ELSE /\ cache' = [cache EXCEPT ![p] = now]
             /\ Goto(p, AfterFailedRead(op[p]))
             /\ UNCHANGED history
  /\ stage' = [stage EXCEPT ![p] = IF op[p] = "compact" THEN "compact" ELSE "early"]
  /\ UNCHANGED <<disk, op, then, open, line, snap, cycle, todo, subject, ops,
                 crashes, said, observed>>

-----------------------------------------------------------------------------
(* Memory flush and compaction. *)

\* Mutation: the cycle is compared with the last compaction, not the next.
NeedsFlushOfLast(k) == Holds(k) /\ store[k].flushed # store[k].count

\* memory_flush_compaction_count is not the coming compaction.
NeedsFlush(k) == Holds(k) /\ store[k].flushed # store[k].count + 1

\* Run the flush turn if this cycle had none, and continue at l.
FlushThen(p, l) ==
  /\ cycle' = [cycle EXCEPT ![p] = store[KeyOf[p]].count + 1]
  /\ then' = [then EXCEPT ![p] = l]
  /\ Goto(p, "flush")

EarlyFlush(p) ==
  /\ pc[p] = "early"
  /\ IF Size(history[p]) >= FlushThreshold /\ NeedsFlush(KeyOf[p])
     THEN FlushThen(p, "check")
     ELSE Goto(p, "check") /\ UNCHANGED <<cycle, then>>
  /\ UNCHANGED <<disk, op, stage, open, cache, history, line, snap, todo, subject,
                 ops, crashes, said, observed>>

\* compact_history, up to its flush.
Check(p) ==
  /\ pc[p] = "check"
  /\ IF Size(history[p]) < CompactionThreshold
     THEN Goto(p, "budget") /\ UNCHANGED <<stage, cycle, then>>
     ELSE /\ stage' = [stage EXCEPT ![p] = "compact"]
          /\ IF NeedsFlush(KeyOf[p])
             THEN FlushThen(p, "summarise")
             ELSE Goto(p, "summarise") /\ UNCHANGED <<cycle, then>>
  /\ UNCHANGED <<disk, op, open, cache, history, line, snap, todo, subject, ops,
                 crashes, said, observed>>

\* run_memory_flush_turn: an agent loop nobody sees.
FlushTurn(p, succeeds) ==
  /\ pc[p] = "flush"
  /\ Goto(p, IF succeeds THEN "mark" ELSE then[p])
  /\ flushes' = [flushes EXCEPT ![KeyOf[p]] = IF succeeds /\ @ < 2 THEN @ + 1 ELSE @]
  /\ UNCHANGED <<disk, op, stage, then, open, cache, history, line, snap, cycle,
                 todo, subject, ops, crashes, said, cleared>>

\* The store is loaded again after the await; the cycle is the one read before.
MarkFlushed(p) ==
  /\ pc[p] = "mark"
  /\ LET k == KeyOf[p]
     IN IF Holds(k)
        THEN Save(p, [store EXCEPT ![k].flushed = cycle[p]], then[p])
        ELSE Goto(p, then[p]) /\ UNCHANGED <<snap, then>>
  /\ UNCHANGED <<disk, op, stage, open, cache, history, line, cycle, todo, subject,
                 ops, crashes, said, observed>>

AfterCompaction(p) ==
  CASE op[p] = "compact" -> "idle"
    [] op[p] = "turn" /\ stage[p] = "compact" -> "budget"
    [] op[p] = "turn" /\ stage[p] = "budget" -> "user"

\* compact_history_inner with too little history, or without an LLM answer.
KeepAll(p) ==
  /\ pc[p] = "summarise"
  /\ Goto(p, AfterCompaction(p))
  /\ UNCHANGED <<disk, op, stage, then, open, cache, history, line, snap, cycle,
                 todo, subject, ops, crashes, said, observed>>

\* The turn goes on with the summary and the recent messages, the summary in
\* the place of the newest row it replaces; the transcript gets the summary,
\* behind the recent messages.
Compacted(k, h) ==
  LET recent == {x \in DOMAIN h : Cardinality(Newer(k, h, x)) < KeepRecent}
      old == DOMAIN h \ recent
      seam == CHOOSE x \in old : \A y \in old : ~Earlier(k, x, y)
  IN [x \in recent \cup {seam} |->
        IF x = seam THEN [kind |-> "compaction", id |-> said, glued |-> FALSE] ELSE h[x]]

Summarise(p) ==
  /\ pc[p] = "summarise" /\ Size(history[p]) > KeepRecent
  /\ history' = [history EXCEPT ![p] = Compacted(KeyOf[p], @)]
  /\ PutRow(p, "compaction", "count")
  /\ flushes' = [flushes EXCEPT ![KeyOf[p]] = 0]
  /\ UNCHANGED <<store, torn, day, op, stage, open, cache, snap, cycle, todo,
                 subject, ops, crashes, cleared>>

CountCompaction(p) ==
  /\ pc[p] = "count"
  /\ LET k == KeyOf[p]
     IN IF Holds(k)
        THEN Save(p, [store EXCEPT ![k].count = @ + 1], AfterCompaction(p))
        ELSE Goto(p, AfterCompaction(p)) /\ UNCHANGED <<snap, then>>
  /\ UNCHANGED <<disk, op, stage, open, cache, history, line, cycle, todo, subject,
                 ops, crashes, said, observed>>

-----------------------------------------------------------------------------
(* The rest of a turn. *)

\* The memory context, if any, behind everything read, then
\* apply_pre_request_context_budget, which compacts again if the characters
\* still exceed the soft limit.
WithContext(k, h) ==
  LET end == <<LastFile(k), said>>
  IN [x \in DOMAIN h \cup {end} |->
        IF x = end THEN [kind |-> "context", id |-> 0, glued |-> FALSE] ELSE h[x]]

Budget(p, remembers, over) ==
  /\ pc[p] = "budget"
  /\ LET h == IF remembers THEN WithContext(KeyOf[p], history[p]) ELSE history[p]
     IN /\ history' = [history EXCEPT ![p] = h]
        /\ IF over /\ Size(h) > KeepRecent
           THEN Goto(p, "summarise") /\ stage' = [stage EXCEPT ![p] = "budget"]
           ELSE Goto(p, "user") /\ UNCHANGED stage
  /\ UNCHANGED <<disk, op, then, open, cache, line, snap, cycle, todo, subject,
                 ops, crashes, said, observed>>

AppendUser(p) ==
  /\ pc[p] = "user"
  /\ PutRow(p, "message", "loop")
  /\ UNCHANGED <<store, torn, day, op, stage, open, cache, history, snap, cycle,
                 todo, subject, ops, crashes, observed>>

AgentLoopFails(p) ==
  /\ pc[p] = "loop"
  /\ Goto(p, "idle")
  /\ UNCHANGED <<disk, op, stage, then, open, cache, history, line, snap, cycle,
                 todo, subject, ops, crashes, said, observed>>

AppendAssistant(p) ==
  /\ pc[p] = "loop"
  /\ PutRow(p, "message", "idle")
  /\ UNCHANGED <<store, torn, day, op, stage, open, cache, history, snap, cycle,
                 todo, subject, ops, crashes, observed>>

-----------------------------------------------------------------------------
(* Clearing a session. *)

EndOfClear(o) == IF o = "clear_full" THEN "list" ELSE "reset"

\* summarize_for_memory without history, API key or summary.
RememberNothing(p) ==
  /\ pc[p] = "remember"
  /\ Goto(p, EndOfClear(op[p]))
  /\ UNCHANGED <<disk, op, stage, then, open, cache, history, line, snap, cycle,
                 todo, subject, ops, crashes, said, observed>>

Remember(p) ==
  /\ pc[p] = "remember" /\ Size(history[p]) > 0
  /\ PutRow(p, "cleared", EndOfClear(op[p]))
  /\ flushes' = [flushes EXCEPT ![KeyOf[p]] = 0]
  /\ UNCHANGED <<store, torn, day, op, stage, open, cache, history, snap, cycle,
                 todo, subject, ops, crashes, cleared>>

\* Mutation: only today's file is archived.
ListToday(p) ==
  /\ pc[p] = "list"
  /\ todo' = [todo EXCEPT ![p] = {f \in Listed(KeyOf[p]) : f = Today(p)}]
  /\ Goto(p, "archive")
  /\ UNCHANGED <<disk, op, stage, then, open, cache, history, line, snap, cycle,
                 subject, ops, crashes, said, observed>>

\* archive_transcript: list the files, then rename them one by one.
ListFiles(p) ==
  /\ pc[p] = "list"
  /\ todo' = [todo EXCEPT ![p] = Listed(KeyOf[p])]
  /\ Goto(p, "archive")
  /\ UNCHANGED <<disk, op, stage, then, open, cache, history, line, snap, cycle,
                 subject, ops, crashes, said, observed>>

RemoveFile(f) ==
  /\ files' = [files EXCEPT ![f] = <<>>]
  /\ ragged' = ragged \ {f}

\* A file somebody else has archived or removed meanwhile ends the clear with
\* an error.
Archive(p) ==
  /\ pc[p] = "archive"
  /\ \/ todo[p] = {} /\ Goto(p, "counts") /\ UNCHANGED <<files, ragged, todo>>
     \/ \E f \in First(KeyOf[p], todo[p]) :
          IF files[f] = <<>>
          THEN Goto(p, "idle") /\ UNCHANGED <<files, ragged, todo>>
          ELSE /\ RemoveFile(f)
               /\ todo' = [todo EXCEPT ![p] = @ \ {f}]
               /\ UNCHANGED pc
  /\ UNCHANGED <<store, torn, day, op, stage, then, open, cache, history, line,
                 snap, cycle, subject, ops, crashes, said, observed>>

\* reset_compaction_state.
ResetEntry(e) == [e EXCEPT !.count = 0, !.flushed = 0]

ResetCounts(p) ==
  /\ pc[p] = "counts"
  /\ IF Loadable
     THEN Save(p, [k \in DOMAIN store |->
                     IF k = KeyOf[p] THEN ResetEntry(store[k]) ELSE store[k]], "reset")
     ELSE Goto(p, "reset") /\ UNCHANGED <<snap, then>>
  /\ flushes' = [flushes EXCEPT ![KeyOf[p]] = 0]
  /\ UNCHANGED <<disk, op, stage, open, cache, history, line, cycle, todo, subject,
                 ops, crashes, said, cleared>>

ResetSession(p) ==
  /\ pc[p] = "reset"
  /\ open' = [open EXCEPT ![p] = FALSE]
  /\ cache' = [cache EXCEPT ![p] = EmptyCache]
  /\ cleared' = [cleared EXCEPT ![KeyOf[p]] = IF op[p] = "clear_full" THEN said ELSE @]
  /\ Goto(p, "idle")
  /\ UNCHANGED <<disk, op, stage, then, history, line, snap, cycle, todo, subject,
                 ops, crashes, said, flushes>>

-----------------------------------------------------------------------------
(* The desktop's session commands (sessions.rs). *)

\* What does not parse counts as empty.
DesktopStore == IF torn THEN << >> ELSE store
Incomplete == [count |-> 0, flushed |-> 0, complete |-> FALSE]

DesktopStarts(o, k) ==
  /\ pc[Desktop] = "idle" /\ ops < MaxOps /\ o \in DesktopOps
  /\ ops' = ops + 1
  /\ op' = [op EXCEPT ![Desktop] = o]
  /\ subject' = k
  /\ UNCHANGED <<disk, stage, open, cache, history, line, cycle, todo, crashes,
                 said, observed>>

\* A created key is the current millisecond: nobody has used it.
CreateSession(k) ==
  /\ \A f \in Files : f[1] = k => files[f] = <<>>
  /\ k \notin {Default} \cup DOMAIN store
  /\ \A p \in Procs : KeyOf[p] = k => pc[p] = "idle" /\ ~open[p]
  /\ DesktopStarts("create", k)
  /\ Save(Desktop, With(DesktopStore, k, NewEntry), "idle")

\* Only the default session may be renamed without an entry.
RenameSession(k) ==
  /\ DesktopStarts("rename", k)
  /\ IF k \in DOMAIN DesktopStore
     THEN Save(Desktop, DesktopStore, "idle")
     ELSE IF k = Default
     THEN Save(Desktop, With(DesktopStore, k, Incomplete), "idle")
     ELSE UNCHANGED <<pc, snap, then>>

DeleteSession(k) ==
  /\ k # Default
  /\ DesktopStarts("delete", k)
  /\ Save(Desktop, Without(DesktopStore, k), "unlink")

\* Mutation: the dash is forgotten, as list_transcript_files does.
TranscriptsNamed(k) == Listed(k)

\* list_transcript_paths takes every file whose name starts with "key-", also
\* those of another session that is called "key-2".
TranscriptsOf(k) == {f \in Files : <<k, f[1]>> \in DashPrefix /\ files[f] # <<>>}

UnlinkTranscripts ==
  /\ pc[Desktop] = "unlink"
  /\ LET found == TranscriptsOf(subject)
     IN IF found = {}
        THEN Goto(Desktop, "idle") /\ UNCHANGED <<files, ragged>>
        ELSE /\ \E f \in First(subject, found) : RemoveFile(f)
             /\ UNCHANGED pc
  /\ UNCHANGED <<store, torn, day, op, stage, then, open, cache, history, line,
                 snap, cycle, todo, subject, ops, crashes, said, observed>>

-----------------------------------------------------------------------------
(* Time and crashes. *)

NextDay ==
  /\ day < MaxDay
  /\ day' = day + 1
  /\ UNCHANGED <<files, ragged, store, torn, local, ops, crashes, said, observed>>

\* The actor exits or is killed, and starts again: what it had written stays.
Crash(a) ==
  /\ pc[a] # "idle" \/ (a \in Procs /\ open[a])
  /\ crashes < MaxCrashes
  /\ crashes' = crashes + 1
  /\ Goto(a, "idle")
  /\ open' = [p \in Procs |-> open[p] /\ p # a]
  /\ cache' = [p \in Procs |-> IF p = a THEN EmptyCache ELSE cache[p]]
  /\ UNCHANGED <<disk, op, stage, then, history, line, snap, cycle, todo, subject,
                 ops, said, observed>>

SessionInit ==
  /\ files = [f \in Files |-> <<>>] /\ ragged = {}
  /\ store = << >> /\ torn = FALSE /\ day = 1
  /\ pc = [a \in Actors |-> "idle"] /\ op = [a \in Actors |-> "turn"]
  /\ stage = [p \in Procs |-> "early"] /\ then = [a \in Actors |-> "idle"]
  /\ open = [p \in Procs |-> FALSE] /\ cache = [p \in Procs |-> EmptyCache]
  /\ history = [p \in Procs |-> <<>>]
  /\ line = [p \in Procs |-> [file |-> <<Default, 1>>, id |-> 0]]
  /\ snap = [a \in Actors |-> << >>] /\ cycle = [p \in Procs |-> 0]
  /\ todo = [p \in Procs |-> {}] /\ subject = Default
  /\ ops = 0 /\ crashes = 0 /\ said = 1
  /\ flushes = [k \in Keys |-> 0] /\ cleared = [k \in Keys |-> 0]

Turn(p) ==
  \/ EnsureSession(p) \/ EnsureHeader(p) \/ ReadHistory(p)
  \/ EarlyFlush(p) \/ Check(p) \/ (\E ok \in BOOLEAN : FlushTurn(p, ok))
  \/ MarkFlushed(p) \/ KeepAll(p) \/ Summarise(p) \/ CountCompaction(p)
  \/ (\E remembers, over \in BOOLEAN : Budget(p, remembers, over))
  \/ AppendUser(p) \/ AgentLoopFails(p) \/ AppendAssistant(p)

Clear(p) ==
  RememberNothing(p) \/ Remember(p) \/ ListFiles(p) \/ Archive(p)
  \/ ResetCounts(p) \/ ResetSession(p)

DesktopStep ==
  (\E k \in Keys : CreateSession(k) \/ RenameSession(k) \/ DeleteSession(k))
  \/ UnlinkTranscripts

\* Everybody waits for the user.
Rest == (\A a \in Actors : pc[a] = "idle") /\ UNCHANGED session

SessionNext ==
  \/ \E p \in Procs : (\E o \in SessionOps : Start(p, o)) \/ Turn(p) \/ Clear(p)
                      \/ Newline(p)
  \/ \E a \in Actors : Truncate(a) \/ Write(a) \/ Crash(a)
  \/ DesktopStep \/ NextDay \/ Rest

SessionSpec == SessionInit /\ [][SessionNext]_session

-----------------------------------------------------------------------------
(* Properties. *)

Points == {"idle", "load", "truncate", "write", "header", "read", "early", "check",
           "flush", "mark", "summarise", "newline", "count", "budget", "user",
           "loop", "remember", "list", "archive", "counts", "reset", "unlink"}

IsStore(s) == DOMAIN s \subseteq Keys /\ s \in [DOMAIN s -> Entry]
Places == Files \X (1..said)
Rows(h) == h \in [DOMAIN h -> Row]
Cached(c) == /\ c = [offset |-> c.offset, rows |-> c.rows]
             /\ c.offset \in 0..(said - 1) /\ Rows(c.rows) /\ DOMAIN c.rows \subseteq 1..c.offset

\* Every variable has its type; ids are of rows written, only an existing file
\* can lack a newline, and no more rows are cached than were read.
SessionTypeOK ==
  /\ files \in [Files -> Seq(Row)] /\ ragged \subseteq {f \in Files : files[f] # <<>>}
  /\ \A f \in Files : /\ Len(files[f]) < said
                       /\ \A i \in DOMAIN files[f] : files[f][i].id < said
  /\ IsStore(store) /\ torn \in BOOLEAN /\ day \in 1..MaxDay
  /\ pc \in [Actors -> Points] /\ then \in [Actors -> Points]
  /\ op \in [Actors -> {"turn", "compact", "clear", "clear_full", "create",
                        "rename", "delete"}]
  /\ stage \in [Procs -> {"early", "compact", "budget"}]
  /\ open \in [Procs -> BOOLEAN]
  /\ history = [p \in Procs |-> history[p]] /\ cache = [p \in Procs |-> cache[p]]
  /\ \A p \in Procs :
       /\ Rows(history[p]) /\ DOMAIN history[p] \subseteq Places
       /\ DOMAIN cache[p] \subseteq Files
       /\ cache[p] = [f \in DOMAIN cache[p] |-> cache[p][f]]
       /\ \A f \in DOMAIN cache[p] : Cached(cache[p][f])
  /\ line \in [Procs -> [file : Files, id : Nat]] /\ cycle \in [Procs -> Nat]
  /\ snap = [a \in Actors |-> snap[a]] /\ \A a \in Actors : IsStore(snap[a])
  /\ todo \in [Procs -> SUBSET Files] /\ subject \in Keys
  /\ ops \in 0..MaxOps /\ crashes \in 0..MaxCrashes /\ said \in Nat \ {0}
  /\ flushes \in [Keys -> 0..2]
  /\ cleared \in [Keys -> Nat]

\* The incremental cache (offsets, pruning and window across daily files) gives
\* an operation that succeeds in reading exactly what a process that starts now
\* would read, as long as every line parses.  Where a crash or a second writer has
\* left two rows on one line, a process that starts fails (read_entries), while
\* one that had read the first of them reads on: all that stands in the files.
ReadAnew(k) == HistoryFrom(k, [f \in Listed(k) |-> CatchUp(Uncached, files[f])])
HistoryIsReplay ==
  [][\A p \in Procs : pc[p] = "read" /\ pc'[p] \in {"early", "summarise", "remember"}
       => LET k == KeyOf[p]
          IN history'[p] = IF Broken(k, EmptyCache) = {} THEN ReadAnew(k)
                           ELSE Standing(k)]_session

\* What the agent loop is given: at most a window of messages, and no more than
\* a summary and the memory context with them, however often the turn compacted
\* (SKILLLITE_HISTORY_WINDOW_MESSAGES); and after a full clear has returned, no
\* message from before it, since every day's file is archived and nothing stays
\* cached.
HistoryIsFit ==
  \A p \in Procs : pc[p] = "loop" =>
    LET h == history[p]
        messages == {x \in DOMAIN h : IsMessage(h[x])}
    IN /\ Window > 0 => Cardinality(messages) <= Window /\ Size(h) <= Window + 2
       /\ \A x \in messages : h[x].id >= cleared[KeyOf[p]]

\* Compactions and their memory flushes are counted right in a session of one
\* process, unless a crash falls between an act and its count: at most one flush
\* succeeds between two summaries, though both the early check and
\* compact_history run it ("Runs once per compaction cycle"), and whenever its
\* process is idle compaction_count is the number of compactions in the
\* session's transcript.
Compactions(k) ==
  Cardinality({x \in Places : /\ x[1][1] = k /\ x[2] \in DOMAIN files[x[1]]
                              /\ files[x[1]][x[2]].kind = "compaction"})
HoldsAlone(p) == \A q \in Procs \ {p} : KeyOf[q] # KeyOf[p]
CompactionsCounted ==
  \A p \in Procs : crashes = 0 /\ HoldsAlone(p) =>
    /\ flushes[KeyOf[p]] <= 1
    /\ pc[p] = "idle" /\ KeyOf[p] \in DOMAIN store
         => store[KeyOf[p]].count = Compactions(KeyOf[p])

\* A transcript disappears only in a clear of a process whose key its name begins
\* with (list_transcript_files), or while the desktop deletes a session whose key
\* and a dash it begins with (list_transcript_paths): its own session, or one
\* that its own session's name extends.  A deletion of "work" takes "work-2"
\* with it and leaves "worktree" alone; it takes nothing of any other session.
OwnTranscriptsCleared ==
  [][\A f \in Files : Len(files'[f]) < Len(files[f]) =>
       \/ \E p \in Procs : pc[p] = "archive" /\ <<KeyOf[p], f[1]>> \in NamePrefix
       \/ pc[Desktop] = "unlink" /\ <<subject, f[1]>> \in DashPrefix]_session
=============================================================================
