------------------------------- MODULE Rhythm -------------------------------
(* Scheduled jobs of skilllite: the desktop heartbeat (the rhythm arm of Life
   Pulse) that starts `skilllite schedule tick` when a job is due, the tick
   itself, and the two files they share, schedule.json and schedule-state.json.
   Ticks come from the heartbeat, one at a time per desktop process, and from
   cron; one that the desktop left behind when it quit goes on without it.

   Time is an integer that starts at 1; a day is DayLength long.  A tick reads
   both files and the clock in one step; the state is written by truncating the
   file and writing it again.  The child's output goes to a pipe that nobody
   reads, so a turn whose output does not fit never ends.  Cwd says where the
   desktop runs: `schedule tick` works on its current directory.  A tick runs
   jobs only where SKILLLITE_SCHEDULE_ENABLED is set, which it is not by default,
   and an API key is there; the heartbeat starts it all the same.              *)
EXTENDS Integers, Sequences, FiniteSetsExt

CONSTANTS Pids,         \* processes a tick can run in
          Plans,        \* contents of schedule.json
          DayLength,
          Prints,       \* output of one turn, by job id
          PipeRoom,     \* what the pipe to the desktop takes
          Cwd,          \* the desktop's: "workspace" or "elsewhere"
          MaxClock,
          MaxIncidents, \* bound on edits, quits, crashes and runs of cron
          Absent

Jobs == UNION {{pl.jobs[n] : n \in DOMAIN pl.jobs} : pl \in Plans}
Names == {job.id : job \in Jobs}
Days == 0..(MaxClock \div DayLength)
States == [day : Days \cup {-1}, count : Nat, lastAny : Nat, last : [Names -> Nat]]
Ticks == [pc : {"start", "next", "turn", "save", "write", "exited"}, by : {"app", "cron"}, orphan : BOOLEAN,
          jobs : Seq(Jobs), due : SUBSET Nat, perDay : Nat, state : States \cup {Absent}, now : Nat, wrote : Nat]

ASSUME PlansAssumption ==
  /\ Jobs \subseteq [id : Names, kind : {"once", "daily", "interval"}, times : SUBSET Nat, every : Nat]
  /\ \A pl \in Plans : pl.version \in Nat /\ pl.on \in BOOLEAN /\ pl.perDay \in Nat /\ pl.gap \in Nat /\ pl.jobs \in Seq(Jobs)
  /\ Prints \in [Names -> Nat] /\ PipeRoom \in Nat
ASSUME TimeAssumption == {DayLength, MaxClock} \subseteq Nat \ {0}
ASSUME PlaceAssumption == Cwd \in {"workspace", "elsewhere"}
ASSUME IncidentsAssumption == MaxIncidents \in Nat
ASSUME AbsentAssumption == Absent \notin States \cup Ticks

VARIABLES time,
          plan,         \* schedule.json
          ready,        \* the workspace's .env enables the scheduler and holds an API key
          store,        \* schedule-state.json; Absent: absent or not JSON
          alive, enabled, opened, running,    \* LifePulseState
          tick,         \* the ticks in progress
          incidents,
          spoiled,      \* history: two ticks overlapped or a record was lost
          done          \* history, until then: turns that succeeded, at their tick's time

pulse == <<alive, enabled, opened, running>>
files == <<plan, ready, store>>
account == <<spoiled, done>>
rhythm == <<time, files, pulse, tick, incidents, account>>

Day(t) == t \div DayLength

RhythmInit ==
  /\ time = 1
  /\ plan \in Plans
  /\ ready \in BOOLEAN
  /\ store = Absent
  /\ alive = TRUE /\ enabled = TRUE /\ opened = FALSE /\ running = FALSE
  /\ tick = [p \in Pids |-> Absent]
  /\ incidents = 0
  /\ spoiled = FALSE /\ done = <<>>

-----------------------------------------------------------------------------
(* Which jobs are due. *)

JobDue(job, last, now) ==
  \/ job.kind = "once" /\ \E t \in job.times : now >= t /\ last < t
  \/ job.kind = "daily" /\ \E t \in job.times : LET slot == Day(now) * DayLength + t IN now >= slot /\ last < slot
  \/ job.kind = "interval" /\ (last = 0 \/ now - last >= job.every)

\* Mutation: the gap holds back jobs of the same name only.
GapPerJob(pl, s, now, job) == pl.gap > 0 /\ s.last[job.id] > 0 /\ now - s.last[job.id] < pl.gap

\* The global gap, which wall-clock jobs do not observe.
GapBlocks(pl, s, now, job) ==
  job.kind = "interval" /\ pl.gap > 0 /\ s.lastAny > 0 /\ now - s.lastAny < pl.gap

\* The positions of the due jobs.
Due(pl, s, now) ==
  {n \in DOMAIN pl.jobs :
     pl.on /\ JobDue(pl.jobs[n], s.last[pl.jobs[n].id], now) /\ ~GapBlocks(pl, s, now, pl.jobs[n])}

\* prepare_state_for_today.
Prepared(s) == IF s.day = Day(time) THEN s ELSE [s EXCEPT !.day = Day(time), !.count = 0]

\* load_state: what cannot be read is as good as new.
Loaded == IF store = Absent THEN [day |-> -1, count |-> 0, lastAny |-> 0, last |-> [n \in Names |-> 0]] ELSE store

\* Mutation: the day's budget is counted down.
CountsDown(s, job, now) == [s EXCEPT !.lastAny = now, !.count = @ - 1, !.last = [@ EXCEPT ![job.id] = now]]

Recorded(s, job, now) == [s EXCEPT !.lastAny = now, !.count = @ + 1, !.last = [@ EXCEPT ![job.id] = now]]

-----------------------------------------------------------------------------
(* The desktop. *)

\* A tick of the heartbeat while the desktop that started it is there.
Child(p) == tick[p] # Absent /\ tick[p].by = "app" /\ ~tick[p].orphan

Fresh(pc, by) == [pc |-> pc, by |-> by, orphan |-> FALSE, jobs |-> <<>>, due |-> {},
                   perDay |-> 0, state |-> Absent, now |-> 0, wrote |-> 0]
NewTick(p, by) == tick' = [tick EXCEPT ![p] = Fresh("start", by)]

\* Mutation: the heartbeat does not look whether a child runs.
HeartbeatUnguarded == \E p \in Pids :
  /\ alive /\ enabled /\ opened
  /\ Due(plan, Prepared(Loaded), time) # {}
  /\ tick[p] = Absent /\ NewTick(p, "app")
  /\ running' = TRUE
  /\ UNCHANGED <<time, files, alive, enabled, opened, incidents, account>>

\* One beat that finds something due; the others change nothing.
Heartbeat == \E p \in Pids :
  /\ alive /\ enabled /\ opened /\ ~running
  /\ Due(plan, Prepared(Loaded), time) # {}
  /\ tick[p] = Absent /\ NewTick(p, "app")
  /\ running' = TRUE
  /\ UNCHANGED <<time, files, alive, enabled, opened, incidents, account>>

\* Mutation: the flag stays up after a child.
ChildEndedUnseen(p) ==
  /\ tick[p] # Absent /\ tick[p].pc = "exited"
  /\ tick' = [tick EXCEPT ![p] = Absent]
  /\ UNCHANGED <<time, files, pulse, incidents, account>>

\* The thread that waits for the child.
ChildEnded(p) ==
  /\ tick[p] # Absent /\ tick[p].pc = "exited"
  /\ tick' = [tick EXCEPT ![p] = Absent]
  /\ running' = FALSE
  /\ UNCHANGED <<time, files, alive, enabled, opened, incidents, account>>

Incident == incidents < MaxIncidents /\ incidents' = incidents + 1

SetWorkspace == alive /\ ~opened /\ opened' = TRUE /\ UNCHANGED <<alive, enabled, running, files, incidents>>
Toggle == Incident /\ alive /\ enabled' = ~enabled /\ UNCHANGED <<alive, opened, running, files>>
SaveSchedule == Incident /\ plan' \in Plans \ {plan} /\ UNCHANGED <<ready, store, pulse>>
SaveSettings == Incident /\ ready' = ~ready /\ UNCHANGED <<plan, store, pulse>>

UserActs ==
  /\ SetWorkspace \/ Toggle \/ SaveSchedule \/ SaveSettings
  /\ UNCHANGED <<time, tick, account>>

\* Quit: the child loses its reader; a child that has ended is gone.
Quit ==
  /\ Incident /\ alive
  /\ alive' = FALSE /\ opened' = FALSE /\ running' = FALSE
  /\ tick' = [p \in Pids |-> IF tick[p] = Absent \/ tick[p].pc = "exited" THEN Absent
                              ELSE [tick[p] EXCEPT !.orphan = (@ \/ tick[p].by = "app")]]
  /\ UNCHANGED <<time, files, enabled, account>>

Launch ==
  /\ ~alive /\ alive' = TRUE /\ enabled' = TRUE
  /\ UNCHANGED <<opened, running, time, files, tick, incidents, account>>

-----------------------------------------------------------------------------
(* schedule tick. *)

Set(p, t) == tick' = [tick EXCEPT ![p] = t]

\* The process ends; the desktop has yet to see it.
Exits(p) == Set(p, IF Child(p) THEN Fresh("exited", "app") ELSE Absent)

AtPc(p, pc) == tick[p] # Absent /\ tick[p].pc = pc
Busy(p) == tick[p] # Absent /\ tick[p].pc \in {"next", "turn", "save", "write"}

\* Where the tick looks for schedule.json.
Finds(p) == tick[p].by = "cron" \/ Cwd = "workspace"

\* The history, up to the first thing that spoils it.
Note(bad, turns) ==
  /\ spoiled' = (spoiled \/ bad)
  /\ done' = IF spoiled' THEN <<>> ELSE turns

\* Read the files and the clock; the list of due jobs is made once.  A schedule
\* of another version, a scheduler that is not enabled and a missing API key end
\* the tick before its first turn.
Load(p) ==
  LET s == Prepared(Loaded)
      due == Due(plan, s, time) IN
  /\ AtPc(p, "start")
  /\ IF Finds(p) /\ plan.version = 1 /\ due # {} /\ ready
     THEN /\ Set(p, [tick[p] EXCEPT !.pc = "next", !.jobs = plan.jobs, !.due = due, !.perDay = plan.perDay,
                                       !.state = s, !.now = time])
          /\ Note(\E q \in Pids \ {p} : Busy(q), done)
     ELSE Exits(p) /\ UNCHANGED account
  /\ UNCHANGED <<time, files, pulse, incidents>>

\* The job whose turn it is: the first of those left.
Current(t) == t.jobs[Min(t.due)]
Rest(t) == t.due \ {Min(t.due)}

\* The head of the loop.  It prints, which ends a tick without a reader.
NextJob(p) ==
  /\ AtPc(p, "next")
  /\ IF tick[p].due = {} \/ tick[p].state.count >= tick[p].perDay \/ tick[p].orphan
     THEN Exits(p)
     ELSE Set(p, [tick[p] EXCEPT !.pc = "turn", !.wrote = @ + Prints[Current(tick[p]).id]])
  /\ UNCHANGED <<time, files, pulse, incidents, account>>

Stuck(p) == Child(p) /\ tick[p].wrote > PipeRoom

\* run_chat returned Ok.  Without a reader the process dies as it prints the
\* answer: what was done is not recorded.
TurnSucceeds(p) ==
  LET job == Current(tick[p]) IN
  /\ AtPc(p, "turn") /\ ~Stuck(p)
  /\ Note(tick[p].orphan, Append(done, [job |-> job, at |-> tick[p].now]))
  /\ IF tick[p].orphan
     THEN Exits(p)
     ELSE Set(p, [tick[p] EXCEPT !.pc = "save", !.due = Rest(tick[p]), !.state = Recorded(@, job, tick[p].now)])
  /\ UNCHANGED <<time, files, pulse, incidents>>

\* run_chat returned an error: the job stays due for a later tick.
TurnFails(p) ==
  /\ AtPc(p, "turn") /\ ~Stuck(p)
  /\ IF tick[p].orphan THEN Exits(p) ELSE Set(p, [tick[p] EXCEPT !.pc = "next", !.due = Rest(tick[p])])
  /\ UNCHANGED <<time, files, pulse, incidents, account>>

Truncate(p) ==
  /\ AtPc(p, "save")
  /\ store' = Absent
  /\ Set(p, [tick[p] EXCEPT !.pc = "write"])
  /\ UNCHANGED <<time, plan, ready, pulse, incidents, account>>

Write(p) ==
  /\ AtPc(p, "write")
  /\ store' = tick[p].state
  /\ Set(p, [tick[p] EXCEPT !.pc = "next"])
  /\ UNCHANGED <<time, plan, ready, pulse, incidents, account>>

\* A kill, a full disk, a panic.
Crash(p) ==
  /\ tick[p] # Absent /\ tick[p].pc # "exited"
  /\ Incident
  /\ Exits(p)
  /\ Note(tick[p].pc \in {"save", "write"}, done)
  /\ UNCHANGED <<time, files, pulse>>

Cron == \E p \in Pids :
  /\ Incident
  /\ tick[p] = Absent /\ NewTick(p, "cron")
  /\ UNCHANGED <<time, files, pulse, account>>

Pass ==
  /\ time < MaxClock /\ time' = time + 1
  /\ UNCHANGED <<files, pulse, tick, incidents, account>>

ChatTurn(p) == TurnSucceeds(p) \/ TurnFails(p)
Run(p) == Load(p) \/ NextJob(p) \/ ChatTurn(p) \/ Truncate(p) \/ Write(p) \/ ChildEnded(p)

RhythmNext == Heartbeat \/ UserActs \/ Quit \/ Launch \/ Cron \/ Pass \/ \E p \in Pids : Run(p) \/ Crash(p)

RhythmSpec == RhythmInit /\ [][RhythmNext]_rhythm

\* The heartbeat thread wakes up again and again, a process runs, a turn has a
\* time limit on every request.
FairSpec == RhythmSpec /\ WF_rhythm(Heartbeat) /\ \A p \in Pids : WF_rhythm(Run(p))

-----------------------------------------------------------------------------
(* Properties. *)

\* Types of the files, the heartbeat's state and the ticks.
RhythmTypeOK ==
  /\ time \in 1..MaxClock /\ plan \in Plans /\ ready \in BOOLEAN
  /\ store \in States \cup {Absent}
  /\ {alive, enabled, opened, running} \subseteq BOOLEAN
  /\ tick \in [Pids -> Ticks \cup {Absent}]
  /\ incidents \in 0..MaxIncidents
  /\ spoiled \in BOOLEAN /\ done \in Seq([job : Jobs, at : Nat])

\* The desktop has one tick at a time, and knows of it: the flag is up exactly
\* while its child lives or waits to be noticed.  Quitting and a child that
\* dies leave no flag behind.
OneChild ==
  /\ Cardinality({p \in Pids : Child(p)}) <= 1
  /\ running <=> \E p \in Pids : Child(p)

\* What a schedule promises of successes that came one after the other, unless
\* ticks overlapped or a success got lost.

\* Once and daily jobs run "at most once": two successes of such a job are
\* separated by one of its wall-clock times, also when it failed in between,
\* ran past its next time or past midnight, or was edited away and back.
BetweenIsSlot(first, next) ==
  \E t \in first.job.times :
    LET slot == IF first.job.kind = "once" THEN t ELSE Day(next.at) * DayLength + t
    IN first.at < slot /\ slot <= next.at

\* An interval job leaves its interval after itself, and the global gap after
\* every success of an earlier tick.
SmallestGap == Min({pl.gap : pl \in Plans})
Spaced(first, next) ==
  /\ first.job = next.job => next.at - first.at >= next.job.every
  /\ first.at # next.at => next.at - first.at >= SmallestGap

\* No day sees more successes than its limit, a success being counted on the day
\* its tick began.
WithinDayLimit ==
  \A d \in Days : \E pl \in Plans : Cardinality({i \in DOMAIN done : Day(done[i].at) = d}) <= pl.perDay

\* The times, intervals, gap and daily limit of the schedule are kept over any
\* number of ticks, failures, edits and midnights.
SchedulesKept ==
  ~spoiled =>
    /\ \A i, j \in DOMAIN done : i < j =>
         /\ done[i].job = done[j].job /\ done[i].job.kind # "interval" => BetweenIsSlot(done[i], done[j])
         /\ done[j].job.kind = "interval" => Spaced(done[i], done[j])
    /\ WithinDayLimit

\* A job that the desktop should run now: the scheduler is enabled and has its key.
Wanted(job) ==
  LET s == Prepared(Loaded) IN
  /\ alive /\ enabled /\ opened
  /\ ready /\ plan.version = 1
  /\ \E n \in Due(plan, s, time) : plan.jobs[n] = job
  /\ s.count < plan.perDay

Started(job) == \E p \in Pids : AtPc(p, "turn") /\ Current(tick[p]) = job

\* Documented: the heartbeat "checks `schedule.json` for due jobs and runs
\* `skilllite schedule tick` as a subprocess when any are due".  Where the
\* scheduler is enabled a due job gets its turn, or stops being due, whatever other
\* jobs fail before it and whatever a tick found disabled before.
DueJobsRun == \A job \in Jobs : Wanted(job) ~> (Started(job) \/ ~Wanted(job))
=============================================================================
