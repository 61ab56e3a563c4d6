------------------------------ MODULE MCRhythm ------------------------------
(* Two schedules over days of two units: a one-shot job, a job with two
   daily times and an interval job under a gap, and an edited schedule where the
   one-shot job comes back later; and that schedule in a version that a tick
   refuses.                                                                    *)
EXTENDS Rhythm

Job(id, kind, times, every) == [id |-> id, kind |-> kind, times |-> times, every |-> every]

Report == Job("report", "once", {3}, 0)
Mail == Job("mail", "daily", {0, 1}, 0)
Watch == Job("watch", "interval", {}, 2)

Daily == [version |-> 1, on |-> TRUE, perDay |-> 2, gap |-> 2, jobs |-> <<Mail, Watch>>]
Once == [version |-> 1, on |-> TRUE, perDay |-> 1, gap |-> 2, jobs |-> <<Watch, Report>>]
Newer == [Once EXCEPT !.version = 2]
ThreePlans == {Daily, Once, Newer}
Little == [n \in {"report", "mail", "watch"} |-> 1]
=============================================================================
