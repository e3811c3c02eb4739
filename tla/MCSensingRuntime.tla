-------------------------- MODULE MCSensingRuntime --------------------------
(***************************************************************************)
(* Small worlds for SensingRuntime: one referent, the owner's own frames,  *)
(* a re-announcement, a changed frame, and frames that claim too much.     *)
(***************************************************************************)
EXTENDS SensingRuntime

CONSTANTS e1, e2, e3, r1, s1, s2, s3, p1, p2, p3, p4, w1, w2, t1, t2

MCEvents   == {e1, e2, e3}
MCRefs     == {r1}
MCScopes   == {s1, s2, s3}
MCPrints   == {p1, p2, p3, p4}
TwoWorkers == {w1, w2}
TwoThreads == {t1, t2}

F(e, s, p, rev, seq, sound) ==
  [event |-> e, ref |-> r1, scope |-> s, print |-> p, rev |-> rev, seq |-> seq, sound |-> sound]

First   == F(e1, s1, p1, 1, 1, TRUE)    \* the owner's first revision
Second  == F(e2, s2, p2, 2, 2, TRUE)    \* and its second
Again   == F(e3, s1, p1, 1, 1, TRUE)    \* the first, announced anew by the sender
Changed == F(e1, s1, p3, 1, 1, FALSE)   \* the first event with other content
Wrong   == F(e3, s1, p3, 1, 1, FALSE)   \* that content under an event of its own
Ahead   == F(e3, s3, p4, 1, 2, TRUE)    \* the first revision under the second sequence

MCFrames == {First, Second, Again, Changed, Wrong, Ahead}
JustAgain == {Again}

MCWorlds ==
  {{First, Second}, {First, Again}, {First, Changed}, {First, Wrong}, {First, Ahead},
   {Second, Wrong, Ahead}}
=============================================================================
