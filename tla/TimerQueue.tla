---------------------------- MODULE TimerQueue -----------------------------
(***************************************************************************)
(* What loopimpl expects of its tasklist: a set of entries, one per task,  *)
(* each with a fire time and perhaps a timeout handler, from which the one *)
(* with the nearest time is taken.  An error of a descriptor takes out the *)
(* entries of the tasks that wait for it and puts them back.  Module       *)
(* TaskList implements it as long as no two tasks share a fire time and no *)
(* error finds a task twice.                                               *)
(***************************************************************************)
EXTENDS Naturals

CONSTANTS Task, Time

VARIABLES
  q,        \* the entries: [tid, time, hook]
  recalled  \* the tasks an error has taken out and not put back yet

Entry == [tid : Task, time : Time, hook : BOOLEAN]

Init == q = {} /\ recalled = {}

\* A new entry disturbs none of the others.
Insert == \E e \in Entry :
  /\ recalled = {}
  /\ \A x \in q : x.tid # e.tid
  /\ q' = q \cup {e}
  /\ UNCHANGED recalled

\* An entry changes its time and keeps its handler, or loses it to an event.
Move == \E e \in q, n \in Time, h \in BOOLEAN :
  /\ recalled = {}
  /\ h => e.hook
  /\ q' = (q \ {e}) \cup {[e EXCEPT !.time = n, !.hook = h]}
  /\ UNCHANGED recalled

\* The nearest entry is taken.
Fetch == \E e \in q :
  /\ recalled = {}
  /\ \A x \in q : e.time <= x.time
  /\ q' = q \ {e}
  /\ UNCHANGED recalled

\* A task is taken out, wherever it was, and comes back without a handler.
Recall == \E t \in Task \ recalled :
  /\ q' = {x \in q : x.tid # t}
  /\ recalled' = recalled \cup {t}

Return == \E e \in Entry :
  /\ e.tid \in recalled /\ ~e.hook
  /\ \A x \in q : x.tid # e.tid
  /\ q' = q \cup {e}
  /\ recalled' = recalled \ {e.tid}

Next == Insert \/ Move \/ Fetch \/ Recall \/ Return

Spec == Init /\ [][Next]_<<q, recalled>>
=============================================================================
