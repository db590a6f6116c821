----------------------------- MODULE CoopTasks -----------------------------
(***************************************************************************)
(* What the loop of one thread promises its tasks, without lists, clocks   *)
(* or descriptors.  A task is absent, ready, running or blocked.  One task *)
(* runs at a time and keeps the thread until it gives it up; only a ready  *)
(* task is picked; a ready task stays ready until it is picked.  Cancelling*)
(* a blocked task makes it ready, and a cancelled task never blocks again. *)
(*                                                                         *)
(* Module Scheduler implements this specification.                         *)
(***************************************************************************)
CONSTANT Task

VARIABLES
  st,     \* the state of every task
  doomed  \* the tasks that have been cancelled and not finished yet

State == {"absent", "ready", "running", "blocked"}

Init == st = [t \in Task |-> "absent"] /\ doomed = {}

\* t becomes s and the other tasks keep their state.
Becomes(t, s) == st' = [st EXCEPT ![t] = s]

Spawn(t) ==
  /\ st[t] = "absent"
  /\ \E s \in {"ready", "blocked"} : Becomes(t, s)
  /\ UNCHANGED doomed

Pick(t) ==
  /\ st[t] = "ready"
  /\ \A u \in Task : st[u] # "running"
  /\ Becomes(t, "running")
  /\ UNCHANGED doomed

GiveUp(t) ==
  /\ st[t] = "running"
  /\ \/ Becomes(t, "ready")
     \/ t \notin doomed /\ Becomes(t, "blocked")
  /\ UNCHANGED doomed

Finish(t) ==
  /\ st[t] = "running"
  /\ Becomes(t, "absent")
  /\ doomed' = doomed \ {t}

Wake(t) ==
  /\ st[t] = "blocked"
  /\ Becomes(t, "ready")
  /\ UNCHANGED doomed

Doom(t) ==
  /\ st[t] # "absent"
  /\ doomed' = doomed \cup {t}
  /\ Becomes(t, IF st[t] = "blocked" THEN "ready" ELSE st[t])

Next == \E t \in Task :
  Spawn(t) \/ Pick(t) \/ GiveUp(t) \/ Finish(t) \/ Wake(t) \/ Doom(t)

Spec == Init /\ [][Next]_<<st, doomed>>
=============================================================================
