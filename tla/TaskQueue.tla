----------------------------- MODULE TaskQueue ------------------------------
(***************************************************************************)
(* A taskqueue (src/src/task/taskqueue.cpp): a list of workers, a semaphore*)
(* that counts them, and an inner task that fetches and runs them one by   *)
(* one.  Its users, and the workers while they run in the inner task, also *)
(* use semaphores and signals of their own (module Sync).                  *)
(***************************************************************************)
EXTENDS Sync

CONSTANTS
  Inner,  \* the id of taskqueue::inner_t_
  Queue,  \* taskqueue::sem_
  Job     \* the workers; each is added to the queue once

ASSUME QueueAssumption == Inner \in Task /\ Queue \in Sem /\ None \notin Job

VARIABLES
  pending,  \* pending_task_list_
  added,    \* history: the workers that have been added
  caller,   \* the this_task a worker of sync has captured, else None
  job,      \* the worker the inner task runs
  done,     \* history: the workers that have returned
  mine      \* the worker a task waits for in sync

queueVars == <<pending, added, caller, job, done, mine>>
vars == <<syncVars, queueVars>>

Users == Task \ {Inner}

Init ==
  /\ SyncInit(Inner)
  /\ count[Queue] = 0
  /\ pending = <<>> /\ added = {} /\ job = None /\ done = {}
  /\ caller = [j \in Job |-> None]
  /\ mine = [t \in Task |-> None]

----------------------------------------------------------------------------
(* The users.                                                              *)

\* The inner task runs user code only within a worker.
MayCall(t) == InUser(t) /\ (t = Inner => job # None)

Add(j, t) ==
  /\ j \notin added
  /\ added' = added \cup {j}
  /\ caller' = [caller EXCEPT ![j] = t]
  /\ GiveTo(Queue)
  /\ UNCHANGED <<doomed, exists, got, used, job, done>>

\* taskqueue::append and insert, and sync outside of a task
Submit(j) ==
  /\ Add(j, None)
  /\ \/ pending' = Append(pending, j)
     \/ pending' = <<j>> \o pending
  /\ st' = Woken(First(Queue))
  /\ signal' = Told(First(Queue), "received")
  /\ UNCHANGED <<at, on, mine>>

\* taskqueue::sync; a cancelled task is not held.
SyncJob(t, j) ==
  /\ MayCall(t)
  /\ Add(j, t)
  /\ pending' = Append(pending, j)
  /\ IF t \in doomed
       THEN /\ st' = Woken(First(Queue))
            /\ signal' = [Told(First(Queue), "received") EXCEPT ![t] = "broken"]
            /\ UNCHANGED <<at, on, mine>>
       ELSE /\ st' = [Woken(First(Queue)) EXCEPT ![t] = "blocked"]
            /\ signal' = [Told(First(Queue), "received") EXCEPT ![t] = "nothing"]
            /\ at' = [at EXCEPT ![t] = "hold"]
            /\ mine' = [mine EXCEPT ![t] = j]
            /\ UNCHANGED on

\* A task other than the inner one at its fetch runs again.
Return(t) ==
  /\ t = Inner => on[t] # Queue
  /\ Resume(t)
  /\ mine' = [mine EXCEPT ![t] = None]
  /\ UNCHANGED <<pending, added, caller, job, done>>

\* ~taskqueue: the inner task is cancelled, the workers are dropped, and the
\* semaphore wakes the inner task if it is in its list.
DestroyQueue ==
  /\ Queue \in exists
  /\ Abandon \/ st[Inner] = "absent"
  /\ exists' = exists \ {Queue}
  /\ doomed' = IF st[Inner] = "absent" THEN doomed ELSE doomed \cup {Inner}
  /\ st' = Woken({Inner})
  /\ signal' = IF Contains(waiting[Queue], Inner) THEN Told({Inner}, "nothing")
               ELSE IF st[Inner] = "blocked" /\ at[Inner] = "hold" /\ Inner \notin doomed
               THEN Told({Inner}, "broken") ELSE signal
  /\ waiting' = [waiting EXCEPT ![Queue] = <<>>]
  /\ pending' = <<>>
  /\ UNCHANGED <<at, on, count, given, got, used, added, caller, job, done, mine>>

----------------------------------------------------------------------------
(* The inner task.                                                         *)

\* The condition of its loop is about to be evaluated.
AtHead == InUser(Inner) /\ job = None

\* Mutant: the worker stays in the list.
MutStart ==
  /\ pending # <<>> /\ job' = Head(pending)
  /\ UNCHANGED <<pending, added, caller, done, mine>>

\* The first worker leaves the list and runs.
Start ==
  /\ pending # <<>>
  /\ job' = Head(pending)
  /\ pending' = Tail(pending)
  /\ UNCHANGED <<added, caller, done, mine>>

\* sem_.fetch(), with a token or not.
Fetch ==
  /\ AtHead /\ Inner \notin doomed
  /\ Queue \in exists
  /\ \/ Take(Inner, Queue) /\ Start
     \/ Enqueue(Inner, Queue, "hold") /\ UNCHANGED queueVars

\* fetch has returned true.
FetchedOne == on[Inner] = Queue /\ signal[Inner] = "received" /\ Resume(Inner) /\ Start

\* is_cancelled, or fetch has returned false: the inner task ends.
InnerEnds ==
  /\ \/ AtHead /\ Inner \in doomed /\ UNCHANGED waiting
     \/ /\ st[Inner] = "ready" /\ NobodyRuns
        /\ on[Inner] = Queue /\ signal[Inner] # "received"
        /\ waiting' = Leave(Inner)
  /\ st' = [st EXCEPT ![Inner] = "absent"]
  /\ doomed' = doomed \ {Inner}
  /\ at' = [at EXCEPT ![Inner] = "none"]
  /\ on' = [on EXCEPT ![Inner] = None]
  /\ UNCHANGED <<signal, exists, count, given, got, used, queueVars>>

\* Mutant: any task in sync is woken.
MutCallerOf(j) == {t \in Users : mine[t] # None}

\* The task whose sync the worker j belongs to, if it is alive: an id, which
\* may be that of another task by now.
CallerOf(j) == {t \in Users : t = caller[j] /\ st[t] # "absent"}

\* The worker returns; that of sync wakes the task that waits for it.
EndJob ==
  /\ InUser(Inner) /\ job # None
  /\ done' = done \cup {job}
  /\ job' = None
  /\ st' = Woken(CallerOf(job))
  /\ signal' = Told(CallerOf(job), "received")
  /\ UNCHANGED <<doomed, at, on, objVars, given, got, used, pending, added, caller, mine>>

----------------------------------------------------------------------------
Next ==
  \/ \E t \in Users : (Create(t) \/ Finish(t)) /\ UNCHANGED queueVars
  \/ \E t \in Task : (Timeout(t) \/ Cancel(t)) /\ UNCHANGED queueVars
  \/ \E t \in Task : MayCall(t) /\ Calls(t, Obj \ {Queue}) /\ UNCHANGED queueVars
  \/ \E t \in Task : Return(t) \/ \E j \in Job : SyncJob(t, j)
  \/ \E o \in Obj \ {Queue} : Used(o) /\ UNCHANGED queueVars
  \/ \E j \in Job : Submit(j)
  \/ DestroyQueue
  \/ Fetch \/ FetchedOne \/ InnerEnds \/ EndJob

Spec == Init /\ [][Next]_vars

----------------------------------------------------------------------------
TypeOK ==
  /\ SyncTypeOK
  /\ pending \in Seq(Job)
  /\ added \subseteq Job /\ done \subseteq Job
  /\ caller \in [Job -> Task \cup {None}]
  /\ job \in Job \cup {None}
  /\ mine \in [Task -> Job \cup {None}]

\* The semaphore counts the list: there is a worker for every token, counted or
\* on its way to the inner task, which takes the front of the list untested.
PendingCounted ==
  Queue \in exists => /\ Len(pending) = count[Queue] + Cardinality(Promised(Queue))
                      /\ Promised(Queue) \subseteq {Inner}

\* "Sync the invocation, wait until the worker has been done" (taskqueue.cpp):
\* a task that has not been cancelled leaves sync only after that.
SyncWaits ==
  [][\A t \in Task : (mine[t] # None /\ mine'[t] = None /\ t \notin doomed)
                        => mine[t] \in done]_vars
=============================================================================
