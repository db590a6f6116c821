-------------------------------- MODULE Sync --------------------------------
(***************************************************************************)
(* Semaphores and signals (src/src/task/semaphore.cpp, signal.cpp), used   *)
(* by the tasks of one loop.                                               *)
(*                                                                         *)
(* The loop is the one of module CoopTasks, which Scheduler implements: a  *)
(* task is absent, ready, running or blocked, and keeps the thread until   *)
(* it gives it up.  A call that releases waiters may also come from a task *)
(* that is not one of these, whenever none of them runs.                   *)
(***************************************************************************)
EXTENDS Naturals, Sequences, SequencesExt, FiniteSets

CONSTANTS
  Task,      \* task ids
  None,      \* no object, no job
  Sem, Sig,  \* the semaphores and the signals
  MaxGive,   \* bound: how many tokens the semaphores are ever given, together
  Reuse,     \* whether the id of a finished task is used again
  Abandon    \* whether an object may be destroyed with tasks waiting in it

Obj == Sem \cup Sig

ASSUME ObjAssumption  == Sem \cap Sig = {} /\ None \notin Obj \cup Task
ASSUME SyncAssumption == MaxGive \in Nat /\ Reuse \in BOOLEAN /\ Abandon \in BOOLEAN

VARIABLES
  st,       \* where each task is in the loop
  doomed,   \* the tasks that have been cancelled
  signal,   \* the waiting signal of each task
  at,       \* "hold" in holding, "until" in holding_until, else "none"
  on,       \* the object whose call the task is suspended in
  exists,   \* the objects that have not been destroyed
  waiting,  \* waiting_task_ of every object
  count,    \* semaphore::count_
  given,    \* history: the tokens a semaphore has had
  got,      \* history: the fetches that have returned true
  used      \* history: the ids tasks have had

taskVars == <<st, doomed, signal, at, on>>
objVars  == <<exists, waiting, count>>
syncVars == <<taskVars, objVars, given, got, used>>

\* i is a task that has just been created.
SyncInit(i) ==
  /\ st = [t \in Task |-> IF t = i THEN "ready" ELSE "absent"] /\ doomed = {}
  /\ signal = [t \in Task |-> "nothing"]
  /\ at = [t \in Task |-> "none"] /\ on = [t \in Task |-> None]
  /\ exists = Obj
  /\ waiting = [o \in Obj |-> <<>>]
  /\ count \in [Sem -> 0 .. 1]
  /\ given = count
  /\ got = [o \in Sem |-> 0]
  /\ used = {i}

----------------------------------------------------------------------------
(* The loop.                                                               *)

Suspended(t) == st[t] \in {"ready", "blocked"}
\* t has the processor and is not inside a call.
InUser(t) == st[t] = "running"
NobodyRuns == \A t \in Task : st[t] # "running"

\* task::wakeup for each task of W: those that are blocked become ready.
Woken(W) == [t \in Task |-> IF t \in W /\ st[t] = "blocked" THEN "ready" ELSE st[t]]
Told(W, s) == [t \in Task |-> IF t \in W THEN s ELSE signal[t]]

\* loop::run
Create(t) ==
  /\ st[t] = "absent"
  /\ Reuse \/ t \notin used
  /\ used' = used \cup {t}
  /\ st' = [st EXCEPT ![t] = "ready"]
  /\ signal' = [signal EXCEPT ![t] = "nothing"]
  /\ UNCHANGED <<doomed, at, on, objVars, given, got>>

\* task::yield
Yield(t) ==
  /\ InUser(t)
  /\ st' = [st EXCEPT ![t] = "ready"]
  /\ UNCHANGED <<doomed, signal, at, on, objVars, given, got, used>>

\* The worker returns.
Finish(t) ==
  /\ InUser(t)
  /\ st' = [st EXCEPT ![t] = "absent"]
  /\ doomed' = doomed \ {t}
  /\ UNCHANGED <<signal, at, on, objVars, given, got, used>>

\* The time of a holding_until is over.
Timeout(t) ==
  /\ st[t] = "blocked" /\ at[t] = "until"
  /\ st' = [st EXCEPT ![t] = "ready"]
  /\ UNCHANGED <<doomed, signal, at, on, objVars, given, got, used>>

\* task::cancel; only a task that is in no list gets the signal.
Cancel(t) ==
  /\ st[t] # "absent" /\ t \notin doomed
  /\ doomed' = doomed \cup {t}
  /\ st' = Woken({t})
  /\ signal' = IF st[t] = "blocked" /\ at[t] = "hold"
                 THEN [signal EXCEPT ![t] = "broken"] ELSE signal
  /\ UNCHANGED <<at, on, objVars, given, got, used>>

----------------------------------------------------------------------------
(* The calls of a semaphore o or a signal o.                               *)

\* Mutant: the count is not looked at.
MutTake(t, o) ==
  /\ o \in Sem
  /\ count' = [count EXCEPT ![o] = @ - 1]
  /\ got' = [got EXCEPT ![o] = @ + 1]
  /\ UNCHANGED <<taskVars, exists, waiting, given, used>>

\* fetch and fetch_until with a count.
Take(t, o) ==
  /\ o \in Sem /\ count[o] > 0
  /\ count' = [count EXCEPT ![o] = @ - 1]
  /\ got' = [got EXCEPT ![o] = @ + 1]
  /\ UNCHANGED <<taskVars, exists, waiting, given, used>>

\* A cancelled task is pushed to the list, is not held, and leaves it again.
Refuse(t, o) ==
  /\ o \in Sem => count[o] = 0
  /\ t \in doomed
  /\ signal' = [signal EXCEPT ![t] = "broken"]
  /\ UNCHANGED <<st, doomed, at, on, objVars, given, got, used>>

Enqueue(t, o, c) ==
  /\ o \in Sem => count[o] = 0
  /\ t \notin doomed
  /\ waiting' = [waiting EXCEPT ![o] = Append(@, t)]
  /\ signal' = [signal EXCEPT ![t] = "nothing"]
  /\ st' = [st EXCEPT ![t] = "blocked"]
  /\ at' = [at EXCEPT ![t] = c]
  /\ on' = [on EXCEPT ![t] = o]
  /\ UNCHANGED <<doomed, exists, count, given, got, used>>

\* semaphore::fetch, fetch_until, signal::wait, wait_until
Wait(t, o, c) ==
  /\ InUser(t) /\ o \in exists
  /\ Take(t, o) \/ Refuse(t, o) \/ Enqueue(t, o, c)

MutLeave(t) == waiting \* Mutant: a task that is woken stays in the list.
\* The task erases itself from the list, if it is still there.
Leave(t) ==
  IF on[t] \in exists THEN [waiting EXCEPT ![on[t]] = RemoveFirst(@, t)] ELSE waiting

\* The task runs again, and its call returns whether it received a signal.
Resume(t) ==
  /\ st[t] = "ready" /\ NobodyRuns
  /\ st' = [st EXCEPT ![t] = "running"]
  /\ at' = [at EXCEPT ![t] = "none"]
  /\ on' = [on EXCEPT ![t] = None]
  /\ waiting' = Leave(t)
  /\ got' = IF on[t] \in Sem /\ signal[t] = "received"
              THEN [got EXCEPT ![on[t]] = @ + 1] ELSE got
  /\ UNCHANGED <<doomed, signal, exists, count, given, used>>

\* Where the ids of the list are alive; give and trigger drop the others.
Alive(o) == {i \in DOMAIN waiting[o] : st[waiting[o][i]] # "absent"}

\* The first of them is taken, with all before it.
First(o) == IF Alive(o) = {} THEN {} ELSE {waiting[o][Min(Alive(o))]}
Rest(o) ==
  IF Alive(o) = {} THEN <<>> ELSE SubSeq(waiting[o], Min(Alive(o)) + 1, Len(waiting[o]))
AllOf(o) == {waiting[o][i] : i \in Alive(o)}

MutHandOver(o) == count' = [count EXCEPT ![o] = @ + 1] \* Mutant: always counted.
\* A token that no one waits for is counted.
HandOver(o) == count' = [count EXCEPT ![o] = IF Alive(o) = {} THEN @ + 1 ELSE @]

\* The tokens of all semaphores, for the bound.
Tokens == UNION {{o} \X (1 .. given[o]) : o \in Sem}

\* semaphore::give, up to its effect on the tasks it wakes.
GiveTo(o) ==
  /\ o \in exists \cap Sem
  /\ Cardinality(Tokens) < MaxGive
  /\ given' = [given EXCEPT ![o] = @ + 1]
  /\ waiting' = [waiting EXCEPT ![o] = Rest(o)]
  /\ HandOver(o)

Give(o) ==
  /\ GiveTo(o)
  /\ st' = Woken(First(o))
  /\ signal' = Told(First(o), "received")
  /\ UNCHANGED <<doomed, at, on, exists, got, used>>

\* signal::trigger_one
TriggerOne(o) ==
  /\ o \in exists \cap Sig
  /\ waiting' = [waiting EXCEPT ![o] = Rest(o)]
  /\ st' = Woken(First(o))
  /\ signal' = Told(First(o), "received")
  /\ UNCHANGED <<doomed, at, on, exists, count, given, got, used>>

\* Every waiting task is woken, and the list cleared.
WakeAll(o, s) ==
  /\ waiting' = [waiting EXCEPT ![o] = <<>>]
  /\ st' = Woken(AllOf(o))
  /\ signal' = Told(AllOf(o), s)
  /\ UNCHANGED <<doomed, at, on, count, given, got, used>>

\* signal::trigger_all
TriggerAll(o) == o \in exists \cap Sig /\ WakeAll(o, "received") /\ UNCHANGED exists

\* semaphore::cancel, signal::cancel
CancelWaiters(o) == o \in exists /\ WakeAll(o, "nothing") /\ UNCHANGED exists

\* ~semaphore, ~signal
Destroy(o) ==
  /\ o \in exists
  /\ Abandon \/ \A t \in Task : on[t] # o
  /\ WakeAll(o, "nothing")
  /\ exists' = exists \ {o}

\* The calls a running task t makes on its own behalf.
Calls(t, O) == Yield(t) \/ \E o \in O, c \in {"hold", "until"} : Wait(t, o, c)

\* What anyone does to the object o.
Used(o) == Give(o) \/ TriggerOne(o) \/ TriggerAll(o) \/ CancelWaiters(o) \/ Destroy(o)

----------------------------------------------------------------------------
SyncTypeOK ==
  /\ st \in [Task -> {"absent", "ready", "running", "blocked"}]
  /\ doomed \subseteq Task /\ used \subseteq Task
  /\ signal \in [Task -> {"received", "nothing", "broken"}]
  /\ at \in [Task -> {"none", "hold", "until"}]
  /\ on \in [Task -> Obj \cup {None}]
  /\ exists \subseteq Obj
  /\ waiting \in [Obj -> Seq(Task)]
  /\ count \in [Sem -> Nat] /\ given \in [Sem -> Nat] /\ got \in [Sem -> Nat]

\* The tasks to which a token of o is on its way: give has taken them from the
\* list, and they have not run since.
Promised(o) ==
  {t \in Task : on[t] = o /\ signal[t] = "received" /\ ~Contains(waiting[o], t)}

\* No token is lost and none is made up, whatever a waiter meets on its way
\* (a timeout, a cancellation, semaphore::cancel): what a semaphore was given
\* is still counted, has been fetched, or is on its way to one task.
TokensConserved ==
  \A o \in Sem \cap exists :
    given[o] = count[o] + got[o] + Cardinality(Promised(o))

\* No task waits while there is a token.
NoIdleToken == \A o \in Sem : count[o] > 0 => waiting[o] = <<>>

\* A list names each of its waiters once and only tasks suspended in a call of
\* this object; and a task that is blocked in such a call is in the list, or no
\* give, trigger or cancel would ever find it.
ListsAreExact ==
  \A o \in exists :
    /\ IsInjective(waiting[o])
    /\ \A t \in ToSet(waiting[o]) : Suspended(t) /\ on[t] = o
    /\ \A t \in Task : st[t] = "blocked" /\ on[t] = o => Contains(waiting[o], t)

\* "Wakeup all pending task" (semaphore.h, signal.h, of the destructors): a task
\* goes on in a call of an object only while the object exists, since the first
\* thing it does there is to search its list.
CallsHaveTheirObject == \A t \in Task : on[t] \in exists \cup {None}
=============================================================================
