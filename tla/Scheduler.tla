----------------------------- MODULE Scheduler -----------------------------
(***************************************************************************)
(* The cooperative loop of one thread: loopimpl, the basic_task objects it *)
(* runs and the tasklist they wait in (src/src/task/impl), driven through  *)
(* the facades task and loop (src/src/task/task.cpp, loop.cpp), on the     *)
(* Linux loopcore.                                                         *)
(*                                                                         *)
(* A step is what runs between two points where something else can happen: *)
(* one API call of a worker, one pass of loopimpl::main over a task, one   *)
(* event of epoll_wait, one advance of the clock.                          *)
(*                                                                         *)
(* Fire times are kept as the order they induce: <<t, u>> \in before says  *)
(* that t fires before u, t \in due that its next_fire_time is not after   *)
(* the clock.  Two things are left to module TaskList, whose map has keys  *)
(* that can be told apart from next_fire_time: what happens when two tasks *)
(* share a fire time, and when an error of a descriptor finds a task twice.*)
(* Here a task in the list has one key, no two tasks share a fire time,    *)
(* and FdError is the error that finds nobody twice.                       *)
(***************************************************************************)
EXTENDS Naturals

CONSTANTS
  Task,      \* task ids: the addresses of the stack buffers
  Fd,        \* file descriptors a worker may wait for
  None,      \* no task, no descriptor
  Ops,       \* the API calls the workers of this instance make
  MaxSpawn   \* bound: how many tasks are ever created

Event     == {"read", "write"}
AllOps    == Event \cup {"run_loop", "run_delay", "yield", "holding",
                         "holding_until", "wakeup", "cancel", "exit", "atexit"}
Signal    == {"received", "nothing", "broken"}
Status    == {"pending", "running", "paused", "stopped"}
\* The call a task is suspended in ("start": it has not entered its worker).
Call      == Event \cup {"start", "yield", "holding", "holding_until"}
Phase     == {"out", "inner", "atexit", "cancel", "wait", "event", "error"}

ASSUME NoneAssumption == None \notin Task /\ None \notin Fd
ASSUME OpsAssumption  == Ops \subseteq AllOps
ASSUME BoundAssumption == MaxSpawn \in Nat

VARIABLES
  cache,      \* get_task_cache(): the tasks that exist
  status,     \* task_context_t::status
  signal,     \* task_context_t::signal
  cancelled,  \* the tasks with task_context_t::cancelled set
  repeats,    \* the tasks with REPEAT_COUNT_INFINITIVE
  at,         \* the call whose code runs when the task is resumed
  on,         \* the descriptor of that call
  before,     \* order of next_fire_time, over every task that exists
  due,        \* the tasks with next_fire_time <= TASK_TIME_NOW()
  timed,      \* tasklist::ordered_time_map_, its keys
  hooked,     \* the keys whose value is a handler, not nullptr
  fds,        \* tasklist::fd_cache_map_
  doubles,    \* the entries it has more than once
  armed,      \* the events each descriptor has in the epoll set
  running,    \* basic_task::running_task()
  active,     \* loopimpl::running_
  loop,       \* where loopimpl::main is
  todo,       \* the id_list an event or error is being delivered to, with that event
  spawned     \* how many tasks have been created (bounded by MaxSpawn)

taskVars  == <<cache, status, signal, cancelled, repeats, at, on>>
timeVars  == <<before, due>>
fdVars    == <<fds, doubles>>
listVars  == <<timed, hooked, fdVars>>
loopVars  == <<armed, active, loop, todo>>
vars == <<taskVars, timeVars, listVars, loopVars, running, spawned>>

FdItem == [fd : Fd, ev : Event, tid : Task]
\* What a task of the id_list is told of: events of a descriptor.
News == [tid : Task, fd : Fd, evs : SUBSET Event]

TypeOK ==
  /\ cache \subseteq Task
  /\ status \in [Task -> Status]
  /\ signal \in [Task -> Signal]
  /\ cancelled \subseteq cache
  /\ repeats \subseteq cache
  /\ at \in [Task -> Call]
  /\ on \in [Task -> Fd \cup {None}]
  /\ before \subseteq cache \X cache
  /\ due \subseteq cache
  /\ timed \subseteq cache
  /\ hooked \subseteq timed
  /\ fds \subseteq FdItem /\ doubles \subseteq fds
  /\ armed \in [Fd -> SUBSET Event]
  /\ running \in cache \cup {None}
  /\ active \in BOOLEAN
  /\ loop \in Phase
  /\ todo \subseteq {n \in News : n.tid \in cache}
  /\ spawned \in 0 .. MaxSpawn

Init ==
  /\ cache = {} /\ cancelled = {} /\ repeats = {}
  /\ status = [t \in Task |-> "stopped"]
  /\ signal = [t \in Task |-> "nothing"]
  /\ at = [t \in Task |-> "start"]
  /\ on = [t \in Task |-> None]
  /\ before = {} /\ due = {}
  /\ timed = {} /\ hooked = {} /\ fds = {} /\ doubles = {}
  /\ armed = [f \in Fd |-> {}]
  /\ running = None
  /\ active = FALSE /\ loop = "out" /\ todo = {}
  /\ spawned = 0

----------------------------------------------------------------------------
(* Fire times.                                                             *)

\* Give t the fire time that comes after exactly those of the tasks in P.
Place(t, P) ==
  {p \in before : p[1] # t /\ p[2] # t}
    \cup (P \X {t}) \cup ({t} \X (cache \ (P \cup {t})))

\* The sets of other tasks that fire before some point in time.
Cuts(t) ==
  {P \in SUBSET (cache \ {t}) :
     \A p \in before : (p[1] # t /\ p[2] \in P) => p[1] \in P}

\* Mutant: a task that fires now goes before the ones that are due.
MutFireNow(t) == before' = Place(t, {}) /\ due' = due \cup {t}

\* next_fire_time = TASK_TIME_NOW(): after everything due, before the rest.
FireNow(t) ==
  /\ before' = Place(t, due \ {t})
  /\ due' = due \cup {t}

\* next_fire_time = TASK_TIME_NOW() + d, for some d > 0.
FireLater(t) ==
  /\ \E P \in Cuts(t) : due \ {t} \subseteq P /\ before' = Place(t, P)
  /\ due' = due \ {t}

\* next_fire_time += interval: later than it was, perhaps already in the past.
FireAgain(t) ==
  \E P \in Cuts(t), past \in BOOLEAN :
    /\ {u \in cache : <<u, t>> \in before} \subseteq P
    /\ past => P \subseteq due
    /\ ~past => due \ {t} \subseteq P
    /\ before' = Place(t, P)
    /\ due' = IF past THEN due \cup {t} ELSE due \ {t}

\* A task leaves with its fire time.
FireNever(t) ==
  /\ before' = {p \in before : p[1] # t /\ p[2] # t}
  /\ due' = due \ {t}

\* steady_clock passes the next fire time.
Tick ==
  /\ \E t \in cache \ due :
       /\ \A u \in cache \ (due \cup {t}) : <<t, u>> \in before
       /\ due' = due \cup {t}
  /\ UNCHANGED <<taskVars, before, listVars, loopVars, running, spawned>>

----------------------------------------------------------------------------
(* Calls a worker makes.  They are also made with no task running: by the  *)
(* thread itself before and after loop::main, and by an atexit handler.    *)

UserCode == running # None \/ loop \in {"out", "atexit"}

\* basic_task::create_task and loopimpl::add_task.
Create(t) ==
  /\ UserCode
  /\ t \notin cache
  /\ spawned < MaxSpawn
  /\ spawned' = spawned + 1
  /\ cache' = cache \cup {t}
  /\ status' = [status EXCEPT ![t] = "paused"]
  /\ signal' = [signal EXCEPT ![t] = "nothing"]
  /\ at' = [at EXCEPT ![t] = "start"]
  /\ timed' = timed \cup {t}
  /\ UNCHANGED <<cancelled, on, hooked, fdVars, loopVars, running>>

\* loop::run
Run(t) == Create(t) /\ FireNow(t) /\ UNCHANGED repeats

\* loop::run_loop
RunLoop(t) ==
  /\ "run_loop" \in Ops
  /\ Create(t) /\ FireLater(t)
  /\ repeats' = repeats \cup {t}

\* loop::run_delay
RunDelay(t) ==
  /\ "run_delay" \in Ops
  /\ Create(t) /\ FireLater(t)
  /\ UNCHANGED repeats

\* The running task t leaves the processor inside call c: swap_to_main.
Suspend(t, c, f) ==
  /\ status' = [status EXCEPT ![t] = "paused"]
  /\ at' = [at EXCEPT ![t] = c]
  /\ on' = [on EXCEPT ![t] = f]
  /\ running' = None
  /\ UNCHANGED <<cache, cancelled, repeats, active, loop, todo, spawned>>

\* loopimpl::yield_task
Yield(t) ==
  /\ "yield" \in Ops
  /\ running = t
  /\ Suspend(t, "yield", None)
  /\ FireNow(t)
  /\ timed' = timed \cup {t}
  /\ UNCHANGED <<signal, hooked, fdVars, armed>>

MutMayWait(t) == TRUE \* Mutant: a cancelled task waits like any other.
\* A cancelled task is not allowed to be held.
MayWait(t) == t \notin cancelled

\* The call of a cancelled task returns at once.
Refuse(t) ==
  /\ ~MayWait(t)
  /\ signal' = [signal EXCEPT ![t] = "broken"]
  /\ UNCHANGED <<cache, status, cancelled, repeats, at, on, timeVars, listVars,
                 loopVars, running, spawned>>

\* loopimpl::hold_task
HoldTask(t) ==
  /\ "holding" \in Ops
  /\ running = t
  /\ \/ Refuse(t)
     \/ /\ MayWait(t)
        /\ Suspend(t, "holding", None)
        /\ signal' = [signal EXCEPT ![t] = "nothing"]
        /\ UNCHANGED <<timeVars, listVars, armed>>

\* loopimpl::hold_task_for; task::sleep is a loop over it.
HoldTaskFor(t) ==
  /\ "holding_until" \in Ops
  /\ running = t
  /\ \/ Refuse(t)
     \/ /\ MayWait(t)
        /\ Suspend(t, "holding_until", None)
        /\ signal' = [signal EXCEPT ![t] = "nothing"]
        /\ FireLater(t)
        /\ timed' = timed \cup {t}
        /\ UNCHANGED <<hooked, fdVars, armed>>

\* core_fd_ # -1: open from loopcore::init to loopcore::stop.
CoreOpen == active /\ loop # "out"

\* loopcore::add_read_event, add_write_event.  The bit is never set in the
\* fd cache, so the other direction is not added to the event mask, and an
\* EEXIST falls back to EPOLL_CTL_MOD with that mask alone.
AddEvent(f, e) ==
  armed' = IF CoreOpen THEN [armed EXCEPT ![f] = {e}] ELSE armed

\* fd_cache_map_ is a multimap: an entry it has is entered once more.
Enter(r) == fds' = fds \cup {r} /\ doubles' = doubles \cup (fds \cap {r})
\* However often it has them, the entries R go.
Forget(R) == fds' = fds \ R /\ doubles' = doubles \ R

\* loopimpl::wait_for_reading, wait_for_writing
WaitFor(t, f, e) ==
  /\ e \in Ops
  /\ running = t
  /\ \/ Refuse(t)
     \/ /\ MayWait(t)
        /\ Suspend(t, e, f)
        /\ signal' = [signal EXCEPT ![t] = "nothing"]
        /\ FireLater(t)
        /\ timed' = timed \cup {t}
        /\ hooked' = hooked \cup {t}
        /\ Enter([fd |-> f, ev |-> e, tid |-> t])
        /\ AddEvent(f, e)

\* The body of loopimpl::wakeup_task: a task in the list fires now, one that
\* is not goes in with the fire time it last had.
Rouse(w, s) ==
  /\ signal' = [signal EXCEPT ![w] = s]
  /\ IF w \in timed THEN FireNow(w) /\ UNCHANGED timed
                    ELSE timed' = timed \cup {w} /\ UNCHANGED timeVars
  /\ UNCHANGED <<hooked, fdVars>>

MutWakeable(w) == w \in cache \* Mutant: a task wakes itself up.
\* A task that exists, and not this_task.
Wakeable(w) == w \in cache \ {running}

\* task::wakeup and loopimpl::wakeup_task
WakeupTask(w, s) ==
  /\ "wakeup" \in Ops
  /\ UserCode
  /\ Wakeable(w)
  /\ Rouse(w, s)
  /\ UNCHANGED <<cache, status, cancelled, repeats, at, on, loopVars, running, spawned>>

\* The body of loopimpl::cancel, for a task that is not cancelled yet.
CancelBody(w) ==
  /\ w \in cache \ cancelled
  /\ cancelled' = cancelled \cup {w}
  /\ \/ w = running /\ UNCHANGED <<signal, timeVars, listVars>>
     \/ w \in timed \ {running} /\ FireNow(w) /\ UNCHANGED <<signal, listVars>>
     \/ w \notin timed \cup {running} /\ Rouse(w, "broken")
  /\ UNCHANGED <<cache, status, repeats, at, on, running, spawned, armed, active, todo>>

\* task::cancel
Cancel(w) == "cancel" \in Ops /\ UserCode /\ CancelBody(w) /\ UNCHANGED loop

\* loopimpl::exit, and loopcore::stop, which closes the epoll set.
Exit ==
  /\ "exit" \in Ops
  /\ UserCode
  /\ active' = FALSE
  /\ armed' = [f \in Fd |-> {}]
  /\ UNCHANGED <<taskVars, timeVars, listVars, loop, todo, running, spawned>>

----------------------------------------------------------------------------
(* The worker returns: the tail of basic_task::swap_to_task and what main  *)
(* does with the status it leaves.                                         *)

\* A repeatable task goes back into the list.
Repeat(t) ==
  /\ running = t
  /\ t \in repeats \ cancelled
  /\ status' = [status EXCEPT ![t] = "pending"]
  /\ at' = [at EXCEPT ![t] = "start"]
  /\ FireAgain(t)
  /\ timed' = timed \cup {t}
  /\ running' = None
  /\ UNCHANGED <<cache, signal, cancelled, repeats, on, hooked, fdVars, loopVars, spawned>>

\* The task is stopped and destroyed, and its destructor runs the atexit
\* handler if there is one; the fd cache is not touched.
Stop(t) ==
  /\ running = t
  /\ t \notin repeats \/ t \in cancelled
  /\ status' = [status EXCEPT ![t] = "stopped"]
  /\ cache' = cache \ {t}
  /\ cancelled' = cancelled \ {t}
  /\ repeats' = repeats \ {t}
  /\ signal' = [signal EXCEPT ![t] = "nothing"]
  /\ at' = [at EXCEPT ![t] = "start"]
  /\ on' = [on EXCEPT ![t] = None]
  /\ FireNever(t)
  /\ running' = None
  /\ \/ UNCHANGED loop
     \/ "atexit" \in Ops /\ loop' = "atexit"
  /\ UNCHANGED <<listVars, armed, active, todo, spawned>>

AtexitReturn ==
  /\ loop = "atexit"
  /\ loop' = "inner"
  /\ UNCHANGED <<taskVars, timeVars, listVars, armed, active, todo, running, spawned>>

----------------------------------------------------------------------------
(* loopimpl::main                                                          *)

MutPending == timed \* Mutant: the nearest time is not compared with the clock.
\* The tasks the inner while is about to run.
Pending == timed \cap due
\* main is at the head of its inner while.
AtCheck == loop = "inner" /\ running = None
\* timed_list_ is empty or its nearest time has not come.
NothingDue == AtCheck /\ Pending = {}

MainStart ==
  /\ loop = "out"
  /\ loop' = "inner"
  /\ active' = TRUE
  /\ UNCHANGED <<taskVars, timeVars, listVars, armed, todo, running, spawned>>

MutDelEvent(f) == armed' = [armed EXCEPT ![f] = @ \ {"read"}] \* Mutant: it does.
\* loopcore::del_read_event, del_write_event: the descriptor is never found in
\* the fd cache, and nothing leaves the epoll set.
DelEvent(f) == UNCHANGED armed

MutOnTime(t) == UNCHANGED <<fdVars, armed, signal>> \* Mutant: no handler is run.
\* The on_time handler of wait_for_reading and of wait_for_writing.  Both erase
\* the read entry of the descriptor.
OnTime(t) ==
  /\ Forget({[fd |-> on[t], ev |-> "read", tid |-> t]})
  /\ DelEvent(on[t])
  /\ signal' = [signal EXCEPT ![t] = IF t \in cancelled THEN "broken" ELSE @]

\* fetch() the nearest task, run its handler if it has one, swap to it.
Dispatch(t) ==
  /\ AtCheck
  /\ t \in Pending
  /\ \A u \in Pending \ {t} : <<t, u>> \in before
  /\ timed' = timed \ {t}
  /\ hooked' = hooked \ {t}
  /\ IF t \in hooked THEN OnTime(t) ELSE UNCHANGED <<fdVars, armed, signal>>
  /\ status' = [status EXCEPT ![t] = "running"]
  /\ running' = t
  /\ UNCHANGED <<cache, cancelled, repeats, at, on, timeVars, active, loop, todo,
                 spawned>>

\* No task is left: main stops the core and returns.
MainReturn ==
  /\ NothingDue
  /\ cache = {}
  /\ loop' = "out"
  /\ armed' = [f \in Fd |-> {}]
  /\ UNCHANGED <<taskVars, timeVars, listVars, active, todo, running, spawned>>

\* Someone called exit: foreach task, cancel it, then go round again.
CancelAll ==
  /\ NothingDue
  /\ cache # {} /\ ~active
  /\ loop' = IF cache \subseteq cancelled THEN "inner" ELSE "cancel"
  /\ UNCHANGED <<taskVars, timeVars, listVars, armed, active, todo, running, spawned>>

CancelEach(w) ==
  /\ loop = "cancel"
  /\ CancelBody(w)
  /\ loop' = IF cache \ cancelled = {w} THEN "inner" ELSE "cancel"

\* Wait for descriptors until the nearest fire time, one second at most.
EnterWait ==
  /\ NothingDue
  /\ cache # {} /\ active
  /\ loop' = "wait"
  /\ UNCHANGED <<taskVars, timeVars, listVars, armed, active, todo, running, spawned>>

WaitReturn ==
  /\ loop = "wait"
  /\ loop' = "inner"
  /\ UNCHANGED <<taskVars, timeVars, listVars, armed, active, todo, running, spawned>>

\* Mutant: the ids are not looked up in the task cache.
MutWaiters(f, E) == {r.tid : r \in {x \in fds : x.fd = f /\ x.ev \in E}}
\* Mutant: the descriptors are not compared.
MutSearch(f, E) == {t \in cache : \E r \in fds : r.tid = t /\ r.ev \in E}

\* The ids a search of the fd cache returns, without the dead ones.
Waiters(f, E) == {t \in cache : \E e \in E : [fd |-> f, ev |-> e, tid |-> t] \in fds}

\* The tasks that wait for an event in E of f are told of it, one after the other.
Notify(f, E) ==
  /\ Waiters(f, E) # {}
  /\ todo' = {[tid |-> t, fd |-> f, evs |-> E] : t \in Waiters(f, E)}

\* on_event_: entries of tasks that no longer exist are left behind.  A task
\* that is found twice is told twice, with its key renewed each time.
FdEvent(f, e) ==
  /\ loop = "wait"
  /\ e \in armed[f]
  /\ Notify(f, {e})
  /\ loop' = "event"
  /\ Forget({r \in fds : r.fd = f /\ r.ev = e /\ r.tid \in cache})
  /\ UNCHANGED <<taskVars, timeVars, timed, hooked, armed, active, running, spawned>>

\* search_all finds no task twice: a wait to write that timed out has left none
\* of its entries to a task that waits for f again (loopimpl.cpp:278).
NamedOnce(f) ==
  \A r, s \in fds :
    r.fd = f /\ s.fd = f /\ r.tid = s.tid /\ r.tid \in cache => r = s /\ r \notin doubles

\* on_error_, for an error that finds no task twice: every entry of the
\* descriptor goes.  The others are in TaskList, OnError.
FdError(f) ==
  /\ loop = "wait"
  /\ armed[f] # {}
  /\ NamedOnce(f)
  /\ Notify(f, Event)
  /\ loop' = "error"
  /\ Forget({r \in fds : r.fd = f})
  /\ UNCHANGED <<taskVars, timeVars, timed, hooked, armed, active, running, spawned>>

MutReinsert(t) == timed' = timed \ {t} /\ hooked' = hooked \ {t} \* Mutant: erased.
\* erase t from the list with its handler and insert it without one.
Reinsert(t) == timed' = timed \cup {t} /\ hooked' = hooked \ {t}

\* One turn of the loop over the id_list: t fires now.
Deliver(t) ==
  /\ \E n \in todo :
       /\ n.tid = t
       /\ todo' = todo \ {n}
       /\ loop' = IF todo = {n} THEN "wait" ELSE loop
  /\ signal' = [signal EXCEPT ![t] = IF loop = "event" THEN "received" ELSE "broken"]
  /\ FireNow(t)
  /\ Reinsert(t)
  /\ UNCHANGED <<cache, status, cancelled, repeats, at, on, fdVars, armed, active,
                 running, spawned>>

----------------------------------------------------------------------------
Calls(t) ==
  \/ Run(t) \/ RunLoop(t) \/ RunDelay(t)
  \/ Yield(t) \/ HoldTask(t) \/ HoldTaskFor(t)
  \/ \E f \in Fd, e \in Event : WaitFor(t, f, e)
  \/ \E s \in Signal \ {"nothing"} : WakeupTask(t, s)
  \/ Cancel(t)
  \/ Repeat(t) \/ Stop(t)

Main ==
  \/ AtexitReturn \/ MainReturn \/ CancelAll \/ EnterWait \/ WaitReturn
  \/ \E t \in Task : Dispatch(t) \/ CancelEach(t) \/ Deliver(t)

Next ==
  \/ \E t \in Task : Calls(t)
  \/ Exit
  \/ MainStart
  \/ Main
  \/ \E f \in Fd : FdError(f) \/ \E e \in Event : FdEvent(f, e)
  \/ Tick

Spec == Init /\ [][Next]_vars

(***************************************************************************)
(* Fairness.  The thread keeps executing main and the clock advances.  A   *)
(* worker does not compute for ever: it suspends or returns (Leave), and   *)
(* once cancelled it returns in the end, as task.h asks of it.  Nothing    *)
(* is assumed of descriptors, nor of a worker that is not cancelled.       *)
(***************************************************************************)
Leave == running # None /\ (\E t \in Task : Calls(t)) /\ running' = None

Fairness ==
  /\ WF_vars(Main)
  /\ WF_vars(Tick)
  /\ WF_vars(Leave)
  /\ SF_vars(CancelAll)
  /\ \A t \in Task : SF_vars(t \in cancelled /\ Stop(t))

FairSpec == Spec /\ Fairness

----------------------------------------------------------------------------
(* Safety.                                                                 *)

\* No task is lost: every task of the cache runs, waits in the timed list,
\* or is held without a timeout by its own call of holding.  It is about the
\* list operations of every call, event and cancellation agreeing on who puts
\* a task back (loopimpl.cpp, all handlers).
NoLostTask ==
  \A t \in cache \ timed : t = running \/ at[t] = "holding"

\* Only tasks that exist and do not run are in the timed list: main fetches an
\* id and calls swap_to_task on what it finds without a test, and a running
\* task in the list would be entered twice.  It is about every caller of the
\* list but the error that finds a task twice, which breaks it (TaskList,
\* ListedExist).
ListIsLive == timed \subseteq cache \ {running}

\* A task outside the list keeps a fire time that has passed: wakeup_task
\* inserts it with that time and relies on it to fire at once.
UnlistedIsDue == cache \ timed \subseteq due

\* Cancelling reaches every task: one that is cancelled and not running is in
\* the list and due, whatever it was waiting for and whatever it calls later.
\* loopimpl::main depends on it: after exit it cancels all tasks and goes round
\* without waiting, and would spin for ever on a task this left behind.
CancelReaches == cancelled \ {running} \subseteq timed \cap due

\* An event or an error of a descriptor is delivered only to a task whose last
\* suspended call waits for that descriptor, and for an event that occurred: the
\* ids come from the fd cache, whose entries the timeout handlers must have
\* removed and whose search must tell descriptors and events apart.
EventsReachWaiters ==
  \A n \in todo : /\ n.tid \in cache \ {running}
                  /\ on[n.tid] = n.fd /\ at[n.tid] \in n.evs

\* An entry of the fd cache belongs to a task that waits for that event of that
\* descriptor with its timeout handler still in the list, and there is one of it.
FdCoherent ==
  /\ \A r \in fds : r.tid \in hooked /\ at[r.tid] = r.ev /\ on[r.tid] = r.fd
  /\ doubles = {}

\* While the epoll set is open, every task that waits for an event of a
\* descriptor has that event armed: "Monitor the fd for reading event".
WaitersAreArmed ==
  CoreOpen => \A t \in hooked : at[t] \in armed[on[t]]

\* The loop implements the abstract cooperative scheduler: a task whose fire
\* time has come is ready, any other suspended task is blocked.
StateOf(t) ==
  IF t = running THEN "running"
  ELSE IF t \notin cache THEN "absent"
  ELSE IF t \in timed \cap due THEN "ready" ELSE "blocked"

TaskStates == [t \in Task |-> StateOf(t)]

Coop == INSTANCE CoopTasks WITH st <- TaskStates, doomed <- cancelled

CoopSpec == Coop!Spec

----------------------------------------------------------------------------
(* Liveness, under FairSpec.                                               *)

\* Inside main, a task whose fire time has come runs, however many others yield
\* or time out in the meantime: they go to the end of the queue.  It says nothing
\* of instances with wakeup, whose callers can move a listed task back each time,
\* nor with run_loop, whose interval can be shorter than its work.
ReadyRuns ==
  \A t \in Task : (loop # "out" /\ t \in Pending) ~> (t = running \/ t \notin cache)

\* "Invoke in any task, which will case current loop to break and return from
\* main" (loop.cpp), taken at its word.
ExitAlwaysReturns == (~active /\ loop # "out") ~> (loop = "out")

\* Exit makes main return once the due tasks get finished now and then.
ExitReturns ==
  []<>(NothingDue \/ loop = "out") => ExitAlwaysReturns
=============================================================================
