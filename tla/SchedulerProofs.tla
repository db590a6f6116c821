-------------------------- MODULE SchedulerProofs --------------------------
(***************************************************************************)
(* Theorems about Scheduler, for every set of tasks and descriptors, every *)
(* set of calls the workers make and every bound on their number.          *)
(***************************************************************************)
EXTENDS Scheduler, TLAPS

\* A task runs only inside the inner while of main, and an id_list is being
\* delivered only inside wait: no worker runs while main handles an event.
PhaseOK ==
  /\ running # None => loop = "inner"
  /\ todo # {} => loop \in {"event", "error"}

\* The part of the inductive invariant that is about sets and phases.
Base == TypeOK /\ ListIsLive /\ PhaseOK

----------------------------------------------------------------------------
(* Fire times.                                                             *)

\* However t is placed, only t and the tasks of the cache have fire times,
\* and what is due is the same except perhaps t.
LEMMA FireType ==
  ASSUME TypeOK, NEW t \in Task, FireNow(t) \/ FireLater(t) \/ FireAgain(t)
  PROVE  /\ before' \subseteq (cache \cup {t}) \X (cache \cup {t})
         /\ due' \subseteq cache \cup {t}
         /\ due \cup {t} = due' \cup {t}
<1>1. \A P \in SUBSET cache :
        Place(t, P) \subseteq (cache \cup {t}) \X (cache \cup {t})
  BY DEF Place, TypeOK
<1>2. CASE FireNow(t)
  BY <1>1, <1>2 DEF FireNow, TypeOK
<1>3. CASE FireLater(t)
  BY <1>1, <1>3 DEF FireLater, Cuts, TypeOK
<1>4. CASE FireAgain(t)
  BY <1>1, <1>4 DEF FireAgain, Cuts, TypeOK
<1> QED BY <1>2, <1>3, <1>4

\* A task that fires now is due.
LEMMA FireNowDue ==
  ASSUME NEW t, FireNow(t)
  PROVE  due' = due \cup {t}
BY DEF FireNow

----------------------------------------------------------------------------
LEMMA BaseInit == Init => Base
<1> SUFFICES ASSUME Init PROVE Base
  OBVIOUS
<1>1. /\ status \in [Task -> Status] /\ signal \in [Task -> Signal]
      /\ at \in [Task -> Call] /\ on \in [Task -> Fd \cup {None}]
      /\ armed \in [Fd -> SUBSET Event]
  BY DEF Init, Status, Signal, Call
<1>2. loop \in Phase /\ spawned \in 0 .. MaxSpawn
  BY BoundAssumption DEF Init, Phase
<1>3. TypeOK
  BY <1>1, <1>2 DEF Init, TypeOK
<1> QED BY <1>3 DEF Init, Base, ListIsLive, PhaseOK

LEMMA BaseCreate ==
  ASSUME Base, NEW t \in Task, Run(t) \/ RunLoop(t) \/ RunDelay(t)
  PROVE  Base'
<1>1. Create(t)
  BY DEF Run, RunLoop, RunDelay
<1>2. FireNow(t) \/ FireLater(t)
  BY DEF Run, RunLoop, RunDelay
<1>3. repeats' = repeats \/ repeats' = repeats \cup {t}
  BY DEF Run, RunLoop, RunDelay
<1>4. before' \subseteq cache' \X cache' /\ due' \subseteq cache'
  BY <1>1, <1>2, FireType DEF Create, Base
<1>5. TypeOK'
  BY <1>1, <1>3, <1>4, BoundAssumption DEF Base, TypeOK, Create, loopVars, fdVars, Status, Signal, Call
<1>6. ListIsLive'
  BY <1>1, NoneAssumption DEF Base, TypeOK, ListIsLive, Create
<1>7. PhaseOK'
  BY <1>1 DEF Base, PhaseOK, Create, loopVars
<1> QED BY <1>5, <1>6, <1>7 DEF Base

\* The running task t gives up the processor: yield, holding, holding_until and
\* the waits all end in Suspend, with t listed or not.
LEMMA BaseSuspend ==
  ASSUME Base, NEW t \in Task, NEW c \in Call, NEW f \in Fd \cup {None},
         running = t, Suspend(t, c, f),
         signal' \in [Task -> Signal],
         before' \subseteq cache \X cache, due' \subseteq cache,
         timed' \in {timed, timed \cup {t}},
         hooked' = hooked \/ (hooked' = hooked \cup {t} /\ t \in timed'),
         fds' \subseteq FdItem, doubles' \subseteq fds', armed' \in [Fd -> SUBSET Event]
  PROVE  Base'
<1>1. t \in cache /\ t # None
  BY NoneAssumption DEF Base, TypeOK
<1>2. status' \in [Task -> Status] /\ at' \in [Task -> Call]
      /\ on' \in [Task -> Fd \cup {None}]
  BY DEF Suspend, Base, TypeOK, Status
<1>3. hooked' \subseteq timed' /\ timed' \subseteq cache
  BY <1>1 DEF Base, TypeOK
<1>4. TypeOK'
  BY <1>2, <1>3 DEF Suspend, Base, TypeOK
<1>5. ListIsLive'
  BY <1>1, NoneAssumption DEF Suspend, Base, TypeOK, ListIsLive
<1>6. PhaseOK'
  BY DEF Suspend, Base, PhaseOK
<1> QED BY <1>4, <1>5, <1>6 DEF Base

LEMMA BaseRefuse ==
  ASSUME Base, NEW t \in Task, Refuse(t)
  PROVE  Base'
<1>1. signal' \in [Task -> Signal]
  BY DEF Refuse, Base, TypeOK, Signal
<1> QED
  BY <1>1 DEF Refuse, Base, TypeOK, ListIsLive, PhaseOK, timeVars, listVars, fdVars, loopVars

LEMMA BaseYield ==
  ASSUME Base, NEW t \in Task, Yield(t)
  PROVE  Base'
<1>1. t \in cache
  BY NoneAssumption DEF Yield, Base, TypeOK
<1>2. before' \subseteq cache \X cache /\ due' \subseteq cache
  BY <1>1, FireType DEF Yield, Base
<1> QED BY <1>1, <1>2, BaseSuspend DEF Yield, Base, TypeOK, Call, fdVars

LEMMA BaseHold ==
  ASSUME Base, NEW t \in Task, HoldTask(t)
  PROVE  Base'
<1>1. CASE Refuse(t)
  BY <1>1, BaseRefuse
<1>2. CASE ~Refuse(t)
  <2>1. Suspend(t, "holding", None) /\ running = t
    BY <1>2 DEF HoldTask
  <2>2. signal' \in [Task -> Signal] /\ UNCHANGED <<timeVars, listVars, armed>>
    BY <1>2 DEF HoldTask, Base, TypeOK, Signal
  <2> QED BY <2>1, <2>2, BaseSuspend DEF Base, TypeOK, Call, timeVars, listVars, fdVars
<1> QED BY <1>1, <1>2

LEMMA BaseHoldFor ==
  ASSUME Base, NEW t \in Task, HoldTaskFor(t)
  PROVE  Base'
<1>1. CASE Refuse(t)
  BY <1>1, BaseRefuse
<1>2. CASE ~Refuse(t)
  <2>1. Suspend(t, "holding_until", None) /\ running = t /\ FireLater(t)
    BY <1>2 DEF HoldTaskFor
  <2>2. t \in cache
    BY <2>1, NoneAssumption DEF Base, TypeOK
  <2>3. before' \subseteq cache \X cache /\ due' \subseteq cache
    BY <2>1, <2>2, FireType DEF Base
  <2>4. /\ signal' \in [Task -> Signal] /\ timed' = timed \cup {t}
        /\ UNCHANGED <<hooked, fds, doubles, armed>>
    BY <1>2 DEF HoldTaskFor, Base, TypeOK, Signal, fdVars
  <2> QED BY <2>1, <2>3, <2>4, BaseSuspend DEF Base, TypeOK, Call
<1> QED BY <1>1, <1>2

LEMMA BaseWaitFor ==
  ASSUME Base, NEW t \in Task, NEW f \in Fd, NEW e \in Event, WaitFor(t, f, e)
  PROVE  Base'
<1>1. CASE Refuse(t)
  BY <1>1, BaseRefuse
<1>2. CASE ~Refuse(t)
  <2>1. Suspend(t, e, f) /\ running = t /\ FireLater(t) /\ AddEvent(f, e)
    BY <1>2 DEF WaitFor
  <2>2. t \in cache
    BY <2>1, NoneAssumption DEF Base, TypeOK
  <2>3. before' \subseteq cache \X cache /\ due' \subseteq cache
    BY <2>1, <2>2, FireType DEF Base
  <2>4. /\ signal' \in [Task -> Signal]
        /\ timed' = timed \cup {t} /\ hooked' = hooked \cup {t}
        /\ fds' = fds \cup {[fd |-> f, ev |-> e, tid |-> t]} /\ doubles' \subseteq fds'
    BY <1>2 DEF WaitFor, Enter, Base, TypeOK, Signal
  <2>5. fds' \subseteq FdItem
    BY <2>4 DEF Base, TypeOK, FdItem
  <2>6. armed' \in [Fd -> SUBSET Event]
    BY <2>1 DEF AddEvent, Base, TypeOK
  <2>7. e \in Call /\ f \in Fd \cup {None}
    BY DEF Call
  <2> QED BY <2>1, <2>3, <2>4, <2>5, <2>6, <2>7, BaseSuspend
<1> QED BY <1>1, <1>2

\* Waking a task up changes its place in the list only.
LEMMA RouseType ==
  ASSUME Base, NEW w \in cache, NEW s \in Signal, Rouse(w, s)
  PROVE  /\ signal' \in [Task -> Signal]
         /\ before' \subseteq cache \X cache /\ due' \subseteq cache
         /\ due \subseteq due' /\ due \cup {w} = due' \cup {w}
         /\ timed' = timed \cup {w}
         /\ w \in timed => w \in due'
         /\ UNCHANGED <<hooked, fds, doubles>>
<1>1. w \in Task
  BY DEF Base, TypeOK
<1>2. signal' \in [Task -> Signal] /\ UNCHANGED <<hooked, fds, doubles>>
  BY <1>1 DEF Rouse, Base, TypeOK, fdVars
<1>3. CASE w \in timed
  <2>1. FireNow(w) /\ timed' = timed
    BY <1>3 DEF Rouse
  <2> QED BY <1>1, <1>2, <1>3, <2>1, FireType, FireNowDue DEF Base
<1>4. CASE w \notin timed
  <2>1. timed' = timed \cup {w} /\ UNCHANGED timeVars
    BY <1>4 DEF Rouse
  <2> QED BY <1>2, <1>4, <2>1 DEF timeVars, Base, TypeOK
<1> QED BY <1>3, <1>4

LEMMA BaseWakeup ==
  ASSUME Base, NEW w \in Task, NEW s \in Signal, WakeupTask(w, s)
  PROVE  Base'
<1>1. w \in cache /\ w # running /\ Rouse(w, s)
  BY DEF WakeupTask, Wakeable
<1>2. UNCHANGED <<cache, status, cancelled, repeats, at, on, loopVars, running, spawned>>
  BY DEF WakeupTask
<1> QED BY <1>1, <1>2, RouseType DEF Base, TypeOK, ListIsLive, PhaseOK, loopVars

\* What cancelling does to a task, whoever asks for it.
LEMMA CancelType ==
  ASSUME Base, NEW w \in Task, CancelBody(w)
  PROVE  /\ w \in cache /\ cancelled' = cancelled \cup {w}
         /\ signal' \in [Task -> Signal]
         /\ before' \subseteq cache \X cache /\ due' \subseteq cache
         /\ due \subseteq due' /\ due \cup {w} = due' \cup {w}
         /\ timed' = IF w = running THEN timed ELSE timed \cup {w}
         /\ w \in timed => w \in due' \/ w = running
         /\ UNCHANGED <<cache, status, repeats, at, on, running, spawned, armed,
                        active, todo, hooked, fds, doubles>>
<1>1. /\ w \in cache /\ cancelled' = cancelled \cup {w}
      /\ UNCHANGED <<cache, status, repeats, at, on, running, spawned, armed,
                     active, todo>>
  BY DEF CancelBody
<1>2. CASE w = running
  <2>1. UNCHANGED <<signal, before, due, timed, hooked, fds, doubles>>
    BY <1>2 DEF CancelBody, timeVars, listVars, fdVars
  <2> QED BY <1>1, <1>2, <2>1 DEF Base, TypeOK
<1>3. CASE w # running /\ w \in timed
  <2>1. FireNow(w) /\ UNCHANGED <<signal, listVars>>
    BY <1>3 DEF CancelBody
  <2> QED BY <1>1, <1>3, <2>1, FireType, FireNowDue DEF listVars, fdVars, Base, TypeOK
<1>4. CASE w # running /\ w \notin timed
  <2>1. Rouse(w, "broken")
    BY <1>4 DEF CancelBody
  <2>2. "broken" \in Signal
    BY DEF Signal
  <2> QED BY <1>1, <1>4, <2>1, <2>2, RouseType
<1> QED BY <1>2, <1>3, <1>4

LEMMA BaseCancel ==
  ASSUME Base, NEW w \in Task, Cancel(w) \/ CancelEach(w)
  PROVE  Base'
<1>1. CancelBody(w)
  BY DEF Cancel, CancelEach
<1>2. loop' = loop \/ (loop = "cancel" /\ loop' \in {"inner", "cancel"})
  BY DEF Cancel, CancelEach
<1>3. TypeOK'
  BY <1>1, <1>2, CancelType DEF Base, TypeOK, Phase
<1>4. ListIsLive'
  BY <1>1, CancelType DEF Base, ListIsLive
<1>5. PhaseOK'
  BY <1>1, <1>2, CancelType DEF Base, PhaseOK
<1> QED BY <1>3, <1>4, <1>5 DEF Base

LEMMA BaseRepeat ==
  ASSUME Base, NEW t \in Task, Repeat(t)
  PROVE  Base'
<1>1. t \in cache /\ t # None
  BY NoneAssumption DEF Repeat, Base, TypeOK
<1>2. before' \subseteq cache \X cache /\ due' \subseteq cache
  BY <1>1, FireType DEF Repeat, Base
<1>3. status' \in [Task -> Status] /\ at' \in [Task -> Call]
  BY DEF Repeat, Base, TypeOK, Status, Call
<1>4. TypeOK'
  BY <1>1, <1>2, <1>3 DEF Repeat, Base, TypeOK, loopVars, fdVars
<1>5. ListIsLive'
  BY <1>1, NoneAssumption DEF Repeat, Base, TypeOK, ListIsLive
<1>6. PhaseOK'
  BY DEF Repeat, Base, PhaseOK, loopVars
<1> QED BY <1>4, <1>5, <1>6 DEF Base

LEMMA BaseStop ==
  ASSUME Base, NEW t \in Task, Stop(t)
  PROVE  Base'
<1>1. t \in cache /\ t # None /\ running = t /\ todo = {} /\ t \notin timed
  BY NoneAssumption DEF Stop, Base, TypeOK, PhaseOK, ListIsLive
<1>2. before' \subseteq cache' \X cache' /\ due' \subseteq cache'
  BY DEF Stop, FireNever, Base, TypeOK
<1>3. /\ status' \in [Task -> Status] /\ at' \in [Task -> Call]
      /\ signal' \in [Task -> Signal] /\ on' \in [Task -> Fd \cup {None}]
  BY DEF Stop, Base, TypeOK, Status, Call, Signal
<1>4. /\ cache' = cache \ {t} /\ cancelled' = cancelled \ {t}
      /\ repeats' = repeats \ {t} /\ running' = None
      /\ loop' \in {loop, "atexit"}
      /\ UNCHANGED <<timed, hooked, fds, doubles, armed, active, todo, spawned>>
  BY DEF Stop, listVars, fdVars
<1>5. TypeOK'
  BY <1>1, <1>2, <1>3, <1>4 DEF Base, TypeOK, Phase
<1>6. ListIsLive'
  BY <1>1, <1>4, NoneAssumption DEF Base, TypeOK, ListIsLive
<1>7. PhaseOK'
  BY <1>1, <1>4 DEF PhaseOK
<1> QED BY <1>5, <1>6, <1>7 DEF Base

LEMMA BaseDispatch ==
  ASSUME Base, NEW t \in Task, Dispatch(t)
  PROVE  Base'
<1>1. t \in timed /\ t \in cache /\ loop = "inner" /\ running = None
  BY DEF Dispatch, AtCheck, Pending, Base, TypeOK
<1>2. fds' \subseteq fds /\ doubles' \subseteq fds' /\ armed' = armed /\ signal' \in [Task -> Signal]
  BY DEF Dispatch, OnTime, DelEvent, Base, TypeOK, Signal, Forget, fdVars
<1>3. status' \in [Task -> Status]
  BY DEF Dispatch, Base, TypeOK, Status
<1>4. /\ timed' = timed \ {t} /\ hooked' = hooked \ {t} /\ running' = t
      /\ UNCHANGED <<cache, cancelled, repeats, at, on, before, due, active, loop,
                     todo, spawned>>
  BY DEF Dispatch, timeVars
<1>5. TypeOK'
  BY <1>1, <1>2, <1>3, <1>4 DEF Base, TypeOK
<1>6. ListIsLive'
  BY <1>4 DEF Base, TypeOK, ListIsLive
<1>7. PhaseOK'
  BY <1>1, <1>4 DEF Base, PhaseOK
<1> QED BY <1>5, <1>6, <1>7 DEF Base

LEMMA BaseDeliver ==
  ASSUME Base, NEW t \in Task, Deliver(t)
  PROVE  Base'
<1>1. PICK n \in todo : n.tid = t /\ todo' = todo \ {n} /\ loop' = IF todo = {n} THEN "wait" ELSE loop
  BY DEF Deliver
<1>2. t \in cache /\ loop \in {"event", "error"} /\ running = None
  BY <1>1 DEF Base, TypeOK, PhaseOK
<1>3. before' \subseteq cache \X cache /\ due' \subseteq cache
  BY <1>2, FireType DEF Deliver, Base
<1>4. signal' \in [Task -> Signal]
  BY DEF Deliver, Base, TypeOK, Signal
<1>5. /\ timed' = timed \cup {t} /\ hooked' = hooked \ {t}
      /\ UNCHANGED <<cache, status, cancelled, repeats, at, on, fds, doubles, armed, active,
                     running, spawned>>
  BY DEF Deliver, Reinsert, fdVars
<1>6. TypeOK'
  BY <1>1, <1>2, <1>3, <1>4, <1>5 DEF Base, TypeOK, Phase
<1>7. ListIsLive'
  BY <1>2, <1>5, NoneAssumption DEF Base, TypeOK, ListIsLive
<1>8. PhaseOK'
  BY <1>1, <1>2, <1>5 DEF Base, PhaseOK
<1> QED BY <1>6, <1>7, <1>8 DEF Base

\* Moves of main between its phases, and exit.
LEMMA BasePhase ==
  ASSUME Base, Exit \/ MainStart \/ MainReturn \/ CancelAll \/ EnterWait
               \/ WaitReturn \/ AtexitReturn
  PROVE  Base'
<1>1. CASE Exit \/ MainReturn
  BY <1>1 DEF Exit, MainReturn, NothingDue, AtCheck, Base, TypeOK, ListIsLive, PhaseOK,
     Phase, taskVars, timeVars, listVars, fdVars
<1>2. CASE MainStart \/ CancelAll \/ EnterWait \/ WaitReturn \/ AtexitReturn
  BY <1>2 DEF MainStart, CancelAll, EnterWait, WaitReturn, AtexitReturn, NothingDue,
     AtCheck, Base, TypeOK, ListIsLive, PhaseOK, Phase, taskVars, timeVars, listVars, fdVars
<1> QED BY <1>1, <1>2

LEMMA BaseEvent ==
  ASSUME Base, NEW f \in Fd, FdError(f) \/ \E e \in Event : FdEvent(f, e)
  PROVE  Base'
<1>1. /\ loop = "wait" /\ loop' \in {"event", "error"}
      /\ UNCHANGED <<taskVars, timeVars, timed, hooked, armed, active, running, spawned>>
  BY DEF FdError, FdEvent
<1>2. PICK E \in SUBSET Event : Notify(f, E)
  BY DEF FdError, FdEvent
<1>3. todo' \subseteq {n \in News : n.tid \in cache}
  <2>1. cache \subseteq Task
    BY DEF Base, TypeOK
  <2> QED BY <1>2, <2>1 DEF Notify, Waiters, News
<1>4. fds' \subseteq fds /\ doubles' \subseteq fds'
  BY DEF FdError, FdEvent, Forget, Base, TypeOK
<1> QED BY <1>1, <1>3, <1>4 DEF Base, TypeOK, ListIsLive, PhaseOK, Phase, taskVars, timeVars

LEMMA BaseTick ==
  ASSUME Base, Tick
  PROVE  Base'
<1>1. due' \subseteq cache
  BY DEF Tick, Base, TypeOK
<1> QED
  BY <1>1 DEF Tick, Base, TypeOK, ListIsLive, PhaseOK, taskVars, listVars, fdVars, loopVars

LEMMA BaseStep == Base /\ [Next]_vars => Base'
<1> SUFFICES ASSUME Base, [Next]_vars PROVE Base'
  OBVIOUS
<1>1. ASSUME NEW t \in Task, Calls(t) PROVE Base'
  <2>1. ASSUME NEW s \in Signal, WakeupTask(t, s) PROVE Base'
    BY <2>1, BaseWakeup
  <2>2. ASSUME NEW f \in Fd, NEW e \in Event, WaitFor(t, f, e) PROVE Base'
    BY <2>2, BaseWaitFor
  <2> QED
    BY <1>1, <2>1, <2>2, BaseCreate, BaseYield, BaseHold, BaseHoldFor, BaseCancel,
       BaseRepeat, BaseStop DEF Calls
<1>2. ASSUME NEW t \in Task, Dispatch(t) \/ CancelEach(t) \/ Deliver(t) PROVE Base'
  BY <1>2, BaseDispatch, BaseCancel, BaseDeliver
<1>3. CASE UNCHANGED vars
  BY <1>3 DEF vars, taskVars, timeVars, listVars, fdVars, loopVars, Base, TypeOK, ListIsLive, PhaseOK
<1> QED BY <1>1, <1>2, <1>3, BasePhase, BaseEvent, BaseTick DEF Next, Main

LEMMA BaseHolds == Spec => []Base
BY BaseInit, BaseStep, PTL DEF Spec

\* Every variable keeps its type: cancellations, handlers, fire times, the list and the
\* ids an event is delivered to name only tasks that live, as long as no error finds a
\* task twice (FdError).
THEOREM TypeCorrect == Spec => []TypeOK
<1>1. Base => TypeOK
  BY DEF Base
<1> QED BY <1>1, BaseHolds, PTL

\* The timed list holds only tasks that exist and do not run, so that what main
\* fetches from it can be entered, as long as no error finds a task twice: that
\* error is no step here (FdError), and TaskList shows that it leaves dead ids.
THEOREM ListedAreLive == Spec => []ListIsLive
<1>1. Base => ListIsLive
  BY DEF Base
<1> QED BY <1>1, BaseHolds, PTL

----------------------------------------------------------------------------
(* Where a task that is not running can be.  CancelReaches rests on        *)
(* UnlistedIsDue: a held task that is cancelled goes back into the list    *)
(* with the fire time it last had.                                         *)

Placed == UnlistedIsDue /\ CancelReaches /\ NoLostTask

\* A refused call changes a signal.
LEMMA PlacedRefuse ==
  ASSUME Placed, NEW t \in Task, Refuse(t)
  PROVE  Placed'
BY DEF Refuse, Placed, UnlistedIsDue, CancelReaches, NoLostTask, timeVars, listVars, fdVars

\* The running task t leaves; it is listed, or held and not cancelled.
LEMMA PlacedSuspend ==
  ASSUME Base, Placed, NEW t \in Task, NEW c \in Call, NEW f \in Fd \cup {None},
         running = t, Suspend(t, c, f),
         \/ /\ timed' = timed \cup {t} /\ due \subseteq due' \cup {t}
            /\ t \in due' \/ t \notin cancelled
         \/ timed' = timed /\ due' = due /\ c = "holding" /\ t \notin cancelled
  PROVE  Placed'
<1>1. /\ cache' = cache /\ cancelled' = cancelled /\ running' = None
      /\ at' = [at EXCEPT ![t] = c] /\ t \notin timed
  BY DEF Suspend, Base, ListIsLive
<1>2. UnlistedIsDue'
  BY <1>1 DEF Placed, UnlistedIsDue
<1>3. CancelReaches'
  BY <1>1 DEF Placed, CancelReaches
<1>4. NoLostTask'
  BY <1>1 DEF Placed, NoLostTask, Base, TypeOK
<1> QED BY <1>2, <1>3, <1>4 DEF Placed

LEMMA PlacedCreate ==
  ASSUME Base, Placed, NEW t \in Task, Run(t) \/ RunLoop(t) \/ RunDelay(t)
  PROVE  Placed'
<1>1. /\ t \notin cache /\ cache' = cache \cup {t} /\ timed' = timed \cup {t}
      /\ at' = [at EXCEPT ![t] = "start"] /\ UNCHANGED <<cancelled, running>>
  BY DEF Run, RunLoop, RunDelay, Create
<1>2. due \subseteq due' \cup {t}
  BY FireType DEF Run, RunLoop, RunDelay, Base
<1>3. UnlistedIsDue'
  BY <1>1, <1>2 DEF Placed, UnlistedIsDue
<1>4. CancelReaches'
  BY <1>1, <1>2 DEF Placed, CancelReaches, Base, TypeOK
<1>5. NoLostTask'
  BY <1>1 DEF Placed, NoLostTask, Base, TypeOK
<1> QED BY <1>3, <1>4, <1>5 DEF Placed

LEMMA PlacedYield ==
  ASSUME Base, Placed, NEW t \in Task, Yield(t)
  PROVE  Placed'
<1>1. due' = due \cup {t}
  BY FireNowDue DEF Yield
<1> QED BY <1>1, PlacedSuspend DEF Yield, Call

LEMMA PlacedHold ==
  ASSUME Base, Placed, NEW t \in Task, HoldTask(t)
  PROVE  Placed'
<1>1. CASE Refuse(t)
  BY <1>1, PlacedRefuse
<1>2. CASE ~Refuse(t)
  <2>1. /\ running = t /\ t \notin cancelled /\ Suspend(t, "holding", None)
        /\ due' = due /\ timed' = timed
    BY <1>2 DEF HoldTask, MayWait, timeVars, listVars, fdVars
  <2> QED BY <2>1, PlacedSuspend DEF Call
<1> QED BY <1>1, <1>2

LEMMA PlacedTimed ==
  ASSUME Base, Placed, NEW t \in Task, NEW f, NEW e,
         HoldTaskFor(t) \/ (f \in Fd /\ e \in Event /\ WaitFor(t, f, e))
  PROVE  Placed'
<1>1. CASE Refuse(t)
  BY <1>1, PlacedRefuse
<1>2. CASE ~Refuse(t)
  <2>1. /\ running = t /\ t \notin cancelled /\ FireLater(t)
        /\ \/ Suspend(t, "holding_until", None)
           \/ f \in Fd /\ e \in Event /\ Suspend(t, e, f)
        /\ timed' = timed \cup {t}
    BY <1>2 DEF HoldTaskFor, WaitFor, MayWait
  <2>2. due \subseteq due' \cup {t}
    BY <2>1, FireType DEF Base
  <2> QED BY <2>1, <2>2, PlacedSuspend DEF Call
<1> QED BY <1>1, <1>2

LEMMA PlacedWakeup ==
  ASSUME Base, Placed, NEW w \in Task, NEW s \in Signal, WakeupTask(w, s)
  PROVE  Placed'
<1>1. /\ w \in cache /\ Rouse(w, s)
      /\ UNCHANGED <<cache, cancelled, at, running>>
  BY DEF WakeupTask, Wakeable
<1>2. timed' = timed \cup {w} /\ due \subseteq due'
  BY <1>1, RouseType
<1> QED BY <1>1, <1>2 DEF Placed, UnlistedIsDue, CancelReaches, NoLostTask

LEMMA PlacedCancel ==
  ASSUME Base, Placed, NEW w \in Task, CancelBody(w)
  PROVE  Placed'
<1>1. /\ w \in cache /\ cancelled' = cancelled \cup {w} /\ due \subseteq due'
      /\ timed' = IF w = running THEN timed ELSE timed \cup {w}
      /\ w \in timed => w \in due' \/ w = running
      /\ UNCHANGED <<cache, at, running>>
  BY CancelType
<1>2. UnlistedIsDue'
  BY <1>1 DEF Placed, UnlistedIsDue
<1>3. CancelReaches'
  BY <1>1 DEF Placed, CancelReaches, UnlistedIsDue
<1>4. NoLostTask'
  BY <1>1 DEF Placed, NoLostTask
<1> QED BY <1>2, <1>3, <1>4 DEF Placed

LEMMA PlacedLeave ==
  ASSUME Base, Placed, NEW t \in Task, Repeat(t) \/ Stop(t)
  PROVE  Placed'
<1>1. CASE Repeat(t)
  <2>1. /\ running = t /\ t \notin cancelled /\ running' = None
        /\ timed' = timed \cup {t} /\ at' = [at EXCEPT ![t] = "start"]
        /\ UNCHANGED <<cache, cancelled>>
    BY <1>1 DEF Repeat
  <2>2. due \subseteq due' \cup {t}
    BY <1>1, FireType DEF Repeat, Base
  <2> QED BY <2>1, <2>2 DEF Placed, UnlistedIsDue, CancelReaches, NoLostTask, Base, TypeOK
<1>2. CASE Stop(t)
  <2>1. /\ running = t /\ running' = None /\ timed' = timed /\ due' = due \ {t}
        /\ at' = [at EXCEPT ![t] = "start"]
        /\ cache' = cache \ {t} /\ cancelled' = cancelled \ {t}
    BY <1>2 DEF Stop, FireNever, listVars, fdVars
  <2> QED BY <2>1 DEF Placed, UnlistedIsDue, CancelReaches, NoLostTask, Base, TypeOK
<1> QED BY <1>1, <1>2

LEMMA PlacedDispatch ==
  ASSUME Base, Placed, NEW t \in Task, Dispatch(t)
  PROVE  Placed'
<1>1. /\ t \in timed /\ t \in due /\ running = None /\ running' = t
      /\ timed' = timed \ {t} /\ UNCHANGED <<cache, cancelled, at, due>>
  BY DEF Dispatch, AtCheck, Pending, timeVars
<1> QED BY <1>1, NoneAssumption DEF Placed, UnlistedIsDue, CancelReaches, NoLostTask, Base, TypeOK

LEMMA PlacedDeliver ==
  ASSUME Base, Placed, NEW t \in Task, Deliver(t)
  PROVE  Placed'
<1>1. timed' = timed \cup {t} /\ UNCHANGED <<cache, cancelled, at, running>>
  BY DEF Deliver, Reinsert
<1>2. due' = due \cup {t}
  BY FireNowDue DEF Deliver
<1> QED BY <1>1, <1>2 DEF Placed, UnlistedIsDue, CancelReaches, NoLostTask

\* Neither a phase of main nor an event moves a task; the clock makes one due.
LEMMA PlacedElse ==
  ASSUME Placed,
         \/ Exit \/ MainStart \/ MainReturn \/ CancelAll \/ EnterWait
         \/ WaitReturn \/ AtexitReturn \/ Tick \/ UNCHANGED vars
         \/ \E f \in Fd : FdError(f) \/ \E e \in Event : FdEvent(f, e)
  PROVE  Placed'
<1>1. UNCHANGED <<cache, cancelled, at, timed, running>> /\ due \subseteq due'
  BY DEF Exit, MainStart, MainReturn, CancelAll, EnterWait, WaitReturn, AtexitReturn,
     Tick, FdError, FdEvent, vars, taskVars, timeVars, listVars, fdVars
<1> QED BY <1>1 DEF Placed, UnlistedIsDue, CancelReaches, NoLostTask

LEMMA PlacedInit == Init => Placed
BY DEF Init, Placed, UnlistedIsDue, CancelReaches, NoLostTask

LEMMA PlacedStep == Base /\ Placed /\ [Next]_vars => Placed'
<1> SUFFICES ASSUME Base, Placed, [Next]_vars PROVE Placed'
  OBVIOUS
<1>1. ASSUME NEW t \in Task, Calls(t) PROVE Placed'
  <2>1. ASSUME NEW s \in Signal, WakeupTask(t, s) PROVE Placed'
    BY <2>1, PlacedWakeup
  <2>2. ASSUME NEW f \in Fd, NEW e \in Event, WaitFor(t, f, e) PROVE Placed'
    BY <2>2, PlacedTimed
  <2>3. ASSUME Cancel(t) PROVE Placed'
    BY <2>3, PlacedCancel DEF Cancel
  <2>4. ASSUME HoldTaskFor(t) PROVE Placed'
    BY <2>4, PlacedTimed
  <2> QED
    BY <1>1, <2>1, <2>2, <2>3, <2>4, PlacedCreate, PlacedYield, PlacedHold,
       PlacedLeave DEF Calls
<1>2. ASSUME NEW t \in Task, Dispatch(t) \/ CancelEach(t) \/ Deliver(t) PROVE Placed'
  BY <1>2, PlacedDispatch, PlacedCancel, PlacedDeliver DEF CancelEach
<1> QED BY <1>1, <1>2, PlacedElse DEF Next, Main

LEMMA Inductive == Spec => [](Base /\ Placed)
BY BaseInit, BaseStep, PlacedInit, PlacedStep, PTL DEF Spec

\* No task is lost: what exists runs, is listed, or is held by its own call.
THEOREM NothingLost == Spec => []NoLostTask
<1>1. Base /\ Placed => NoLostTask
  BY DEF Placed
<1> QED BY <1>1, Inductive, PTL

\* The fire time of a task that is held has passed, so that a wakeup or a cancellation,
\* which inserts it with the fire time it last had, makes it due at once.
THEOREM UnlistedAreDue == Spec => []UnlistedIsDue
<1>1. Base /\ Placed => UnlistedIsDue
  BY DEF Placed
<1> QED BY <1>1, Inductive, PTL

\* A cancelled task that is not running is listed and due.
THEOREM CancelAlwaysReaches == Spec => []CancelReaches
<1>1. Base /\ Placed => CancelReaches
  BY DEF Placed
<1> QED BY <1>1, Inductive, PTL

----------------------------------------------------------------------------
(* The loop implements the abstract cooperative scheduler.                 *)

\* A step that changes the state of t alone is an assignment to its st.
LEMMA OneMoves ==
  ASSUME NEW t \in Task, NEW x, StateOf(t)' = x,
         \A u \in Task \ {t} : StateOf(u)' = StateOf(u)
  PROVE  Coop!Becomes(t, x)
BY DEF Coop!Becomes, TaskStates

\* What happens to the fire time and the place of t does not change the state of
\* the others.
LEMMA OthersStay ==
  ASSUME Base, NEW t \in Task, cache \cup {t} = cache' \cup {t},
         timed \cup {t} = timed' \cup {t}, due \cup {t} = due' \cup {t},
         {running, running'} \subseteq {t, None} \/ running' = running
  PROVE  \A u \in Task \ {t} : StateOf(u)' = StateOf(u)
BY NoneAssumption DEF StateOf

LEMMA CoopCreate ==
  ASSUME Base, NEW t \in Task, Run(t) \/ RunLoop(t) \/ RunDelay(t)
  PROVE  Coop!Spawn(t)
<1>1. /\ t \notin cache /\ cache' = cache \cup {t} /\ timed' = timed \cup {t}
      /\ UNCHANGED <<cancelled, running>>
  BY DEF Run, RunLoop, RunDelay, Create
<1>2. due \cup {t} = due' \cup {t}
  BY FireType DEF Run, RunLoop, RunDelay, Base
<1>3. t # running /\ StateOf(t) = "absent" /\ StateOf(t)' \in {"ready", "blocked"}
  BY <1>1, NoneAssumption DEF StateOf, Base, TypeOK
<1> QED BY <1>1, <1>2, <1>3, OthersStay, OneMoves DEF Coop!Spawn, TaskStates

\* The running task leaves, ready or blocked; not blocked if it is cancelled.
LEMMA CoopGiveUp ==
  ASSUME Base, NEW t \in Task, running = t, running' = None,
         UNCHANGED <<cache, cancelled>>, timed' \in {timed, timed \cup {t}},
         due \cup {t} = due' \cup {t},
         t \notin cancelled \/ t \in timed' \cap due'
  PROVE  Coop!GiveUp(t)
<1>1. t \in cache /\ t # None
  BY NoneAssumption DEF Base, TypeOK
<1>2. StateOf(t) = "running"
  BY DEF StateOf
<1>3. \/ StateOf(t)' = "ready"
      \/ StateOf(t)' = "blocked" /\ t \notin cancelled
  BY <1>1 DEF StateOf
<1>4. \A u \in Task \ {t} : StateOf(u)' = StateOf(u)
  BY OthersStay
<1> QED BY <1>2, <1>3, <1>4, OneMoves DEF Coop!GiveUp, TaskStates

\* A task that is listed to fire now wakes, or was ready already.
LEMMA CoopWake ==
  ASSUME Base, NEW t \in cache, t # running, UNCHANGED <<cache, cancelled, running>>,
         timed' = timed \cup {t}, t \in due', due \cup {t} = due' \cup {t}
  PROVE  Coop!Wake(t) \/ UNCHANGED <<TaskStates, cancelled>>
<1>1. t \in Task
  BY DEF Base, TypeOK
<1>2. \A u \in Task \ {t} : StateOf(u)' = StateOf(u)
  BY <1>1, OthersStay
<1>3. StateOf(t) \in {"ready", "blocked"} /\ StateOf(t)' = "ready"
  BY DEF StateOf
<1>4. CASE StateOf(t) = "blocked"
  BY <1>1, <1>2, <1>3, <1>4, OneMoves DEF Coop!Wake, TaskStates
<1>5. CASE StateOf(t) = "ready"
  BY <1>1, <1>2, <1>3, <1>5 DEF TaskStates
<1> QED BY <1>3, <1>4, <1>5

LEMMA CoopLeave ==
  ASSUME Base, Placed, NEW t \in Task, NEW f, NEW e,
         \/ Yield(t) \/ HoldTask(t) \/ HoldTaskFor(t) \/ Repeat(t)
         \/ f \in Fd /\ e \in Event /\ WaitFor(t, f, e),
         ~Refuse(t)
  PROVE  Coop!GiveUp(t)
<1>1. CASE Yield(t)
  <2>1. /\ running = t /\ running' = None /\ UNCHANGED <<cache, cancelled>>
        /\ timed' = timed \cup {t} /\ FireNow(t)
    BY <1>1 DEF Yield, Suspend
  <2> QED BY <2>1, FireNowDue, CoopGiveUp
<1>2. CASE HoldTask(t)
  <2>1. /\ running = t /\ running' = None /\ UNCHANGED <<cache, cancelled>>
        /\ timed' = timed /\ due' = due /\ t \notin cancelled
    BY <1>2 DEF HoldTask, MayWait, Suspend, timeVars, listVars, fdVars
  <2> QED BY <2>1, CoopGiveUp
<1>3. CASE HoldTaskFor(t) \/ (f \in Fd /\ e \in Event /\ WaitFor(t, f, e))
  <2>1. /\ running = t /\ running' = None /\ UNCHANGED <<cache, cancelled>>
        /\ timed' = timed \cup {t} /\ FireLater(t) /\ t \notin cancelled
    BY <1>3 DEF HoldTaskFor, WaitFor, MayWait, Suspend
  <2>2. due \cup {t} = due' \cup {t}
    BY <2>1, FireType DEF Base
  <2> QED BY <2>1, <2>2, CoopGiveUp
<1>4. CASE Repeat(t)
  <2>1. /\ running = t /\ running' = None /\ UNCHANGED <<cache, cancelled>>
        /\ timed' = timed \cup {t} /\ FireAgain(t) /\ t \notin cancelled
    BY <1>4 DEF Repeat
  <2>2. due \cup {t} = due' \cup {t}
    BY <2>1, FireType DEF Base
  <2> QED BY <2>1, <2>2, CoopGiveUp
<1> QED BY <1>1, <1>2, <1>3, <1>4

LEMMA CoopStop ==
  ASSUME Base, NEW t \in Task, Stop(t)
  PROVE  Coop!Finish(t)
<1>1. /\ running = t /\ running' = None /\ timed' = timed /\ due' = due \ {t}
      /\ cache' = cache \ {t} /\ cancelled' = cancelled \ {t} /\ t \in cache
  BY NoneAssumption DEF Stop, FireNever, listVars, fdVars, Base, TypeOK
<1>2. StateOf(t) = "running" /\ StateOf(t)' = "absent"
  BY <1>1, NoneAssumption DEF StateOf
<1>3. \A u \in Task \ {t} : StateOf(u)' = StateOf(u)
  BY <1>1, OthersStay
<1> QED BY <1>1, <1>2, <1>3, OneMoves DEF Coop!Finish, TaskStates

LEMMA CoopWakeup ==
  ASSUME Base, Placed, NEW w \in Task, NEW s \in Signal, WakeupTask(w, s)
  PROVE  Coop!Wake(w) \/ UNCHANGED <<TaskStates, cancelled>>
<1>1. /\ w \in cache /\ w # running /\ Rouse(w, s)
      /\ UNCHANGED <<cache, cancelled, running>>
  BY DEF WakeupTask, Wakeable
<1>2. /\ timed' = timed \cup {w} /\ due \subseteq due' /\ due \cup {w} = due' \cup {w}
      /\ w \in timed => w \in due'
  BY <1>1, RouseType
<1>3. w \in due'
  BY <1>1, <1>2 DEF Placed, UnlistedIsDue
<1> QED BY <1>1, <1>2, <1>3, CoopWake

LEMMA CoopCancel ==
  ASSUME Base, Placed, NEW w \in Task, CancelBody(w)
  PROVE  Coop!Doom(w)
<1>1. /\ w \in cache /\ cancelled' = cancelled \cup {w}
      /\ due \subseteq due' /\ due \cup {w} = due' \cup {w}
      /\ timed' = IF w = running THEN timed ELSE timed \cup {w}
      /\ w \in timed => w \in due' \/ w = running
      /\ UNCHANGED <<cache, running>>
  BY CancelType
<1>2. \A u \in Task \ {w} : StateOf(u)' = StateOf(u)
  BY <1>1, OthersStay
<1>3. CASE w = running
  <2>1. StateOf(w) = "running" /\ StateOf(w)' = "running"
    BY <1>1, <1>3 DEF StateOf
  <2> QED BY <1>1, <1>2, <2>1, OneMoves DEF Coop!Doom, TaskStates
<1>4. CASE w # running
  <2>1. w \in timed' /\ w \in due'
    BY <1>1, <1>4 DEF Placed, UnlistedIsDue
  <2>2. StateOf(w) \in {"ready", "blocked"} /\ StateOf(w)' = "ready"
    BY <1>1, <1>4, <2>1 DEF StateOf
  <2> QED BY <1>1, <1>2, <2>2, OneMoves DEF Coop!Doom, TaskStates
<1> QED BY <1>3, <1>4

LEMMA CoopDispatch ==
  ASSUME Base, NEW t \in Task, Dispatch(t)
  PROVE  Coop!Pick(t)
<1>1. /\ t \in timed \cap due /\ running = None /\ running' = t
      /\ timed' = timed \ {t} /\ UNCHANGED <<cache, cancelled, due>>
  BY DEF Dispatch, AtCheck, Pending, timeVars
<1>2. \A u \in Task : StateOf(u) # "running"
  BY <1>1, NoneAssumption DEF StateOf
<1>3. StateOf(t) = "ready" /\ StateOf(t)' = "running"
  BY <1>1, NoneAssumption DEF StateOf, Base, TypeOK
<1>4. \A u \in Task \ {t} : StateOf(u)' = StateOf(u)
  BY <1>1, OthersStay
<1> QED BY <1>1, <1>2, <1>3, <1>4, OneMoves DEF Coop!Pick, TaskStates

LEMMA CoopDeliver ==
  ASSUME Base, NEW t \in Task, Deliver(t)
  PROVE  Coop!Wake(t) \/ UNCHANGED <<TaskStates, cancelled>>
<1>1. /\ t \in cache /\ timed' = timed \cup {t}
      /\ UNCHANGED <<cache, cancelled, running>>
  BY DEF Deliver, Reinsert, Base, TypeOK
<1>2. t # running
  <2>1. todo # {}
    BY DEF Deliver
  <2> QED BY <1>1, <2>1, NoneAssumption DEF Base, TypeOK, PhaseOK
<1>3. due' = due \cup {t}
  BY FireNowDue DEF Deliver
<1> QED BY <1>1, <1>2, <1>3, CoopWake

LEMMA CoopTick ==
  ASSUME Base, Placed, Tick
  PROVE  \E t \in Task :
           Coop!Wake(t) \/ UNCHANGED <<TaskStates, cancelled>>
<1>1. UNCHANGED <<cache, cancelled, running, timed>>
  BY DEF Tick, taskVars, listVars, fdVars
<1>2. PICK t \in cache \ due : due' = due \cup {t}
  BY DEF Tick
<1>3. t \in timed /\ t # running /\ t \in Task
  BY <1>2 DEF Placed, UnlistedIsDue, Base, ListIsLive, TypeOK
<1> QED BY <1>1, <1>2, <1>3, CoopWake

LEMMA CoopElse ==
  ASSUME \/ Exit \/ MainStart \/ MainReturn \/ CancelAll \/ EnterWait
         \/ WaitReturn \/ AtexitReturn \/ UNCHANGED vars
         \/ \E f \in Fd : FdError(f) \/ \E e \in Event : FdEvent(f, e)
         \/ \E t \in Task : Refuse(t)
  PROVE  UNCHANGED <<TaskStates, cancelled>>
<1>1. UNCHANGED <<cache, cancelled, timed, due, running>>
  BY DEF Exit, MainStart, MainReturn, CancelAll, EnterWait, WaitReturn, AtexitReturn,
     Refuse, FdError, FdEvent, vars, taskVars, timeVars, listVars, fdVars, loopVars
<1> QED BY <1>1 DEF TaskStates, StateOf

LEMMA CoopInit == Init => Coop!Init
BY NoneAssumption DEF Init, Coop!Init, TaskStates, StateOf

LEMMA CoopStep ==
  Base /\ Placed /\ [Next]_vars
    => [Coop!Next]_<<TaskStates, cancelled>>
<1> SUFFICES ASSUME Base, Placed, [Next]_vars
             PROVE  Coop!Next \/ UNCHANGED <<TaskStates, cancelled>>
  OBVIOUS
<1>1. ASSUME NEW t \in Task, Calls(t)
      PROVE  Coop!Next \/ UNCHANGED <<TaskStates, cancelled>>
  <2>1. CASE Run(t) \/ RunLoop(t) \/ RunDelay(t)
    BY <2>1, CoopCreate DEF Coop!Next
  <2>2. CASE Refuse(t)
    BY <2>2, CoopElse
  <2>3. CASE ~Refuse(t) /\ (Yield(t) \/ HoldTask(t) \/ HoldTaskFor(t) \/ Repeat(t))
    BY <2>3, CoopLeave DEF Coop!Next
  <2>4. CASE ~Refuse(t) /\ \E f \in Fd, e \in Event : WaitFor(t, f, e)
    BY <2>4, CoopLeave DEF Coop!Next
  <2>5. CASE \E s \in Signal : WakeupTask(t, s)
    BY <2>5, CoopWakeup DEF Coop!Next
  <2>6. CASE Cancel(t)
    BY <2>6, CoopCancel DEF Cancel, Coop!Next
  <2>7. CASE Stop(t)
    BY <2>7, CoopStop DEF Coop!Next
  <2> QED BY <1>1, <2>1, <2>2, <2>3, <2>4, <2>5, <2>6, <2>7 DEF Calls
<1>2. ASSUME NEW t \in Task, Dispatch(t) \/ CancelEach(t) \/ Deliver(t)
      PROVE  Coop!Next \/ UNCHANGED <<TaskStates, cancelled>>
  BY <1>2, CoopDispatch, CoopCancel, CoopDeliver DEF CancelEach, Coop!Next
<1>3. CASE Tick
  BY <1>3, CoopTick DEF Coop!Next
<1> QED BY <1>1, <1>2, <1>3, CoopElse DEF Next, Main

\* loopimpl, with its list, clock and descriptors, is a cooperative scheduler:
\* one task runs at a time, only due tasks are picked, none loses its turn, and
\* a cancelled task never blocks.
THEOREM Implements == Spec => CoopSpec
<1>1. Init => Coop!Init
  BY CoopInit
<1>2. Base /\ Placed /\ [Next]_vars
        => [Coop!Next]_<<TaskStates, cancelled>>
  BY CoopStep
<1> QED BY <1>1, <1>2, Inductive, PTL DEF Spec, CoopSpec, Coop!Spec

----------------------------------------------------------------------------
(* Instances whose workers wait for descriptors only to read.  With a      *)
(* writer the three properties fail: the runs sched_write and sched_duplex.*)

Readers ==
  /\ \A r \in fds : r.ev = "read" /\ r.tid \in hooked /\ on[r.tid] = r.fd
  /\ \A t \in hooked : at[t] = "read" /\ on[t] \in Fd
  /\ CoreOpen => \A t \in hooked : "read" \in armed[on[t]]
  /\ \A n \in todo : /\ at[n.tid] = "read" /\ "read" \in n.evs /\ on[n.tid] = n.fd
                     /\ \A r \in fds : r.tid # n.tid
  /\ doubles = {}
  /\ loop = "out" => hooked = {}

\* A task that is not in the list has no handler and no entry, so a call of it
\* that waits for no descriptor leaves nothing to be wrong.
LEMMA ReadersOther ==
  ASSUME Base, Readers, NEW t, t \notin timed, \A n \in todo : n.tid # t,
         \A u \in Task \ {t} : at'[u] = at[u] /\ on'[u] = on[u],
         UNCHANGED <<hooked, fds, doubles, armed, active, todo>>,
         loop' = loop \/ (loop' # "out" /\ loop # "out")
  PROVE  Readers'
BY DEF Readers, Base, TypeOK, CoreOpen

LEMMA ReadersCalls ==
  ASSUME Base, Readers, NEW t \in Task,
         \/ Run(t) \/ RunLoop(t) \/ RunDelay(t) \/ Refuse(t)
         \/ Yield(t) \/ (~Refuse(t) /\ (HoldTask(t) \/ HoldTaskFor(t)))
         \/ Repeat(t) \/ Stop(t)
  PROVE  Readers'
<1>1. CASE Run(t) \/ RunLoop(t) \/ RunDelay(t)
  <2>1. Create(t)
    BY <1>1 DEF Run, RunLoop, RunDelay
  <2>2. t \notin timed /\ \A n \in todo : n.tid # t
    BY <2>1 DEF Create, Base, TypeOK
  <2>3. \A u \in Task \ {t} : at'[u] = at[u] /\ on'[u] = on[u]
    BY <2>1 DEF Create, Base, TypeOK
  <2> QED BY <2>1, <2>2, <2>3, ReadersOther DEF Create, loopVars, fdVars
<1>2. CASE Refuse(t)
  BY <1>2 DEF Refuse, Readers, CoreOpen, listVars, fdVars, loopVars
<1>3. CASE \/ Yield(t) \/ (~Refuse(t) /\ (HoldTask(t) \/ HoldTaskFor(t)))
           \/ Repeat(t) \/ Stop(t)
  <2>1. /\ running = t
        /\ \/ \E c \in Call : Suspend(t, c, None)
           \/ Repeat(t) \/ Stop(t)
        /\ UNCHANGED <<hooked, fds, doubles, armed>>
    BY <1>3 DEF Yield, HoldTask, HoldTaskFor, Call, Repeat, Stop, listVars, fdVars, loopVars
  <2>2. t \notin timed /\ todo = {} /\ loop = "inner"
    BY <2>1, NoneAssumption DEF Base, ListIsLive, PhaseOK
  <2>3. \A u \in Task \ {t} : at'[u] = at[u] /\ on'[u] = on[u]
    BY <2>1 DEF Suspend, Repeat, Stop, Base, TypeOK
  <2>4. UNCHANGED <<active, todo>> /\ (loop' = loop \/ loop' = "atexit")
    BY <2>1 DEF Suspend, Repeat, Stop, loopVars
  <2> QED BY <2>1, <2>2, <2>3, <2>4, ReadersOther
<1> QED BY <1>1, <1>2, <1>3

LEMMA ReadersWait ==
  ASSUME Base, Readers, NEW t \in Task, NEW f \in Fd, WaitFor(t, f, "read"), ~Refuse(t)
  PROVE  Readers'
<1>1. /\ running = t /\ Suspend(t, "read", f) /\ AddEvent(f, "read")
      /\ hooked' = hooked \cup {t}
      /\ fds' = fds \cup {[fd |-> f, ev |-> "read", tid |-> t]}
      /\ doubles' = doubles \cup (fds \cap {[fd |-> f, ev |-> "read", tid |-> t]})
  BY DEF WaitFor, Enter
<1>2. t \notin hooked /\ todo = {} /\ loop = "inner"
  BY <1>1, NoneAssumption DEF Base, TypeOK, ListIsLive, PhaseOK
<1>3. /\ at'[t] = "read" /\ on'[t] = f
      /\ \A u \in Task \ {t} : at'[u] = at[u] /\ on'[u] = on[u]
      /\ UNCHANGED <<active, loop, todo>>
  BY <1>1 DEF Suspend, Base, TypeOK
<1>4. hooked \subseteq Task
  BY DEF Base, TypeOK
<1>5. \A g \in Fd : armed'[g] = IF CoreOpen /\ g = f THEN {"read"} ELSE armed[g]
  BY <1>1 DEF AddEvent, Base, TypeOK
<1>6. \A r \in fds' : r.ev = "read" /\ r.tid \in hooked' /\ on'[r.tid] = r.fd
  BY <1>1, <1>2, <1>3, <1>4 DEF Readers
<1>7. \A u \in hooked' : at'[u] = "read" /\ on'[u] \in Fd
  BY <1>1, <1>2, <1>3, <1>4 DEF Readers
<1>8. CoreOpen' => \A u \in hooked' : "read" \in armed'[on'[u]]
  BY <1>1, <1>2, <1>3, <1>4, <1>5 DEF Readers, CoreOpen
<1>9. doubles' = {}
  <2>1. \A r \in fds : r.tid # t
    BY <1>2 DEF Readers
  <2> QED BY <1>1, <2>1 DEF Readers
<1> QED BY <1>2, <1>3, <1>6, <1>7, <1>8, <1>9 DEF Readers

LEMMA ReadersWake ==
  ASSUME Base, Readers, NEW w \in Task, NEW s \in Signal,
         WakeupTask(w, s) \/ Cancel(w) \/ CancelEach(w)
  PROVE  Readers'
<1>1. CASE WakeupTask(w, s)
  <2>1. UNCHANGED <<hooked, fds, doubles, at, on, armed, active, loop, todo>>
    BY <1>1, RouseType DEF WakeupTask, Wakeable, loopVars
  <2> QED BY <2>1 DEF Readers, CoreOpen
<1>2. CASE Cancel(w) \/ CancelEach(w)
  <2>1. CancelBody(w)
    BY <1>2 DEF Cancel, CancelEach
  <2>2. loop' = loop \/ (loop = "cancel" /\ loop' \in {"inner", "cancel"})
    BY <1>2 DEF Cancel, CancelEach
  <2>3. UNCHANGED <<hooked, fds, doubles, at, on, armed, active, todo>>
    BY <2>1, CancelType
  <2> QED BY <2>2, <2>3 DEF Readers, CoreOpen
<1> QED BY <1>1, <1>2

LEMMA ReadersDispatch ==
  ASSUME Base, Readers, NEW t \in Task, Dispatch(t)
  PROVE  Readers'
<1>1. /\ loop = "inner" /\ hooked' = hooked \ {t} /\ armed' = armed
      /\ UNCHANGED <<at, on, active, loop, todo>>
  BY DEF Dispatch, AtCheck, OnTime, DelEvent
<1>2. todo = {}
  BY <1>1 DEF Base, PhaseOK
<1>3. fds' \subseteq fds /\ doubles' = {} /\ \A r \in fds' : r.tid # t
  <2>1. CASE t \in hooked
    <3>1. fds' = fds \ {[fd |-> on[t], ev |-> "read", tid |-> t]} /\ doubles' = {}
      BY <2>1 DEF Dispatch, OnTime, Forget, Readers
    <3>2. \A r \in fds : r.tid = t => r = [fd |-> on[t], ev |-> "read", tid |-> t]
      BY DEF Readers, Base, TypeOK, FdItem
    <3> QED BY <3>1, <3>2
  <2>2. CASE t \notin hooked
    BY <2>2 DEF Dispatch, Readers, fdVars
  <2> QED BY <2>1, <2>2
<1> QED BY <1>1, <1>2, <1>3 DEF Readers, CoreOpen

LEMMA ReadersDeliver ==
  ASSUME Base, Readers, NEW t \in Task, Deliver(t)
  PROVE  Readers'
<1>1. /\ loop \in {"event", "error"} /\ loop' # "out" /\ hooked' = hooked \ {t}
      /\ UNCHANGED <<at, on, fds, doubles, armed, active>>
  BY DEF Deliver, Reinsert, Base, PhaseOK, fdVars
<1>2. PICK n \in todo : n.tid = t /\ todo' = todo \ {n}
  BY DEF Deliver
<1>3. \A r \in fds : r.tid # t
  BY <1>2 DEF Readers
<1> QED BY <1>1, <1>2, <1>3 DEF Readers, CoreOpen

LEMMA ReadersEvent ==
  ASSUME Base, Readers, NEW f \in Fd, FdError(f) \/ \E e \in Event : FdEvent(f, e)
  PROVE  Readers'
<1>1. /\ loop = "wait" /\ loop' # "out" /\ fds' \subseteq fds /\ doubles' = {}
      /\ UNCHANGED <<at, on, hooked, armed, active>>
  BY DEF FdError, FdEvent, taskVars, Forget, Readers
<1>2. \A r \in fds : r.tid \in cache /\ r.ev = "read" /\ on[r.tid] = r.fd
  BY DEF Readers, Base, TypeOK
<1>3. PICK E \in SUBSET Event :
        /\ Notify(f, E)
        /\ \A r \in fds : r.fd = f /\ r.ev \in E => r \notin fds'
  <2>1. CASE FdError(f)
    BY <2>1 DEF FdError, Forget
  <2>2. CASE \E e \in Event : FdEvent(f, e)
    BY <1>2, <2>2 DEF FdEvent, Forget
  <2> QED BY <2>1, <2>2
<1>4. ASSUME NEW n \in todo'
      PROVE  /\ at[n.tid] = "read" /\ "read" \in n.evs /\ on[n.tid] = n.fd
             /\ \A r \in fds' : r.tid # n.tid
  <2>1. n.tid \in Waiters(f, E) /\ n.fd = f /\ n.evs = E
    BY <1>3 DEF Notify
  <2>2. PICK e \in E : [fd |-> f, ev |-> e, tid |-> n.tid] \in fds
    BY <2>1 DEF Waiters
  <2>3. e = "read" /\ on[n.tid] = f /\ at[n.tid] = "read"
    BY <1>2, <2>2 DEF Readers
  <2>4. \A r \in fds' : r.tid # n.tid
    BY <1>1, <1>2, <1>3, <2>2, <2>3
  <2> QED BY <2>1, <2>2, <2>3, <2>4
<1> QED BY <1>1, <1>4 DEF Readers, CoreOpen

LEMMA ReadersPhase ==
  ASSUME Base, Readers,
         \/ Exit \/ MainStart \/ MainReturn \/ CancelAll \/ EnterWait
         \/ WaitReturn \/ AtexitReturn \/ Tick \/ UNCHANGED vars
  PROVE  Readers'
<1>1. UNCHANGED <<hooked, fds, doubles, at, on, todo>>
  BY DEF Exit, MainStart, MainReturn, CancelAll, EnterWait, WaitReturn, AtexitReturn,
     Tick, vars, taskVars, listVars, fdVars, loopVars
<1>2. CASE Exit
  BY <1>1, <1>2 DEF Exit, Readers, CoreOpen
<1>3. CASE MainStart
  BY <1>1, <1>3 DEF MainStart, Readers
<1>4. CASE MainReturn
  <2>1. hooked = {} /\ loop' = "out"
    BY <1>4 DEF MainReturn, Base, TypeOK
  <2> QED BY <1>1, <2>1 DEF Readers, CoreOpen
<1>5. CASE \/ CancelAll \/ EnterWait \/ WaitReturn \/ AtexitReturn \/ Tick
           \/ UNCHANGED vars
  <2>1. UNCHANGED <<armed, active>> /\ (loop' = loop \/ (loop # "out" /\ loop' # "out"))
    BY <1>5 DEF CancelAll, EnterWait, WaitReturn, AtexitReturn, Tick, NothingDue, AtCheck,
       vars, loopVars
  <2> QED BY <1>1, <2>1 DEF Readers, CoreOpen
<1> QED BY <1>2, <1>3, <1>4, <1>5

LEMMA ReadersStep ==
  ASSUME "write" \notin Ops
  PROVE  Base /\ Readers /\ [Next]_vars => Readers'
<1> SUFFICES ASSUME Base, Readers, [Next]_vars PROVE Readers'
  OBVIOUS
<1>1. ASSUME NEW t \in Task, Calls(t) PROVE Readers'
  <2>1. CASE Refuse(t)
    BY <2>1, ReadersCalls
  <2>2. CASE ~Refuse(t) /\ \E f \in Fd, e \in Event : WaitFor(t, f, e)
    <3>1. PICK f \in Fd, e \in Event : WaitFor(t, f, e)
      BY <2>2
    <3>2. e = "read"
      BY <3>1 DEF WaitFor, Event
    <3> QED BY <2>2, <3>1, <3>2, ReadersWait
  <2>3. CASE \/ \E s \in Signal : WakeupTask(t, s)
             \/ Cancel(t)
    BY <2>3, ReadersWake DEF Signal
  <2> QED BY <1>1, <2>1, <2>2, <2>3, ReadersCalls DEF Calls
<1>2. ASSUME NEW t \in Task, Dispatch(t) \/ CancelEach(t) \/ Deliver(t) PROVE Readers'
  BY <1>2, ReadersDispatch, ReadersWake, ReadersDeliver DEF Signal
<1> QED BY <1>1, <1>2, ReadersEvent, ReadersPhase DEF Next, Main

LEMMA ReadersHold ==
  ASSUME "write" \notin Ops
  PROVE  Spec => [](Base /\ Readers)
<1>1. Init => Readers
  BY DEF Init, Readers
<1>2. Base /\ Readers /\ [Next]_vars => Readers'
  BY ReadersStep
<1> QED BY <1>1, <1>2, Inductive, PTL DEF Spec

\* In a program that only waits to read, no entry of the fd cache outlives the wait it
\* was made for: its task waits for that event with its timeout handler in the list.
THEOREM ReadersAreServed ==
  ASSUME "write" \notin Ops
  PROVE  Spec => []FdCoherent
<1>1. Readers => FdCoherent
  BY DEF Readers, FdCoherent
<1> QED BY <1>1, ReadersHold, PTL

\* In such a program, an event or an error of a descriptor reaches only tasks that wait
\* for that descriptor, and for an event that occurred.
THEOREM EventsAreForReaders ==
  ASSUME "write" \notin Ops
  PROVE  Spec => []EventsReachWaiters
<1>1. Base /\ Readers => EventsReachWaiters
  BY NoneAssumption DEF Base, TypeOK, PhaseOK, Readers, EventsReachWaiters, Event
<1> QED BY <1>1, ReadersHold, PTL

\* In such a program no error finds a task twice, so that FdError is every error and
\* what is proved above of the list holds without that condition.
THEOREM ErrorsNameOnce ==
  ASSUME "write" \notin Ops
  PROVE  Spec => [](\A f \in Fd : NamedOnce(f))
<1>1. Base /\ Readers => \A f \in Fd : NamedOnce(f)
  <2> SUFFICES ASSUME Base, Readers, NEW r \in fds, NEW s \in fds, r.fd = s.fd, r.tid = s.tid
               PROVE  r = s /\ r \notin doubles
    BY DEF NamedOnce
  <2>1. r \in FdItem /\ s \in FdItem /\ r.ev = s.ev /\ doubles = {}
    BY DEF Base, TypeOK, Readers
  <2> QED BY <2>1 DEF FdItem
<1> QED BY <1>1, ReadersHold, PTL

\* In such a program, whoever waits for a descriptor is registered with epoll.
THEOREM ReadersAreArmed ==
  ASSUME "write" \notin Ops
  PROVE  Spec => []WaitersAreArmed
<1>1. Readers => WaitersAreArmed
  BY DEF Readers, WaitersAreArmed
<1> QED BY <1>1, ReadersHold, PTL

=============================================================================
