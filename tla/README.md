# libpeco in TLA+

libpeco runs cooperative tasks on a loop per thread and builds timers, file
descriptor events, synchronisation, cross-thread injection, sockets and a redis
and a dns client on it. This directory specifies it in TLA+: modules translated
from the source, TLC runs over small instances, and theorems checked by TLAPS.

## 1. Inventory

| part | state it keeps | operations | what is hard in it | what makes it correct |
|---|---|---|---|---|
| `loopimpl` (`task/impl/loopimpl.cpp`) | `timed_list_`, `running_`, the event set | `main`, `exit`, `add_task`, `yield_task`, `hold_task`, `hold_task_for`, `wakeup_task`, `wait_for_reading`, `wait_for_writing`, `cancel` | every way out of a wait must put the task back once; a wait races its timeout, its event, a wakeup and a cancellation | no task is lost or entered twice; cancelling reaches every task; events reach only those that wait for them; due tasks run; `main` returns after `exit` |
| `basic_task` (`basictask.cpp`) | the thread's task cache, status, signal, cancelled, repeat count, next fire time, name, argument, flags | create, swap in and out, repeat, destroy with `atexit`, setters | ids are addresses of buffers that are used again | only live tasks are switched to; a handle reads what was set of its task |
| `tasklist` (`tasklist.cpp`) | `ordered_time_map_`, `fd_cache_map_` | `insert`, `fetch`, `replace_time`, `erase`, `search` | the comparator is no strict weak order, the key contains a field that changes, and `search_all` may name a task twice | one entry per listed task, in order of time; what is listed exists |
| `loopcore` (`task/linux`, `task/apple`) | epoll set and its cache of events; kqueue filters | `init`, `wait`, `add_*`, `del_*`, `stop` | two directions of one descriptor, or two tasks in one direction, share an entry | who waits is monitored |
| `stack_cache` | free buffers, a limit | fetch, release | reuse at once when the limit is zero | a buffer has one owner |
| `task`, `loop` (`task.cpp`, `loop.cpp`) | a task id | guards in front of `loopimpl` | stale handles | calls on dead tasks do nothing |
| `signal`, `semaphore` | the waiting ids, a count | wait, trigger, fetch, give, cancel | a waiter may be cancelled, time out or be woken before it has run again | no token is lost or made up; no one waits while a token is there |
| `taskqueue` | a semaphore, the pending workers, an inner task | append, insert, sync, destroy | the inner task outlives the queue; a caller of `sync` may be gone when its worker is done | workers run one at a time, in order, once |
| `shared::injector`, `shared::loop`, `shared::task` | pipes, the injecting task, a thread | `sync_inject`, `inject_wait`, `async_inject` | several threads; the answer may come after the question was given up, to a descriptor with a new owner; the loop ends with requests in its pipe | a request starts at most once, in order, never after it was refused; callers learn of it |
| `net`: streams (`adapter`, `tcp`, `uds`, `connect`, `dup`) | descriptors, `is_connected_`, `listened_` | bind, listen, accept, connect, read, write, `dup` | partial results, would-block, closing while a task waits, dialing again, several tasks that dial or listen | every byte once and in order; every connection to one slot; one owner of a descriptor |
| `net`: datagrams (`udp`) | the socket of the listener, `bind_slot_` | bind, listen in two modes, connect, packet write | the socket goes to a connector and is replaced | a connector reads its own peer; the listener stays at its address |
| `net`: addresses (`ip`, `peer`, `iprange`) | numbers | conversions, ranges | shifts by the width, byte order | a range has the addresses it names |
| `redis` client | `conn_`, `last_result_`, a queue, a keepalive and a subscription task | connect, query, subscribe, disconnect | four kinds of tasks share a connection and suspend in it; replies arrive in pieces | a query has its own reply; pieces parse as the whole does |
| `dns` | packet buffers | build, parse, resolve | pointers, truncation, aliases | the resolver returns what the server knows |
| containers (`lrucache`, `filternode`, `eventtrigger`, `depend`) | a list and an index, a tree, handlers, a graph | get, put, erase; trigger; order | re-entrant callbacks | list and index agree; every trigger hears every change |
| `argparser`, `filemgr` | parsers and arguments; none | parse; make, scan and remove | keys in both forms, twice; another process in the same tree | parsers get what was written; nothing outside is removed |
| `stringutil`, `hexdump`, `any`, `logs`, `sysinfo` | none that a protocol depends on | formatting, counters | bytes and digits at boundaries | conversions are undone by their inverses |

The parts interact by calls on one thread: a worker calls the facades, they call
`loopimpl`, and `swap_to_main` returns to `main`, which switches to the next due
task. Descriptor events and timeouts reach a task only through `main`. Whatever
is built on the loop (a query, a listener, a `dup`) is one or more workers that
suspend in these calls and share objects meanwhile. Between threads there is
nothing but the pipes of the injector. Every hazard of this code that a test
would hardly reach is listed in `PROJECT.json` at its line.

## 2. Modules

```
the loop        CoopTasks  <--implements--  Scheduler  <--  SchedulerProofs
                                ^ MCScheduler
                TimerQueue <--implements--  TaskList
                ^ with Kqueue, StackCache and TaskHandles in MCLibrary
on the loop     CoopTasks  <--runs on----  Sync  <--extends--  TaskQueue   (MCTaskQueue)
                                                   ^ TaskQueueProofs
services        Injector   Redis   Streams   Acceptors   Datagrams      (MCServices)
                ^ InjectorProofs  <--  ServicesProofs, of all five
sequential      RedisReply (also MCRedisReply)   RedisCommand   Dns   Addresses
                LruCache   FilterTree   EventTrigger   Depend
                ArgParser  Files   Strings   Sockets                    (MCLibrary)
                ^ PartsProofs, FilesProofs, SocketsProofs  <--  LibraryProofs
```

Four layers, each of which takes the one below as what its own modules show: a
service does not model lists and clocks again, but says that a suspended task
goes on when its event, its timeout or its cancellation has come, in any order,
which is what `CoopTasks` promises. `MCServices` and `MCLibrary` put the parts
of a layer side by side, with an initial choice of the part that runs (`part`);
parts have no state in common, so that such a run is the union of their state
spaces, and a conjunction of properties of several parts is checked in each.
`LibraryParts` declares the parts of `MCLibrary` that have one caller and their
constants, for their proofs to rest on.

### Scheduler
One thread: `loopimpl`, its tasks, the timed list and the fd cache, on the epoll
backend. A step is what runs between two points where something else can
happen: a call of a worker, one pass of `main`, one event, one advance of the
clock. The thread has one processor, so a step of a worker needs
`running = t`; calls made before or after `main`, and by an `atexit` handler,
have `running = None` (`UserCode`).

| state | code |
|---|---|
| `cache`, `status`, `signal`, `cancelled`, `repeats` | `get_task_cache()` and the fields of `task_context_t` |
| `at`, `on` | which call the task is suspended in: the code that follows `swap_to_main` |
| `before`, `due` | `next_fire_time` of every task, as an order and as the part that `TASK_TIME_NOW()` has passed |
| `timed`, `hooked` | the keys of `ordered_time_map_`, and those with a handler |
| `fds`, `doubles` | `fd_cache_map_`: its entries, and those it has more than once |
| `armed` | what the kernel has in the epoll set |
| `active`, `loop`, `todo` | `loopimpl::running_`, the place in `main`, the id list being delivered, with the descriptor and the event it is for |

| action | code |
|---|---|
| `Run`, `RunLoop`, `RunDelay` | `loop::run`, `run_loop`, `run_delay` with `create_task` and `add_task` |
| `Yield`, `HoldTask`, `HoldTaskFor`, `WaitFor` | `yield_task`, `hold_task`, `hold_task_for`, `wait_for_reading`/`wait_for_writing`, with the early return of a cancelled task (`Refuse`) |
| `WakeupTask`, `Cancel`, `Exit` | `wakeup_task`, `cancel`, `exit` with the guards of the facades |
| `Repeat`, `Stop`, `AtexitReturn` | the worker returns: the tail of `swap_to_task`, `destroy_task`, the destructor |
| `MainStart`, `Dispatch`, `CancelAll`/`CancelEach`, `EnterWait`, `WaitReturn`, `MainReturn` | `loopimpl::main` |
| `FdEvent`, `FdError`, `Deliver` | `loopcore::wait` and the two handlers `main` gives it |
| `Tick` | the clock passes the next fire time |

Times are kept as the order they induce, so that the model has no bound on them
and the proofs hold for every clock. Two things break that order in the code, and
both are the subject of `TaskList`, where times are numbers and the map is what
the tree makes of them: two tasks with the same fire time, and a task that an
error names twice. `search_all` returns the tasks of every entry of a descriptor
(`tasklist.cpp:198-202`), and a task that wrote to it in vain and then reads from
it has two. `on_error_` (`loopimpl.cpp:62-74`) would then change the fire time of a
task that is in the map already. `Scheduler` has the entries that lead to it
(`doubles`, and the write entry that outlives its wait), and its `FdError` is
guarded by `NamedOnce`: it says nothing of what follows an error that names a
task twice. `ErrorsNameOnce` shows that programs that only wait to read have none.

`CoopTasks` is what the loop promises, without lists or clocks: one task runs at
a time, only ready tasks are picked, a ready task stays ready until it is, a
cancelled task never blocks again. `Scheduler` maps a listed task that is due to
"ready" and any other suspended task to "blocked".

### TaskList
`ordered_time_map_` as the sequence of its entries in tree order, with the
comparator of the code. A lookup by a relation that is no strict weak order may
end at several positions, depending on the shape of the tree; the model allows
every position its neighbours justify. An action is one call that `loopimpl` makes
of the list, or one turn of a handler: `Renew` is a turn of `on_event_`, `OnError`,
`EraseOf` and `Tell` are `search_all`, the erasure by descriptor and the turns of
`on_error_`, in which a task of `again` has a second one. `waiting` keeps the calls
of tasks out of the handlers, which run inside `loopcore::wait`. `Repeat` inserts
a task with a time that may have passed. Of `fd_cache_map_` the module keeps which
tasks have an entry for a handler and which have left one behind (`vain`).
`TimerQueue` is the abstract queue, which may take entries out and give them back
(`recalled`) before anything is fetched.

The constants `Ties` and `Twice` say whether two tasks may have one fire time and
whether an error may name a task twice. The map is sound and the queue is
implemented when neither may happen; `tasklist_ties` and `tasklist_twice` show
what each of them does.

### Sync and TaskQueue
`Sync` has semaphores and signals on the loop of `CoopTasks`: `st` is the state
that module gives a task, so nothing is said of lists and clocks again. A call
is one step up to where it suspends the task (`Wait`, with the outcomes `Take`,
`Refuse`, `Enqueue`) and one from where the task runs again to its return
(`Resume`). Between the two the task may time out, be cancelled, be taken from
the list by `Give`, `TriggerOne`, `TriggerAll` or `CancelWaiters`, or find its
object destroyed. The calls that release waiters have no actor in the model:
they are made by the running task or, when none of the modelled tasks runs, by
any other.

`TaskQueue` extends it with a queue. `pending` is `pending_task_list_`, `job`
the worker the inner task runs, `caller` what the closure of `sync` captured,
`mine` which worker a task waits for in `sync`. While a worker runs, the inner
task makes the same calls as any task, `sync` on its own queue included. `Reuse`
says whether the id of a finished task (the address of its buffer) may be given
to a new one, `Abandon` whether an object may be destroyed with tasks in it.

| state | code |
|---|---|
| `waiting`, `count`, `exists` | `waiting_task_`, `count_`, the lifetime of each object |
| `at`, `on` | holding or holding_until, and in whose call |
| `given`, `got`, `used`, `added`, `done` | history, read by properties and bounds only |

| action | code |
|---|---|
| `Wait`, `Resume`, `Timeout` | `fetch`, `fetch_until`, `wait`, `wait_until` |
| `Give`, `TriggerOne`, `TriggerAll`, `CancelWaiters`, `Destroy` | `give`, `trigger_one`, `trigger_all`, `cancel`, the destructors |
| `Submit`, `SyncJob`, `DestroyQueue` | `append` and `insert`, `sync`, `~taskqueue` |
| `Fetch`, `FetchedOne`, `InnerEnds`, `EndJob` | the loop of the inner task and the closure of `sync` |

### TaskHandles, StackCache, Kqueue
What the loop stands on. `StackCache` has `cache_list_` and `max_count_`, and
the buffer of every live task. In `TaskHandles` the same buffer, the id, is what
a `task` keeps: `meant` remembers the task a handle was made for, so that
`HandlesAreOwn` can say that what it reads was set of that task, unless the
buffer had a new owner when it was set or read. `Kqueue` is the backend that
keeps one filter per descriptor and direction, each armed for one event; two
tasks in one direction share a filter, and the task that leaves first takes it
away (`disarmed`), which the property excepts and names.

### Injector
The only module with more than one thread. Callers in other threads take steps
between those of the loop: `Ask` tests `io_write_`, `Write` writes later, when
the loop may have closed its end. `pipe` is bounded as a pipe is; `ready` is the
order in which `main` will run the injected workers and the injecting task, and
`work` where each worker is. An answer goes to a descriptor *number*, so that
`owner` and `mail` are indexed by numbers, of which the least free one is given
out again.

| action | code |
|---|---|
| `LoopCall`, `TaskCall`, `LoopExit`, `Write` | `sync_inject`, `inject_wait`, `async_inject` and what `shared::loop` and `shared::task` make of them |
| `Answered`, `TimesOut`, `CallerCancelled`, `Deadline` | the wait of the caller and its return, after which its descriptors are closed |
| `IjWakes`, `IjReads` | the loop of the injecting task: one request, one task, one yield |
| `CancelAll`, `IjBroken`, `DrainSelect`, `DrainOne`, `IjCloses`, `IjAtexit` | the end of that task and the answers of -1 |
| `StartWork`, `EndWork`, `WriteAnswer` | the injected worker |

### Redis, RedisReply, RedisCommand
`Redis` is the shared connection: `conn` is `conn_`, `link`, `asked` and `wire`
are the two ends of each connector's socket, and `at`/`on` say in which read of
which connector a task is suspended: the user in `connect`, the keepalive tasks
in `connection_test`, the inner task of `cmd_queue_` and the subscription in
`do_query_job_`. A reply is one element, named for its command. `trouble`
collects what the properties have to except; each of its values is an event
that the code does not guard against. `RedisReply` opens up what is one step
there: a reply of characters, cut at any place, through `parse_response_`,
`continue_parse` and the buffer of `do_query_job_`. An object has its items twice:
in `sub_objects_`, which `str()` prints, and in the public `subObjects`, a copy that
is made when the object is, so before anything is parsed into it, and again when
the object is copied into a vector. `resumed` remembers that an object was
continued after that. `RedisCommand` has requests under copies and moves, and the
connect string, split as `Strings` splits.

### Streams, Acceptors, Datagrams, Sockets
`Streams` is two stream connectors and `dup` between them, with the kernel's
buffers on both sides and peers that send, close and reset. `Acceptors` are the
listening tasks of `tcp` and `uds`; `Datagrams` the udp listener in both modes,
with the socket that becomes the connector's; `Sockets` the descriptors of the
process with the options that `net_utils` sets and the adapters that own them,
through create, adopt, bind, connect, accept and the hand-over. What a kernel may
answer (would-block, a partial result, an error, no descriptor left) is a choice
in each.

A call of `tcp_connect` is a step up to where it suspends and one to its answer,
and any number of tasks may be in it at once (`dialer`): the code tests
`is_connected_` and then waits. A socket follows one handshake, whatever the later
calls ask for, and each call takes what it is told for the answer to its own. In
the same way a listener may be told to listen again, and then has two tasks that
accept. `excused` collects what the code does not guard against: the answer to a call
is `unclear`, because one has given up and the next meets its handshake, or because
two ask for different addresses at once; an old write entry has `misled` a call; the
next socket of a listener is `unbound`, or there is none. `Here` are the addresses of
this host, to which sockets are bound, and `Addr` those of the peers.

### Dns, Addresses, Strings
Pure conversions, as operators over the bytes, and beside them what needs
steps: the resolver that asks by udp, by tcp when truncated, and again for an
alias. A request that cannot be sent, or a connection that is refused, ends it
with the empty list (`NotSent`); after a read that failed or gave a part, what it
parses is undefined (`NoAnswer`). The server may write the alias in full or, as
servers do, with a pointer into the question for the labels they share
(`Compressed`). The code follows the pointer without a dot before what it leads
to, and then asks for the name that this makes (`RunTogether`). `Addresses` keeps the arithmetic of the code over octets of `Bits` bits,
with the two values a shift by the whole width may give (`Undefined`). The
variables of `Strings` and `Addresses` are their inputs, which grow, so that
TLC goes through them.

### LruCache, FilterTree, EventTrigger, Depend, ArgParser, Files
The containers keep the code's two or three fields. Where the code calls back
(`lrucache::get` with a fetch action, the handlers of a trigger), the call is
split there and other calls come in between: a task that fetches is in
`fetching`, a `set_value` that has called a handler is a frame of `frames`.
`Files` removes entry by entry what it has scanned, beside another process.
`ArgParser` is one step per line.

What these components do outside the bounds of their properties is listed in
section 5.

## 3. Runs

| run | instance | shows |
|---|---|---|
| `sched_safety` | 2 tasks, 1 descriptor, every call, 3 creations | types; no task lost; cancelling reaches every task; an unlisted task is due; only live tasks are listed; the loop implements `CoopTasks` |
| `sched_live` | 3 tasks, 2 descriptors, reads, holds, timeouts, yields, exit, under `FairSpec` | fd cache, handlers and epoll set stay in step; an event reaches only tasks that wait for it, on its descriptor; due tasks run; `main` returns after `exit` if the due tasks get finished now and then |
| `sched_write` | 2 tasks, writes | fails: a write entry outlives its wait |
| `sched_duplex` | 2 tasks, one reads, one writes | fails: the second registration disarms the first |
| `tasklist_ties` | 2 tasks, 2 instants | fails: an insertion with an equal time loses a task |
| `tasklist_twice` | 3 tasks, 4 instants, no equal times | fails: a task that an error names twice leaves its id in the list when it ends |
| `taskqueue` | the inner task and 2 users, the queue's semaphore, one more and a signal, 2 workers, ids used once | tokens are conserved; no one waits while there is one; the lists are exact; the semaphore counts the pending workers; `sync` waits for its own worker |
| `sync_destroy` | the same, objects destroyed at any time | fails: woken tasks go on in an object that is gone |
| `services` | one of five services at a time, under `FairSpec` | injected requests start once, in order, not after a refusal, and callers return; queries have their own replies and return; `dup` copies without a hole, to the end, and ends; every connection is accepted once and served; a udp connector starts with its peer |
| `library` | one of sixteen parts at a time, each without threads | the timed list is sound and implements `TimerQueue`; handles, stacks, descriptors and filters have one owner; a connector is where its call was told, unless a call gave up or two asked for different addresses; a udp listener stays at its address; replies, packets, texts, ranges and requests are read as they were written; containers agree with their index and hear every change; removals stay local |
| `redis_pieces` | replies with something behind a nested array | fails: a reply in pieces is not the reply |
| `redis_shown` | replies with nothing behind a nested array | fails: what the caller can see of a nested array is what there was of it after the first read |

`services` and `library` are unions: the initial state chooses the `part`, and
the actions of the others are disabled. Every property of these two runs is a
conjunction of properties that are stated, each with its comment, in the module
of the part, where its name says which.

The bounds. Two tasks are enough for everything that relates the running task to
another one, and three for what relates two others (an order among waiters, two
waiters of one descriptor). `MaxSpawn` above the number of tasks lets ids be used
again, which is what stale entries need. `sched_live` has two descriptors, since
`EventsReachWaiters` compares them; in the other runs of the loop one is enough,
as what they show is about the uses of one. Symmetry is used in runs without
liveness only: among tasks and workers, and in `library` among the handles, commands,
symbols and values that no part tells apart.

In `services`, two calls and the exit overlap: one is served, one is waiting or
refused, and exit is between, before or behind them in a pipe of two. A number
has a second owner when two calls share two descriptors. One query is enough
for what the other tasks do to it; two keepalive tasks are what `connect` can
leave behind, two connectors a connection and the next. Three bytes are sent by
at most one byte of room and read two at a time, so that every write is
partial. Two listening tasks compete for two connections. In `library`, a cache
of two items and three keys evicts; filters of length three have a prefix of a
prefix; two triggers and two nested calls are one inside another; three tasks
and four instants let a lookup have one entry before and one behind it while the
clock moves, and are those in which `tasklist_twice` loses the order. The three domains share suffixes of one and two labels,
so that an alias is compressed wholly or in part. Two adapters, of any class, share
two descriptors, so that a listener can hand its socket over and find none for
itself; two tasks dial one connector, to two addresses; a listener has at most two
tasks, one more than it should. Texts have up to five bytes:
base64 has all of its three paddings, hexdump a full and a broken line. Octets
of one bit keep every carry between octets, and let TLC try all ranges.

`CHECK_DEADLOCK FALSE` is said where the program may stop: all tasks have ended
(`taskqueue`, `sync_destroy`), all calls are made (`services`), the input is
read (`library`, `redis_pieces`, `redis_shown`), or the clock has stopped at its bound
(`tasklist_twice`).

### What the failing runs say
* **`sched_write`**: the handler at `loopimpl.cpp:278` calls `erase(ptrt, fd)`,
  whose event type defaults to reading. The write entry stays, and the next
  event of the descriptor wakes the task out of whatever it waits for by then.
* **`sched_duplex`**: `loopcore.cpp:62-63` mark with `&`, so nothing is ever
  marked; the second `EPOLL_CTL_ADD` meets `EEXIST` and becomes a `MOD` with its
  own event alone.
* **`tasklist_ties`**: with equal times `operator<` (`tasklist.cpp:48`) makes two
  tasks one key. On a coarse clock, or with `run_delay` of computed instants,
  the first task keeps the entry, the second is gone.
* **`tasklist_twice`**: a task leaves a write entry behind (`loopimpl.cpp:278`) and
  then reads from the same descriptor. An error finds both entries. The second
  turn of `loopimpl.cpp:66-72` sets `next_fire_time` of a task that is in the map
  and inserts it again; when another task stands between the two times, the map
  takes it for a new key. The task runs and ends, and `main` fetches the entry that
  is left, gets null for its id, and switches to it (`loopimpl.cpp:98-100`).
* **`sync_destroy`**: the destructors wake the waiting tasks, but these run
  later and then search `waiting_task_` of the destroyed object
  (`semaphore.cpp:57`, `signal.cpp:54`). `~taskqueue` always meets it, unless
  its inner task has ended before.
* **`redis_pieces`**: after an unfinished object has been continued, its
  characters are erased and `resp_body` is taken anew, but `resp_size` is still
  the size of before (`redis.cpp:651-663`). What follows a nested array is then
  parsed with a length that reaches behind the end of the buffer. `library`
  checks the same property over replies where nothing follows a nested array.
* **`redis_shown`**: `subObjects` (`redis.h:114`) lacks the `&` of its neighbours, so
  that it is a copy, made when the object is. `continue_parse` (`redis.cpp:326`)
  extends `sub_objects_` alone, and `query` hands the vector over without copying
  its objects (`redis.cpp:548`). The caller of a nested array that came in two reads
  sees what there was of it in the first. `ResultIsReply` has `subObjects` too,
  wherever nothing was continued, and `sub_objects_` always.

`sync_destroy` differs from `taskqueue` in the constant `Abandon` alone, and no run
sets `Reuse`: a program that destroys an object only when no task is in it, and that
does not cancel callers of `sync`, has what `taskqueue` shows. `MaxGive` bounds the tokens of all semaphores: two workers use two of the
three, or one semaphore hands one over and counts two; two workers are
one that runs and one that waits behind it.

### Fairness
`FairSpec` of `Scheduler` assumes that the thread goes on executing `main`, that
the clock advances, that a worker does not compute for ever (it suspends or
returns: `Leave`), and, as `task.h:160` asks of it, that a worker that has been
cancelled returns in the end. The test of `running_` and the cancellation of all
tasks follow each other in `main` without anything in between, hence
`SF(CancelAll)`. Nothing is assumed of descriptors. `ReadyRuns` is not claimed
with `wakeup` (each call moves a listed task behind those that are due) nor with
`run_loop` (an interval can be shorter than the work it repeats).

The services rest on what `ReadyRuns` gives them: a task whose event, timeout or
cancellation has come goes on.

| part | assumed | because |
|---|---|---|
| `Injector` | `LoopStep`, `Write`, `Answered`, `TimesOut`, `EndWork` | threads that can go on do; a wait with a deadline ends at it; workers return. Not assumed: that anybody calls `exit` |
| `Redis` | the ends of connecting and of reading, the inner task, `Answer`, `Event` | every wait has a timeout of ten seconds; the server answers a connection that it has. Not assumed: that it is kept |
| `Streams` | both tasks of `dup` | a wait for writing ends at its timeout. Not assumed: that peers send or take |
| `Acceptors` | listening tasks and the tasks of accepted connections; `Incoming` | a pending connection is reported again, `epoll` and `kqueue` are level triggered when armed |

`MCServices` puts conditions of different parts under one `WF`, which is the
same, as a behaviour takes the steps of one part only.

## 4. Proofs

`SchedulerProofs` proves, for any sets of tasks, descriptors and calls and any
`MaxSpawn`, from the three assumptions on the constants, of behaviours in which no
error names a task twice (the guard `NamedOnce` of `FdError`; `tasklist_twice`
shows what happens else, and `ErrorsNameOnce` says who is safe from it):

| theorem | statement | argument |
|---|---|---|
| `TypeCorrect`, `ListedAreLive` | `Spec => []TypeOK`, `Spec => []ListIsLive` | `Base == TypeOK /\ ListIsLive /\ PhaseOK` is inductive: that `timed` has only live tasks needs to know that no task runs while `main` waits |
| `NothingLost` | `Spec => []NoLostTask` | with `UnlistedIsDue` and `CancelReaches` in `Placed`, relative to `Base` |
| `UnlistedAreDue`, `CancelAlwaysReaches` | `Spec => []UnlistedIsDue`, `Spec => []CancelReaches` | a held task is inserted by `Rouse` with its old fire time, so `CancelReaches` is inductive only together with `UnlistedIsDue`, and that only because `Dispatch` takes due tasks |
| `Implements` | `Spec => CoopSpec` | each action is a step of `CoopTasks` or a stutter, under `Base` and `Placed` |
| `ReadersAreServed`, `EventsAreForReaders`, `ReadersAreArmed` | `Spec => []FdCoherent`, `[]EventsReachWaiters`, `[]WaitersAreArmed`, each if `"write" \notin Ops` | the invariant `Readers`, of which each is a consequence. It has for what is being delivered the descriptor and the events it is for, so that `EventsReachWaiters` follows for the task's own descriptor and event; the assumption is needed, as `sched_write` and `sched_duplex` show |
| `ErrorsNameOnce` | `Spec => [](\A f \in Fd : NamedOnce(f))` if `"write" \notin Ops` | by `FdCoherent`, an entry is of the one wait its task is in, and there is one of it. With it the guard of `FdError` is true in programs that only wait to read, and the theorems above hold of these without the condition |

The first part of `TaskQueueProofs` has, for any sets of tasks and objects, what each step of `Sync`
keeps true: `SyncInv == SyncTypeOK /\ Lists /\ NoIdleToken`. `Lists` is the
inductive form of `ListsAreExact`; it adds that a task in a call is suspended and
that the lists of destroyed objects are empty. Its second part proves from it:

| theorem | statement | argument |
|---|---|---|
| `QueueTypeCorrect` | `Spec => []TypeOK` | `Inv`: `SyncInv`, with `InnerOnly` (only the inner task waits for `sem_`, and runs no worker then) and `Jobs` (a worker is added, listed, run and done in this order, once) |
| `NoTokenIdles` | `Spec => []NoIdleToken` | `give` counts only when nobody in the list is alive; by `Lists` that is when the list is empty |
| `WaitersAreListed` | `Spec => []ListsAreExact` | a waiter erases its first entry, so that an id in the list twice would outlive its call: injectivity is part of `Lists` |
| `TokensAreWorkers` | `Spec => []PendingCounted` | `QueueInv`: `Balanced(Queue)`, that what was given is counted, fetched or promised to a task of a finite set; `Unheard(Queue)`, that nobody in the list has been told; `Listed`, that `pending` has what was given and not taken. Every step gives one token, fetches one, or does neither (`Gives`, `Takes`, `Same`), and `MovesBalance` counts |
| `TokensAreConserved` | `Spec => []TokensConserved` if `Reuse = FALSE` | the same of every semaphore, with `CallersFree`: a task whose worker is to come is in no semaphore, so that the closure of `sync` tells nobody there of a token |
| `SyncWaitsForItsWorker` | `Spec => SyncWaits` if `Reuse = FALSE` | `Callers`: a task in sync is in no list, so no `give` or `trigger` can wake it, and a worker that returns wakes only the task whose `mine` it is; the assumption is needed (section 5) |

All but the last two hold whether or not ids are used again (`Reuse`), and all of
them whether or not objects are destroyed with tasks in them (`Abandon`). That
`TokensAreConserved` needs its assumption TLC shows, too: with ids used again, the
worker of an old `sync` wakes the new owner of the id, which is in a `fetch` by
then and takes the wakeup for a token that nobody gave. `PendingCounted` survives
this, since only the inner task fetches from the queue's semaphore and no worker
was added for it.

`InjectorProofs` proves, for any calls in any number of threads, any descriptors
and any pipe, from `Distinct` (calls, descriptors, the injecting task and none
are different things; descriptors are numbers, of which there is a least free
one):

| theorem | statement | argument |
|---|---|---|
| `InjectorTypes` | `Spec => [](TypeOK /\ Drains)` | inductive; `Drains`, that the task that ends has seen a request in its pipe, is needed for `DrainOne` to have a head |
| `NeverAfterRefusal` | `Spec => []RefusedNeverRuns` | `Once`: a request that was written is in the pipe, in the list of due tasks, or refused, and in each list at most once |
| `RequestsStartInOrder` | `Spec => StartsInOrder` | requests form one line, `ready \o pipe`, of which every step is an order-preserving part of the last (`LineKeepsOrder`), with no call in it twice (`Once`), so that none overtakes (`NoOvertaking`); only the head starts (`HeadStarts`) |
| `OwnAnswers` | `Spec => []AnswersAreOwn` | `Own`: while nobody has given up, the descriptor of a written request belongs to its caller, and its mail is from it and implies that it was served or refused |

`ServicesProofs` is about the composition `MCServices`, so that its theorems
state what `services` checks. A behaviour of the composition is a behaviour of
each part (`InjectorPart`), or an invariant of the part is kept by its own steps
and unchanged by those of the others.

| theorem | statement | argument |
|---|---|---|
| `InjectorServes`, `InjectorKeepsOrder` | `Spec => []RequestsAreServed`, `Spec => StartsInOrder` | the theorems of `InjectorProofs` above, by `INSTANCE` |
| `ListenersServeInOrder` | `Spec => []ListenersKeepOrder` | `AInv` is the property itself with the types: the first n connections have been given, in order, and the backlog is the rest. `DInv` says of each peer that its datagrams are in order in the listener's socket and in what its connector has read and still has queued (`DOrder`), and that a woken listener has a datagram to look at |
| `StreamsStayWhole` | `Spec => []StreamsAreWhole` | `SInv`: what a peer has got, what its kernel holds, what the task of `dup` holds and what waits to be read is, in this order, what the other peer sent (`Whole`); and a task ends by its own side or because the other task cancelled it, never both because of each other (`Ends`), which is what `EverythingArrives` rests on |
| `QueriesHaveTheirReplies` | `Spec => []QueriesAreSafe` | `RInv`, in layers: `RTypes` and `Links` (a connector is new while `connect` waits for it and is silent then) hold always; while nothing is mixed, `Apart` says that one task reads from a connector, that what it waits for is asked or has arrived and nothing else is there (`Fits`), and that a connection nobody reads from is silent, hence `Own`, each answer is of its command; while there is no trouble at all, `Smooth` says that `conn_` is what every task is suspended in and nothing is lost |
| `ServicesTypeCorrect` | `Spec => []TypeOK` | from the five invariants |

The assumptions are those of `MCServices`, in which TLC evaluates them: calls,
connectors, keepalive tasks and descriptors are not `None`, the names of tasks and
commands that `Redis` has of its own are not among the constants
(`RedisAssumption`), `quit` is one of the calls, and sizes are numbers, those of
buffers not zero. Nothing bounds the number of queries, connectors, keepalive
tasks, messages, bytes, listeners, connections or datagrams.

`SocketsProofs` is about `Sockets`, under `Distinct`, which is the `SocketsAssumption`
of `MCLibrary`. `FilesProofs` is about `Files`, and
`PartsProofs` about the parts of `LibraryParts`, `Kqueue` among them, each with its
invariant and what its own steps keep. `LibraryProofs` is about the composition
`MCLibrary`, so that its theorems state what `library` checks; it extends
`PartsProofs` and has `FilesProofs` and `SocketsProofs` by `INSTANCE`. As in `MCServices`, an invariant of a part is kept by its
own steps, and those of the others leave its variables alone.

| theorem | statement | argument |
|---|---|---|
| `KqueueWaits` | `[]WaitersAreArmed` of `Kqueue` | inductive with the types, one step per action; from `None \notin Filter` |
| `SocketsAreOwned` | the invariants of `Sockets` | `KInv`, in parts that need each other: every descriptor is sane and every adapter in a state of its own that fits its socket (`KSane`, `KJobs`, `KGood`), what was accepted is as `accept` made it (`KFresh`); no descriptor is with two adapters, with an adapter and a task, or with two tasks (`KOwn`, `KApart`, `KOnce`), and each that is open is with one of them (`KHeld`). For `ReachedIsPeer`, `KGood` has of a connector without doubts that all tasks that dial it ask for one address, and that its handshake or its peer is that address (`Dialing`); with two addresses the answer is `unclear` from then on |
| `NetStaysSound` | `Spec => []NetIsSound` | `KqueueWaits`, `SocketsAreOwned` and the addresses: `Pow2` is shown to be defined (`Recursion`) and to multiply (`PowersMultiply`), a number has one address and an address one number (`AddressOfNumber`, `NumberOfAddress`, by taking digits away and putting them back), and a mask leaves a block of numbers (`Blocks`) |
| `StacksAndHandles` | `Spec => []TasksAreOwn` | `Positions` (a buffer is at one place of the list or with one task) gives the stacks by `PositionsSuffice`; `HInv` has for the handles that an id that is listed is of the task that is there |
| `MapStaysSound` | `Spec => []MapIsSound` if `~Ties` and `~Twice` | `MInv`: the property with `Untied`, that no two tasks fire at one time, and with who is out of the map (`MTurns`): the task that runs, and those that an error has taken out and not told yet, each of which is told once; each step puts one entry in or takes one out, and the place of a new one keeps the order |
| `MapIsQueue` | `Spec => QueueSpec` if `~Ties` and `~Twice` | under `MInv` each call of the timed list and each turn of a handler is a step of `TimerQueue` or a stutter; both assumptions are needed, as `tasklist_ties` and `tasklist_twice` show |
| `RemovalsAreLocal` | `Spec => RemovalIsLocal` | `TInv`: the nodes of the tree of filters are closed under prefixes, so that what hangs on a removed node is known |
| `ChangesAreHeard` | `Spec => []EveryChangeHeard` | `EInv`: who is owed a change has heard of it or will, from a frame of the stack of nested triggers that has still to come to its handler |
| `ContainersStaySound` | `Spec => []ContainersAreSound` | `LInv`: no key is twice in the list, and the index has its keys unless a cache in use was assigned to; `DInv`: an item that others depend on was found or is yet to be looked at, and what is placed is behind what it needs |
| `RemovalStaysBelow`, `RemovalsStayBelow` | `Spec => []RemovesBelow` | `FInv`: what there is is a tree (in `TypeOK`); what is still to be removed is in the folder, and what is in a folder comes before it (`CacheOrder`); outside there is what there was (`Outside`); with nobody else at work, what is there is in the list as it was found, or is special (`Inside`). `FilesProofs` has it for paths over any letters that are closed under prefixes (`PathsAreClosed`), which `LibraryProofs` proves of the paths of its instance |
| `ParsersAreCalled` | `Spec => []ArgsAreSet` | `PInv`: the property with the types, and that nobody was called before `parse`; from what `Ordered` makes of a set, each of its numbers once and from the least on (`OrderedIs`), which rests on the least set of numbers that could not be ordered (`AllCanBeOrdered`). Of requests `QInv`, that every command and the last request announce what they hold, which copies and moves keep |
| `LibraryTypeCorrect` | `Spec => []TypeOK` | `PartTypes`, the invariants of the parts with what their types need besides: that the index of a cache has keys only (`LTypes`), that a call of `set_value` that goes on is at a trigger of its key or behind the last (`ETypes`), that what is placed is an item (`OrderStep`) |

The assumptions are those of `MCLibrary`, in which TLC evaluates them, and each
is about one part: bounds and times are numbers (`TimesAssumption`, `FilterAssumption`,
`EventAssumption`, `LruAssumption`, `FilesAssumption`, `StackAssumption`), `None` is
none of the things it stands beside (`StackAssumption`, `HandlesAssumption`,
`KqueueAssumption`, `SocketsAssumption`), bounds and widths of texts, commands and addresses are
numbers (`TextAssumption`, `CommandAssumption`, `AddressAssumption`) and so are the names
of keys, whose order is that of numbers (`ArgsAssumption`), and there are finitely many items with the root among them
(`DependAssumption`). Nothing bounds the number of tasks, buffers, keys, filters,
handlers, items, files, arguments, adapters, descriptors, addresses, tasks that dial
or tasks that listen.

Only model-checked: the liveness properties `ReadyRuns`, `ExitReturns`,
`CallersReturn`, `QueryReturns`, `DupEnds` and `ConnectionServed` (temporal logic
with ENABLED is out of the prover's reach), and what a function that is recursive over
data computes for every input, which needs an induction that the prover cannot
instantiate: `ResultIsReply` (with the types of a reply, which such a function
computes), `ResolvedIsKnown` and `ConversionsHold`. Over numbers there is a way round:
`Induction` and `Recursion` of `PartsProofs` speak of sets of numbers and of functions,
not of operators, and follow from the least element of a set (`Least`). With them
`Pow2` is known for every number, hence the arithmetic of addresses.

## 5. Not modelled

* the wepoll backend, `setjmp` switching, and context switches as such: a switch
  is atomic;
* `add_read_event` and `add_write_event` write through `end()` of an empty map:
  undefined, taken to have no effect, which is what it has on the tree header's
  padding in common builds;
* closing a descriptor while a task of `Scheduler` or `Kqueue` waits for it;
* repeat counts other than once and for ever; `update_interval`; the load
  average; `sleep`, which is a loop over `hold_task_for`;
* an id used again while an `atexit` handler of its last owner runs is allowed
  by the model; the allocator permits it only after the handler;
* `injector::disable`, which only the destructor calls, when the injecting task
  is gone; the same connection's requests of more than one redis caller beyond
  one query at a time (`cmd_queue_` is a `TaskQueue`, whose order is shown there);
* of `net_utils` the interface list, host names and port numbers; of `dns` the
  flags other than truncation, `arcount`, and packets that are cut; of `filemgr`
  the parts of a path and the times of a file; of `stringutil` numbers with
  fractions, of `hexdump` the layout;
* `any`, `logs`, `sysinfo`: type erasure, formatted output and counters of the
  operating system, on which nothing else depends;
* the tests, which were read for what the calls promise.

### Met while modelling
What the code does beyond the guard of a property. The models have it (their
properties name the exception), unless "left out" is said.

* The loop: the fire time of a task that an error names twice is changed while it
  is listed; `Scheduler` leaves such errors out, `TaskList` has them. `exit` is to
  break the loop (`loop.cpp:86`), but `main` reads `running_` only when no task is due
  (`loopimpl.cpp:92-112`): while tasks yield, each is due again at once, and the loop
  goes on. `ExitReturns` says what holds instead.
* Task queue: the closure of `sync` keeps a task id (`taskqueue.cpp:82`). When the
  caller has been cancelled and has ended, and its buffer serves a new task, the
  closure wakes that one, whose own `sync` returns before its worker has run. With
  `Reuse = TRUE` TLC finds `SyncWaits` violated in this way.
* Injector: the answer goes to a descriptor number, which after the caller gave up
  may be that of another call (`AnswersAreOwn` speaks of the time until a caller
  gives up). At its end the injecting task answers one request with -1
  and ends, the requests behind it are never answered, and their callers wait for
  ever unless they have a timeout (`CallersReturn` speaks of the time before); an answer of -1 reads as `true`,
  since nobody looks at the value; a caller that gives up leaves its worker in
  the pipe, with references to its own stack (left out); `shared::task::get_name`
  returns `""` whatever it was told (`shared/task.cpp:190-200`, left out).
* Redis: `is_validate` is true on a connection the peer has closed; the
  keepalive test, a query and a subscription may read from one connection and
  take each other's replies, or find `conn_` null or renewed when they go on
  (`QueriesAreSafe` excepts these as `mixed`, `cut` and `stale`); a query whose caller was cancelled writes to its
  caller's stack (`redis.cpp:545`, left out); copying a command that is not
  `const` empties it (`redis.cpp:42-46`); a connect string without `://` throws
  (`redis.cpp:402-404`) and a quoted password keeps its quotes, as the test
  compares one byte with both (`redis.cpp:424`); both are left out.
* Streams: `dup` does not look at the result of a write, so that bytes are lost
  after a timeout; the end of one direction ends both;
  `has_data_pending` peeks no bytes and is always false (`utils.cpp:401`).
* Listeners: any error of `accept` but `EAGAIN`, running out of descriptors
  included, ends the listening task; `listen` may be called twice. An empty
  datagram ends the packet mode, and `writeto` keeps the loop busy while the
  kernel has no room. Datagrams of others that are queued when a udp socket is
  handed over are read by the connector of the first.
* Dialers: `uds_connector::connect` and `bind` always refuse
  (`uds.cpp:61-70`); `keepalive` returns the result of `setsockopt`, so that
  success reads as `false` (`utils.cpp:304-310`); after a timeout, dialing again ends with the first
  handshake, which may be to another address (`connect.cpp:69-83`). A second task
  may dial while the first waits (`adapter.cpp:131-134`) and is told `true` for the
  peer of the first.
* Dns: a resolver that could not send its request returns none, as for a domain
  without addresses (`dns.cpp:402`, `428`, `431`); an alias that ends in a pointer
  loses the dot before it (`dns.cpp:77-87`), so that the address behind it is not
  found; the flag `qrcode` of an answer is that of a question
  (`dns.cpp:157` and below); aliases in a circle are followed for ever.
* Containers: assigning through a `lrucache` leaves entries of an evicted item
  in the index, and a cache of size 0 returns its end; removing a filter leaves
  nodes without filters; a handler that removes triggers of the list in which it
  is called ends the iteration's validity (left out); handlers of nested changes
  are told in the order of the nesting; `dep_order` does not end on some cycles.
* Tasks and stacks: `max_count_` is zero until it is set, so that buffers go
  back to the allocator; flags in a buffer are those of its last owner.
* Files and arguments: `fs_remove` empties a folder and leaves it
  (`filemgr.cpp:316-342`); what is neither a file nor a folder stays. A `-k=`
  without value is the key `k=`; parsers are called in the order of their keys.
* Addresses: a failed range of one number is taken for parsed; a mask of 0
  shifts by the whole width, which is undefined; the mask of a range read as
  `low/high` is taken from a difference in network order (`iprange.cpp:63`), so that
  `RangesAreExact` speaks of the mask of ranges that are given as two addresses
  only. Which addresses are in a range does not depend on it.

## 6. Plan

Done: the loop with its abstract specification and proofs of all its safety; the
timed list against its queue; synchronisation and the task queue with proofs of
all their safety; the injector, redis, streams, acceptors and datagrams with proofs
of all their safety; sockets, containers, files, the command line, kqueue, stacks
and handles, addresses and requests with proofs of all their safety; the types of all
parts; dns and text.

Left, in this order:

1. of what `ConversionsHold` says, the parts that no recursive function has to do with;
2. liveness of callers of `TaskQueue` while the inner task lives;
3. a refinement of one call of `TaskQueue` by the query of `Redis`.
