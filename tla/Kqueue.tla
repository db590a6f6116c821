------------------------------- MODULE Kqueue -------------------------------
(***************************************************************************)
(* The kqueue loopcore (src/src/task/apple/loopcore.cpp) under the waits   *)
(* of loopimpl: reading and writing of a descriptor are two filters, each  *)
(* of which is armed for one event.  A woken task runs at once here; what  *)
(* the loop does in between is the subject of module Scheduler.            *)
(***************************************************************************)
CONSTANTS
  Task,      \* tasks that wait
  Fd,        \* descriptors
  None       \* no wait

VARIABLES
  core,      \* core_fd_ is open
  filters,   \* the filters that are armed
  entries,   \* tasklist::fd_cache_map_
  waits,     \* what each task waits for
  signal,    \* task_context_t::signal
  ready,     \* the filters that have something to report
  eof,       \* the filters that report EV_EOF
  disarmed,  \* tasks whose filter went when another task left the same wait
  late       \* tasks that left a wait for writing before its event, and may still have an entry

kq_vars == <<core, filters, entries, waits, signal, ready, eof, disarmed, late>>

EventType == {"read", "write"}
Filter == Fd \X EventType

TypeOK ==
  /\ core \in BOOLEAN /\ filters \subseteq Filter /\ entries \subseteq Filter \X Task
  /\ waits \in [Task -> Filter \cup {None}] /\ signal \in [Task -> {"nothing", "received", "broken"}]
  /\ ready \subseteq Filter /\ eof \subseteq Filter /\ disarmed \subseteq Task /\ late \subseteq Task

init ==
  /\ core = TRUE /\ filters = {} /\ entries = {} /\ waits = [t \in Task |-> None]
  /\ signal = [t \in Task |-> "nothing"] /\ ready = {} /\ eof = {} /\ disarmed = {} /\ late = {}

\* EV_ADD and EV_DELETE.  With the core closed kevent fails, and no caller looks.
add_event(f) == filters' = IF core THEN filters \cup {f} ELSE filters

\* Mutant: both filters of the descriptor go, as with epoll.
MutDelEvent(f) == filters' = {g \in filters : g[1] # f[1]}

del_event(f) == filters' = filters \ {f}

\* loopimpl::wait_for_reading and wait_for_writing.
wait_for(t, f) ==
  /\ waits[t] = None /\ waits' = [waits EXCEPT ![t] = f] /\ signal' = [signal EXCEPT ![t] = "nothing"]
  /\ entries' = entries \cup {<<f, t>>} /\ add_event(f)
  /\ disarmed' = (disarmed \ {t}) \ {u \in Task : waits[u] = f /\ core}
  /\ late' = IF \E r \in entries : r[2] = t THEN late ELSE late \ {t}
  /\ UNCHANGED <<core, ready, eof>>

\* The handler of a wait whose time has come, that was woken or cancelled: it takes the entry
\* for reading whatever was waited for, and the filter, whoever else waits for it.
timeout(t) ==
  LET f == waits[t] IN
  /\ f # None /\ waits' = [waits EXCEPT ![t] = None] /\ entries' = entries \ {<<<<f[1], "read">>, t>>}
  /\ del_event(f)
  /\ \E s \in {signal[t], "broken"} : signal' = [signal EXCEPT ![t] = s]
  /\ disarmed' = (disarmed \cup {u \in Task \ {t} : waits[u] = f}) \ {t}
  /\ late' = IF f[2] = "write" THEN late \cup {t} ELSE late
  /\ UNCHANGED <<core, ready, eof>>

\* The tasks in W, which have these entries, are told s and go on.
Wake(W, taken, s) ==
  /\ waits' = [t \in Task |-> IF t \in W THEN None ELSE waits[t]]
  /\ signal' = [t \in Task |-> IF t \in W THEN s ELSE signal[t]]
  /\ entries' = entries \ taken /\ disarmed' = disarmed \ W

\* One event of kevent, which disarms its filter.
on_event(f) ==
  LET taken == {r \in entries : r[1] = f} IN
  /\ core /\ f \in (filters \cap ready) \ eof /\ del_event(f)
  /\ Wake({r[2] : r \in taken}, taken, "received") /\ UNCHANGED <<core, ready, eof, late>>
on_error(f) ==
  LET taken == {r \in entries : r[1][1] = f[1]} IN
  /\ core /\ f \in filters \cap eof /\ del_event(f)
  /\ Wake({r[2] : r \in taken}, taken, "broken") /\ UNCHANGED <<core, ready, eof, late>>

\* loopcore::stop, from loopimpl::exit.
stop == core /\ core' = FALSE /\ filters' = {} /\ UNCHANGED <<entries, waits, signal, ready, eof, disarmed, late>>

\* The peer sends or reads, or closes one direction or both; the program reads or writes.
World ==
  /\ \E f \in Filter : \/ ready' \in {ready \cup {f}, ready \ {f}} /\ UNCHANGED eof
                       \/ eof' = eof \cup {f} /\ UNCHANGED ready
  /\ UNCHANGED <<core, filters, entries, waits, signal, disarmed, late>>

Next ==
  \/ stop \/ World
  \/ \E t \in Task : timeout(t) \/ \E f \in Filter : wait_for(t, f)
  \/ \E f \in Filter : on_event(f) \/ on_error(f)

Spec == init /\ [][Next]_kq_vars

----------------------------------------------------------------------------

\* A task that waits has its filter armed, whoever waits for the other direction of the
\* descriptor, unless another left the wait for the same one, and an entry,
\* so that an event finds it.  An entry is that of a wait, unless the task has given up writing.
WaitersAreArmed ==
  /\ core => \A t \in Task \ disarmed : waits[t] # None => waits[t] \in filters
  /\ \A r \in entries : r[2] \in late \/ waits[r[2]] = r[1]
  /\ \A t \in Task : waits[t] # None => <<waits[t], t>> \in entries
=============================================================================
