---------------------------- MODULE TaskHandles ----------------------------
(***************************************************************************)
(* task, the handle of a basic_task by its id, and what a basic_task holds *)
(* for the program.  The id is the address of the stack buffer, and the    *)
(* next task may get the buffer of one that has ended.                     *)
(***************************************************************************)
EXTENDS Naturals

CONSTANTS
  Id,        \* the addresses
  Handle,    \* variables of type task
  Datum,     \* names, arguments, flags and exit functions
  None,      \* kInvalidateTaskId, and null
  MaxBorn    \* tasks that are created

VARIABLES
  cache,     \* get_task_cache(): what is held of each task, by id
  flags,     \* the flag in each buffer: creating a task does not clear it
  handle,    \* the ids in the handles
  running,   \* the id of the task that runs, None while the loop does
  born,      \* tasks created so far, the last of which has this number
  meant,     \* the number of the task that each handle was made for
  told,      \* what the program has set through handles meant for a task, by number
  misled     \* the tasks that something was set of through a handle meant for another

th_vars == <<cache, flags, handle, running, born, meant, told, misled>>

Held == [number : 1..MaxBorn, parent : Id \cup {None}, name : Datum \cup {None},
         arg : Datum \cup {None}, atexit : Datum \cup {None}]
Field == {"name", "arg", "atexit", "flag"}

TypeOK ==
  /\ cache \in [Id -> Held \cup {None}] /\ flags \in [Id -> Datum \cup {None}]
  /\ handle \in [Handle -> Id \cup {None}] /\ running \in Id \cup {None} /\ born \in 0..MaxBorn
  /\ meant \in [Handle -> 0..MaxBorn] /\ misled \subseteq 1..MaxBorn
  /\ told \in [1..MaxBorn -> [Field -> Datum \cup {None}]]

Init ==
  /\ cache = [i \in Id |-> None] /\ flags = [i \in Id |-> None] /\ handle = [h \in Handle |-> None]
  /\ running = None /\ born = 0 /\ meant = [h \in Handle |-> 0]
  /\ told = [n \in 1..MaxBorn |-> [x \in Field |-> None]] /\ misled = {}

fetch(i) == IF i = None THEN None ELSE cache[i]
is_alive(h) == fetch(handle[h]) # None

\* loop::run, run_loop and run_delay: a new task in a free buffer, with the handle of it.
basic_task(i, name) ==
  [number |-> born + 1, parent |-> running, name |-> name, arg |-> None, atexit |-> None]
Run(h, i, name) ==
  /\ born < MaxBorn /\ cache[i] = None
  /\ cache' = [cache EXCEPT ![i] = basic_task(i, name)]
  /\ born' = born + 1 /\ handle' = [handle EXCEPT ![h] = i] /\ meant' = [meant EXCEPT ![h] = born + 1]
  /\ told' = [told EXCEPT ![born + 1].name = name]
  /\ UNCHANGED <<flags, running, misled>>

\* Copies, and moves, which leave the other handle as it is.
Copied(h, i, n) == /\ handle' = [handle EXCEPT ![h] = i] /\ meant' = [meant EXCEPT ![h] = n]
                   /\ UNCHANGED <<cache, flags, running, born, told, misled>>
Copy(g, h) == g # h /\ Copied(h, handle[g], meant[g])
this_task(h) == Copied(h, running, IF running = None THEN 0 ELSE cache[running].number)

swap_to_task(i) == /\ running = None /\ cache[i] # None /\ running' = i
                   /\ UNCHANGED <<cache, flags, handle, born, meant, told, misled>>
swap_to_main == /\ running # None /\ running' = None
                /\ UNCHANGED <<cache, flags, handle, born, meant, told, misled>>

\* The loop destroys a task that has ended.
destroy_task(i) == /\ running = None /\ cache[i] # None /\ cache' = [cache EXCEPT ![i] = None]
                   /\ UNCHANGED <<flags, handle, running, born, meant, told, misled>>

\* A setter does nothing without a task of the id; the history says who was meant.
Tells(h, x, d) ==
  LET number == cache[handle[h]].number IN
  IF number = meant[h] THEN told' = [told EXCEPT ![number][x] = d] /\ UNCHANGED misled
  ELSE misled' = misled \cup {number} /\ UNCHANGED told
Put(i, x, d) == cache' = [cache EXCEPT ![i] = [@ EXCEPT ![x] = d]]
Sets(h, x, d) == is_alive(h) /\ Put(handle[h], x, d) /\ Tells(h, x, d) /\ UNCHANGED <<flags, handle, running, born, meant>>
set_name(h, d) == Sets(h, "name", d)
set_arg(h, d) == Sets(h, "arg", d)
set_atexit(h, d) == Sets(h, "atexit", d)
\* The flags are in the buffer itself.
set_flag(h, d) == /\ is_alive(h) /\ flags' = [flags EXCEPT ![handle[h]] = d] /\ Tells(h, "flag", d)
                  /\ UNCHANGED <<cache, handle, running, born, meant>>

get_name(h) == IF is_alive(h) THEN cache[handle[h]].name ELSE None
get_arg(h) == IF is_alive(h) THEN cache[handle[h]].arg ELSE None
get_flag(h) == IF is_alive(h) THEN flags[handle[h]] ELSE None
parent_task(h) == IF is_alive(h) THEN cache[handle[h]].parent ELSE None

Next ==
  \/ swap_to_main
  \/ \E i \in Id : swap_to_task(i) \/ destroy_task(i)
  \/ \E h \in Handle :
       \/ this_task(h) \/ \E g \in Handle : Copy(g, h)
       \/ \E d \in Datum : \/ set_name(h, d) \/ set_arg(h, d) \/ set_atexit(h, d) \/ set_flag(h, d)
                           \/ \E i \in Id : Run(h, i, d)

Spec == Init /\ [][Next]_th_vars

----------------------------------------------------------------------------

\* What is set of a task through a handle made for it is read of it through any other, and
\* kept for its end, unless something was set through the handle of a task that had the
\* address before.  A flag is read as it was set, but not before.  A handle is alive while
\* its task is, and after its end only if another has its address.
HandlesAreOwn == \A h \in Handle :
  LET i == handle[h] IN
  /\ is_alive(h) /\ cache[i].number = meant[h] /\ meant[h] \notin misled =>
       /\ get_name(h) = told[meant[h]].name /\ get_arg(h) = told[meant[h]].arg
       /\ cache[i].atexit = told[meant[h]].atexit
       /\ told[meant[h]].flag # None => get_flag(h) = told[meant[h]].flag
       /\ parent_task(h) # i
  /\ (\E j \in Id : cache[j] # None /\ cache[j].number = meant[h]) => is_alive(h) /\ cache[i].number = meant[h]
=============================================================================
