----------------------------- MODULE TaskList ------------------------------
(***************************************************************************)
(* tasklist::ordered_time_map_ (src/src/task/impl/tasklist.cpp): a std::map*)
(* whose keys <<tid, next_fire_time>> are compared by an operator that is  *)
(* not a strict weak order, and what loopimpl does with it: the calls of   *)
(* the running task, the fetch of main, and the two handlers of            *)
(* descriptors, which run while main waits.                                *)
(*                                                                         *)
(* The map is the sequence of its entries in tree order.  A lookup is a    *)
(* binary search: it ends at a position that its two neighbours justify,   *)
(* which one when there are several depends on the shape of the tree.      *)
(*                                                                         *)
(* Of fd_cache_map_ only this is kept: a task listed with a handler has an *)
(* entry for the descriptor it waits for, and a task that waited to write  *)
(* in vain has left one behind (loopimpl.cpp:278).  So the ids that an     *)
(* error of a descriptor finds may name a task twice.                      *)
(***************************************************************************)
EXTENDS Naturals, Sequences, SequencesExt

CONSTANTS
  Task,     \* task ids
  None,     \* no task
  MaxTime,  \* bound: where the clock stops
  Ties,     \* whether two tasks may have the same next_fire_time
  Twice     \* whether an error may find a task twice

VARIABLES
  map,      \* ordered_time_map_, in order
  nft,      \* task_context_t::next_fire_time of every task, 0 while it does not exist
  now,      \* TASK_TIME_NOW()
  fetched,  \* the task main has fetched, until it suspends or ends
  waiting,  \* main is in loopcore::wait, where the handlers of descriptors run
  vain,     \* the ids that a wait to write has left in fd_cache_map_
  erasing,  \* on_error_: the ids of the descriptor that erase(fd) has not come to yet
  todo,     \* on_error_: the ids of id_list whose first turn is to come
  again     \* on_error_: the ids that have a second turn

errorVars == <<erasing, todo, again>>
vars == <<map, nft, now, fetched, waiting, vain, errorVars>>

Time  == 1 .. MaxTime
Entry == [tid : Task, time : Time, hook : BOOLEAN]

Init ==
  /\ map = <<>>
  /\ nft = [t \in Task |-> 0]
  /\ now = 1
  /\ fetched = None /\ waiting = FALSE
  /\ vain = {} /\ erasing = {} /\ todo = {} /\ again = {}

----------------------------------------------------------------------------
MutLess(a, b) == a.time <= b.time \* Mutant: not even irreflexive.
\* cache_item_t::operator<
Less(a, b) == a.tid # b.tid /\ a.time < b.time

KeyOf(t, n) == [tid |-> t, time |-> n]

\* Where lower_bound(k) and upper_bound(k) can end.  A search leads past an entry
\* of its own task, which it takes for an equal one, only when two more are
\* behind it: with fewer the entry that was there first is on every path.
LowerBound(m, k) ==
  {i \in 1 .. Len(m) + 1 : /\ i > 1 => Less(m[i - 1], k)
                           /\ i <= Len(m) => ~Less(m[i], k)
                           /\ \A j \in 1 .. i - 1 : m[j].tid = k.tid => j + 2 <= Len(m)}
UpperBound(m, k) ==
  {i \in 1 .. Len(m) + 1 : /\ i > 1 => ~Less(k, m[i - 1])
                           /\ i <= Len(m) => Less(k, m[i])}

\* Whether the element a search for k ends at counts as k.
IsAt(m, k, i) == i <= Len(m) /\ ~Less(k, m[i])

\* What m[k] = h can leave: an equivalent key stays as it is.
Assign(m, k, h) ==
  {IF IsAt(m, k, i) THEN [m EXCEPT ![i].hook = h]
   ELSE InsertAt(m, i, [tid |-> k.tid, time |-> k.time, hook |-> h]) :
     i \in LowerBound(m, k)}

\* What m.erase(k) can leave: everything equivalent to k goes.
Erase(m, k) ==
  {SubSeq(m, 1, r[1] - 1) \o SubSeq(m, r[2], Len(m)) :
     r \in {p \in LowerBound(m, k) \X UpperBound(m, k) : p[1] <= p[2]}}

----------------------------------------------------------------------------
Listed == {map[i].tid : i \in DOMAIN map}
Hooked == {map[i].tid : i \in {j \in DOMAIN map : map[j].hook}}

\* main waits, and no error is being handled.
Polling == waiting /\ erasing = {} /\ todo = {} /\ again = {}

\* n becomes the next_fire_time of t.
Stamp(t, n) ==
  /\ Ties \/ \A u \in Task \ {t} : nft[u] # n
  /\ nft' = [nft EXCEPT ![t] = n]

\* The task that main fetched swaps back when it is t that is listed.
SwapBack(t) == fetched' = IF fetched = t THEN None ELSE fetched

\* insert, for a task that is new, or running and about to suspend: it fires now
\* or later (add_task, yield_task, hold_task_for, wait_for_...).
Insert(t) ==
  /\ ~waiting
  /\ nft[t] = 0 \/ fetched = t
  /\ \E n \in now .. MaxTime, h \in BOOLEAN :
       /\ h => fetched = t
       /\ Stamp(t, n)
       /\ map' \in Assign(map, KeyOf(t, n), h)
  /\ SwapBack(t)
  /\ UNCHANGED <<now, waiting, vain, errorVars>>

\* main inserts a repeatable task that has returned: it fires an interval later
\* than it did, which may have passed already.
Repeat(t) ==
  /\ fetched = t
  /\ \E n \in nft[t] + 1 .. MaxTime :
       /\ Stamp(t, n)
       /\ map' \in Assign(map, KeyOf(t, n), FALSE)
  /\ SwapBack(t)
  /\ UNCHANGED <<now, waiting, vain, errorVars>>

\* hold_task: the running task suspends without being listed.
Hold(t) ==
  /\ fetched = t
  /\ fetched' = None
  /\ UNCHANGED <<map, nft, now, waiting, vain, errorVars>>

\* The running task returns and main destroys it.
End(t) ==
  /\ fetched = t
  /\ fetched' = None
  /\ nft' = [nft EXCEPT ![t] = 0]
  /\ UNCHANGED <<map, now, waiting, vain, errorVars>>

\* Mutant: the time is changed in place.
MutMoved(m, i, k) == {[m EXCEPT ![i].time = k.time]}
\* replace_time, from where find has ended.
Moved(m, i, k) == Assign(RemoveAt(m, i), k, m[i].hook)

\* loopimpl::wakeup_task (and cancel): has, then replace_time or insert.
Rouse(t) ==
  /\ ~waiting
  /\ nft[t] # 0 /\ fetched # t
  /\ \E i \in LowerBound(map, KeyOf(t, nft[t])) :
       IF IsAt(map, KeyOf(t, nft[t]), i)
         THEN Stamp(t, now) /\ map' \in Moved(map, i, KeyOf(t, now))
         ELSE map' \in Assign(map, KeyOf(t, nft[t]), FALSE) /\ UNCHANGED nft
  /\ UNCHANGED <<now, fetched, waiting, vain, errorVars>>

\* loopimpl::main: nearest_time has come, fetch takes the first entry, and its
\* handler erases the task from the list it has just left and the read entry of
\* the descriptor.  What fetch returns is the task main swaps to.
Fetch ==
  /\ ~waiting /\ fetched = None
  /\ map # <<>> /\ Head(map).time <= now
  /\ LET t == Head(map).tid IN
       /\ nft[t] # 0
       /\ fetched' = t
       /\ IF Head(map).hook
            THEN map' \in Erase(Tail(map), KeyOf(t, nft[t])) /\ vain' \in {vain, vain \cup {t}}
            ELSE map' = Tail(map) /\ UNCHANGED vain
  /\ UNCHANGED <<nft, now, waiting, errorVars>>

\* main waits for descriptors when nothing is due.
EnterWait ==
  /\ ~waiting /\ fetched = None
  /\ map # <<>> => now < Head(map).time
  /\ waiting' = TRUE
  /\ UNCHANGED <<map, nft, now, fetched, vain, errorVars>>

LeaveWait ==
  /\ Polling
  /\ waiting' = FALSE
  /\ UNCHANGED <<map, nft, now, fetched, vain, errorVars>>

\* One turn of on_event_, for a task with an entry of the descriptor: erase, and
\* insert again to fire now.  A task that has two has two turns.
Renew(t) ==
  /\ Polling
  /\ t \in Hooked \cup vain /\ nft[t] # 0
  /\ Stamp(t, now)
  /\ \E m \in Erase(map, KeyOf(t, nft[t])) : map' \in Assign(m, KeyOf(t, now), FALSE)
  /\ vain' \in {vain, vain \ {t}}
  /\ UNCHANGED <<now, fetched, waiting, errorVars>>

\* on_error_: search_all finds the tasks that wait for the descriptor (W) and
\* those that wrote to it in vain (V), a task that is both of them twice.
OnError ==
  /\ Polling
  /\ \E W \in SUBSET Hooked, V \in SUBSET vain :
       LET alive == {t \in W \cup V : nft[t] # 0} IN
       /\ Twice \/ W \cap V = {}
       /\ erasing' = alive
       /\ todo' = alive
       /\ again' = alive \cap W \cap V
       /\ vain' = vain \ V
  /\ UNCHANGED <<map, nft, now, fetched, waiting>>

\* erase(fd): the entry of t goes, under the time t has.
EraseOf(t) ==
  /\ t \in erasing
  /\ erasing' = erasing \ {t}
  /\ map' \in Erase(map, KeyOf(t, nft[t]))
  /\ UNCHANGED <<nft, now, fetched, waiting, vain, todo, again>>

\* One turn of the loop of on_error_: t is to fire now and is inserted, in its
\* second turn as in its first.
Tell(t) ==
  /\ erasing = {}
  /\ t \in todo \cup again
  /\ Stamp(t, now)
  /\ map' \in Assign(map, KeyOf(t, now), FALSE)
  /\ todo' = todo \ {t}
  /\ again' = IF t \in todo THEN again ELSE again \ {t}
  /\ UNCHANGED <<now, fetched, waiting, vain, erasing>>

Tick ==
  /\ now < MaxTime
  /\ now' = now + 1
  /\ UNCHANGED <<map, nft, fetched, waiting, vain, errorVars>>

Next ==
  \/ \E t \in Task :
       \/ Insert(t) \/ Repeat(t) \/ Hold(t) \/ End(t) \/ Rouse(t)
       \/ Renew(t) \/ EraseOf(t) \/ Tell(t)
  \/ Fetch \/ EnterWait \/ LeaveWait
  \/ OnError
  \/ Tick

Spec == Init /\ [][Next]_vars

----------------------------------------------------------------------------
\* The map is what a lookup assumes: in strict order of time, one entry per
\* task, under the time the task has now.  The comparator alone does not give it:
\* it depends on every caller taking a task out of the map before it changes
\* next_fire_time, which they do while no two fire times are equal (Ties) and no
\* error finds a task twice (Twice).
MapIsSound ==
  /\ map \in Seq(Entry) /\ nft \in [Task -> Time \cup {0}] /\ now \in Time
  /\ \A i, j \in DOMAIN map : i < j => map[i].time < map[j].time
  /\ \A i, j \in DOMAIN map : map[i].tid = map[j].tid => i = j
  /\ \A i \in DOMAIN map : map[i].time = nft[map[i].tid]

\* The list then implements the queue its callers expect, errors of descriptors
\* included: what an error takes out is back before anything is fetched.
Queue == INSTANCE TimerQueue WITH q <- {map[i] : i \in DOMAIN map},
                                  recalled <- (todo \cup again) \ erasing
QueueSpec == Queue!Spec

\* "Sort & Insert a task into the list" (tasklist.hxx, tasklist.cpp): a task
\* that is inserted is in the list, and so is every task that was.
InsertKeepsAll ==
  [][\A t \in Task : Insert(t) => Listed \cup {t} \subseteq Listed']_vars

\* "Fetch the task with the nearest fire time among all task in this list"
\* (tasklist.hxx): what is in the list is a task.  main swaps to what it fetches
\* without a test.
ListedExist == \A i \in DOMAIN map : nft[map[i].tid] # 0
=============================================================================
