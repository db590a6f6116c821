---------------------------- MODULE StackCache ----------------------------
(***************************************************************************)
(* stack_cache: the stack buffers of finished tasks, kept for new ones.    *)
(***************************************************************************)
EXTENDS Naturals, Sequences, SequencesExt

CONSTANTS Buffer, Task, None, MaxCount  \* MaxCount is the greatest limit that is set

VARIABLES
  cache_list,  \* cache_list_
  max_count,   \* max_count_
  stack        \* the buffer of each task that is there

sc_vars == <<cache_list, max_count, stack>>

TypeOK == cache_list \in Seq(Buffer) /\ max_count \in 0..MaxCount /\ stack \in [Task -> Buffer \cup {None}]

\* The cache is thread_local, and nothing but this sets its limit to zero.
Init == cache_list = <<>> /\ max_count = 0 /\ stack = [t \in Task |-> None]

\* Mutant: the buffer stays in the list.
MutFetch(t) ==
  /\ stack[t] = None
  /\ IF cache_list # <<>> THEN stack' = [stack EXCEPT ![t] = Head(cache_list)]
     ELSE \E b \in Buffer : (\A u \in Task : stack[u] # b) /\ stack' = [stack EXCEPT ![t] = b]
  /\ UNCHANGED <<cache_list, max_count>>

\* A buffer is made when none is free.
fetch(t) ==
  /\ stack[t] = None
  /\ IF cache_list # <<>>
     THEN stack' = [stack EXCEPT ![t] = Head(cache_list)] /\ cache_list' = Tail(cache_list)
     ELSE /\ \E b \in Buffer : (\A u \in Task : stack[u] # b) /\ stack' = [stack EXCEPT ![t] = b]
          /\ UNCHANGED cache_list
  /\ UNCHANGED max_count

\* At the limit the buffer is given back.
release(t) ==
  /\ stack[t] # None /\ stack' = [stack EXCEPT ![t] = None]
  /\ cache_list' = IF Len(cache_list) >= max_count THEN cache_list ELSE Append(cache_list, stack[t])
  /\ UNCHANGED max_count

\* A lower limit takes nothing out.
set_cache_count(n) == max_count' = n /\ UNCHANGED <<cache_list, stack>>

Next == \/ \E t \in Task : fetch(t) \/ release(t)
        \/ \E n \in 0..MaxCount : set_cache_count(n)

Spec == Init /\ [][Next]_sc_vars

\* No two tasks run on one stack, and none on a stack that will be given to another.
NoSharedStack ==
  LET held == {t \in Task : stack[t] # None} IN
  /\ \A t, u \in held : stack[t] = stack[u] => t = u
  /\ \A t \in held : stack[t] \notin Range(cache_list)
  /\ IsInjective(cache_list)
=============================================================================
