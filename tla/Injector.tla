------------------------------ MODULE Injector ------------------------------
(***************************************************************************)
(* Cross-thread injection (src/src/task/shared): callers in other threads  *)
(* write requests to the pipe of a loop, the injecting task of that loop   *)
(* reads them and makes each a task of its own, and the answer goes to a   *)
(* descriptor the caller waits on.                                         *)
(*                                                                         *)
(* Every element of Call is one call, made at most once, by a caller of    *)
(* its own: any two calls may overlap.  The loop's thread runs one task at *)
(* a time; the callers take their steps between its steps.                 *)
(***************************************************************************)
EXTENDS Naturals, Sequences

CONSTANTS
  Call,     \* the calls
  Quit,     \* the call whose worker is loop::exit
  Tasks,    \* the calls made by tasks of another loop; the others block a thread
  Fd,       \* the descriptors of the answers: the least free number is given out
  None,
  PipeMax   \* requests the pipe holds before a write blocks

VARIABLES
  pc,         \* where the caller of each call is
  kind,       \* which of the three functions was called
  out,        \* InjectorInfo::io_out
  late,       \* the calls whose timedout has passed
  owner,      \* the call that has a descriptor open
  mail,       \* the answers in each descriptor, by the call they are meant for
  io,         \* injector::io_write_ # -1
  ropen,      \* the read end of the loop's pipe is open
  pipe,       \* the requests in it
  ij,         \* where the injecting task is
  ready,      \* the due tasks of the loop in the order they will run
  work,       \* the task of each request
  running,    \* loopimpl::running_
  refused     \* the calls that were answered with -1

callers == <<pc, kind, out, late, owner>>
vars == <<callers, mail, io, ropen, pipe, ij, ready, work, running, refused>>

Kind == {"sync", "wait", "async"}
Self == "ij"
Leaving == {"drain", "answer", "close", "atexit"}  \* the task runs and does not suspend

TypeOK ==
  /\ pc \in [Call -> {"new", "checked", "waiting", "true", "false"}]
  /\ kind \in [Call -> Kind] /\ out \in [Call -> Fd \cup {None}]
  /\ late \subseteq Call /\ refused \subseteq Call
  /\ owner \in [Fd -> Call \cup {None}] /\ mail \in [Fd -> SUBSET Call]
  /\ io \in BOOLEAN /\ ropen \in BOOLEAN /\ running \in BOOLEAN
  /\ pipe \in Seq(Call) /\ ready \in Seq(Call \cup {Self})
  /\ ij \in {"waiting", "ready", "broken", "gone"} \cup Leaving
  /\ work \in [Call -> {"none", "new", "running", "writing", "end"}]

\* injector::injector in the thread of loop::loop, before main.
Init ==
  /\ pc = [c \in Call |-> "new"] /\ kind = [c \in Call |-> "async"]
  /\ out = [c \in Call |-> None] /\ late = {}
  /\ owner = [f \in Fd |-> None] /\ mail = [f \in Fd |-> {}]
  /\ io = TRUE /\ ropen = TRUE /\ pipe = <<>>
  /\ ij = "waiting" /\ ready = <<>>
  /\ work = [c \in Call |-> "none"]
  /\ running = TRUE /\ refused = {}

----------------------------------------------------------------------------
(* The callers.                                                            *)

LeastFree == CHOOSE f \in Fd : /\ owner[f] = None
                               /\ \A g \in Fd : owner[g] = None => f <= g

\* sync_inject, inject_wait and async_inject up to the write: io_write_ is tested here.
Ask(c, k) ==
  /\ pc[c] = "new"
  /\ kind' = [kind EXCEPT ![c] = k]
  /\ pc' = [pc EXCEPT ![c] = IF io THEN "checked" ELSE "false"]
  /\ IF io /\ k # "async"
     THEN /\ \E f \in Fd : owner[f] = None
          /\ out' = [out EXCEPT ![c] = LeastFree]
          /\ owner' = [owner EXCEPT ![LeastFree] = c]
          /\ mail' = [mail EXCEPT ![LeastFree] = {}]
     ELSE UNCHANGED <<out, owner, mail>>
  /\ UNCHANGED <<late, io, ropen, pipe, ij, ready, work, running, refused>>

\* shared::loop::run, run_loop, run_delay, sync_inject, inject_wait, async_inject.
\* Once the thread has ended, ij_.lock() fails as io_write_ does before.
LoopCall(c) == c # Quit /\ \E k \in Kind : Ask(c, k)

\* shared::task: every accessor and every command is a sync_inject.
TaskCall(c) == c # Quit /\ Ask(c, "sync")

\* shared::loop::exit and ~loop
LoopExit == Ask(Quit, "async")

\* The write: its result is ignored, and it blocks while the pipe is full.
Write(c) ==
  /\ pc[c] = "checked"
  /\ pc' = [pc EXCEPT ![c] = IF kind[c] = "async" THEN "true" ELSE "waiting"]
  /\ \/ io /\ ropen /\ Len(pipe) < PipeMax /\ pipe' = Append(pipe, c)
     \/ ~(io /\ ropen) /\ pipe' = pipe
  /\ UNCHANGED <<kind, out, late, owner, mail, io, ropen, ij, ready, work, running, refused>>

\* The caller returns, and the deleter of ij_io closes its descriptors.
Leave(c, result) ==
  /\ pc' = [pc EXCEPT ![c] = result]
  /\ owner' = [owner EXCEPT ![out[c]] = None]
  /\ mail' = [mail EXCEPT ![out[c]] = {}]
  /\ UNCHANGED <<kind, out, late, io, ropen, pipe, ij, ready, work, running, refused>>

\* The descriptor is readable: what is in it is not read.
Answered(c) == pc[c] = "waiting" /\ mail[out[c]] # {} /\ Leave(c, "true")

Deadline(c) ==
  /\ kind[c] = "wait" /\ pc[c] \in {"checked", "waiting"} /\ c \notin late
  /\ late' = late \cup {c}
  /\ UNCHANGED <<pc, kind, out, owner, mail, io, ropen, pipe, ij, ready, work, running, refused>>

\* The wait of inject_wait timed out.
TimesOut(c) ==
  pc[c] = "waiting" /\ c \in late /\ mail[out[c]] = {} /\ Leave(c, "false")

\* The calling task was cancelled, so that its wait ends as broken.
CallerCancelled(c) == c \in Tasks /\ pc[c] = "waiting" /\ Leave(c, "false")

----------------------------------------------------------------------------
(* The thread of the loop.                                                 *)

\* No task is in the middle of what it does without a switch.
Free == ij \notin Leaving /\ \A c \in Call : work[c] # "writing"
IsNext(t) == Free /\ ready # <<>> /\ Head(ready) = t

\* main waits on the pipe only while it is running and nothing is due.
IjWakes ==
  /\ Free /\ running /\ ready = <<>> /\ ij = "waiting" /\ pipe # <<>>
  /\ ij' = "ready" /\ ready' = <<Self>>
  /\ UNCHANGED <<callers, mail, io, ropen, pipe, work, running, refused>>

\* Mutant: the new task goes before those that are due.
MutIjReads ==
  /\ IsNext(Self) /\ ij = "ready" /\ pipe # <<>>
  /\ pipe' = Tail(pipe) /\ work' = [work EXCEPT ![Head(pipe)] = "new"]
  /\ ready' = <<Self, Head(pipe)>> \o Tail(ready)
  /\ UNCHANGED <<callers, mail, io, ropen, ij, running, refused>>

\* One request becomes one task, then the injecting task yields; at EAGAIN it waits.
IjReads ==
  /\ IsNext(Self) /\ ij = "ready"
  /\ IF pipe = <<>>
     THEN ij' = "waiting" /\ ready' = Tail(ready) /\ UNCHANGED <<pipe, work>>
     ELSE /\ pipe' = Tail(pipe)
          /\ work' = [work EXCEPT ![Head(pipe)] = "new"]
          /\ ready' = Tail(ready) \o <<Head(pipe), Self>>
          /\ UNCHANGED ij
  /\ UNCHANGED <<callers, mail, io, ropen, running, refused>>

\* main after exit: with nothing due, every task is cancelled, and its wait broken.
CancelAll ==
  /\ Free /\ ~running /\ ready = <<>> /\ ij = "waiting"
  /\ ij' = "broken" /\ ready' = <<Self>>
  /\ UNCHANGED <<callers, mail, io, ropen, pipe, work, running, refused>>

IjBroken ==
  /\ IsNext(Self) /\ ij = "broken"
  /\ ij' = "drain" /\ ready' = Tail(ready)
  /\ UNCHANGED <<callers, mail, io, ropen, pipe, work, running, refused>>

DrainSelect ==
  /\ ij = "drain"
  /\ ij' = IF pipe = <<>> THEN "close" ELSE "answer"
  /\ UNCHANGED <<callers, mail, io, ropen, pipe, ready, work, running, refused>>

\* Mutant: the answer goes to every descriptor.
MutPost(c) == mail' = [f \in Fd |-> mail[f] \cup {c}]

\* The answer goes to whoever has the descriptor open by now.
Post(c) == mail' = [f \in Fd |-> IF f = out[c] /\ owner[f] # None
                                 THEN mail[f] \cup {c} ELSE mail[f]]
MutWaits(c) == kind[c] = "wait" /\ c \notin late \* Mutant: sync_inject is not answered.

Waits(c) == kind[c] # "async" /\ c \notin late

\* A request is read and answered with -1; `ret` is not 0 any more, which ends the loop.
DrainOne ==
  /\ ij = "answer"
  /\ pipe' = Tail(pipe)
  /\ IF Waits(Head(pipe))
     THEN Post(Head(pipe)) /\ refused' = refused \cup {Head(pipe)}
     ELSE UNCHANGED <<mail, refused>>
  /\ ij' = "close"
  /\ UNCHANGED <<callers, io, ropen, ready, work, running>>

IjCloses ==
  /\ ij = "close" /\ ij' = "atexit" /\ ropen' = FALSE
  /\ UNCHANGED <<callers, mail, io, pipe, ready, work, running, refused>>

\* The atexit handler of the injecting task
IjAtexit ==
  /\ ij = "atexit" /\ ij' = "gone" /\ io' = FALSE
  /\ UNCHANGED <<callers, mail, ropen, pipe, ready, work, running, refused>>

StartWork(c) ==
  /\ IsNext(c)
  /\ work' = [work EXCEPT ![c] = "running"]
  /\ running' = (running /\ c # Quit)
  /\ ready' = Tail(ready)
  /\ UNCHANGED <<callers, mail, io, ropen, pipe, ij, refused>>

\* The worker returns, at once or after it was suspended: the deadline is tested here.
EndWork(c) ==
  /\ Free /\ work[c] = "running"
  /\ work' = [work EXCEPT ![c] = IF Waits(c) THEN "writing" ELSE "end"]
  /\ UNCHANGED <<callers, mail, io, ropen, pipe, ij, ready, running, refused>>

WriteAnswer(c) ==
  /\ work[c] = "writing"
  /\ work' = [work EXCEPT ![c] = "end"]
  /\ Post(c)
  /\ UNCHANGED <<callers, io, ropen, pipe, ij, ready, running, refused>>

LoopStep ==
  \/ IjWakes \/ IjReads \/ CancelAll \/ IjBroken
  \/ DrainSelect \/ DrainOne \/ IjCloses \/ IjAtexit
  \/ \E c \in Call : StartWork(c) \/ EndWork(c) \/ WriteAnswer(c)

CallerStep ==
  \/ LoopExit
  \/ \E c \in Call : \/ LoopCall(c) \/ TaskCall(c) \/ Write(c) \/ Answered(c)
                     \/ Deadline(c) \/ TimesOut(c) \/ CallerCancelled(c)

Next == LoopStep \/ CallerStep

Spec == Init /\ [][Next]_vars

\* A thread that can go on does, and workers return.
FairSpec ==
  /\ Spec /\ WF_vars(LoopStep)
  /\ \A c \in Call : /\ WF_vars(Write(c)) /\ WF_vars(Answered(c)) /\ WF_vars(TimesOut(c))
                     /\ WF_vars(EndWork(c))

----------------------------------------------------------------------------
(* Properties.                                                             *)

\* A request starts at most once, and never if its caller was told, with -1, that it
\* is cancelled.
RefusedNeverRuns ==
  /\ \A c \in refused : work[c] = "none"
  /\ \A c \in Call : work[c] # "none" => \A i \in DOMAIN pipe : pipe[i] # c

Before(s, c, d) == \E i, j \in DOMAIN s : i < j /\ s[i] = c /\ s[j] = d

\* Requests start in the order in which they were written to the pipe: of two that have not
\* started, the earlier stays before the later, which never starts first.
StartsInOrder == [][\A c, d \in Call : Before(ready \o pipe, c, d) =>
  ~Before(ready' \o pipe', d, c) /\ (work'[d] = "running" => work[d] = "running")]_vars

\* Until a caller gives up, every descriptor holds the answers to its own call only,
\* and a caller that was told `true` has been served or refused.  (After that, answers
\* may be written to the next call that has the descriptor, one after the other.)
AnswersAreOwn ==
  (\A c \in Call : pc[c] = "false" => out[c] = None) =>
    /\ \A f \in Fd : mail[f] \subseteq {owner[f]}
    /\ \A c \in Call : pc[c] = "true" /\ kind[c] # "async"
                        => work[c] = "end" \/ c \in refused

\* While the loop has its pipe, no caller is kept waiting: again and again, all have returned.
CallersReturn == []<>(ropen => \A c \in Call : pc[c] # "waiting")
=============================================================================
