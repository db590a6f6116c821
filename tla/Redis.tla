------------------------------- MODULE Redis -------------------------------
(***************************************************************************)
(* redis_connector: the connection, the tasks that test it every ten       *)
(* seconds, the queue of queries and the subscription, all of one loop.    *)
(* They share conn_, the descriptor in it and last_result_, and whatever   *)
(* reads is suspended meanwhile.  A reply is the command it answers.       *)
(***************************************************************************)
EXTENDS Naturals, Sequences

CONSTANTS
  Cmd,       \* the queries, each made at most once
  Keeper,    \* keepalive tasks
  Conn,      \* the connectors, used in order
  Greeting,  \* what connect sends: a subset of {"AUTH", "SELECT"}
  None,
  MaxPing, MaxMessage, MaxSubscribe  \* bounds on tests, published messages and subscriptions

VARIABLES
  conn,      \* conn_
  link,      \* the state of the socket of each connector
  asked,     \* the commands the server has not answered
  wire,      \* what has arrived and was not read
  at, on,    \* where each task is, and the connector it is suspended in
  woken,     \* the tasks whose descriptor event has been delivered
  cancelled, \* the cancelled tasks
  keeper,    \* keepalive_task_
  subscribe_task,   \* subscribe_task_ is not kInvalidateTaskId
  queue,     \* the workers of cmd_queue_, the one that runs included
  last,      \* last_result_: the replies that were parsed into it
  answer,    \* what each query has returned
  released,  \* the connector has been destroyed
  crashed,   \* conn_ was used when null, or a connector after its destruction
  trouble,   \* what has happened: a "loss", two tasks "mixed" on one
             \* connection (a cancelled test leaves its answer there), conn_ "cut" by disconnect with queries
             \* or a subscription pending, or by unsubscribe, or given up by a "stale" test while connect makes it
  counts     \* tests, messages and subscriptions so far

net == <<link, asked, wire>>
tasks == <<at, on, woken, cancelled>>
handles == <<keeper, subscribe_task>>
results == <<queue, last, answer>>
rvars == <<conn, net, tasks, handles, results, released, crashed, trouble, counts>>

Task == Keeper \cup {"user", "inner", "sub"}
Reading == {"AUTH", "SELECT", "query", "ping", "ack", "message", "unsub"}

TypeOK ==
  /\ conn \in Conn \cup {None} /\ keeper \in Keeper \cup {None}
  /\ link \in [Conn -> {"none", "new", "up", "lost"}]
  /\ at \in [Task -> {"none", "idle", "sleep", "dialing", "begin"} \cup Reading]
  /\ on \in [Task -> Conn \cup {None}]
  /\ woken \subseteq Task /\ cancelled \subseteq Task
  /\ queue \in Seq(Cmd) /\ trouble \subseteq {"loss", "mixed", "cut", "stale"}
  /\ {subscribe_task, released, crashed} \subseteq BOOLEAN

Init ==
  /\ conn = None /\ link = [c \in Conn |-> "none"]
  /\ asked = [c \in Conn |-> <<>>] /\ wire = [c \in Conn |-> <<>>]
  /\ at = [t \in Task |-> IF t \in {"user", "inner"} THEN "idle" ELSE "none"]
  /\ on = [t \in Task |-> None] /\ woken = {} /\ cancelled = {}
  /\ keeper = None /\ subscribe_task = FALSE
  /\ queue = <<>> /\ last = <<>> /\ answer = [x \in Cmd |-> "none"]
  /\ released = FALSE /\ crashed = FALSE /\ trouble = {}
  /\ counts = [pings |-> 0, messages |-> 0, subscribes |-> 0]

\* After tasks were mixed or a bad pointer used, the model stops.
Live == ~crashed /\ "mixed" \notin trouble

is_validate == conn # None /\ link[conn] # "new"

\* conn_ holds the connector, or the test that is suspended in it does (ref_conn).
Exists(c) == conn = c \/ \E k \in Keeper : at[k] = "ping" /\ on[k] = c

\* Where tasks go, and the connector they are suspended in then.
To(t, a, c) == [u \in {t} |-> <<a, c>>]
And(f, g) == [u \in DOMAIN f \cup DOMAIN g |-> IF u \in DOMAIN f THEN f[u] ELSE g[u]]
Move(f) == /\ at' = [t \in Task |-> IF t \in DOMAIN f THEN f[t][1] ELSE at[t]]
           /\ on' = [t \in Task |-> IF t \in DOMAIN f THEN f[t][2] ELSE on[t]]
           /\ woken' = woken \ DOMAIN f

Crash == /\ crashed' = TRUE
         /\ UNCHANGED <<conn, net, tasks, handles, results, released, trouble, counts>>

\* conn_->write(cmd), and the following conn_->read() up to its switch.
Send(t, cmd) ==
  /\ asked' = [asked EXCEPT ![conn] = IF link'[conn] = "up" THEN Append(@, cmd) ELSE @]
  /\ trouble' = IF \/ \E r \in Task \ {t} : at[r] \in Reading /\ on[r] = conn
                   \/ t \in Keeper \cap cancelled
                THEN trouble \cup {"mixed"} ELSE trouble

\* A write is refused before the connection is there, and may fail when it is lost.
CanFail == is_validate => link[conn] = "lost"

\* begin_keepalive_ by t, which goes on as f says, when conn_ is still what it was: a
\* keepalive task that is already there is not looked at.
BeginKeepalive(f) ==
  /\ cancelled' = IF subscribe_task /\ at["sub"] # "none" /\ "sub" \notin DOMAIN f
                  THEN cancelled \cup {"sub"} ELSE cancelled \ DOMAIN f
  /\ subscribe_task' = FALSE
  /\ IF conn # None /\ link'[conn] # "new"
     THEN LET k == CHOOSE j \in Keeper : at[j] = "none"
          IN  /\ \E j \in Keeper : at[j] = "none"
              /\ keeper' = k /\ Move(And(f, To(k, "sleep", None)))
     ELSE keeper' = keeper /\ Move(f)

----------------------------------------------------------------------------
(* The user: connect, disconnect, query, subscribe, unsubscribe.           *)

Calls == Live /\ ~released /\ at["user"] = "idle"

\* Mutant: a connection that is there is replaced.
MutConnect ==
  /\ Calls
  /\ \E c \in Conn : /\ link[c] = "none" /\ \A d \in Conn : link[d] = "none" => c <= d
                     /\ conn' = c /\ link' = [link EXCEPT ![c] = "new"]
                     /\ Move(To("user", "dialing", c))
  /\ UNCHANGED <<asked, wire, cancelled, handles, results, released, crashed, trouble, counts>>

\* If the connection is there, nothing is done; otherwise it is made of a new connector.
Connect ==
  /\ Calls /\ conn = None
  /\ \E c \in Conn : /\ link[c] = "none" /\ \A d \in Conn : link[d] = "none" => c <= d
                     /\ conn' = c /\ link' = [link EXCEPT ![c] = "new"]
                     /\ Move(To("user", "dialing", c))
  /\ UNCHANGED <<asked, wire, cancelled, handles, results, released, crashed, trouble, counts>>

ConnectFails ==
  /\ conn' = None /\ Move(To("user", "idle", None))
  /\ UNCHANGED <<asked, cancelled, handles, trouble>>

\* The next command of the greeting, then the end of connect.
GoOn ==
  LET x == CASE at["user"] = "dialing" /\ "AUTH" \in Greeting -> "AUTH"
             [] at["user"] # "SELECT" /\ "SELECT" \in Greeting -> "SELECT"
             [] OTHER -> "idle"
  IN  /\ conn' = conn
      /\ IF x # "idle"
         THEN /\ Send("user", x) /\ Move(To("user", x, conn))
              /\ UNCHANGED <<cancelled, handles>>
         ELSE BeginKeepalive(To("user", "idle", None)) /\ UNCHANGED <<asked, trouble>>

\* conn_->connect(server_info_) returns.
Dialed ==
  /\ Live /\ at["user"] = "dialing"
  /\ IF conn # on["user"] THEN Crash
     ELSE /\ \/ ConnectFails /\ UNCHANGED link
             \/ link' = [link EXCEPT ![conn] = "up"] /\ GoOn
          /\ UNCHANGED <<wire, results, released, crashed, counts>>

\* conn_->read() of the greeting returns: any reply but exactly this one is a failure.
Greeted ==
  LET c == on["user"] IN
  /\ Live /\ at["user"] \in {"AUTH", "SELECT"}
  /\ IF conn # c THEN Crash
     ELSE /\ link' = link
          /\ IF "user" \in woken /\ wire[c] = <<at["user"]>> THEN GoOn ELSE ConnectFails
          /\ wire' = [wire EXCEPT ![c] = IF "user" \in woken THEN <<>> ELSE @]
          /\ UNCHANGED <<results, released, crashed, counts>>

Disconnect ==
  /\ Calls /\ conn # None
  /\ cancelled' = IF keeper = None THEN cancelled ELSE cancelled \cup {keeper}
  /\ conn' = None /\ keeper' = None
  /\ trouble' = IF queue = <<>> /\ at["sub"] \notin Reading THEN trouble ELSE trouble \cup {"cut"}
  /\ UNCHANGED <<net, at, on, woken, subscribe_task, results, released, crashed, counts>>

\* The worker is appended, and the caller held until it has run.
Query(x) ==
  /\ Calls /\ is_validate /\ answer[x] = "none" /\ \A i \in DOMAIN queue : queue[i] # x
  /\ queue' = Append(queue, x)
  /\ UNCHANGED <<conn, net, tasks, handles, last, answer, released, crashed, trouble, counts>>

\* One subscription task at a time: a bound.
Subscribe ==
  /\ Calls /\ at["sub"] = "none" /\ counts.subscribes < MaxSubscribe
  /\ counts' = [counts EXCEPT !.subscribes = @ + 1]
  /\ cancelled' = IF keeper = None THEN cancelled ELSE cancelled \cup {keeper}
  /\ keeper' = None /\ subscribe_task' = TRUE
  /\ Move(To("sub", "begin", None))
  /\ UNCHANGED <<conn, net, results, released, crashed, trouble>>

Unsubscribe ==
  /\ Calls /\ link' = link /\ BeginKeepalive(<<>>)
  /\ UNCHANGED <<conn, asked, wire, results, released, crashed, trouble, counts>>

\* ~redis_connector: whatever is suspended in a member keeps the object.
Release ==
  /\ Calls /\ queue = <<>> /\ at["sub"] \notin Reading /\ \A k \in Keeper : at[k] # "ping"
  /\ released' = TRUE /\ conn' = None
  /\ cancelled' = cancelled \cup (({keeper} \ {None}) \cup {t \in {"sub"} : subscribe_task})
  /\ UNCHANGED <<net, at, on, woken, handles, results, crashed, trouble, counts>>

----------------------------------------------------------------------------
(* connection_test in the keepalive task.                                  *)

\* The end of one repetition; a cancelled task is not repeated.
TestEnds(k, fine) ==
  IF fine \/ k \in cancelled
  THEN /\ Move(To(k, IF k \in cancelled THEN "none" ELSE "sleep", None))
       /\ cancelled' = cancelled \ {k}
       /\ UNCHANGED <<conn, keeper>>
  ELSE conn' = None /\ keeper' = None /\ Move(To(k, "none", None)) /\ UNCHANGED cancelled

\* Ten seconds have passed, or the task was cancelled: then it runs once more, and its
\* read returns at once.
Test(k) ==
  /\ Live /\ at[k] = "sleep" /\ link' = link /\ (counts.pings < MaxPing \/ k \in cancelled)
  /\ \/ /\ released /\ TestEnds(k, TRUE) /\ UNCHANGED <<asked, trouble>>
     \/ /\ ~released /\ CanFail /\ TestEnds(k, FALSE) /\ asked' = asked
        /\ trouble' = IF conn # None /\ at["user"] = "dialing" THEN trouble \cup {"stale"} ELSE trouble
     \/ /\ ~released /\ is_validate /\ Send(k, "PING")
        /\ IF k \in cancelled THEN TestEnds(k, FALSE)
           ELSE Move(To(k, "ping", conn)) /\ UNCHANGED <<conn, keeper, cancelled>>
  /\ wire' = wire /\ counts' = [counts EXCEPT !.pings = @ + 1]
  /\ UNCHANGED <<subscribe_task, results, released, crashed>>

\* The answer, or what else is there, or nothing in ten seconds.
TestReturns(k) ==
  LET c == on[k] IN
  /\ Live /\ at[k] = "ping"
  /\ TestEnds(k, k \in woken /\ wire[c] = <<"PING">>)
  /\ wire' = [wire EXCEPT ![c] = IF k \in woken THEN <<>> ELSE @]
  /\ trouble' = trouble \cup (IF k \in woken THEN {} ELSE IF k \in cancelled THEN {"mixed"} ELSE {"loss"})
  /\ UNCHANGED <<link, asked, subscribe_task, results, released, crashed, counts>>

----------------------------------------------------------------------------
(* do_query_job_, in the inner task of the queue and in the subscription.  *)

JobFails == conn' = None /\ UNCHANGED <<asked, last, trouble>>

\* It begins: last_result_ is cleared, the command written.
StartJob(t, cmd, where) ==
  /\ conn' = conn /\ last' = <<>> /\ Send(t, cmd) /\ Move(To(t, where, conn))

\* The read returns with what has arrived, or with nothing: only the first reply is kept.
Parsed(t) == IF t \notin woken THEN last
             ELSE IF last = <<>> /\ wire[on[t]] # <<>> THEN <<Head(wire[on[t]])>>
             ELSE last \o wire[on[t]]
MutBroken(t) == t \notin woken /\ t \in cancelled \* Mutant: a loss is read as nothing, again and again.

Broken(t) == IF t \in woken THEN wire[on[t]] = <<>> /\ link[on[t]] = "lost"
             ELSE t \in cancelled
Returns(t) == Live /\ at[t] \in Reading
Taken(t) == wire' = [wire EXCEPT ![on[t]] = IF t \in woken THEN <<>> ELSE @]

\* Not all is there: the loop reads again, from what conn_ is by now.
Again(t) == conn # None /\ last' = Parsed(t) /\ Taken(t) /\ Move(To(t, at[t], conn))

Lost(t) == ~Exists(on[t]) \/ (~Broken(t) /\ Len(Parsed(t)) # 1 /\ conn = None)

InnerStarts ==
  /\ Live /\ at["inner"] = "idle" /\ queue # <<>>
  /\ IF conn = None THEN Crash
     ELSE /\ \/ /\ CanFail /\ conn' = None /\ last' = <<>>
                /\ answer' = [answer EXCEPT ![Head(queue)] = "failed"] /\ queue' = Tail(queue)
                /\ UNCHANGED <<asked, at, on, woken, trouble>>
             \/ /\ is_validate /\ link' = link /\ StartJob("inner", Head(queue), "query")
                /\ UNCHANGED <<answer, queue>>
          /\ UNCHANGED <<link, wire, cancelled, handles, released, crashed, counts>>

InnerReturns ==
  /\ Returns("inner")
  /\ IF Lost("inner") THEN Crash
     ELSE /\ \/ /\ Broken("inner") /\ conn' = None
                /\ answer' = [answer EXCEPT ![Head(queue)] = "failed"]
                /\ queue' = Tail(queue) /\ Move(To("inner", "idle", None))
                /\ UNCHANGED <<last, wire>>
             \/ /\ ~Broken("inner") /\ Len(Parsed("inner")) = 1
                /\ answer' = [answer EXCEPT ![Head(queue)] = Parsed("inner")[1]]
                /\ last' = <<>> /\ Taken("inner")
                /\ queue' = Tail(queue) /\ Move(To("inner", "idle", None))
                /\ UNCHANGED conn
             \/ /\ ~Broken("inner") /\ Len(Parsed("inner")) # 1
                /\ Again("inner") /\ UNCHANGED <<conn, queue, answer>>
          /\ UNCHANGED <<link, asked, cancelled, handles, released, crashed, trouble, counts>>

\* The task ends with begin_keepalive_, if conn_ is not null then.
SubEnds(failed) ==
  IF failed THEN /\ conn' = None /\ subscribe_task' = FALSE /\ keeper' = keeper
                 /\ cancelled' = cancelled \ {"sub"} /\ Move(To("sub", "none", None))
  ELSE conn' = conn /\ BeginKeepalive(To("sub", "none", None))

\* The head of the outer loop.
SubLoops ==
  \/ /\ "sub" \in cancelled \/ ~is_validate
     /\ SubEnds(FALSE) /\ UNCHANGED <<asked, last, trouble>>
  \/ /\ "sub" \notin cancelled /\ is_validate
     /\ \/ link[conn] = "lost" /\ SubEnds(TRUE) /\ last' = <<>> /\ UNCHANGED <<asked, trouble>>
        \/ StartJob("sub", "SUB", "ack") /\ UNCHANGED <<cancelled, handles>>

SubBegins ==
  /\ Live /\ at["sub"] = "begin" /\ link' = link
  /\ IF released
     THEN /\ Move(To("sub", "none", None)) /\ cancelled' = cancelled \ {"sub"}
          /\ UNCHANGED <<conn, asked, last, handles, trouble>>
     ELSE SubLoops
  /\ UNCHANGED <<wire, queue, answer, released, crashed, counts>>

\* do_query_job_(empty_cmd): the next message is waited for.
NextMessage == /\ last' = <<>> /\ Move(To("sub", "message", conn))
               /\ UNCHANGED <<conn, asked, cancelled, handles, trouble>>

\* After the inner loop: UNSUBSCRIBE, if the connection is there.
SubUnsubscribes(cancels) ==
  /\ StartJob("sub", "UNSUB", "unsub")
  /\ cancelled' = cancelled \cup cancels /\ UNCHANGED handles

SubReturns ==
  LET got == Parsed("sub")[1] IN
  /\ Returns("sub") /\ link' = link
  /\ IF Lost("sub") \/ conn = None THEN Crash
     ELSE /\ \/ /\ Broken("sub") /\ SubEnds(TRUE) /\ UNCHANGED <<wire, last, asked>>
                /\ trouble' = IF "sub" \in cancelled THEN trouble \cup {"cut"} ELSE trouble
             \/ /\ ~Broken("sub") /\ Len(Parsed("sub")) # 1 /\ Again("sub")
                /\ UNCHANGED <<conn, asked, cancelled, handles, trouble>>
             \/ /\ ~Broken("sub") /\ Len(Parsed("sub")) = 1 /\ Taken("sub")
                /\ CASE "sub" \in cancelled \/ (at["sub"] = "message" /\ got # "msg")
                          -> SubUnsubscribes({})
                     [] at["sub"] = "unsub" -> SubLoops
                     [] OTHER -> NextMessage
          /\ UNCHANGED <<queue, answer, released, crashed, counts>>

----------------------------------------------------------------------------
(* The server and the network.                                             *)

Quiet == UNCHANGED <<conn, at, on, cancelled, handles, results, released, crashed>>

\* A wrong password is answered like everything else, but not with "+OK".
Answer(c) ==
  /\ Live /\ Exists(c) /\ link[c] = "up" /\ asked[c] # <<>>
  /\ asked' = [asked EXCEPT ![c] = Tail(@)]
  /\ \E r \in {Head(asked[c])} \cup (IF Head(asked[c]) \in {"AUTH", "SELECT"} THEN {"error"} ELSE {}) :
       wire' = [wire EXCEPT ![c] = Append(@, r)]
  /\ Quiet /\ UNCHANGED <<link, woken, trouble, counts>>

Publish(c) ==
  /\ Live /\ Exists(c) /\ link[c] = "up" /\ at["sub"] = "message" /\ on["sub"] = c /\ counts.messages < MaxMessage
  /\ wire' = [wire EXCEPT ![c] = Append(@, "msg")]
  /\ counts' = [counts EXCEPT !.messages = @ + 1]
  /\ Quiet /\ UNCHANGED <<link, asked, woken, trouble>>

\* The peer closes; after a reset, what had arrived is gone.
Lose(c) ==
  /\ Live /\ Exists(c) /\ "loss" \notin trouble /\ link[c] = "up" /\ link' = [link EXCEPT ![c] = "lost"]
  /\ wire' \in {wire, [wire EXCEPT ![c] = <<>>]}
  /\ trouble' = trouble \cup {"loss"}
  /\ Quiet /\ UNCHANGED <<asked, woken, counts>>

\* One event wakes every task that waits for the descriptor.
Event(c) ==
  LET readers == {t \in Task : at[t] \in Reading /\ on[t] = c /\ t \notin cancelled} IN
  /\ Live /\ Exists(c)
  /\ wire[c] # <<>> \/ link[c] = "lost"
  /\ readers \ woken # {} /\ woken' = woken \cup readers
  /\ Quiet /\ UNCHANGED <<net, trouble, counts>>

Next ==
  \/ Connect \/ Dialed \/ Greeted \/ Disconnect \/ Subscribe \/ Unsubscribe \/ Release
  \/ InnerStarts \/ InnerReturns \/ SubBegins \/ SubReturns
  \/ \E x \in Cmd : Query(x)
  \/ \E k \in Keeper : Test(k) \/ TestReturns(k)
  \/ \E c \in Conn : Answer(c) \/ Publish(c) \/ Lose(c) \/ Event(c)

Spec == Init /\ [][Next]_rvars
\* Tasks that can run do, every wait ends in ten seconds, and the server answers.
FairSpec ==
  /\ Spec /\ WF_rvars(Dialed) /\ WF_rvars(Greeted)
  /\ WF_rvars(InnerStarts) /\ WF_rvars(InnerReturns)
  /\ \A k \in Keeper : WF_rvars(TestReturns(k))
  /\ \A c \in Conn : WF_rvars(Answer(c)) /\ WF_rvars(Event(c))

----------------------------------------------------------------------------
(* Properties.                                                             *)

\* Unless two tasks have waited on one connection at a time, a query that succeeds has
\* the reply to its own command, whatever was lost, given up and connected again.
AnswersAreOwn == "mixed" \notin trouble =>
  \A x \in Cmd : answer[x] \in {"none", "failed", x}

\* Queries that are made while the connection is there meet a null conn_ or a destroyed
\* connector only after a loss, a timeout or when tasks are mixed, or conn_ was given up by hand.
CrashNeedsTrouble == crashed => trouble # {}

\* If nothing was mixed, no query is kept waiting: again and again, all have returned.
QueryReturns == []<>(Live => queue = <<>>)
=============================================================================
