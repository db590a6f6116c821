----------------------------- MODULE MCLibrary -----------------------------
(***************************************************************************)
(* Small instances of the timed list, handles, waits, sockets, codecs,     *)
(* containers and utilities, for TLC: a behaviour is one of the parts, and *)
(* the variables of the others keep their initial values.                  *)
(***************************************************************************)
EXTENDS LibraryParts, TLC

CONSTANTS MaxOther, Byte, MaxText, Bits, PortBits, Undefined,
          Adapter, Caller, Number, Here, Addr, MaxListen

ASSUME FilesAssumption == MaxOther \in Nat
ASSUME TextAssumption == MaxText \in Nat
ASSUME AddressAssumption == Bits \in Nat /\ PortBits \in Nat

VARIABLES
  part,
  reply, wire, sbuf, count, result, status, resumed,
  zone, at, domain, packet, ips,
  tree, cache, removing, left, other,
  text,
  shape, from, to, mask, port,
  so, adapter, taken, dialer, excused

\* Where a text is split: at a `%`, and at a space and an `a`.
Carries == <<<<37>>, <<32, 97>>>>
\* Two names, on three levels.
Path == {<<1>>, <<2>>, <<1, 1>>, <<1, 2>>, <<1, 1, 1>>, <<1, 1, 2>>}
\* One label, two and three, of one letter and of two; the shorter ones end the longer.
Domain == {<<97>>, <<98, 99, 46, 97>>, <<97, 46, 98, 99, 46, 97>>}
Ip == {<<1, 2, 3, 4>>, <<0, 0, 0, 9>>}

Samples == INSTANCE SampleReplies WITH Resumed <- FALSE
Y == INSTANCE RedisReply WITH Replies <- Samples!MCReplies
N == INSTANCE Dns WITH result <- ips
F == INSTANCE Files
S == INSTANCE Strings
A == INSTANCE Addresses
K == INSTANCE Sockets

ASSUME SocketsAssumption ==
  /\ Number \subseteq Nat /\ MaxListen \in Nat /\ None \notin Number
  /\ None \notin Addr /\ None \notin Here /\ None \notin K!Socket /\ None \notin K!Object

yvars == <<reply, wire, sbuf, count, result, status, resumed>>
nvars == <<zone, at, domain, packet, ips>>
fvars == <<tree, cache, removing, left, other>>
avars == <<shape, from, to, mask, port>>
kvars == <<so, adapter, taken, dialer, excused>>
all == <<part, yvars, nvars, lvars, tvars, evars, ovars, cvars, fvars, text, avars, kvars, qvars, pvars, hvars, wvars, mvars>>

Parts == {"reply", "dns", "lru", "filter", "event", "depend", "stack", "files", "text", "ip",
          "sockets", "command", "args", "handles", "kqueue", "tasklist"}
Init ==
  /\ part \in Parts
  /\ Y!Init /\ N!Init /\ L!Init /\ T!Init /\ E!Init /\ O!Init /\ C!Init /\ F!Init /\ S!Init
  /\ A!Init /\ K!Init /\ Q!Init /\ P!Init /\ H!Init /\ KQ!init /\ M!Init

Next ==
  \/ /\ part = "reply" /\ Y!Next
     /\ UNCHANGED <<part, nvars, lvars, tvars, evars, ovars, cvars, fvars, text, avars, kvars, qvars, pvars, hvars, wvars, mvars>>
  \/ /\ part = "dns" /\ N!Next
     /\ UNCHANGED <<part, yvars, lvars, tvars, evars, ovars, cvars, fvars, text, avars, kvars, qvars, pvars, hvars, wvars, mvars>>
  \/ /\ part = "lru" /\ L!Next
     /\ UNCHANGED <<part, yvars, nvars, tvars, evars, ovars, cvars, fvars, text, avars, kvars, qvars, pvars, hvars, wvars, mvars>>
  \/ /\ part = "filter" /\ T!Next
     /\ UNCHANGED <<part, yvars, nvars, lvars, evars, ovars, cvars, fvars, text, avars, kvars, qvars, pvars, hvars, wvars, mvars>>
  \/ /\ part = "event" /\ E!Next
     /\ UNCHANGED <<part, yvars, nvars, lvars, tvars, ovars, cvars, fvars, text, avars, kvars, qvars, pvars, hvars, wvars, mvars>>
  \/ /\ part = "depend" /\ O!Next
     /\ UNCHANGED <<part, yvars, nvars, lvars, tvars, evars, cvars, fvars, text, avars, kvars, qvars, pvars, hvars, wvars, mvars>>
  \/ /\ part = "stack" /\ C!Next
     /\ UNCHANGED <<part, yvars, nvars, lvars, tvars, evars, ovars, fvars, text, avars, kvars, qvars, pvars, hvars, wvars, mvars>>
  \/ /\ part = "files" /\ F!Next
     /\ UNCHANGED <<part, yvars, nvars, lvars, tvars, evars, ovars, cvars, text, avars, kvars, qvars, pvars, hvars, wvars, mvars>>
  \/ /\ part = "text" /\ S!Type
     /\ UNCHANGED <<part, yvars, nvars, lvars, tvars, evars, ovars, cvars, fvars, avars, kvars, qvars, pvars, hvars, wvars, mvars>>
  \/ /\ part = "ip" /\ A!Next
     /\ UNCHANGED <<part, yvars, nvars, lvars, tvars, evars, ovars, cvars, fvars, text, kvars, qvars, pvars, hvars, wvars, mvars>>
  \/ /\ part = "sockets" /\ K!Next
     /\ UNCHANGED <<part, yvars, nvars, lvars, tvars, evars, ovars, cvars, fvars, text, avars, qvars, pvars, hvars, wvars, mvars>>
  \/ /\ part = "command" /\ Q!Next
     /\ UNCHANGED <<part, yvars, nvars, lvars, tvars, evars, ovars, cvars, fvars, text, avars, kvars, pvars, hvars, wvars, mvars>>
  \/ /\ part = "args" /\ P!Next
     /\ UNCHANGED <<part, yvars, nvars, lvars, tvars, evars, ovars, cvars, fvars, text, avars, kvars, qvars, hvars, wvars, mvars>>
  \/ /\ part = "handles" /\ H!Next
     /\ UNCHANGED <<part, yvars, nvars, lvars, tvars, evars, ovars, cvars, fvars, text, avars, kvars, qvars, pvars, wvars, mvars>>
  \/ /\ part = "kqueue" /\ KQ!Next
     /\ UNCHANGED <<part, yvars, nvars, lvars, tvars, evars, ovars, cvars, fvars, text, avars, kvars, qvars, pvars, hvars, mvars>>
  \/ /\ part = "tasklist" /\ M!Next
     /\ UNCHANGED <<part, yvars, nvars, lvars, tvars, evars, ovars, cvars, fvars, text, avars, kvars, qvars, pvars, hvars, wvars>>

Spec == Init /\ [][Next]_all

\* No part tells its tasks, commands, values, addresses or symbols apart.
Symmetry == Permutations(Task) \cup Permutations(Word)

\* Every part has the types it states.
TypeOK == /\ L!TypeOK /\ T!TypeOK /\ E!TypeOK /\ O!TypeOK
          /\ C!TypeOK /\ F!TypeOK /\ S!TypeOK /\ A!TypeOK
          /\ K!TypeOK /\ Q!TypeOK /\ P!TypeOK /\ H!TypeOK /\ KQ!TypeOK

\* The map of the timed list is in strict order of time, one entry per task, and implements
\* the queue its callers expect, errors of descriptors included, while no two fire times are
\* equal and no error finds a task twice (TaskList).
MapIsSound == M!MapIsSound
QueueSpec == M!QueueSpec

\* A redis reply is the same however it is cut, and of objects of known types (RedisReply).
ResultIsReply == Y!TypeOK /\ Y!ResultIsReply

\* The resolver returns what the server knows, unless it could not ask or misread an alias (Dns).
ResolvedIsKnown == N!ResolvedIsKnown

\* The index of the cache is that of its pool, and of a dependency graph everything comes
\* after all it depends on (LruCache, Depend).
ContainersAreSound == L!IndexIsPool /\ O!OrderIsSound

\* A removal takes one filter and leaves the others reachable (FilterTree).
RemovalIsLocal == T!RemovalIsLocal

\* Triggers are told of every change, however the calls are nested (EventTrigger).
EveryChangeHeard == E!EveryChangeHeard

\* No two tasks have one stack, and a handle reads what was set of its task, unless another
\* task got the address that the handle names (StackCache, TaskHandles).
TasksAreOwn == C!NoSharedStack /\ H!HandlesAreOwn

\* Removing a folder leaves alone what is outside of it (Files).
RemovesBelow == F!RemovesBelow

\* With kqueue, waits have their filters; ranges have the addresses they name; and every
\* descriptor has one owner, does not block, and is connected to what its call was told and
\* bound to what its listener was (Kqueue, Addresses, Sockets).
NetIsSound ==
  KQ!WaitersAreArmed /\ A!RangesAreExact /\ K!OneOwner /\ K!NeverBlocks /\ K!ReachedIsPeer /\ K!ListenerStays

\* Parsers are called with what the command line or the config file says, and a request
\* announces the arguments it has (ArgParser, RedisCommand).
ArgsAreSet == P!ArgsAreSet /\ Q!CountsAreExact

\* Conversions are undone by their inverses, and connect strings hold what was put in
\* (Strings, RedisCommand).
ConversionsHold == (part = "text" => S!RoundTrips) /\ (part = "command" => Q!ConnectStringHolds)
=============================================================================
