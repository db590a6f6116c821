---------------------------- MODULE LibraryParts ----------------------------
(***************************************************************************)
(* Containers, caches, utilities and waits, next to each other: the        *)
(* state of each and its steps, for MCLibrary and for PartsProofs.         *)
(***************************************************************************)
EXTENDS Naturals, Sequences, FiniteSets

CONSTANTS None, Key, Item, Root, Fetcher, MaxSize, Symbol, MaxFilter,
          EventKey, Val, Dummy, MaxSets, MaxTriggers, MaxNested,
          Buffer, Task, MaxCount, Command, Arg, MaxArg, Char, MaxPass,
          Name, Known, Word, MaxArgs,
          Id, Handle, Datum, MaxBorn,
          MaxTime, Ties, Twice,
          Fd

ASSUME TimesAssumption == MaxTime \in Nat \ {0} /\ None \notin Item
ASSUME FilterAssumption == MaxFilter \in Nat
ASSUME EventAssumption == MaxTriggers \in Nat /\ MaxSets \in Nat
ASSUME LruAssumption == MaxSize \in Nat
ASSUME CommandAssumption == MaxArg \in Nat
ASSUME DependAssumption == IsFiniteSet(Item) /\ Root \in Item
ASSUME ArgsAssumption == Name \subseteq Nat /\ None \notin Name
ASSUME StackAssumption == MaxCount \in Nat /\ None \notin Buffer
ASSUME HandlesAssumption ==
  /\ MaxBorn \in Nat /\ None \notin Id
  /\ None \notin [number : 1..MaxBorn, parent : Id \cup {None}, name : Datum \cup {None},
                   arg : Datum \cup {None}, atexit : Datum \cup {None}]

VARIABLES
  pool, index, cache_size, fetching, stale,
  nodes, flags,
  data, triggers, frames, sets, heard, owed,
  pending, targets, r_dep, order, sorting,
  cache_list, max_count, stack,
  cmd, sent, password,
  args, called, individual, outcome,
  taskCache, taskFlags, handle, running, born, meant, told, misled,
  map, nft, now, fetched, waiting, vain, erasing, todo, again,
  core, filters, entries, waits, signal, ready, eof, disarmed, late

L == INSTANCE LruCache
T == INSTANCE FilterTree
E == INSTANCE EventTrigger WITH Key <- EventKey
O == INSTANCE Depend WITH status <- sorting
C == INSTANCE StackCache
Q == INSTANCE RedisCommand
P == INSTANCE ArgParser WITH Empty <- None
H == INSTANCE TaskHandles WITH cache <- taskCache, flags <- taskFlags
M == INSTANCE TaskList WITH Task <- Item
KQ == INSTANCE Kqueue

ASSUME KqueueAssumption == None \notin KQ!Filter

lvars == <<pool, index, cache_size, fetching, stale>>
tvars == <<nodes, flags>>
evars == <<data, triggers, frames, sets, heard, owed>>
ovars == <<pending, targets, r_dep, order, sorting>>
cvars == <<cache_list, max_count, stack>>
qvars == <<cmd, sent, password>>
pvars == <<args, called, individual, outcome>>
hvars == <<taskCache, taskFlags, handle, running, born, meant, told, misled>>
mvars == <<map, nft, now, fetched, waiting, vain, erasing, todo, again>>
wvars == <<core, filters, entries, waits, signal, ready, eof, disarmed, late>>
=============================================================================
