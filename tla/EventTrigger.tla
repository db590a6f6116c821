--------------------------- MODULE EventTrigger ---------------------------
(***************************************************************************)
(* eventtrigger with et_memory_storage: set_value stores a value and calls *)
(* the triggers of its key one after the other.  A handler may set, remove *)
(* and register as well, so that calls are nested.                         *)
(***************************************************************************)
EXTENDS Naturals, Sequences, SequencesExt

CONSTANTS
  Key, Val,
  Dummy,      \* the value of a key that is not there
  MaxSets,    \* calls of set_value
  MaxTriggers, MaxNested

VARIABLES
  data,       \* et_memory_storage::data_
  triggers,   \* trigger_map_: for each key the triggers in the order of their registration
  frames,     \* the calls of set_value that are not finished, the innermost last
  sets,       \* how many there have been
  heard,      \* what the handlers were told
  owed        \* the changes each trigger has to be told

et_vars == <<data, triggers, frames, sets, heard, owed>>

\* The kinds of triggers with their values; one value stands for the list of "except".
Ops ==      [type : {"changed"}, from : {Dummy}, to : {Dummy}]
       \cup [type : {"to", "except"}, from : {Dummy}, to : Val]
       \cup [type : {"from"}, from : Val, to : {Dummy}]
       \cup [type : {"special"}, from : Val, to : Val]

TypeOK ==
  /\ data \in [Key -> Val \cup {Dummy}] /\ sets \in 0..MaxSets
  /\ \A k \in Key : triggers[k] \in Seq([id : 1..MaxTriggers, op : Ops])
  /\ \A i \in DOMAIN frames : frames[i].next \in 1..(Len(triggers[frames[i].key]) + 1)
  /\ heard \subseteq (1..MaxTriggers) \X (1..MaxSets) /\ owed \subseteq (1..MaxTriggers) \X (1..MaxSets)

Init == /\ data = [k \in Key |-> Dummy] /\ triggers = [k \in Key |-> <<>>]
        /\ frames = <<>> /\ sets = 0 /\ heard = {} /\ owed = {}

\* Who runs: the program, or the handler that was called last.
Runs == IF frames = <<>> THEN TRUE ELSE Last(frames).running

\* The change from old to new fires the trigger.
Fires(op, old, new) ==
  CASE op.type = "changed" -> TRUE
    [] op.type = "to" -> new = op.to
    [] op.type = "from" -> old = op.from
    [] op.type = "except" -> new # op.to
    [] op.type = "special" -> old = op.from /\ new = op.to

\* et_memory_storage::set: whether the value is another one, and the one before.
set(k, v) == <<data[k] # v, data[k]>>

\* Nothing more happens if the value is the one that is there.
set_value(k, v) ==
  /\ Runs /\ sets < MaxSets /\ Len(frames) < MaxNested
  /\ sets' = sets + 1 /\ data' = [data EXCEPT ![k] = v]
  /\ IF ~set(k, v)[1] THEN UNCHANGED <<frames, owed>>
     ELSE /\ frames' = Append(frames, [key |-> k, old |-> set(k, v)[2], new |-> v, n |-> sets',
                                       next |-> 1, running |-> FALSE])
          /\ owed' = owed \cup {<<t.id, sets'>> : t \in
                          {u \in Range(triggers[k]) : Fires(u.op, data[k], v)}}
  /\ UNCHANGED <<triggers, heard>>

\* The loop of set_value: the next trigger is called if the change fires it.
CallNext ==
  LET f == Last(frames)
      t == triggers[f.key][f.next]
  IN  /\ ~Runs /\ f.next <= Len(triggers[f.key])
      /\ IF Fires(t.op, f.old, f.new)
         THEN /\ frames' = [frames EXCEPT ![Len(frames)].running = TRUE]
              /\ heard' = heard \cup {<<t.id, f.n>>}
         ELSE frames' = [frames EXCEPT ![Len(frames)].next = @ + 1] /\ UNCHANGED heard
      /\ UNCHANGED <<data, triggers, sets, owed>>

\* Mutant: a change fires one trigger at most.
MutHandlerReturns ==
  /\ Runs /\ frames # <<>>
  /\ frames' = [frames EXCEPT ![Len(frames)].running = FALSE, ![Len(frames)].next = MaxTriggers + 1]
  /\ UNCHANGED <<data, triggers, sets, heard, owed>>

HandlerReturns ==
  /\ Runs /\ frames # <<>>
  /\ frames' = [frames EXCEPT ![Len(frames)].running = FALSE, ![Len(frames)].next = @ + 1]
  /\ UNCHANGED <<data, triggers, sets, heard, owed>>

Returns ==
  /\ frames # <<>> /\ ~Runs /\ Last(frames).next > Len(triggers[Last(frames).key])
  /\ frames' = Front(frames)
  /\ UNCHANGED <<data, triggers, sets, heard, owed>>

remove_value(k) ==
  /\ Runs /\ data[k] # Dummy /\ data' = [data EXCEPT ![k] = Dummy]
  /\ UNCHANGED <<triggers, frames, sets, heard, owed>>

\* A trigger that a handler adds to its own key is called for the change as well.
add_trigger(k, op) ==
  LET ids == {t.id : t \in UNION {Range(triggers[j]) : j \in Key}}
      id == CHOOSE n \in 1..MaxTriggers : n \notin ids /\ \A m \in 1..(n - 1) : m \in ids
  IN  /\ Runs /\ \E n \in 1..MaxTriggers : n \notin ids
      /\ \A p \in heard : p[1] # id
      /\ triggers' = [triggers EXCEPT ![k] = Append(@, [id |-> id, op |-> op])]
      /\ UNCHANGED <<data, frames, sets, heard, owed>>

\* Triggers of one type are removed.  Under a call for the same key the loop would go on
\* from an element that is not there any more: that is left out.
remove_trigger(k, type) ==
  LET stay == {i \in DOMAIN triggers[k] : triggers[k][i].op.type # type} IN
  /\ Runs /\ \A i \in DOMAIN frames : frames[i].key # k
  /\ stay # DOMAIN triggers[k]
  /\ \E n \in 0..Len(triggers[k]) : \E at \in [1..n -> stay] :
       /\ Range(at) = stay /\ \A i, j \in 1..n : i < j => at[i] < at[j]
       /\ triggers' = [triggers EXCEPT ![k] = [i \in 1..n |-> triggers[k][at[i]]]]
  /\ UNCHANGED <<data, frames, sets, heard, owed>>

Next ==
  \/ CallNext \/ HandlerReturns \/ Returns
  \/ \E k \in Key : \/ remove_value(k) \/ \E v \in Val : set_value(k, v)
                    \/ \E op \in Ops : remove_trigger(k, op.type) \/ add_trigger(k, op)

Spec == Init /\ [][Next]_et_vars

\* When no call is left, every trigger was told of every change that fired it and that was
\* made while it was registered, however the calls were nested.
EveryChangeHeard == frames = <<>> => owed \subseteq heard
=============================================================================
