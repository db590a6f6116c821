----------------------------- MODULE ArgParser -----------------------------
(***************************************************************************)
(* argparser: the command line, and the lines of a config file.  An        *)
(* argument is a word, or a key with or without a value behind a `=`; with *)
(* nothing behind it, the `=` is taken for a part of another key.          *)
(***************************************************************************)
EXTENDS Naturals, Sequences, FiniteSets

CONSTANTS
  Name,    \* keys; the parser of each is called in their order
  Known,   \* the keys that have a parser
  Word,    \* words
  Empty,   \* no text
  MaxArgs  \* arguments of a line

VARIABLES
  args,       \* the command line, which grows until it is parsed
  called,     \* the keys whose parser was called, and with what
  individual, \* individual_args_
  outcome     \* "none" before parse returns

ap_vars == <<args, called, individual, outcome>>

Argument == [key : {Empty}, value : Word] \cup [key : Name, value : Word \cup {Empty}]
IsKey(a) == a.key # Empty

TypeOK ==
  /\ args \in Seq(Argument) /\ called \in Seq(Name \X (Word \cup {Empty}))
  /\ individual \in Seq(Word) /\ outcome \in {"none", "true", "false"}

Init == args = <<>> /\ called = <<>> /\ individual = <<>> /\ outcome = "none"

Type(a) == /\ Len(args) < MaxArgs /\ outcome = "none" /\ args' = Append(args, a)
           /\ UNCHANGED <<called, individual, outcome>>

\* The word behind a key without a `=` is its value, if it does not begin with a dash.
Takes(i) == /\ i \in 1..(Len(args) - 1) /\ IsKey(args[i]) /\ args[i].value = Empty
            /\ ~IsKey(args[i + 1])
Given(i) == IF Takes(i) THEN args[i + 1].value ELSE args[i].value

\* args_map: of a key that comes twice, the last; the map goes by the order of the keys.
Keys == {i \in DOMAIN args : IsKey(args[i])}
\* Mutant: of a key that comes twice, the first.
MutArgsMap == [k \in {args[i].key : i \in Keys} |->
  Given(CHOOSE i \in Keys : args[i].key = k /\ \A j \in Keys : args[j].key = k => i <= j)]

args_map == [k \in {args[i].key : i \in Keys} |->
  Given(CHOOSE i \in Keys : args[i].key = k /\ \A j \in Keys : args[j].key = k => j <= i)]

\* The numbers of a set, from the least on.
Ordered(S) == CHOOSE s \in [1..Cardinality(S) -> S] : \A i, j \in DOMAIN s : i < j => s[i] < s[j]

\* The words that are not values, behind those of earlier calls.
Rest == LET rest == Ordered({i \in DOMAIN args : ~IsKey(args[i]) /\ ~Takes(i - 1)})
        IN  [n \in DOMAIN rest |-> args[rest[n]].value]

\* The parsers run up to the first key that has none.
parse ==
  LET ks == Ordered(DOMAIN args_map)
      unknown == {i \in DOMAIN ks : ks[i] \notin Known}
      n == IF unknown = {} THEN Len(ks) ELSE (CHOOSE i \in unknown : \A j \in unknown : i <= j) - 1
  IN  /\ outcome = "none"
      /\ individual' = individual \o Rest
      /\ called' = [i \in 1..n |-> <<ks[i], args_map[ks[i]]>>]
      /\ outcome' = IF unknown = {} THEN "true" ELSE "false"
      /\ UNCHANGED args

\* A config file: a line for each argument with a key; the parser of each line is called,
\* and a key that has none is left out.
parse_config ==
  LET line == Ordered({i \in DOMAIN args : args[i].key \in Known}) IN
  /\ outcome = "none" /\ \A i \in DOMAIN args : IsKey(args[i])
  /\ called' = [n \in DOMAIN line |-> <<args[line[n]].key, args[line[n]].value>>]
  /\ outcome' = "true"
  /\ UNCHANGED <<args, individual>>

\* The next call finds the individual arguments of the last one.
Again == /\ outcome # "none" /\ Len(individual) < MaxArgs
         /\ args' = <<>> /\ called' = <<>> /\ outcome' = "none" /\ UNCHANGED individual

Next == parse \/ parse_config \/ Again \/ \E a \in Argument : Type(a)

Spec == Init /\ [][Next]_ap_vars

----------------------------------------------------------------------------

Positions(k) == {i \in Keys : args[i].key = k}

\* A parser is called with values that its key was given, and when all is parsed the last
\* value of a key was set last, whatever the order of the keys; of the words of the command
\* line, every one is a value or an individual argument.
ArgsAreSet ==
  /\ \A n \in DOMAIN called : \E i \in Positions(called[n][1]) : called[n][2] \in {args[i].value, Given(i)}
  /\ outcome = "true" => \A i \in Keys :
       args[i].key \in Known /\ (\A j \in Positions(args[i].key) : j <= i) =>
         \E n \in DOMAIN called :
           /\ called[n][1] = args[i].key /\ called[n][2] \in {args[i].value, Given(i)}
           /\ \A m \in DOMAIN called : called[m][1] = args[i].key => m <= n
  /\ outcome # "none" => \A i \in DOMAIN args \ Keys :
       Takes(i - 1) \/ \E n \in DOMAIN individual : individual[n] = args[i].value
=============================================================================
