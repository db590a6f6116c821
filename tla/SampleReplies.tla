--------------------------- MODULE SampleReplies ---------------------------
(* The replies a redis server sends in the small instances of RedisReply. *)
EXTENDS Integers, Sequences

CONSTANT Resumed   \* may something follow a nested array?

Sample(t, c, l, s) ==
  [type |-> t, content |-> c, length |-> l, subcount |-> Len(s), subs |-> s, subObjects |-> s]
OK == Sample("+", <<"O", "K">>, 2, <<>>)
One == Sample(":", <<"1">>, 1, <<>>)
Bulk(s) == Sample("$", s, Len(s), <<>>)
Nil == Sample("$", <<>>, -1, <<>>)
Array(s) == Sample("*", <<>>, 0, s)

AB == Bulk(<<"a", "b">>)
LineEnd == Bulk(<<"\r", "\n">>)
Leaves == {OK, One, AB, Bulk(<<>>), LineEnd, Nil}
Flat == Leaves \cup {Array(<<>>)} \cup {Array(<<a>>) : a \in Leaves}
          \cup {Array(<<a, b>>) : a \in Leaves \ {OK}, b \in {OK, AB, Nil}}
NestedLast == {Array(<<Array(<<a, Nil>>)>>) : a \in {OK, LineEnd}}
                \cup {Array(<<Nil, Array(<<a, Array(<<Nil>>)>>)>>) : a \in {One, AB}}
MCReplies == IF Resumed THEN {Array(<<Array(<<a>>), b>>) : a \in Leaves, b \in Leaves}
             ELSE Flat \cup NestedLast
=============================================================================
