----------------------------- MODULE RedisReply -----------------------------
(***************************************************************************)
(* The reply parser of the redis client: redis_object, and the loop of     *)
(* redis_connector::do_query_job_ that feeds it with what it reads.  The   *)
(* reply arrives in pieces, cut anywhere.  Data is a sequence of           *)
(* characters: where a reply is cut is what the module is about.           *)
(***************************************************************************)
EXTENDS Integers, Sequences, SequencesExt

CONSTANT Replies   \* the objects the server may send, as redis_object would hold them

VARIABLES
  reply,    \* the object that is on its way
  wire,     \* its characters not read yet
  sbuf,     \* the buffer of do_query_job_
  count,    \* last_obj_count_
  result,   \* last_result_
  status,   \* where do_query_job_ is
  resumed   \* has an object of the result been continued?

vars == <<reply, wire, sbuf, count, result, status, resumed>>

CR == "\r"
LF == "\n"
NUL == "nul"
Digit == [c \in {"0", "1", "2", "3"} |-> CHOOSE n \in 0..3 : ToString(n) = c]

Throw == -2   \* std::stoi has thrown, which nobody catches

stoi(s) ==
  LET sign == IF s # <<>> /\ s[1] = "-" THEN -1 ELSE 1
      body == IF sign = 1 THEN s ELSE Tail(s)
      digits == SelectInSeq(body, LAMBDA c : c \notin DOMAIN Digit)
      run == IF digits = 0 THEN body ELSE SubSeq(body, 1, digits - 1)
  IN  IF run = <<>> THEN Throw
      ELSE sign * FoldLeft(LAMBDA n, c : 10 * n + Digit[c], 0, run)

\* redis_object: reply_type_, reply_content_, content_length_, sub_object_count_, sub_objects_,
\* and subObjects, which is made with the object, before anything is parsed.
Object(t, c, l, n, subs) ==
  [type |-> t, content |-> c, length |-> l, subcount |-> n, subs |-> subs, subObjects |-> <<>>]
Unknown == Object("?", <<>>, -1, 0, <<>>)
Types == {"+", "-", ":", "$", "*"}

\* Characters, and objects nested at most n deep: no reply has more than MaxDepth levels.
Text == Seq(STRING)
Nested[n \in Nat] == [type : Types \cup {"?"}, content : Text, length : Int, subcount : Int,
                      subs : IF n = 0 THEN {<<>>} ELSE Seq(Nested[n - 1]),
                      subObjects : IF n = 0 THEN {<<>>} ELSE Seq(Nested[n - 1])]
MaxDepth == 3
Objects == Nested[MaxDepth]

all_get[o \in Objects] ==
  o.type = "*" => /\ o.subcount = Len(o.subs)
                  /\ o.subs # <<>> => all_get[Last(o.subs)]

\* An object goes into a vector as a copy, whose subObjects is what it has by then.  A vector
\* that grows copies its objects too: none does after an object in it was continued, unless
\* something follows a nested array (redis_pieces).
Copy[o \in Objects] ==
  LET subs == [i \in DOMAIN o.subs |-> Copy[o.subs[i]]] IN [o EXCEPT !.subs = subs, !.subObjects = subs]

is_nil(o) == (o.type = "$" /\ o.length = -1) \/ (o.type = "*" /\ o.subcount = 0)

\* The place of the first CRLF after the type, 0 if there is none.
find_crlf_(d) ==
  LET ends == {i \in 2..Len(d) - 1 : d[i] = CR /\ d[i + 1] = LF}
  IN  IF ends = {} THEN 0 ELSE CHOOSE i \in ends : \A j \in ends : i <= j

Drop(d, n) == SubSeq(d, n + 1, Len(d))
Shifted(o, n) == [obj |-> o, shift |-> n]

\* A bulk whose header ends before data[from + 1].
Body(d, from, length) ==
  LET to == from + length
  IN  IF length = -1 \/ length = Throw THEN Shifted(Object("$", <<>>, length, 0, <<>>), from)
      ELSE IF Len(d) < to + 2 \/ SubSeq(d, to + 1, to + 2) # <<CR, LF>> THEN Shifted(Unknown, 0)
      ELSE Shifted(Object("$", SubSeq(d, from + 1, to), length, 0, <<>>), to + 2)

\* New objects, which parse reads from d, until there are n of them or one is unfinished.
Items(parse, objs, n, d) ==
  LET From[got \in Seq(Objects), e \in Text] ==
        LET p == parse[Unknown, e]
        IN  IF p.shift = 0 THEN [objs |-> got, shift |-> 0]
            ELSE IF ~all_get[p.obj] \/ Len(got) + 1 = n
            THEN [objs |-> Append(got, Copy[p.obj]), shift |-> p.shift]
            ELSE LET rest == From[Append(got, Copy[p.obj]), Drop(e, p.shift)]
                 IN  [rest EXCEPT !.shift = @ + p.shift]
  IN  From[objs, d]

\* The object after parsing d, and how much of d it has taken: 0 if it is invalidate.
parse_response_[o \in Objects, d \in Text] ==
  LET crlf == find_crlf_(d)
      text == SubSeq(d, 2, crlf - 1)
      \* the rest of a multibulk whose header and items so far end before d[from + 1]
      Rest(m, from) ==
        IF Len(m.subs) = m.subcount THEN Shifted(m, from)
        ELSE LET items == Items(parse_response_, m.subs, m.subcount, Drop(d, from))
             IN  Shifted([m EXCEPT !.subs = items.objs], from + items.shift)
      GoesOn ==
        IF o.subs = <<>> \/ all_get[Last(o.subs)] THEN Rest(o, 0)
        ELSE LET p == parse_response_[Last(o.subs), d]
                 m == [o EXCEPT !.subs = Append(Front(@), p.obj)]
             IN  IF all_get[p.obj] THEN Rest(m, p.shift) ELSE Shifted(m, p.shift)
  IN  CASE Len(d) < 3 -> Shifted(o, 0)
        [] o.type = "*" -> IF all_get[o] THEN Shifted(o, 0) ELSE GoesOn
        [] o.type \notin {"*", "?"} -> Shifted(o, 0)
        [] o.type = "?" /\ (d[1] \notin Types \/ crlf = 0) -> Shifted(o, 0)
        [] OTHER ->
             CASE d[1] \in {"+", "-", ":"} ->
                    Shifted(Object(d[1], text, Len(text), 0, <<>>), crlf + 1)
               [] d[1] = "$" -> Body(d, crlf + 1, stoi(text))
               [] d[1] = "*" ->
                    Rest(Object("*", <<>>, 0, IF stoi(text) < 0 THEN 0 ELSE stoi(text), <<>>), crlf + 1)

----------------------------------------------------------------------------
(* What the server sends.                                                  *)

Decimal(n) == IF n < 0 THEN <<"-", ToString(-n)>> ELSE <<ToString(n)>>

Encode[o \in Objects] ==
  CASE o.type = "$" -> <<"$">> \o Decimal(o.length) \o <<CR, LF>>
                         \o IF o.length < 0 THEN <<>> ELSE o.content \o <<CR, LF>>
    [] o.type = "*" -> <<"*">> \o Decimal(o.subcount) \o <<CR, LF>>
                         \o FlattenSeq([i \in DOMAIN o.subs |-> Encode[o.subs[i]]])
    [] OTHER -> <<o.type>> \o o.content \o <<CR, LF>>

\* A reply that is an array is returned as the sequence of its items.
Expected(o) == IF o.type = "*" THEN o.subs ELSE <<o>>

----------------------------------------------------------------------------
(* redis_connector::do_query_job_                                          *)

MutIsAllGet(n, objs) == n # -1 /\ Len(objs) = n \* Mutant: the last object may be unfinished.

is_all_get_(n, objs) ==
  /\ n # -1 /\ Len(objs) = n
  /\ objs # <<>> => all_get[Last(objs)]

\* What c_str() shows of a buffer of the old size after its first n characters were
\* erased: resp_size still counts them.
Stale(d, n) == Drop(d, n) \o IF n = 0 THEN <<>> ELSE <<NUL>> \o Drop(d, Len(d) - n + 1)

\* The state of the query after one pass over the buffer: sbuf, count, result, ok.
Pass(sb, n, objs, ok) == [sbuf |-> sb, count |-> n, result |-> objs, ok |-> ok]

\* New objects from seen after its first `from` characters; then sbuf is erased.
TakeObjects(sb, seen, from, n, objs) ==
  LET items == IF n > 0 THEN Items(parse_response_, objs, n, Drop(seen, from)) ELSE [objs |-> objs, shift |-> 0]
  IN  Pass(Drop(sb, from + items.shift), n, items.objs, TRUE)

\* The last object is unfinished: parsing it goes on.
ContinueParse(sb) ==
  LET p == parse_response_[Last(result), sb]
      objs == Append(Front(result), p.obj)
      left == Drop(sb, p.shift)
  IN  IF ~all_get[p.obj] \/ count = Len(objs) THEN Pass(left, count, objs, TRUE)
      ELSE TakeObjects(left, Stale(sb, p.shift), 0, count, objs)

\* The first characters of a reply tell how many objects it has.
NewParser(sb) ==
  LET end == SelectInSeq(sb, LAMBDA c : c = CR)
  IN  IF sb[1] # "*" THEN TakeObjects(sb, sb, 0, 1, <<>>)
      ELSE IF Len(sb) < 4 THEN Pass(sb, -1, <<>>, TRUE)
      ELSE IF end = 0 THEN Pass(sb, -1, <<>>, FALSE)
      ELSE TakeObjects(sb, sb, end + 1, stoi(SubSeq(sb, 2, end - 1)), <<>>)

Unfinished == result # <<>> /\ ~all_get[Last(result)]

OnePass(sb) ==
  IF Unfinished THEN ContinueParse(sb)
  ELSE IF count = -1 THEN NewParser(sb)
  ELSE TakeObjects(sb, sb, 0, count, result)

Init ==
  /\ reply = Unknown /\ wire = <<>> /\ sbuf = <<>>
  /\ count = -1 /\ result = <<>> /\ status = "idle" /\ resumed = FALSE

\* The command is written and the server answers.
Begin ==
  /\ status = "idle"
  /\ \E o \in Replies : reply' = o /\ wire' = Encode[o]
  /\ sbuf' = <<>> /\ count' = -1 /\ result' = <<>> /\ status' = "reading" /\ resumed' = FALSE

Thrown[objs \in Seq(Objects)] == \E i \in DOMAIN objs : objs[i].length = Throw \/ Thrown[objs[i].subs]

\* conn_->read() returned the next k characters; then one pass, and the test of the loop.
Read ==
  /\ status = "reading"
  /\ \E k \in 1..Len(wire) : \E p \in {OnePass(sbuf \o SubSeq(wire, 1, k))} :
           /\ wire' = Drop(wire, k)
           /\ sbuf' = p.sbuf /\ count' = p.count /\ result' = p.result
           /\ status' = CASE Thrown[p.result] -> "thrown"
                          [] ~p.ok -> "false"
                          [] p.ok /\ is_all_get_(p.count, p.result) -> "true"
                          [] OTHER -> "reading"
  /\ resumed' = (resumed \/ Unfinished)
  /\ UNCHANGED reply

\* The connection was lost: what has been parsed is not looked at.
ReadFails ==
  /\ status = "reading" /\ status' = "false"
  /\ UNCHANGED <<reply, wire, sbuf, count, result, resumed>>

Next == Begin \/ Read \/ ReadFails
Spec == Init /\ [][Next]_vars

----------------------------------------------------------------------------
(* Properties.                                                             *)

TypeOK ==
  /\ status \in {"idle", "reading", "true", "false", "thrown"}
  /\ count \in Int /\ count >= -1
  /\ \A i \in DOMAIN result : result[i].type \in Types

\* What is returned without what subObjects shows, as str() prints it.
Inner[o \in Objects] ==
  [o EXCEPT !.subs = [i \in DOMAIN @ |-> Inner[@[i]]], !.subObjects = <<>>]
Inners(objs) == [i \in DOMAIN objs |-> Inner[objs[i]]]

\* However the reply is cut, a query that succeeds returns what parsing the whole
\* reply would return (redis.h: "If an object is unfinished, append more data to it").
\* What the public subObjects shows is included, unless a nested array was cut and then
\* continued: it stays as it was when the object was made (ShownIsReply).
ResultIsReply ==
  /\ status = "true" => /\ Inners(result) = Inners(Expected(reply)) /\ wire = <<>>
                        /\ ~resumed => result = Expected(reply)
  /\ status # "thrown"

\* The caller sees the items of a nested array, which only subObjects shows, however the
\* reply is cut (redis.h declares it under "Property References").
ShownIsReply == status = "true" => result = Expected(reply)
=============================================================================
