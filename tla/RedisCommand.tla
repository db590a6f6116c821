---------------------------- MODULE RedisCommand ----------------------------
(***************************************************************************)
(* redis_command, which collects the arguments of a request, and the       *)
(* connect string of redis_connector, whose password grows byte by byte.   *)
(***************************************************************************)
EXTENDS Naturals, Sequences

CONSTANTS
  Command,  \* the objects
  Arg,      \* arguments
  MaxArg,   \* arguments of an object
  Char,     \* the bytes of a password, other than a slash
  MaxPass   \* its length

VARIABLES
  cmd,      \* cmd_count_ and the bulk strings in cmd_string_, by object
  sent,     \* the last request that was committed
  password

cmd_vars == <<cmd, sent, password>>

Nothing == [count |-> 0, items |-> <<>>]
Content == [count : 0..(2 * MaxArg), items : Seq(Arg)]

TypeOK == cmd \in [Command -> Content] /\ sent \in Content /\ password \in Seq(Char)

Init == cmd = [c \in Command |-> Nothing] /\ sent = Nothing /\ password = <<>>

Concat(c, a) ==
  /\ Len(cmd[c].items) < MaxArg
  /\ cmd' = [cmd EXCEPT ![c] = [count |-> @.count + 1, items |-> Append(@.items, a)]]
  /\ UNCHANGED <<sent, password>>

\* A copy of a constant command, by construction or assignment.
Copy(c, d) == cmd' = [cmd EXCEPT ![d] = cmd[c]] /\ UNCHANGED <<sent, password>>

\* A copy of a command that is not constant takes what is in it.
Take(c, d) ==
  /\ c # d /\ cmd' = [cmd EXCEPT ![d] = cmd[c], ![c] = Nothing]
  /\ UNCHANGED <<sent, password>>

Assign(c, d) == c # d /\ Copy(c, d)
Move(c, d) == Take(c, d)

\* `*`, the count, and the bulk strings
str(c) == cmd[c]
commit(c) == sent' = str(c) /\ cmd' = [cmd EXCEPT ![c] = Nothing] /\ UNCHANGED password
clear(c) == cmd' = [cmd EXCEPT ![c] = Nothing] /\ UNCHANGED <<sent, password>>

Type == Len(password) < MaxPass /\ (\E b \in Char : password' = Append(password, b)) /\ UNCHANGED <<cmd, sent>>

Next ==
  \/ Type
  \/ \E c \in Command : \/ commit(c) \/ clear(c) \/ \E a \in Arg : Concat(c, a)
                        \/ \E d \in Command : Copy(c, d) \/ Take(c, d) \/ Assign(c, d) \/ Move(c, d)

Spec == Init /\ [][Next]_cmd_vars

----------------------------------------------------------------------------
(* The connect string: redis://password@server:port/db                     *)

At == 64
Slash == 47
Colon == 58
Port == <<54, 51, 55, 57>>

BySlash == INSTANCE Strings WITH Carries <- <<<<Slash>>>>, Byte <- Char, MaxText <- MaxPass, text <- password
ByAt == INSTANCE Strings WITH Carries <- <<<<At>>>>, Byte <- Char, MaxText <- MaxPass, text <- password

\* What stands behind the scheme; a database is a number of one digit.
parse_connect(info) ==
  LET path == BySlash!split(info)
      parts == ByAt!split(path[1])
      server == parts[Len(parts)]
      length == Len(path[1]) - 1 - Len(server)
  IN  [server |-> IF \E i \in DOMAIN server : server[i] = Colon THEN server ELSE server \o <<Colon>> \o Port,
       db |-> IF Len(path) > 1 /\ path[2][1] \in 48..57 THEN path[2][1] - 48 ELSE 0,
       password |-> IF Len(parts) = 1 THEN <<>> ELSE SubSeq(path[1], 1, length)]

----------------------------------------------------------------------------
(* Properties.                                                             *)

\* A request announces as many bulk strings as follow it, however commands are copied,
\* moved from and used again: redis would wait for the rest, or read it as a request.
CountsAreExact == \A c \in {sent} \cup {cmd[d] : d \in Command} : c.count = Len(c.items)

\* A connect string has the password it was made with, with whatever stands in it, unless
\* that is nothing but `@`; and the server and the database.
ConnectStringHolds ==
  LET server == <<104>>
      made == parse_connect(password \o <<At>> \o server \o <<Slash, 50>>) IN
  /\ made.server = server \o <<Colon>> \o Port /\ made.db = 2
  /\ (\E i \in DOMAIN password : password[i] # At) => made.password = password
=============================================================================
