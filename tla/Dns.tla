-------------------------------- MODULE Dns --------------------------------
(***************************************************************************)
(* dns_utils, which builds and reads dns packets, and the resolver, which  *)
(* asks a server by udp, again by tcp if the answer is truncated, and      *)
(* again for the alias it is told.  The server uses dns_utils as well.     *)
(*                                                                         *)
(* A packet is its header and the bytes behind it; the header is 12 bytes  *)
(* long.  A domain is a sequence of bytes without an empty label.          *)
(***************************************************************************)
EXTENDS Naturals, Sequences, SequencesExt, FiniteSets

CONSTANTS
  Domain,   \* what is asked for
  Ip,       \* addresses, four bytes each
  None

VARIABLES
  zone,     \* what the server knows: for each domain a sequence of addresses or its alias
  at,       \* where the resolver is
  domain,   \* the domain it asks for
  packet,   \* the packet on its way
  result    \* the addresses

nvars == <<zone, at, domain, packet, result>>

Dot == 46
HeaderSize == 12
Host == 1
CName == 5

htons(n) == (n % 256) * 256 + n \div 256
WordOf(n) == <<n \div 256, n % 256>>
WordAt(b, i) == b[i] * 256 + b[i + 1]

----------------------------------------------------------------------------
(* dns_utils                                                               *)

\* The bytes that __set_domain writes: every dot becomes the length of the label behind it.
LabelSize(d, i) == CHOOSE n \in 0..Len(d) :
  /\ i + n > Len(d) \/ d[i + n] = Dot
  /\ \A m \in 0..(n - 1) : d[i + m] # Dot
__set_domain(d) == [i \in 1..(Len(d) + 2) |->
  IF i = Len(d) + 2 THEN 0 ELSE IF i = 1 \/ d[i - 1] = Dot THEN LabelSize(d, i) ELSE d[i - 1]]

Joined(d, label) == IF d = <<>> THEN label ELSE d \o <<Dot>> \o label
Label(b, i) == SubSeq(b, i + 1, i + b[i])

__get_domain_basic(b, i) ==
  LET From[j \in Nat, d \in Seq(Nat)] ==
        IF b[j] = 0 THEN d ELSE From[j + b[j] + 1, Joined(d, Label(b, j))]
  IN  From[i, <<>>]

__count_domain_part(b, i) ==
  LET From[j \in Nat] ==
        IF b[j] >= 192 THEN 2 ELSE IF b[j] = 0 THEN 1 ELSE b[j] + 1 + From[j + b[j] + 1]
  IN  From[i]

\* A pointer is an offset from the header; what it points to is appended without a dot.
Offset(b, i) == IF b[i] % 64 # 0 THEN b[i] % 64 ELSE WordAt(b, i) % 16384
__get_domain(b, i) ==
  LET From[j \in Nat, d \in Seq(Nat)] ==
        IF b[j] >= 192 THEN d \o __get_domain_basic(b, Offset(b, j) - HeaderSize + 1)
        ELSE IF b[j] = 0 THEN d ELSE From[j + b[j] + 1, Joined(d, Label(b, j))]
  IN  From[i, <<>>]

init_dns_packet == [qdcount |-> 0, ancount |-> 0, nscount |-> 0, truncated |-> FALSE,
                    recursive |-> FALSE, dsize |-> 0, body |-> <<>>]

Swapped(p) == [p EXCEPT !.qdcount = htons(@), !.ancount = htons(@), !.nscount = htons(@)]
prepare_for_reading(p) == Swapped(p)
prepare_for_sending(p) == Swapped(p)

set_domain(p, d) == [p EXCEPT !.recursive = TRUE, !.qdcount = 1,
                              !.body = @ \o __set_domain(d), !.dsize = Len(d) + 2]
set_qtype(p, t) == [p EXCEPT !.body = @ \o WordOf(t)]
set_qclass(p, c) == [p EXCEPT !.body = @ \o WordOf(c)]
domain_of(p) == IF Len(p.body) > 4 THEN __get_domain_basic(p.body, 1) ELSE <<>>
qtype(p) == WordAt(p.body, p.dsize + 1)
qclass(p) == WordAt(p.body, p.dsize + 3)

\* The name of every record is a pointer to the domain that was asked for.
Record(type, rdata) == <<192, HeaderSize>> \o WordOf(type) \o WordOf(1) \o <<0, 0, 7, 8>>
                         \o WordOf(Len(rdata)) \o rdata
set_ips(p, ips) ==
  IF p.dsize = 0 THEN p
  ELSE [p EXCEPT !.ancount = Len(ips),
                 !.body = @ \o FlattenSeq([i \in DOMAIN ips |-> Record(Host, ips[i])])]
set_cname(p, d) ==
  IF p.dsize = 0 THEN p
  ELSE [p EXCEPT !.ancount = 1, !.body = @ \o Record(CName, __set_domain(d))]

\* dsize is found anew when it is not set, as in a packet that was received.
DomainSize(p) == IF p.dsize = 0 THEN Len(domain_of(p)) + 2 ELSE p.dsize

\* The types and the places of the first records.
Records(b, from, count) ==
  LET From[i \in Nat, n \in Nat] ==
        IF n = 0 THEN <<>>
        ELSE LET m == i + __count_domain_part(b, i)
             IN  <<[type |-> WordAt(b, m), data |-> m + 10]>> \o From[m + 10 + WordAt(b, m + 8), n - 1]
  IN  From[from, count]
AnswersOf(p) == Records(p.body, DomainSize(p) + 5, p.ancount + p.nscount)

\* Mutant: the last record is left out.
MutIpsOf(p) == LET as == SelectSeq(AnswersOf(p), LAMBDA r : r.type = Host)
               IN  [i \in 1..(Len(as) - 1) |-> SubSeq(p.body, as[i].data, as[i].data + 3)]

ips_of(p) == LET as == SelectSeq(AnswersOf(p), LAMBDA r : r.type = Host)
             IN  [i \in DOMAIN as |-> SubSeq(p.body, as[i].data, as[i].data + 3)]
cname_of(p) == LET cs == SelectSeq(AnswersOf(p), LAMBDA r : r.type = CName)
               IN  IF cs = <<>> THEN <<>> ELSE __get_domain(p.body, cs[1].data)

----------------------------------------------------------------------------
(* The resolver                                                            *)

Request(d) == prepare_for_sending(set_qclass(set_qtype(set_domain(init_dns_packet, d), Host), 1))

Init ==
  /\ zone = [d \in Domain |-> <<>>] /\ at = "zone" /\ domain = <<>>
  /\ packet = init_dns_packet /\ result = <<>>

\* resolv, with a dns server set: domain is remembered as the last that was asked for.
resolv(d, z) ==
  /\ at = "zone" /\ zone' = z
  /\ at' = "udp" /\ domain' = <<d>> /\ packet' = Request(d) /\ UNCHANGED result

\* The labels an alias shares with the end of the domain asked for: where they start in the
\* one and in the other, as early in the alias as can be; or none.
Starts(d) == {i \in DOMAIN d : i = 1 \/ d[i - 1] = Dot}
Suffix(d, i) == SubSeq(d, i, Len(d))
Shared(d, e) ==
  LET common == {c \in Starts(e) \X Starts(d) : Suffix(e, c[1]) = Suffix(d, c[2])}
  IN  {c \in common : \A o \in common : c[1] <= o[1]}

\* An alias as other servers than this library's write it: the labels that the question has
\* already are a pointer to it, and the ones before stand as they are.
Compressed(d, e) ==
  LET c == CHOOSE c \in Shared(d, e) : TRUE
  IN  SubSeq(__set_domain(SubSeq(e, 1, c[1] - 2)), 1, c[1] - 1) \o <<192, HeaderSize + c[2] - 1>>
set_alias(p, d, e) == [p EXCEPT !.ancount = 1, !.body = @ \o Record(CName, Compressed(d, e))]

\* The server knows addresses, or an alias, which it compresses or not, or neither.
Served(p, compress) ==
  LET q == prepare_for_reading(p)
      d == domain_of(q)
      r == [q EXCEPT !.dsize = Len(d) + 2]
  IN  prepare_for_sending(
        IF qtype(r) # Host \/ qclass(r) # 1 \/ d \notin Domain \/ zone[d] = <<>> THEN r
        ELSE IF zone[d][1] \notin Domain THEN set_ips(r, zone[d])
        ELSE IF compress /\ Shared(d, zone[d][1]) # {} THEN set_alias(r, d, zone[d][1])
        ELSE set_cname(r, zone[d][1]))

\* The answer is a packet of its own: nothing of dns_packet but its bytes is sent.
Answer ==
  /\ at \in {"udp", "tcp"} /\ at' = at \o "_answered"
  /\ \E t \in IF at = "udp" THEN BOOLEAN ELSE {FALSE}, compress \in BOOLEAN :
       packet' = [Served(packet, compress) EXCEPT !.truncated = t, !.dsize = 0]
  /\ UNCHANGED <<zone, domain, result>>

\* The request cannot be sent, or the server refuses the connection: resolv_by_udp and
\* resolv_by_tcp return none.
NotSent ==
  /\ at \in {"udp", "tcp"} /\ at' = "not_sent" /\ result' = <<>>
  /\ UNCHANGED <<zone, domain, packet>>

\* The read fails or, by tcp, gives a part: what is parsed is not the answer.
NoAnswer ==
  /\ at \in {"udp", "tcp", "tcp_answered"} /\ at' = "undefined"
  /\ UNCHANGED <<zone, domain, packet, result>>

\* parse_dns_packet: the addresses, or those of the alias, or none.
parse_dns_packet ==
  LET p == prepare_for_reading(packet) IN
  IF ips_of(p) # <<>> THEN at' = "done" /\ result' = ips_of(p) /\ UNCHANGED <<domain, packet>>
  ELSE IF cname_of(p) # <<>> /\ Len(domain) <= Cardinality(Domain)
  THEN /\ at' = "udp" /\ domain' = Append(domain, cname_of(p))
       /\ packet' = Request(cname_of(p)) /\ UNCHANGED result
  ELSE /\ at' = IF cname_of(p) = <<>> THEN "done" ELSE "circle"
       /\ UNCHANGED <<domain, packet, result>>

resolv_by_udp ==
  /\ at = "udp_answered"
  /\ IF packet.truncated
     THEN at' = "tcp" /\ packet' = Request(Last(domain)) /\ UNCHANGED <<domain, result>>
     ELSE parse_dns_packet
  /\ UNCHANGED zone

resolv_by_tcp == at = "tcp_answered" /\ parse_dns_packet /\ UNCHANGED zone

Zones == [Domain -> {<<>>} \cup {<<i>> : i \in Ip} \cup {<<i, j>> : i, j \in Ip} \cup {<<d>> : d \in Domain}]

Next ==
  \/ Answer \/ NotSent \/ NoAnswer \/ resolv_by_udp \/ resolv_by_tcp
  \/ \E d \in Domain, z \in Zones : resolv(d, z)

Spec == Init /\ [][Next]_nvars

----------------------------------------------------------------------------

\* Where the aliases of a domain lead to in at most n steps.
Follow[d \in Domain, n \in Nat] ==
  IF zone[d] = <<>> \/ zone[d][1] \notin Domain THEN zone[d]
  ELSE IF n = 0 THEN <<None>> ELSE Follow[zone[d][1], n - 1]

\* What __get_domain makes of a compressed alias: the dot before the pointer is lost.
RunTogether(d, e) == {RemoveAt(e, c[1] - 1) : c \in {c \in Shared(d, e) : c[1] > 1}}

\* What the resolver returns is what the server knows of the domain or of the last of its
\* aliases; none, although the server knows some, only after a request that could not be
\* sent or an alias compressed behind its first label, which it asks for without that dot;
\* and it asks for ever only if the aliases run in a circle.
ResolvedIsKnown ==
  /\ at = "done" => result = IF Last(domain) \in Domain THEN Follow[domain[1], Cardinality(Domain)] ELSE <<>>
  /\ at = "not_sent" => result = <<>>
  /\ at = "circle" => Follow[domain[1], Cardinality(Domain)] = <<None>>
  /\ \A i \in 2..Len(domain) : LET d == domain[i - 1] IN
       zone[d] = <<domain[i]>> \/ domain[i] \in RunTogether(d, zone[d][1])
=============================================================================
