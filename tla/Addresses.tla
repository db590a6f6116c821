----------------------------- MODULE Addresses -----------------------------
(***************************************************************************)
(* ip_t, peer_t and iprange_t.  An address is four octets of Bits bits     *)
(* each, of which the code's are eight; the number the code gets from an   *)
(* address has the first octet lowest, and ntohl turns it round.           *)
(***************************************************************************)
EXTENDS Naturals, Sequences, FiniteSets

CONSTANTS
  Bits,     \* of an octet
  PortBits, \* of half a port number
  Undefined \* what a shift by the whole width gives: 0 or the unshifted number

VARIABLES
  shape,    \* what was made, and how: nothing, a range by "mask", "upto" or "pair", or a "peer"
  from, to, \* the addresses a range was made of; that of a peer
  mask,     \* the mask it was made of
  port      \* the number after the colon in the text of a peer

ad_vars == <<shape, from, to, mask, port>>

\* Powers of two.
Pow2[n \in Nat] == IF n = 0 THEN 1 ELSE 2 * Pow2[n - 1]

Width == 4 * Bits
B == Pow2[Bits]
Octet == 0..(B - 1)
Ip == [1..4 -> Octet]
NoIp == [i \in 1..4 |-> B - 1]     \* ip_t(): 255.255.255.255

TypeOK == /\ shape \in {"none", "mask", "upto", "pair", "peer"} /\ {from, to} \subseteq Ip
          /\ mask \in 0..Width /\ port \in 0..Pow2[2 * PortBits + 1]

\* __ipstring2inaddr and __inaddr2ipstring
uint32(ip) == ip[1] + B * (ip[2] + B * (ip[3] + B * ip[4]))
ip_of(n) ==
  LET n2 == n \div B
      n3 == n2 \div B
      n4 == n3 \div B
  IN  <<n % B, n2 % B, n3 % B, n4 % B>>
Turned(v) == [i \in DOMAIN v |-> v[Len(v) + 1 - i]]
ntohl(n) == uint32(Turned(ip_of(n)))
htonl(n) == ntohl(n)
is_valid(ip) == uint32(ip) # Pow2[Width] - 1
less(a, b) == ntohl(uint32(a)) < ntohl(uint32(b))
at_most(a, b) == ntohl(uint32(a)) <= ntohl(uint32(b))

BitCount(d) == CHOOSE n \in 0..Width : d < Pow2[n] /\ (n = 0 \/ d >= Pow2[n - 1])

\* __parse_range of one address with a mask in bits; a failure leaves what ip_t() made.
parse_mask(ip, m) ==
  IF uint32(ip) = 0 \/ m > Width THEN [low |-> NoIp, high |-> NoIp, mask |-> 0]
  ELSE LET zeros == IF m = 0 THEN (IF Undefined THEN Width ELSE 0) ELSE Width - m
           low == (ntohl(uint32(ip)) \div Pow2[zeros]) * Pow2[zeros]
       IN  [low |-> ip_of(htonl(low)), high |-> ip_of(htonl(low + Pow2[zeros] - 1)), mask |-> m]

\* __parse_range of two addresses: the difference is taken without ntohl.
parse_upto(low, high) ==
  IF uint32(low) = 0 \/ uint32(high) = 0 \/ less(high, low) THEN [low |-> NoIp, high |-> NoIp, mask |-> 0]
  ELSE [low |-> low, high |-> high,
        mask |-> Width - BitCount((uint32(high) + Pow2[Width] - uint32(low)) % Pow2[Width])]

\* iprange_t of two addresses in any order
make_range(a, b) ==
  LET low == IF less(a, b) THEN a ELSE b
      high == IF less(a, b) THEN b ELSE a
  IN  [low |-> low, high |-> high, mask |-> Width - BitCount(ntohl(uint32(high)) - ntohl(uint32(low)))]

range_ok(r) == uint32(r.low) # 0 /\ uint32(r.high) # 0
isIpInRange(r, ip) == at_most(r.low, ip) /\ at_most(ip, r.high)
str(r) == <<r.low, r.mask>>

\* The byte order of a number in memory: the octets of an address, on a host that has the
\* lowest or the highest octet first.
Hosts == {"little", "big"}
h2n(v, host) == IF host = "little" THEN Turned(v) ELSE v
n2h(v, host) == IF host = "little" THEN Turned(v) ELSE v
h2le(v, host) == IF host = "little" THEN v ELSE Turned(v)
le2h(v, host) == IF host = "little" THEN v ELSE Turned(v)
h2be(v, host) == IF host = "little" THEN Turned(v) ELSE v
be2h(v, host) == IF host = "little" THEN Turned(v) ELSE v

\* A port is two bytes wide; what stands before the colon is an address or nothing.
PortSize == Pow2[2 * PortBits]
parse_peer(ip, n) == [ip |-> ip, port |-> n % PortSize]
htons(n) == (n % Pow2[PortBits]) * Pow2[PortBits] + (n \div Pow2[PortBits])
sockaddr_in(p) == [sin_addr |-> uint32(p.ip), sin_port |-> htons(p.port)]
peer_of(a) == [ip |-> ip_of(a.sin_addr), port |-> htons(a.sin_port)]
peer_ok(p) == p.port > 0 /\ p.port < PortSize

Init == /\ shape = "none" /\ from = [i \in 1..4 |-> 0] /\ to = from /\ mask = 0 /\ port = 0

MakeMask(ip, m) == shape = "none" /\ shape' = "mask" /\ from' = ip /\ mask' = m /\ UNCHANGED <<to, port>>
MakeUpto(a, b) == shape = "none" /\ shape' = "upto" /\ from' = a /\ to' = b /\ UNCHANGED <<mask, port>>
MakePair(a, b) == shape = "none" /\ shape' = "pair" /\ from' = a /\ to' = b /\ UNCHANGED <<mask, port>>
MakePeer(ip, n) == shape = "none" /\ shape' = "peer" /\ from' = ip /\ port' = n /\ UNCHANGED <<to, mask>>

Next == \/ \E a, b \in Ip : MakeUpto(a, b) \/ MakePair(a, b)
        \/ \E a \in Ip : \/ \E m \in 0..Width : MakeMask(a, m)
                         \/ \E n \in 1..Pow2[2 * PortBits + 1] : MakePeer(a, n)
Spec == Init /\ [][Next]_ad_vars

----------------------------------------------------------------------------

Value(ip) == ntohl(uint32(ip))
Within(ip, low, high) == Value(low) <= Value(ip) /\ Value(ip) <= Value(high)

\* A range of an address and a mask has the addresses that agree with it in so many bits,
\* and its text gives it again; a range of two addresses has those between them; one of a
\* pair ("pair") has a mask that says in how many bits they agree at most, while the mask of
\* one that is read from "low/high" ("upto") is taken in the wrong byte order and says
\* nothing; a peer that is turned into a socket address and back is the same; and numbers are
\* the same on the host that gets them.
RangesAreExact ==
  /\ shape = "mask" /\ mask > 0 /\ uint32(from) # 0 =>
       LET r == parse_mask(from, mask) IN
       /\ \A ip \in Ip : isIpInRange(r, ip) <=>
            Value(ip) \div Pow2[Width - mask] = Value(from) \div Pow2[Width - mask]
       /\ uint32(r.low) # 0 => parse_mask(str(r)[1], str(r)[2]) = r
  /\ shape = "upto" /\ ~less(to, from) /\ uint32(from) # 0 =>
       \A ip \in Ip : isIpInRange(parse_upto(from, to), ip) <=> Within(ip, from, to)
  /\ shape = "pair" =>
       LET r == make_range(from, to) IN
       /\ \A ip \in Ip : isIpInRange(r, ip) <=> Within(ip, from, to) \/ Within(ip, to, from)
       /\ r.mask < Width => LET p == Pow2[Width - r.mask - 1] IN Value(r.low) \div p # Value(r.high) \div p
  /\ shape = "peer" =>
       LET p == parse_peer(from, port) IN peer_of(sockaddr_in(p)) = p
  /\ shape = "peer" => \A here, there \in Hosts : LET seen(v) == IF here = there THEN v ELSE Turned(v) IN
       /\ n2h(h2n(from, here), there) = seen(from) /\ be2h(h2be(from, here), there) = seen(from)
       /\ le2h(h2le(from, here), there) = seen(from) /\ h2n(from, here) = h2be(from, here)
=============================================================================
