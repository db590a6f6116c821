------------------------------ MODULE Streams ------------------------------
(***************************************************************************)
(* Two stream connectors and dup, which copies from each to the other.     *)
(* The connector "i" was accepted; "o" is connected first.  Every          *)
(* connector has a peer, which sends the bytes 1, 2, ... and may close or  *)
(* reset the connection; the kernel holds what was not read or not sent.   *)
(***************************************************************************)
EXTENDS Naturals, Sequences

CONSTANTS
  Bytes,    \* how many bytes each peer sends at most
  SndBuf,   \* bytes the kernel takes before a write would block
  BufSize,  \* the most a read returns
  Package   \* the most one send is given

VARIABLES
  connected, \* connector_adapter::is_connected_
  dialing,   \* where the connect of "o" is
  peer,      \* "open", "closed" by the peer, or "reset"
  inbox,     \* what has arrived at each connector
  sent,      \* how many bytes each peer has sent
  outbox,    \* what the kernel has to send
  got,       \* what each peer has received
  pump,      \* where the two tasks of dup are
  chunk,     \* what each has read and not yet sent
  cancelled, \* the cancelled tasks
  gaveUp     \* the connectors a write to which timed out

svars == <<connected, dialing, peer, inbox, sent, outbox, got, pump, chunk, cancelled, gaveUp>>

End == {"i", "o"}
\* A task of dup is named for the connector it reads.
Other(e) == IF e = "i" THEN "o" ELSE "i"

TypeOK ==
  /\ connected \in [End -> BOOLEAN] /\ dialing \in {"idle", "waiting", "done", "failed"}
  /\ peer \in [End -> {"none", "open", "closed", "reset"}]
  /\ \A f \in {inbox, outbox, got, chunk} : f \in [End -> Seq(1..Bytes)]
  /\ sent \in [End -> 0..Bytes]
  /\ pump \in [End -> {"none", "reading", "writing", "blocked", "ended"}]
  /\ cancelled \subseteq End /\ gaveUp \subseteq End

\* tcp_connector::create(fd) for "i", and create() for "o".
Init ==
  /\ connected = [e \in End |-> e = "i"] /\ dialing = "idle"
  /\ peer = [e \in End |-> IF e = "i" THEN "open" ELSE "none"]
  /\ inbox = [e \in End |-> <<>>] /\ outbox = [e \in End |-> <<>>]
  /\ got = [e \in End |-> <<>>] /\ sent = [e \in End |-> 0]
  /\ pump = [e \in End |-> "none"] /\ chunk = [e \in End |-> <<>>]
  /\ cancelled = {} /\ gaveUp = {}

copying == <<inbox, sent, outbox, got, pump, chunk, cancelled, gaveUp>>

----------------------------------------------------------------------------
(* connector_adapter::connect with tcp_connect as the slot                 *)

Dial ==
  /\ dialing \in {"idle", "failed"} /\ ~connected["o"]
  /\ \/ dialing' = "done" /\ connected' = [connected EXCEPT !["o"] = TRUE]
        /\ peer' = [peer EXCEPT !["o"] = "open"]
     \/ dialing' = "failed" /\ UNCHANGED <<connected, peer>>
     \/ dialing' = "waiting" /\ UNCHANGED <<connected, peer>>
  /\ UNCHANGED copying

\* The wait for writing ends: received, or broken, cancelled or timed out.
Dialed ==
  /\ dialing = "waiting"
  /\ \E ok \in BOOLEAN :
       /\ dialing' = IF ok THEN "done" ELSE "failed"
       /\ connected' = [connected EXCEPT !["o"] = ok]
       /\ peer' = [peer EXCEPT !["o"] = IF ok THEN "open" ELSE @]
  /\ UNCHANGED copying

----------------------------------------------------------------------------
(* net_utils::read and write, on a socket that does not block.             *)

\* The bytes recv gives with room for n of them, and what is left.
recv(data, n) == SubSeq(data, 1, IF Len(data) < n THEN Len(data) ELSE n)
MutRest(data, n) == SubSeq(data, n + 2, Len(data)) \* Mutant: off by one.

Rest(data, n) == SubSeq(data, n + 1, Len(data))

\* net_utils::read into a string with a limit: one recv, whether it fills the buffer or not.
read(e) == recv(inbox[e], BufSize)

\* net_utils::write: as much of the package as the kernel takes.
write(e, data) == recv(recv(data, Package), SndBuf - Len(outbox[e]))

----------------------------------------------------------------------------
(* dup                                                                     *)

StartDup ==
  /\ dialing = "done" /\ pump["i"] = "none"
  /\ pump' = [e \in End |-> "reading"]
  /\ UNCHANGED <<connected, dialing, peer, inbox, sent, outbox, got, chunk, cancelled, gaveUp>>

\* Mutant: the other task is not cancelled.
MutPumpEnds(e) == pump' = [pump EXCEPT ![e] = "ended"] /\ UNCHANGED cancelled

\* A read fails: the task ends, and its atexit handler cancels the other one.
PumpEnds(e) ==
  /\ pump' = [pump EXCEPT ![e] = "ended"]
  /\ cancelled' = IF pump[Other(e)] = "ended" THEN cancelled ELSE cancelled \cup {Other(e)}

unpumped == <<connected, dialing, peer, sent, got>>

\* A peek of no bytes never finds any.
has_data_pending(e) == Len(SubSeq(inbox[e], 1, 0)) > 0

\* connector_adapter::read returns, unless it times out, after which it is called again.
\* An error or a cancellation ends the wait as broken: what has arrived is not read.
PumpReads(e) ==
  /\ pump[e] = "reading"
  /\ \/ /\ e \in cancelled \/ peer[e] = "reset"
        /\ PumpEnds(e) /\ UNCHANGED <<inbox, chunk>>
     \/ /\ e \notin cancelled /\ peer[e] = "closed" /\ inbox[e] = <<>>
        /\ PumpEnds(e) /\ UNCHANGED <<inbox, chunk>>
     \/ /\ e \notin cancelled /\ peer[e] # "reset" /\ inbox[e] # <<>>
        /\ chunk' = [chunk EXCEPT ![e] = read(e)]
        /\ inbox' = [inbox EXCEPT ![e] = Rest(@, Len(read(e)))]
        /\ pump' = [pump EXCEPT ![e] = "writing"] /\ UNCHANGED cancelled
  /\ UNCHANGED <<unpumped, outbox, gaveUp>>

\* connector_adapter::write gives up, and nobody looks at its result.
WriteEnds(e) == /\ pump' = [pump EXCEPT ![e] = "reading"]
                /\ chunk' = [chunk EXCEPT ![e] = <<>>]

\* One package, then a wait if anything is left.
PumpWrites(e) ==
  LET out == Other(e)
      now == write(out, chunk[e])
  IN  /\ pump[e] = "writing"
      /\ IF peer[out] = "reset" THEN WriteEnds(e) /\ UNCHANGED <<outbox>>
         ELSE /\ outbox' = [outbox EXCEPT ![out] = @ \o now]
              /\ IF Len(now) = Len(chunk[e]) THEN WriteEnds(e)
                 ELSE /\ chunk' = [chunk EXCEPT ![e] = Rest(@, Len(now))]
                      /\ pump' = [pump EXCEPT ![e] = "blocked"]
      /\ UNCHANGED <<unpumped, inbox, cancelled, gaveUp>>

\* The wait for writing ends: there is space, or the wait was broken or timed out.
PumpWaited(e) ==
  LET out == Other(e) IN
  /\ pump[e] = "blocked"
  /\ \/ /\ Len(outbox[out]) < SndBuf /\ e \notin cancelled /\ peer[out] # "reset"
        /\ pump' = [pump EXCEPT ![e] = "writing"] /\ UNCHANGED <<chunk, gaveUp>>
     \/ (e \in cancelled \/ peer[out] = "reset") /\ WriteEnds(e) /\ UNCHANGED gaveUp
     \/ /\ Len(outbox[out]) = SndBuf /\ e \notin cancelled /\ peer[out] # "reset"
        /\ WriteEnds(e) /\ gaveUp' = gaveUp \cup {out}
  /\ UNCHANGED <<unpumped, inbox, outbox, cancelled>>

----------------------------------------------------------------------------
(* The peers.                                                              *)

unpeered == <<connected, dialing, pump, chunk, cancelled, gaveUp>>

PeerSends(e) ==
  /\ peer[e] = "open" /\ sent[e] < Bytes
  /\ sent' = [sent EXCEPT ![e] = @ + 1]
  /\ inbox' = [inbox EXCEPT ![e] = Append(@, sent[e] + 1)]
  /\ UNCHANGED <<unpeered, peer, outbox, got>>

\* A peer that has closed still receives; one that has reset does not.
PeerTakes(e) ==
  /\ peer[e] \in {"open", "closed"} /\ outbox[e] # <<>>
  /\ got' = [got EXCEPT ![e] = Append(@, Head(outbox[e]))]
  /\ outbox' = [outbox EXCEPT ![e] = Tail(@)]
  /\ UNCHANGED <<unpeered, peer, inbox, sent>>

PeerCloses(e) ==
  /\ peer[e] = "open" /\ peer' = [peer EXCEPT ![e] = "closed"]
  /\ UNCHANGED <<unpeered, inbox, sent, outbox, got>>

PeerResets(e) ==
  /\ peer[e] \in {"open", "closed"} /\ peer' = [peer EXCEPT ![e] = "reset"]
  /\ UNCHANGED <<unpeered, inbox, sent, outbox, got>>

Pump(e) == PumpReads(e) \/ PumpWrites(e) \/ PumpWaited(e)

Next ==
  \/ Dial \/ Dialed \/ StartDup
  \/ \E e \in End : \/ PumpReads(e) \/ PumpWrites(e) \/ PumpWaited(e)
                    \/ PeerSends(e) \/ PeerTakes(e) \/ PeerCloses(e) \/ PeerResets(e)

Spec == Init /\ [][Next]_svars
\* Tasks that can run do; a wait for writing ends, at the latest when it times out.
FairSpec == Spec /\ \A e \in End : WF_svars(Pump(e))

----------------------------------------------------------------------------
(* Properties.                                                             *)

Sent(e) == [n \in 1..sent[e] |-> n]

\* As long as no write was given up, what a peer has received and what is on the way to
\* it is, in this order and without a hole, all that the other peer sent.
NoHole == \A e \in End :
  (Other(e) \notin gaveUp /\ peer[Other(e)] # "reset" /\ e \notin cancelled) =>
    got[Other(e)] \o outbox[Other(e)] \o chunk[e] \o inbox[e] = Sent(e)

\* When both tasks have ended, a peer has, or will have, all that the other peer sent
\* before it closed, unless its own side closed, was reset or kept a write waiting.
EverythingArrives == \A e \in End :
  (/\ pump["i"] = "ended" /\ pump["o"] = "ended"
   /\ peer[e] = "closed" /\ peer[Other(e)] = "open" /\ Other(e) \notin gaveUp) =>
    got[Other(e)] \o outbox[Other(e)] = Sent(e)

\* Once one connection is closed or lost, both tasks end.
DupEnds == []<>(\A e \in End :
  pump[e] # "none" /\ peer[e] \in {"closed", "reset"} => pump["i"] = "ended" /\ pump["o"] = "ended")
=============================================================================
