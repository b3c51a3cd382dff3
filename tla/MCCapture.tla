------------------------------- MODULE MCCapture -------------------------------
(* An instance of Capture for TLC. *)
EXTENDS Capture

CONSTANT Lengths    \* lengths of the captures

P(net, next, flags, time) ==
  [net |-> net, addrs |-> "ab", next |-> next, ports |-> "12", flags |-> flags, ts |-> time]

(* One pair of hosts: TCP packets with flags and without, near and late, a   *)
(* UDP packet between the same ports, one of the other family, a bad one.    *)
Syn == P("IPv4", "TCP", {"TCP_SYN"}, 1)
Bad == P("other", "other", {}, 2)
RawPackets ==
  {Syn, P("IPv4", "TCP", {}, 2), P("IPv4", "TCP", {"TCP_ACK"}, 5),
   P("IPv4", "UDP", {}, 2), P("IPv6", "ICMP", {}, 1), Bad}

(* Captures begin with one of two packets: bounds their number. *)
SmallCaptures ==
  {r \in UNION {[1 .. n -> RawPackets] : n \in Lengths} : r # <<>> => r[1] \in {Syn, Bad}}
ParsedCaptures == {AllParsed(r, from) : r \in SmallCaptures, from \in {"capture", "text"}}

IdsWith(net) == {ConnectionOf(p) : p \in {q \in RawPackets : q.net = net}}
SmallId4 == IdsWith("IPv4")
SmallId6 == IdsWith("IPv6")
================================================================================
