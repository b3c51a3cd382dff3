-------------------------------- MODULE Capture --------------------------------
(***************************************************************************)
(* From raw packets to flows: pcap_parser reads a capture and              *)
(* parse_basic_packet_fast decodes it, or import_dataset decodes the lines *)
(* of a data set; in both a pool of threads fills ranges of a vector of    *)
(* pointers, which construct_flow (FlowConstruct) then makes into flows.   *)
(* The window between them is here all of the packets; Detector cuts it.   *)
(*                                                                         *)
(* What the header library finds in a packet is a record: its network      *)
(* protocol, addresses, next protocol, ports, TCP flags and time.          *)
(***************************************************************************)
EXTENDS FlowConstruct

CONSTANTS
  AddressPairs, PortPairs,   \* source and destination
  NoPorts,                   \* the pair 0, 0 of a packet without ports
  NullPtr,                   \* an element of the vector not yet set
  Captures,                  \* the sequences of raw packets considered
  ParseMultiplex             \* threads of the parser: 16, of the import: 64

Flags == {"TCP_SYN", "TCP_FIN", "TCP_RST", "TCP_ACK"}

Raw == [net : {"IPv4", "IPv6", "other"}, addrs : AddressPairs,
        next : {"TCP", "UDP", "ICMP", "IGMP", "other"}, ports : PortPairs,
        flags : SUBSET Flags, ts : Times]

ASSUME ParseMultiplexAssumption == ParseMultiplex \in Nat \ {0}
ASSUME CaptureAssumption == \A r \in Captures : r \in Seq(Raw)

VARIABLES
  source,       \* "capture" or "text"
  raw,          \* *p_raw_packet, or string_temp
  parsePc,      \* per parsing thread: "run", or "count" between a read and a write of bad_packet
  parseAt,      \* per parsing thread: its loop variable i
  bad_packet,   \* the counter all parsing threads of a capture share
  seen          \* per parsing thread: the value of it that the thread read

parseVars == <<parsePc, parseAt, bad_packet, seen>>
captureVars == <<source, raw, parseVars>>
allVars == <<vars, captureVars>>

Parsers == 0 .. ParseMultiplex - 1
Null == [id |-> NullPtr, ts |-> 0]

CaptureInit ==
  /\ source \in {"capture", "text"}
  /\ raw \in Captures
  /\ parsePc = [t \in Parsers |-> "run"] /\ parseAt = [t \in Parsers |-> 0]
  /\ bad_packet = 0 /\ seen = [t \in Parsers |-> 0]
  /\ phase = "read" /\ pkts = <<>>
  /\ NotStarted

-------------------------------------------------------------------------------
(* What a packet is parsed to *)

(* The bits of packet_code. *)
TypeCode(p) ==
  {p.net} \cup CASE p.next = "TCP" -> p.flags
                 [] p.next \in {"UDP", "ICMP", "IGMP"} -> {p.next}
                 [] OTHER -> {"UNKNOWN"}

(* As the assertion that is commented out after it would have it. *)
StackCodeByFlags(code) ==
  CASE "ICMP" \in code -> "ICMP"
    [] "IGMP" \in code -> "IGMP"
    [] "UDP" \in code -> "UDP"
    [] code \cap Flags # {} -> "TCP"
    [] OTHER -> "UNKNOWN"

(* convert_packet2stack_code, when construct_flow looks at the packet. *)
StackCode(code) ==
  CASE "ICMP" \in code -> "ICMP"
    [] "IGMP" \in code -> "IGMP"
    [] "UDP" \in code -> "UDP"
    [] "UNKNOWN" \in code -> "UNKNOWN"
    [] OTHER -> "TCP"

(* The 5-tuple. *)
ConnectionOf(p) ==
  [net |-> p.net, addrs |-> p.addrs,
   ports |-> IF p.next \in {"TCP", "UDP"} THEN p.ports ELSE NoPorts,
   stack |-> StackCode(TypeCode(p))]

(* A basic_packet_bad is of a class of its own.                              *)
ASSUME BadIdAssumption == \A r \in Captures : \A i \in DOMAIN r : ConnectionOf(r[i]) # BadId

(* A bad packet of a data set has no time. *)
Parsed(p, from) ==
  IF p.net = "other"
  THEN [id |-> BadId, ts |-> IF from = "capture" THEN p.ts ELSE 0]
  ELSE [id |-> ConnectionOf(p), ts |-> p.ts]

AllParsed(r, from) == [i \in DOMAIN r |-> Parsed(r[i], from)]

(* What construct_flow is given is what the parsers make.                    *)
ASSUME ParsedAssumption ==
  Traces = {AllParsed(r, from) : r \in Captures, from \in {"capture", "text"}}

-------------------------------------------------------------------------------
(* The parsing threads *)

NothingRead == source = "capture" /\ raw = <<>>

(* parse_raw_packet exits when there is no packet. *)
ReadRaw ==
  /\ phase = "read"
  /\ IF NothingRead
     THEN phase' = "abort" /\ UNCHANGED <<pkts, parseAt>>
     ELSE /\ phase' = "parse"
          /\ pkts' = [i \in DOMAIN raw |-> Null]
          /\ parseAt' = [t \in Parsers |-> IF source = "capture"
                                           THEN From(Len(raw), ParseMultiplex, t)
                                           ELSE ClampedFrom(Len(raw), ParseMultiplex, t)]
  /\ UNCHANGED <<source, raw, parsePc, bad_packet, seen, scanVars, result, checkVars>>

(* The ends of the two kinds of ranges are the same. *)
ParseEnd(t) == To(Len(raw), ParseMultiplex, t)

Parsing(t) == phase = "parse" /\ parsePc[t] = "run" /\ parseAt[t] < ParseEnd(t)
RawAt(t) == raw[parseAt[t] + 1]
SetParsed(t) ==
  /\ pkts' = [pkts EXCEPT ![parseAt[t] + 1] = Parsed(RawAt(t), source)]
  /\ parseAt' = [parseAt EXCEPT ![t] = @ + 1]

Counted(t) == source = "capture" /\ RawAt(t).net = "other"

ParsePacket(t) ==
  /\ Parsing(t) /\ ~Counted(t)
  /\ SetParsed(t)
  /\ UNCHANGED <<phase, source, raw, parsePc, bad_packet, seen, scanVars, result, checkVars>>

(* bad_packet += 1 is a read and a write, without a lock. *)
ReadBad(t) ==
  /\ Parsing(t) /\ Counted(t)
  /\ seen' = [seen EXCEPT ![t] = bad_packet]
  /\ parsePc' = [parsePc EXCEPT ![t] = "count"]
  /\ UNCHANGED <<pkts, phase, source, raw, parseAt, bad_packet, scanVars, result, checkVars>>

WriteSeen(t) ==
  /\ phase = "parse" /\ parsePc[t] = "count"
  /\ bad_packet' = seen[t]
  /\ SetParsed(t)
  /\ parsePc' = [parsePc EXCEPT ![t] = "run"]
  /\ UNCHANGED <<phase, source, raw, seen, scanVars, result, checkVars>>

WriteBad(t) ==
  /\ phase = "parse" /\ parsePc[t] = "count"
  /\ bad_packet' = seen[t] + 1
  /\ SetParsed(t)
  /\ parsePc' = [parsePc EXCEPT ![t] = "run"]
  /\ UNCHANGED <<phase, source, raw, seen, scanVars, result, checkVars>>

ParseStep(t) == ParsePacket(t) \/ ReadBad(t) \/ WriteBad(t)

JoinAnyParser ==
  /\ phase = "parse" /\ \E t \in Parsers : parsePc[t] = "run" /\ parseAt[t] >= ParseEnd(t)
  /\ phase' = "scan"
  /\ bad_packet' = 0 /\ seen' = [t \in Parsers |-> 0]
  /\ UNCHANGED <<pkts, source, raw, parsePc, parseAt, scanVars, result, checkVars>>

ParsersEnded == \A t \in Parsers : parsePc[t] = "run" /\ parseAt[t] >= ParseEnd(t)

(* The counter, a local variable, is printed and gone. *)
JoinParsers ==
  /\ phase = "parse" /\ ParsersEnded
  /\ phase' = "scan"
  /\ bad_packet' = 0 /\ seen' = [t \in Parsers |-> 0]
  /\ UNCHANGED <<pkts, source, raw, parsePc, parseAt, scanVars, result, checkVars>>

ConstructStep == Next /\ UNCHANGED captureVars

CaptureNext ==
  \/ ReadRaw
  \/ \E t \in Parsers : ParseStep(t)
  \/ JoinParsers
  \/ ConstructStep

CaptureSpec ==
  /\ CaptureInit /\ [][CaptureNext]_allVars
  /\ WF_allVars(ReadRaw) /\ WF_allVars(JoinParsers)
  /\ \A t \in Parsers : WF_allVars(ParseStep(t))
  /\ Fairness

-------------------------------------------------------------------------------
(* Properties *)

CaptureTypeOK ==
  /\ phase \in {"read", "parse", "scan", "check", "done", "abort", "undefined"}
  /\ pkts \in Seq(IF phase \in {"read", "parse"} THEN Packet \cup {Null} ELSE Packet)
  /\ phase # "read" /\ ~NothingRead => Len(pkts) = Len(raw)
  /\ parsePc \in [Parsers -> {"run", "count"}] /\ parseAt \in [Parsers -> Nat]
  /\ bad_packet \in 0 .. Len(raw) /\ seen \in [Parsers -> 0 .. Len(raw)]

(* The times of the capture do not decrease. *)
RawInOrder == \A i, j \in DOMAIN raw : i < j => raw[i].ts <= raw[j].ts

(* From the file to the flows, the program ends: in flows, or, when there is *)
(* nothing to read or a range of construct_flow starts beyond the packets,   *)
(* in its termination (pcap_parser.cpp:13, explicit_constructor.cpp:49).     *)
(* Only when the times decrease somewhere may it lose its meaning before, in *)
(* a sort of overlapping flows (explicit_constructor.cpp:180).               *)
CaptureCompletion ==
  <>[](\/ phase = IF NothingRead \/ Overshoots(Len(raw), Multiplex) THEN "abort" ELSE "done"
       \/ phase = "undefined" /\ ~RawInOrder)

(* construct_flow finds every packet parsed, in its place, whatever threads  *)
(* filled the vector and in whatever order: what follows the parser is a     *)
(* behaviour of FlowConstruct on the parsed packets (lines 23-172).          *)
Construct == INSTANCE FlowConstruct WITH
  pkts <- AllParsed(raw, source),
  phase <- IF phase \in {"read", "parse"} \/ NothingRead THEN "scan" ELSE phase

ImplementsConstruct == Construct!Spec

(* The packets of one connection, as the headers have it.                    *)
SameConnection(p, q) ==
  /\ p.net = q.net /\ p.addrs = q.addrs /\ p.next = q.next
  /\ p.next \in {"TCP", "UDP"} => p.ports = q.ports

RawOf(fl) == raw[(CHOOSE i \in fl : TRUE) + 1]

(* The flows are those of the headers' connections, although these pass      *)
(* through two bit codes of which neither has a bit for TCP: none mixes two, *)
(* all packets but bad ones are in one, and when the times do not decrease   *)
(* no silence shorter than the time-out, and no TCP flag or its lack, splits *)
(* a connection (packet_info.hpp:74-90).                                    *)
ConnectionsKept ==
  phase = "done" =>
    /\ UNION result = {i \in Index : raw[i + 1].net # "other"}
    /\ \A fl \in result : \A i, j \in fl : SameConnection(raw[i + 1], raw[j + 1])
    /\ RawInOrder =>
         \A a, b \in result :
           a # b /\ SameConnection(RawOf(a), RawOf(b)) =>
             Str(a) - End(b) >= FLOW_TIME_OUT \/ Str(b) - End(a) >= FLOW_TIME_OUT

(* What the log can say of the number of bad packets, a counter incremented  *)
(* without a lock: never more than there are, and none only if there is none *)
(* (lines 111, 159).                                                         *)
BadCounted ==
  phase = "parse" /\ ParsersEnded /\ source = "capture" =>
    LET bad == Cardinality({i \in DOMAIN raw : raw[i].net = "other"})
    IN  bad_packet <= bad /\ (bad > 0 => bad_packet > 0)
================================================================================
