------------------------------ MODULE CaptureProofs ----------------------------
(***************************************************************************)
(* Whatever threads parse the packets and in whatever order, construct_flow *)
(* finds each of them parsed in its place: what follows the parser is a    *)
(* behaviour of FlowConstruct on the parsed packets.                       *)
(***************************************************************************)
EXTENDS Capture, FlowConstructProofs

-------------------------------------------------------------------------------
(* Ranges *)

StartOf(t) ==
  IF source = "capture" THEN From(Len(raw), ParseMultiplex, t) ELSE ClampedFrom(Len(raw), ParseMultiplex, t)

(* Every packet is in the range of some thread, clamped or not.              *)
LEMMA RangesCover ==
  ASSUME Len(raw) \in Nat, NEW i \in 0 .. Len(raw) - 1
  PROVE  \E t \in Parsers : StartOf(t) <= i /\ i < ParseEnd(t)
<1> DEFINE n == Len(raw)
           m == ParseMultiplex
<1>1. n \in Nat /\ m \in Nat \ {0}
  BY ParseMultiplexAssumption
<1>2. PICK t \in 0 .. m - 1 : i \in Slice(n, m, t)
  BY <1>1, SlicesCover
<1>3. From(n, m, t) \in Nat /\ To(n, m, t) \in Nat
  BY <1>1, SliceInside
<1>4. From(n, m, t) <= i /\ i < To(n, m, t)
  BY <1>2, <1>3 DEF Slice
<1>5. ClampedFrom(n, m, t) <= i
  BY <1>1, <1>3, <1>4 DEF ClampedFrom, From, Least
<1> QED BY <1>2, <1>4, <1>5 DEF StartOf, ParseEnd, Parsers

LEMMA ParseRangeFacts ==
  ASSUME Len(raw) \in Nat, NEW t \in Parsers
  PROVE  /\ StartOf(t) \in Nat /\ ParseEnd(t) \in Nat /\ ParseEnd(t) <= Len(raw)
<1> DEFINE n == Len(raw)
           m == ParseMultiplex
<1>1. n \in Nat /\ m \in Nat \ {0} /\ t \in 0 .. m - 1
  BY ParseMultiplexAssumption DEF Parsers
<1>2. From(n, m, t) \in Nat /\ To(n, m, t) \in Nat /\ To(n, m, t) <= n
  BY <1>1, SliceInside
<1>3. ClampedFrom(n, m, t) \in Nat
  BY <1>1, <1>2 DEF ClampedFrom, From, Least
<1> QED BY <1>2, <1>3 DEF StartOf, ParseEnd

-------------------------------------------------------------------------------
(* Parsing *)

ParseInv ==
  /\ raw \in Captures /\ source \in {"capture", "text"}
  /\ phase \in {"read", "parse", "scan", "check", "done", "abort", "undefined"}
  /\ parsePc \in [Parsers -> {"run", "count"}] /\ parseAt \in [Parsers -> Nat]
  /\ phase = "read" => pkts = <<>> /\ NotStarted /\ parsePc = [t \in Parsers |-> "run"]
  /\ phase = "parse" =>
       /\ ~NothingRead /\ NotStarted
       /\ pkts \in [DOMAIN raw -> Packet \cup {Null}]
       /\ \A t \in Parsers : parsePc[t] = "count" => parseAt[t] < ParseEnd(t)
       /\ \A t \in Parsers : \A i \in 0 .. Len(raw) - 1 :
            StartOf(t) <= i /\ i < parseAt[t] => pkts[i + 1] = Parsed(raw[i + 1], source)
  /\ phase \in {"scan", "check", "done", "abort", "undefined"} /\ ~NothingRead => pkts = AllParsed(raw, source)
  /\ NothingRead => phase \in {"read", "abort"} /\ pkts = <<>>

LEMMA RawFacts ==
  ASSUME raw \in Captures
  PROVE  Len(raw) \in Nat /\ DOMAIN raw = 1 .. Len(raw) /\ raw \in Seq(Raw)
BY CaptureAssumption

(* What is parsed is a packet.                                               *)
LEMMA ParsedPacket ==
  ASSUME raw \in Captures, source \in {"capture", "text"}, NEW i \in DOMAIN raw
  PROVE  Parsed(raw[i], source) \in Packet
<1>1. AllParsed(raw, source) \in Traces
  BY ParsedAssumption
<1>2. AllParsed(raw, source) \in Seq(Packet)
  BY <1>1, TraceAssumption
<1>3. DOMAIN AllParsed(raw, source) = DOMAIN raw /\ AllParsed(raw, source)[i] = Parsed(raw[i], source)
  BY DEF AllParsed
<1> QED BY <1>2, <1>3

LEMMA InitParse == CaptureInit => ParseInv
<1> SUFFICES ASSUME CaptureInit PROVE ParseInv
  OBVIOUS
<1> QED BY DEF CaptureInit, ParseInv, NothingRead

(* A thread sets the packet at its index.                                    *)
LEMMA SetParsedKeeps ==
  ASSUME ParseInv, phase = "parse", phase' = "parse", UNCHANGED <<raw, source, scanVars, result, checkVars>>,
         NEW t \in Parsers, parseAt[t] < ParseEnd(t), SetParsed(t),
         parsePc' \in [Parsers -> {"run", "count"}],
         \A u \in Parsers : parsePc'[u] = "count" => u # t /\ parsePc[u] = "count"
  PROVE  ParseInv'
<1> DEFINE k == parseAt[t]
           p == Parsed(raw[k + 1], source)
<1>1. Len(raw) \in Nat /\ DOMAIN raw = 1 .. Len(raw)
  BY RawFacts DEF ParseInv
<1>2. k \in Nat /\ k < Len(raw) /\ k + 1 \in DOMAIN raw
  BY <1>1, ParseRangeFacts DEF ParseInv
<1>3. pkts' = [pkts EXCEPT ![k + 1] = p] /\ parseAt' = [parseAt EXCEPT ![t] = k + 1]
  BY DEF SetParsed, RawAt
<1>4. p \in Packet
  BY <1>2, ParsedPacket DEF ParseInv
<1>5. pkts \in [DOMAIN raw -> Packet \cup {Null}] /\ parseAt \in [Parsers -> Nat]
  BY DEF ParseInv
<1>6. pkts' \in [DOMAIN raw' -> Packet \cup {Null}] /\ parseAt' \in [Parsers -> Nat]
  BY <1>2, <1>3, <1>4, <1>5
<1>7. \A u \in Parsers : StartOf(u)' = StartOf(u) /\ ParseEnd(u)' = ParseEnd(u)
  BY DEF StartOf, ParseEnd
<1>8. ASSUME NEW u \in Parsers, NEW i \in 0 .. Len(raw) - 1, StartOf(u) <= i, i < parseAt'[u]
      PROVE  pkts'[i + 1] = Parsed(raw[i + 1], source)
  <2>1. CASE i = k
    BY <1>2, <1>3, <1>5, <2>1
  <2>2. CASE i # k
    <3>1. i + 1 # k + 1 /\ i + 1 \in DOMAIN raw
      BY <1>1, <1>2, <2>2
    <3>2. pkts'[i + 1] = pkts[i + 1]
      BY <1>3, <1>5, <3>1
    <3>3. i < parseAt[u]
      <4>1. CASE u = t
        BY <1>2, <1>3, <1>5, <1>8, <2>2, <4>1
      <4>2. CASE u # t
        BY <1>3, <1>5, <1>8, <4>2
      <4> QED BY <4>1, <4>2
    <3> QED BY <1>8, <3>2, <3>3 DEF ParseInv
  <2> QED BY <2>1, <2>2
<1>9. \A u \in Parsers : parsePc'[u] = "count" => parseAt'[u] < ParseEnd(u)
  BY <1>3, <1>5 DEF ParseInv
<1>10. NothingRead' = NothingRead /\ NotStarted'
  BY DEF ParseInv, NothingRead, NotStarted, scanVars, checkVars
<1> QED BY <1>6, <1>7, <1>8, <1>9, <1>10 DEF ParseInv

(* construct_flow starts after the parser and, ended, changes nothing.       *)
ConstructPhases ==
  /\ phase \in {"scan", "check", "done", "abort", "undefined"} /\ phase' \in {"scan", "check", "done", "abort", "undefined"}
  /\ phase = "abort" => phase' = "abort"

LEMMA NextPhases ==
  ASSUME Next
  PROVE  UNCHANGED pkts /\ ConstructPhases
<1>1. ASSUME NEW c \in Cores, ScanStep(c) PROVE UNCHANGED pkts /\ ConstructPhases
  BY <1>1 DEF ScanStep, ReturnEmpty, Start, StartThrows, SkipBad, ScanPacket, Publish, ConstructPhases
<1>2. CASE Join
  BY <1>2 DEF Join, ConstructPhases
<1>3. ASSUME NEW f \in Family, CheckStep(f) PROVE UNCHANGED pkts /\ ConstructPhases
  BY <1>3 DEF CheckStep, BeginCheck, WorkerStep, CheckWorker, SortUndefined, ConstructPhases
<1>4. CASE JoinCheck
  BY <1>4 DEF JoinCheck, ConstructPhases
<1>5. CASE Finished
  BY <1>5 DEF Finished, vars, ConstructPhases
<1> QED BY <1>1, <1>2, <1>3, <1>4, <1>5 DEF Next

LEMMA StepParse == ParseInv /\ [CaptureNext]_allVars => ParseInv'
<1> SUFFICES ASSUME ParseInv, [CaptureNext]_allVars PROVE ParseInv'
  OBVIOUS
<1>1. Len(raw) \in Nat /\ DOMAIN raw = 1 .. Len(raw)
  BY RawFacts DEF ParseInv
<1>2. CASE ReadRaw
  <2>1. UNCHANGED <<source, raw, parsePc, scanVars, result, checkVars>> /\ phase = "read"
        /\ pkts = <<>> /\ NotStarted
    BY <1>2 DEF ReadRaw, ParseInv
  <2>2. NothingRead' = NothingRead /\ NotStarted'
    BY <2>1 DEF NothingRead, NotStarted, scanVars, checkVars
  <2>3. CASE NothingRead
    BY <1>2, <2>1, <2>2, <2>3 DEF ReadRaw, ParseInv
  <2>4. CASE ~NothingRead
    <3>1. phase' = "parse" /\ pkts' = [i \in DOMAIN raw |-> Null] /\ parseAt' = [t \in Parsers |-> StartOf(t)]
      BY <1>2, <2>4 DEF ReadRaw, StartOf
    <3>2. \A t \in Parsers : StartOf(t)' = StartOf(t) /\ StartOf(t) \in Nat
      BY <1>1, <2>1, ParseRangeFacts DEF StartOf
    <3>3. parseAt' \in [Parsers -> Nat] /\ \A t \in Parsers : parseAt'[t] = StartOf(t)
      BY <3>1, <3>2
    <3>4. \A t \in Parsers : parsePc[t] = "run"
      BY <2>1 DEF ParseInv
    <3> QED BY <2>1, <2>2, <2>4, <3>1, <3>2, <3>3, <3>4 DEF ParseInv
  <2> QED BY <2>3, <2>4
<1>3. ASSUME NEW t \in Parsers, ParseStep(t) PROVE ParseInv'
  <2>1. CASE ParsePacket(t)
    <3>1. /\ phase = "parse" /\ phase' = "parse" /\ parseAt[t] < ParseEnd(t) /\ parsePc[t] = "run" /\ parsePc' = parsePc
          /\ SetParsed(t) /\ UNCHANGED <<raw, source, scanVars, result, checkVars>>
      BY <2>1 DEF ParsePacket, Parsing
    <3>2. parsePc' \in [Parsers -> {"run", "count"}]
          /\ \A u \in Parsers : parsePc'[u] = "count" => u # t /\ parsePc[u] = "count"
      BY <3>1 DEF ParseInv
    <3> QED BY <3>1, <3>2, SetParsedKeeps
  <2>2. CASE ReadBad(t)
    <3>1. /\ phase = "parse" /\ UNCHANGED <<pkts, phase, source, raw, parseAt, scanVars, result, checkVars>>
          /\ parsePc' = [parsePc EXCEPT ![t] = "count"] /\ parseAt[t] < ParseEnd(t)
      BY <2>2 DEF ReadBad, Parsing
    <3>2. \A u \in Parsers : StartOf(u)' = StartOf(u) /\ ParseEnd(u)' = ParseEnd(u)
      BY <3>1 DEF StartOf, ParseEnd
    <3>3. NothingRead' = NothingRead /\ NotStarted'
      BY <3>1 DEF ParseInv, NothingRead, NotStarted, scanVars, checkVars
    <3>4. /\ parsePc' \in [Parsers -> {"run", "count"}]
          /\ \A u \in Parsers : parsePc'[u] = "count" => parseAt'[u] < ParseEnd(u)
      BY <3>1 DEF ParseInv
    <3> QED BY <3>1, <3>2, <3>3, <3>4 DEF ParseInv
  <2>3. CASE WriteBad(t)
    <3>1. /\ phase = "parse" /\ phase' = "parse" /\ parsePc[t] = "count"
          /\ parsePc' = [parsePc EXCEPT ![t] = "run"]
          /\ SetParsed(t) /\ UNCHANGED <<raw, source, scanVars, result, checkVars>>
      BY <2>3 DEF WriteBad
    <3>2. parsePc' \in [Parsers -> {"run", "count"}] /\ parseAt[t] < ParseEnd(t)
          /\ \A u \in Parsers : parsePc'[u] = "count" => u # t /\ parsePc[u] = "count"
      BY <3>1 DEF ParseInv
    <3> QED BY <3>1, <3>2, SetParsedKeeps
  <2> QED BY <1>3, <2>1, <2>2, <2>3 DEF ParseStep
<1>4. CASE JoinParsers
  <2>1. /\ phase = "parse" /\ ParsersEnded /\ phase' = "scan"
        /\ UNCHANGED <<pkts, source, raw, parsePc, parseAt>>
    BY <1>4 DEF JoinParsers
  <2>2. ~NothingRead /\ NothingRead' = NothingRead
    BY <2>1 DEF ParseInv, NothingRead
  <2>3. \A i \in 0 .. Len(raw) - 1 : pkts[i + 1] = Parsed(raw[i + 1], source)
    <3> TAKE i \in 0 .. Len(raw) - 1
    <3>1. PICK t \in Parsers : StartOf(t) <= i /\ i < ParseEnd(t)
      BY <1>1, RangesCover
    <3>2. parseAt[t] \in Nat /\ ParseEnd(t) \in Nat /\ parseAt[t] >= ParseEnd(t)
      BY <1>1, <2>1, ParseRangeFacts DEF ParseInv, ParsersEnded
    <3> QED BY <1>1, <2>1, <3>1, <3>2 DEF ParseInv
  <2>4. pkts = AllParsed(raw, source)
    <3>1. pkts = [j \in DOMAIN raw |-> pkts[j]]
      BY <2>1 DEF ParseInv
    <3>2. \A j \in DOMAIN raw : pkts[j] = Parsed(raw[j], source)
      <4> TAKE j \in DOMAIN raw
      <4>1. j - 1 \in 0 .. Len(raw) - 1 /\ (j - 1) + 1 = j
        BY <1>1
      <4> QED BY <2>3, <4>1
    <3> QED BY <3>1, <3>2 DEF AllParsed
  <2> QED BY <2>1, <2>2, <2>4 DEF ParseInv
<1>5. CASE ConstructStep
  <2>1. UNCHANGED <<pkts, source, raw, parsePc, parseAt>> /\ ConstructPhases
    BY <1>5, NextPhases DEF ConstructStep, captureVars, parseVars
  <2>2. NothingRead' = NothingRead
    BY <2>1 DEF NothingRead
  <2> QED BY <2>1, <2>2 DEF ParseInv, ConstructPhases
<1>6. CASE UNCHANGED allVars
  <2>1. UNCHANGED <<pkts, phase, source, raw, parsePc, parseAt, scanVars, result, checkVars>>
    BY <1>6 DEF allVars, vars, captureVars, parseVars
  <2>2. NothingRead' = NothingRead /\ NotStarted' = NotStarted
        /\ \A t \in Parsers : StartOf(t)' = StartOf(t) /\ ParseEnd(t)' = ParseEnd(t)
    BY <2>1 DEF NothingRead, NotStarted, scanVars, checkVars, StartOf, ParseEnd
  <2> QED BY <2>1, <2>2 DEF ParseInv
<1> QED BY <1>2, <1>3, <1>4, <1>5, <1>6 DEF CaptureNext

-------------------------------------------------------------------------------
(* After the parser *)

(* The parsed packets in their place, FlowConstruct's operators on them are  *)
(* those of the vector.                                                      *)
LEMMA SamePackets ==
  ASSUME pkts = AllParsed(raw, source)
  PROVE  /\ Construct!N = N /\ Construct!Index = Index
         /\ \A i : Construct!At(i) = At(i)
         /\ \A c : Construct!First(c) = First(c) /\ Construct!Last(c) = Last(c)
         /\ \A fl : Construct!FlowId(fl) = FlowId(fl) /\ Construct!Str(fl) = Str(fl) /\ Construct!End(fl) = End(fl)
<1>1. Construct!N = N /\ Construct!Index = Index
  BY DEF Construct!N, N, Construct!Index, Index
<1>2. \A i : Construct!At(i) = At(i)
  BY DEF Construct!At, At
<1>3. \A c : Construct!First(c) = First(c) /\ Construct!Last(c) = Last(c)
  BY <1>1 DEF Construct!First, First, Construct!Last, Last, Construct!From, From, Construct!To, To,
              Construct!PartSize, PartSize, Construct!Least, Least
<1>4. ASSUME NEW fl PROVE Construct!FlowId(fl) = FlowId(fl)
  BY DEF Construct!FlowId, FlowId, Construct!At, At
<1>5. ASSUME NEW fl PROVE Construct!Str(fl) = Str(fl)
  BY DEF Construct!Str, Str, Construct!At, At
<1>6. ASSUME NEW fl PROVE Construct!End(fl) = End(fl)
  BY DEF Construct!End, End, Construct!At, At
<1> QED BY <1>1, <1>2, <1>3, <1>4, <1>5, <1>6

LEMMA SameChecks ==
  ASSUME pkts = AllParsed(raw, source)
  PROVE  /\ \A c, now : Construct!CheckDue(c, now) = CheckDue(c, now)
         /\ \A fl, now : Construct!Idle(fl, now) = Idle(fl, now)
         /\ \A c : Construct!Held(c) = Held(c)
         /\ \A f, flows : Construct!FlowsOf(f, flows) = FlowsOf(f, flows)
         /\ \A f, id : Construct!Group(f, id) = Group(f, id)
         /\ \A g : Construct!Sorted(g) = Sorted(g) /\ Construct!Orderly(g) = Orderly(g)
         /\ \A o : Construct!Merged(o) = Merged(o)
<1>1. \A c, now : Construct!CheckDue(c, now) = CheckDue(c, now)
  BY DEF Construct!CheckDue, CheckDue
<1>2. \A fl, now : Construct!Idle(fl, now) = Idle(fl, now)
  BY SamePackets DEF Construct!Idle, Idle
<1>3. \A c : Construct!Held(c) = Held(c)
  BY DEF Construct!Held, Held, Construct!Ids, Ids
<1>4. \A f, flows : Construct!FlowsOf(f, flows) = FlowsOf(f, flows)
  BY SamePackets DEF Construct!FlowsOf, FlowsOf, Construct!IdsOf, IdsOf
<1>5. \A f, id : Construct!Group(f, id) = Group(f, id)
  BY SamePackets DEF Construct!Group, Group
<1>6. ASSUME NEW g PROVE Construct!Sorted(g) = Sorted(g) /\ Construct!Orderly(g) = Orderly(g)
  <2>1. \A a, b : Construct!Less(a, b) = Less(a, b)
    BY SamePackets DEF Construct!Less, Less
  <2>2. Construct!Cardinality(g) = Cardinality(g)
    BY DEF Construct!Cardinality, Cardinality
  <2>3. \A S, T : Construct!Bijection(S, T) = Bijection(S, T)
    BY DEF Construct!Bijection, Bijection, Construct!Injection, Injection, Construct!Surjection, Surjection,
           Construct!IsInjective, IsInjective
  <2> QED BY <2>1, <2>2, <2>3 DEF Construct!Sorted, Sorted, Construct!Orderly, Orderly
<1>7. ASSUME NEW o PROVE Construct!Merged(o) = Merged(o)
  BY SamePackets DEF Construct!Merged, Merged, Construct!Run, Run, Construct!Cut, Cut
<1> QED BY <1>1, <1>2, <1>3, <1>4, <1>5, <1>6, <1>7

(* The phase that construct_flow has reached.                                *)
MappedPhase == IF phase \in {"read", "parse"} \/ NothingRead THEN "scan" ELSE phase

(* A step of construct_flow, the packets parsed, is that step of the instance. *)
LEMMA StepConstruct ==
  ASSUME pkts = AllParsed(raw, source), AllParsed(raw, source)' = AllParsed(raw, source), pkts' = pkts,
         MappedPhase = phase, MappedPhase' = phase', Next
  PROVE  Construct!Next
<1> USE DEF MappedPhase
<1>1. ASSUME NEW c \in Cores, ScanStep(c) PROVE Construct!ScanStep(c)
  <2> USE DEF scanVars, checkVars, Construct!scanVars, Construct!checkVars
  <2>1. CASE ReturnEmpty(c)
    BY <2>1, SamePackets DEF ReturnEmpty, Construct!ReturnEmpty, Construct!ScanStep
  <2>2. CASE Start(c)
    BY <2>2, SamePackets DEF Start, Construct!Start, Construct!ScanStep
  <2>3. CASE StartThrows(c)
    BY <2>3, SamePackets DEF StartThrows, Construct!StartThrows, Construct!ScanStep
  <2>4. CASE SkipBad(c)
    BY <2>4, SamePackets DEF SkipBad, Construct!SkipBad, Construct!ScanStep
  <2>5. CASE ScanPacket(c)
    <3> DEFINE i == cursor[c]
               now == At(i).ts
               grown == [table[c] EXCEPT ![At(i).id] = @ \cup {i}]
               evicted == {id \in Ids : CheckDue(c, now) /\ grown[id] # {} /\ Idle(grown[id], now)}
    <3>1. Construct!At(i) = At(i) /\ Construct!Last(c) = Last(c) /\ Construct!Ids = Ids
      BY SamePackets DEF Ids, Construct!Ids
    <3>2. Construct!CheckDue(c, now) = CheckDue(c, now)
          /\ \A id : Construct!Idle(grown[id], now) = Idle(grown[id], now)
      BY SameChecks
    <3>3. {id \in Construct!Ids : /\ Construct!CheckDue(c, Construct!At(i).ts)
                                  /\ [table[c] EXCEPT ![Construct!At(i).id] = @ \cup {i}][id] # {}
                                  /\ Construct!Idle([table[c] EXCEPT ![Construct!At(i).id] = @ \cup {i}][id],
                                                    Construct!At(i).ts)} = evicted
      BY <3>1, <3>2
    <3>4. /\ phase = "scan" /\ pc[c] = "scan" /\ i < Last(c) /\ At(i).id \in Ids
          /\ table' = [table EXCEPT ![c] = [id \in Ids |-> IF id \in evicted THEN {} ELSE grown[id]]]
          /\ toAdd' = [toAdd EXCEPT ![c] = @ \cup {grown[id] : id \in evicted}]
          /\ lastCheck' = [lastCheck EXCEPT ![c] = IF CheckDue(c, now) THEN now ELSE @]
          /\ cursor' = [cursor EXCEPT ![c] = @ + 1]
          /\ UNCHANGED <<pkts, phase, pc, result, checkVars>>
      BY <2>5 DEF ScanPacket
    <3>5. Construct!ScanPacket(c)
      <4> DEFINE cNow == Construct!At(i).ts
                 cGrown == [table[c] EXCEPT ![Construct!At(i).id] = @ \cup {i}]
                 cEvicted == {id \in Construct!Ids : /\ Construct!CheckDue(c, cNow)
                                                     /\ cGrown[id] # {}
                                                     /\ Construct!Idle(cGrown[id], cNow)}
      <4>1. cNow = now /\ cGrown = grown /\ cEvicted = evicted
        BY <3>1, <3>3
      <4> HIDE DEF now, grown, evicted
      <4>2. /\ table' = [table EXCEPT ![c] = [id \in Construct!Ids |-> IF id \in cEvicted THEN {} ELSE cGrown[id]]]
            /\ toAdd' = [toAdd EXCEPT ![c] = @ \cup {cGrown[id] : id \in cEvicted}]
            /\ lastCheck' = [lastCheck EXCEPT ![c] = IF Construct!CheckDue(c, cNow) THEN cNow ELSE @]
        <5> HIDE DEF cNow, cGrown, cEvicted
        <5> QED BY <3>1, <3>2, <3>4, <4>1
      <4>3. MappedPhase = "scan" /\ pc[c] = "scan" /\ i < Construct!Last(c) /\ Construct!At(i).id \in Construct!Ids
        BY <3>1, <3>4
      <4>4. cursor' = [cursor EXCEPT ![c] = @ + 1] /\ UNCHANGED <<AllParsed(raw, source), MappedPhase, pc, result, Construct!checkVars>>
        BY <3>4
      <4> QED BY <4>2, <4>3, <4>4, Zenon DEF Construct!ScanPacket
    <3> QED BY <3>5 DEF Construct!ScanStep
  <2>6. CASE Publish(c)
    BY <2>6, SamePackets, SameChecks
       DEF Publish, Construct!Publish, Construct!ScanStep, NoFlow, Construct!NoFlow, Ids, Construct!Ids
  <2> QED BY <1>1, <2>1, <2>2, <2>3, <2>4, <2>5, <2>6 DEF ScanStep
<1>2. ASSUME Join PROVE Construct!Join
  BY <1>2 DEF Join, Construct!Join, Cores, Construct!Cores, scanVars, checkVars, Construct!scanVars, Construct!checkVars
<1>3. ASSUME NEW f \in Family, CheckStep(f) PROVE Construct!CheckStep(f)
  <2> USE DEF scanVars, Construct!scanVars
  <2>1. CASE BeginCheck(f)
    <3>1. \A S : Construct!Numbering(S) = Numbering(S) /\ Construct!Cardinality(S) = Cardinality(S)
      BY DEF Numbering, Construct!Numbering, Cardinality, Construct!Cardinality
    <3>2. \A n, m, w : Construct!Slice(n, m, w) = Slice(n, m, w)
      BY DEF Slice, Construct!Slice, From, Construct!From, To, Construct!To,
             PartSize, Construct!PartSize, Least, Construct!Least
    <3>3. \A fl : Construct!FlowId(fl) = FlowId(fl)
      BY SamePackets
    <3>4. Construct!FlowsOf(f, result) = FlowsOf(f, result) /\ Construct!CheckCores = CheckCores
      BY SameChecks DEF CheckCores, Construct!CheckCores
    <3> DEFINE keys == {FlowId(fl) : fl \in FlowsOf(f, result)}
    <3>5. {Construct!FlowId(fl) : fl \in Construct!FlowsOf(f, result)} = keys
      BY <3>3, <3>4
    <3>6. /\ phase = "check" /\ f \notin checking
          /\ checking' = checking \cup {f}
          /\ temp' = [temp EXCEPT ![f] = FlowsOf(f, result)]
          /\ result' = result \ FlowsOf(f, result)
          /\ \E place \in Numbering(keys) :
               work' = [work EXCEPT ![f] = [w \in CheckCores |->
                          {id \in keys : place[id] \in Slice(Cardinality(keys), CheckMultiplex, w)}]]
          /\ UNCHANGED <<pkts, phase, scanVars, checked>>
      BY <2>1 DEF BeginCheck
    <3>7. \E place \in Construct!Numbering(keys) :
             work' = [work EXCEPT ![f] = [w \in Construct!CheckCores |->
                        {id \in keys : place[id] \in Construct!Slice(Construct!Cardinality(keys), CheckMultiplex, w)}]]
      BY <3>6 DEF CheckCores, Construct!CheckCores, Numbering, Construct!Numbering, Cardinality, Construct!Cardinality, Slice, Construct!Slice,
                  From, Construct!From, To, Construct!To, PartSize, Construct!PartSize, Least, Construct!Least
    <3>8. Construct!BeginCheck(f)
      <4> DEFINE cOld == Construct!FlowsOf(f, result)
                 cKeys == {Construct!FlowId(fl) : fl \in cOld}
      <4>1. cOld = FlowsOf(f, result) /\ cKeys = keys
        BY <3>4, <3>5
      <4>2. \E place \in Construct!Numbering(cKeys) :
             work' = [work EXCEPT ![f] = [w \in Construct!CheckCores |->
                        {id \in cKeys : place[id] \in Construct!Slice(Construct!Cardinality(cKeys), CheckMultiplex, w)}]]
        <5> HIDE DEF cKeys, keys
        <5>1. PICK place \in Construct!Numbering(keys) :
                 work' = [work EXCEPT ![f] = [w \in Construct!CheckCores |->
                            {id \in keys : place[id] \in Construct!Slice(Construct!Cardinality(keys), CheckMultiplex, w)}]]
          BY <3>7
        <5>2. place \in Construct!Numbering(cKeys) /\ Construct!Cardinality(cKeys) = Construct!Cardinality(keys)
          BY <4>1, <5>1
        <5> QED BY <4>1, <5>1, <5>2
      <4>3. temp' = [temp EXCEPT ![f] = cOld] /\ result' = result \ cOld
        BY <3>6, <4>1
      <4>4. MappedPhase = "check" /\ f \notin checking /\ checking' = checking \cup {f}
            /\ UNCHANGED <<AllParsed(raw, source), MappedPhase, Construct!scanVars, checked>>
        BY <3>6
      <4> QED BY <4>2, <4>3, <4>4, Zenon DEF Construct!BeginCheck
    <3> QED BY <3>8 DEF Construct!CheckStep
  <2>2. ASSUME NEW w \in CheckCores, CheckWorker(f, w) PROVE Construct!CheckWorker(f, w)
    BY <2>2, SameChecks DEF CheckWorker, Construct!CheckWorker
  <2>3. ASSUME NEW w \in CheckCores, SortUndefined(f, w) PROVE Construct!SortUndefined(f, w)
    BY <2>3, SameChecks DEF SortUndefined, Construct!SortUndefined, checkVars, Construct!checkVars
  <2> QED BY <1>3, <2>1, <2>2, <2>3
          DEF CheckStep, Construct!CheckStep, WorkerStep, Construct!WorkerStep, CheckCores, Construct!CheckCores
<1>4. ASSUME JoinCheck PROVE Construct!JoinCheck
  BY <1>4 DEF JoinCheck, Construct!JoinCheck, Family, Construct!Family, CheckCores, Construct!CheckCores,
              scanVars, checkVars, Construct!scanVars, Construct!checkVars
<1>5. ASSUME Finished PROVE Construct!Finished
  BY <1>5 DEF Finished, Construct!Finished, vars, Construct!vars, scanVars, checkVars, Construct!scanVars, Construct!checkVars
<1> QED BY <1>1, <1>2, <1>3, <1>4, <1>5 DEF Next, Construct!Next, Cores, Construct!Cores, Family, Construct!Family

(* While the packets are parsed, construct_flow has not started.             *)
LEMMA StepBefore ==
  ASSUME ParseInv, CaptureNext, ~ConstructStep
  PROVE  UNCHANGED Construct!vars
<1>1. UNCHANGED <<source, raw, scanVars, result, checkVars>>
  BY DEF CaptureNext, ReadRaw, ParseStep, ParsePacket, ReadBad, WriteBad, JoinParsers
<1>2. AllParsed(raw, source)' = AllParsed(raw, source) /\ NothingRead' = NothingRead
  BY <1>1 DEF AllParsed, NothingRead
<1>3. MappedPhase' = MappedPhase
  BY <1>2 DEF CaptureNext, ReadRaw, ParseStep, ParsePacket, ReadBad, WriteBad, JoinParsers, MappedPhase, Parsing
<1> QED BY <1>1, <1>2, <1>3 DEF MappedPhase, Construct!vars, scanVars, checkVars, Construct!scanVars, Construct!checkVars

(* Nothing of construct_flow has run when the file is read.                  *)
LEMMA InitConstruct == CaptureInit => Construct!Init
<1> SUFFICES ASSUME CaptureInit PROVE Construct!Init
  OBVIOUS
<1>1. AllParsed(raw, source) \in Traces
  BY ParsedAssumption DEF CaptureInit
<1>2. phase = "read" /\ NotStarted
  BY DEF CaptureInit
<1>3. Construct!NotStarted
  BY <1>2 DEF NotStarted, Construct!NotStarted, Cores, Construct!Cores, Family, Construct!Family,
              CheckCores, Construct!CheckCores, NoFlow, Construct!NoFlow, Ids, Construct!Ids
<1> QED BY <1>1, <1>2, <1>3 DEF Construct!Init

(* Every step of the composition is one of construct_flow or invisible to it. *)
LEMMA StepImplements ==
  ASSUME ParseInv, ParseInv', [CaptureNext]_allVars
  PROVE  [Construct!Next]_(Construct!vars)
<1>1. CASE CaptureNext /\ ~ConstructStep
  BY <1>1, StepBefore
<1>2. CASE ConstructStep
  <2>1. UNCHANGED <<pkts, source, raw>> /\ ConstructPhases /\ Next
    BY <1>2, NextPhases DEF ConstructStep, captureVars
  <2>2. NothingRead' = NothingRead /\ AllParsed(raw, source)' = AllParsed(raw, source)
    BY <2>1 DEF NothingRead, AllParsed
  <2>3. CASE NothingRead
    <3>1. phase = "abort"
      BY <2>1, <2>3 DEF ParseInv, ConstructPhases
    <3>2. UNCHANGED vars
      BY <2>1, <3>1 DEF Next, ScanStep, ReturnEmpty, Start, StartThrows, SkipBad, ScanPacket, Publish, Join,
                        CheckStep, BeginCheck, WorkerStep, CheckWorker, SortUndefined, JoinCheck, Finished
    <3> QED BY <2>2, <3>2 DEF vars, Construct!vars, scanVars, checkVars, Construct!scanVars, Construct!checkVars
  <2>4. CASE ~NothingRead
    <3>1. pkts = AllParsed(raw, source)
      BY <2>1, <2>4 DEF ParseInv, ConstructPhases
    <3>2. MappedPhase = phase /\ MappedPhase' = phase'
      BY <2>1, <2>2, <2>4 DEF MappedPhase, ConstructPhases
    <3> QED BY <2>1, <2>2, <3>1, <3>2, StepConstruct
  <2> QED BY <2>3, <2>4
<1>3. CASE UNCHANGED allVars
  BY <1>3 DEF allVars, vars, captureVars, Construct!vars, scanVars, checkVars, Construct!scanVars, Construct!checkVars,
              AllParsed, NothingRead
<1> QED BY <1>1, <1>2, <1>3

(* The composition implements construct_flow on the parsed packets: no       *)
(* behaviour of the parsing threads, of a capture or of a data set, is       *)
(* visible to it, whatever the number of threads (lines 23-172).             *)
THEOREM CaptureImplementsConstruct == CaptureSpec => ImplementsConstruct
<1>1. CaptureSpec => []ParseInv
  BY InitParse, StepParse, PTL DEF CaptureSpec
<1> QED BY <1>1, InitConstruct, StepImplements, PTL DEF CaptureSpec, ImplementsConstruct, Construct!Spec

-------------------------------------------------------------------------------
(* The counter *)

BadRaw == {i \in DOMAIN raw : raw[i].net = "other"}

(* The bad packets set: thread t has gone from its start to parseAt[t].      *)
BadSet == {i \in BadRaw : \E t \in Parsers : StartOf(t) < i /\ i <= parseAt[t]}

(* A lost increment leaves the counter below the number of bad packets set,  *)
(* and never at zero once there is one.                                      *)
CountInv ==
  /\ bad_packet \in Nat /\ seen \in [Parsers -> Nat]
  /\ phase # "parse" \/ source = "text" =>
       bad_packet = 0 /\ (\A t \in Parsers : seen[t] = 0) /\ (\A t \in Parsers : phase # "parse" \/ parsePc[t] = "run")
  /\ phase = "parse" =>
       /\ \A t \in Parsers : StartOf(t) <= parseAt[t] /\ (StartOf(t) < parseAt[t] => parseAt[t] <= ParseEnd(t))
       /\ \A t \in Parsers : parsePc[t] = "count" => parseAt[t] < ParseEnd(t) /\ parseAt[t] + 1 \in BadRaw
       /\ source = "capture" =>
            /\ bad_packet <= Cardinality(BadSet)
            /\ \A t \in Parsers : seen[t] <= Cardinality(BadSet)
            /\ BadSet # {} => bad_packet > 0

(* The sets of bad packets are finite and no larger than the capture.        *)
LEMMA BadFinite ==
  ASSUME ParseInv
  PROVE  /\ IsFiniteSet(BadRaw) /\ IsFiniteSet(BadSet) /\ BadSet \subseteq BadRaw
         /\ Cardinality(BadRaw) \in Nat /\ Cardinality(BadSet) \in Nat
         /\ Cardinality(BadSet) <= Cardinality(BadRaw) /\ Cardinality(BadRaw) <= Len(raw)
<1>1. Len(raw) \in Nat /\ DOMAIN raw = 1 .. Len(raw)
  BY RawFacts DEF ParseInv
<1>2. IsFiniteSet(1 .. Len(raw)) /\ Cardinality(1 .. Len(raw)) = Len(raw)
  <2>1. IsFiniteSet(1 .. Len(raw)) /\ Cardinality(1 .. Len(raw)) = IF 1 > Len(raw) THEN 0 ELSE Len(raw) - 1 + 1
    BY <1>1, FS_Interval
  <2> QED BY <1>1, <2>1
<1>3. BadRaw \subseteq 1 .. Len(raw) /\ BadSet \subseteq BadRaw
  BY <1>1 DEF BadRaw, BadSet
<1> QED BY <1>2, <1>3, FS_Subset, FS_CardinalityType

(* A thread that moves past a packet adds it to the set, if it is bad: no    *)
(* other thread of a capture has it in its range.                            *)
LEMMA BadSetGrows ==
  ASSUME ParseInv, CountInv, phase = "parse", UNCHANGED <<raw, source>>, NEW t \in Parsers,
         parseAt' = [parseAt EXCEPT ![t] = @ + 1]
  PROVE  BadSet' = BadSet \cup ({parseAt[t] + 1} \cap BadRaw)
<1>1. parseAt \in [Parsers -> Nat] /\ StartOf(t) <= parseAt[t] /\ StartOf(t) \in Nat
  BY RawFacts, ParseRangeFacts DEF ParseInv, CountInv
<1>2. BadRaw' = BadRaw /\ \A u \in Parsers : StartOf(u)' = StartOf(u)
  BY DEF BadRaw, StartOf
<1>3. BadRaw \subseteq Int
  BY RawFacts DEF ParseInv, BadRaw
<1>4. \A u \in Parsers : parseAt'[u] = IF u = t THEN parseAt[t] + 1 ELSE parseAt[u]
  BY <1>1
<1>5. \A u \in Parsers : StartOf(u) \in Nat
  BY RawFacts, ParseRangeFacts DEF ParseInv
<1>6. ASSUME NEW i \in BadRaw
      PROVE  (\E u \in Parsers : StartOf(u) < i /\ i <= parseAt'[u])
               <=> (\E u \in Parsers : StartOf(u) < i /\ i <= parseAt[u]) \/ i = parseAt[t] + 1
  <2>1. i \in Int
    BY <1>3
  <2>2. ASSUME NEW u \in Parsers PROVE i <= parseAt'[u] <=> i <= parseAt[u] \/ (u = t /\ i = parseAt[t] + 1)
    BY <1>1, <1>4, <2>1
  <2> QED BY <1>1, <2>1, <2>2
<1> QED BY <1>2, <1>6 DEF BadSet

(* The packet a thread of a capture is at has not been set.                  *)
LEMMA NotYetSet ==
  ASSUME ParseInv, CountInv, phase = "parse", source = "capture", NEW t \in Parsers, parseAt[t] < ParseEnd(t)
  PROVE  parseAt[t] + 1 \notin BadSet
<1> DEFINE n == Len(raw)
           m == ParseMultiplex
           k == parseAt[t]
<1>1. n \in Nat /\ m \in Nat \ {0} /\ Parsers = 0 .. m - 1
  BY RawFacts, ParseMultiplexAssumption DEF ParseInv, Parsers
<1>2. \A u \in Parsers : From(n, m, u) \in Nat /\ To(n, m, u) \in Nat
  BY <1>1, SliceInside
<1>3. parseAt \in [Parsers -> Nat] /\ \A u \in Parsers : StartOf(u) = From(n, m, u) /\ ParseEnd(u) = To(n, m, u)
  BY DEF ParseInv, StartOf, ParseEnd
<1>4. k \in Slice(n, m, t)
  BY <1>2, <1>3 DEF Slice, CountInv
<1>5. SUFFICES ASSUME NEW u \in Parsers, StartOf(u) < k + 1, k + 1 <= parseAt[u] PROVE FALSE
  BY DEF BadSet
<1>6. k \in Nat /\ parseAt[u] \in Nat /\ StartOf(u) \in Nat /\ ParseEnd(u) \in Nat
  BY <1>2, <1>3
<1>7. u # t
  BY <1>5, <1>6
<1>8. parseAt[u] <= ParseEnd(u)
  BY <1>5, <1>6 DEF CountInv
<1>9. k \in Slice(n, m, u)
  BY <1>2, <1>3, <1>5, <1>6, <1>8 DEF Slice
<1>10. Slice(n, m, t) \cap Slice(n, m, u) = {}
  BY <1>1, <1>7, SlicesDisjoint
<1> QED BY <1>4, <1>9, <1>10

LEMMA InitCount == CaptureInit => CountInv
<1> SUFFICES ASSUME CaptureInit PROVE CountInv
  OBVIOUS
<1> QED BY DEF CaptureInit, CountInv

LEMMA StepCount == ParseInv /\ ParseInv' /\ CountInv /\ [CaptureNext]_allVars => CountInv'
<1> SUFFICES ASSUME ParseInv, ParseInv', CountInv, [CaptureNext]_allVars PROVE CountInv'
  OBVIOUS
<1>1. /\ Cardinality(BadSet) \in Nat /\ IsFiniteSet(BadSet)
      /\ parseAt \in [Parsers -> Nat] /\ parsePc \in [Parsers -> {"run", "count"}]
      /\ seen \in [Parsers -> Nat] /\ bad_packet \in Nat
  BY BadFinite DEF ParseInv, CountInv
<1>2. \A t \in Parsers : StartOf(t) \in Nat /\ ParseEnd(t) \in Nat
  BY RawFacts, ParseRangeFacts DEF ParseInv
<1>3. CASE ReadRaw
  <2>1. UNCHANGED <<source, raw, parsePc, bad_packet, seen>> /\ phase = "read"
    BY <1>3 DEF ReadRaw
  <2>2. BadRaw' = BadRaw /\ \A t \in Parsers : StartOf(t)' = StartOf(t) /\ ParseEnd(t)' = ParseEnd(t)
    BY <2>1 DEF BadRaw, StartOf, ParseEnd
  <2>3. CASE NothingRead
    BY <1>3, <2>1, <2>3 DEF ReadRaw, CountInv
  <2>4. CASE ~NothingRead
    <3>1. phase' = "parse" /\ \A t \in Parsers : parseAt'[t] = StartOf(t)
      BY <1>3, <2>4 DEF ReadRaw, StartOf
    <3>2. BadSet' = {}
      <4>1. BadRaw \subseteq Int
        BY RawFacts DEF ParseInv, BadRaw
      <4>2. BadSet' = {i \in BadRaw : \E t \in Parsers : StartOf(t) < i /\ i <= parseAt'[t]}
        BY <2>2 DEF BadSet
      <4>3. ASSUME NEW i \in BadRaw, NEW t \in Parsers PROVE ~(StartOf(t) < i /\ i <= parseAt'[t])
        <5>1. i \in Int /\ StartOf(t) \in Nat /\ parseAt'[t] = StartOf(t)
          BY <1>2, <3>1, <4>1
        <5> QED BY <5>1
      <4> QED BY <4>2, <4>3
    <3>3. Cardinality(BadSet') = 0
      BY <3>2, FS_EmptySet
    <3>4. bad_packet = 0 /\ \A t \in Parsers : seen[t] = 0 /\ parsePc[t] = "run"
      BY <2>1 DEF CountInv, ParseInv
    <3>5. \A t \in Parsers : StartOf(t)' <= parseAt'[t] /\ ~(StartOf(t)' < parseAt'[t])
      BY <1>2, <2>2, <3>1
    <3> QED BY <1>1, <2>1, <3>1, <3>2, <3>3, <3>4, <3>5 DEF CountInv
  <2> QED BY <2>3, <2>4
<1>4. ASSUME NEW t \in Parsers, ParseStep(t) PROVE CountInv'
  <2> DEFINE k == parseAt[t]
  <2>1. phase = "parse" /\ phase' = "parse" /\ UNCHANGED <<source, raw>>
    BY <1>4 DEF ParseStep, ParsePacket, ReadBad, WriteBad, Parsing
  <2>2. BadRaw' = BadRaw /\ \A u \in Parsers : StartOf(u)' = StartOf(u) /\ ParseEnd(u)' = ParseEnd(u)
    BY <2>1 DEF BadRaw, StartOf, ParseEnd
  <2>3. k \in Nat /\ k < ParseEnd(t) /\ StartOf(t) <= k
    BY <1>1, <1>4, <2>1 DEF ParseStep, ParsePacket, ReadBad, WriteBad, Parsing, CountInv
  <2>4. k + 1 \in DOMAIN raw
    BY <2>3, RawFacts, ParseRangeFacts DEF ParseInv
  <2>5. ASSUME parseAt' = [parseAt EXCEPT ![t] = @ + 1]
        PROVE  /\ BadSet' = BadSet \cup ({k + 1} \cap BadRaw)
               /\ \A u \in Parsers : StartOf(u)' <= parseAt'[u] /\ (StartOf(u)' < parseAt'[u] => parseAt'[u] <= ParseEnd(u)')
               /\ \A u \in Parsers : u # t => parseAt'[u] = parseAt[u]
    <3>1. BadSet' = BadSet \cup ({k + 1} \cap BadRaw)
      BY <2>1, <2>5, BadSetGrows
    <3>2. parseAt'[t] = k + 1 /\ \A u \in Parsers : u # t => parseAt'[u] = parseAt[u]
      BY <1>1, <2>5
    <3>3. \A u \in Parsers : StartOf(u) <= parseAt[u] /\ (StartOf(u) < parseAt[u] => parseAt[u] <= ParseEnd(u))
      BY <2>1 DEF CountInv
    <3>4. ASSUME NEW u \in Parsers
          PROVE  StartOf(u)' <= parseAt'[u] /\ (StartOf(u)' < parseAt'[u] => parseAt'[u] <= ParseEnd(u)')
      <4>1. CASE u = t
        BY <1>2, <2>2, <2>3, <3>2, <4>1
      <4>2. CASE u # t
        BY <2>2, <3>2, <3>3, <4>2
      <4> QED BY <4>1, <4>2
    <3> QED BY <3>1, <3>2, <3>4
  <2>6. CASE ParsePacket(t)
    <3>1. UNCHANGED <<parsePc, bad_packet, seen>> /\ parsePc[t] = "run" /\ parseAt' = [parseAt EXCEPT ![t] = @ + 1]
      BY <2>6 DEF ParsePacket, SetParsed, Parsing
    <3>2. source = "capture" => BadSet' = BadSet
      <4>1. source = "capture" => k + 1 \notin BadRaw
        BY <2>6 DEF ParsePacket, Counted, RawAt, BadRaw
      <4> QED BY <2>5, <3>1, <4>1
    <3>3. \A u \in Parsers : parsePc'[u] = "count" => parseAt'[u] < ParseEnd(u)' /\ parseAt'[u] + 1 \in BadRaw'
      BY <2>1, <2>2, <2>5, <3>1 DEF CountInv
    <3>4. source = "capture" => Cardinality(BadSet') = Cardinality(BadSet)
      BY <3>2
    <3> QED BY <1>1, <2>1, <2>5, <3>1, <3>2, <3>3, <3>4 DEF CountInv
  <2>7. CASE ReadBad(t)
    <3>1. /\ UNCHANGED <<parseAt, bad_packet>> /\ source = "capture" /\ raw[k + 1].net = "other"
          /\ seen' = [seen EXCEPT ![t] = bad_packet] /\ parsePc' = [parsePc EXCEPT ![t] = "count"]
      BY <2>7 DEF ReadBad, Counted, RawAt
    <3>2. BadSet' = BadSet
      BY <2>2, <3>1 DEF BadSet
    <3>3. \A u \in Parsers : parsePc'[u] = "count" => parseAt'[u] < ParseEnd(u)' /\ parseAt'[u] + 1 \in BadRaw'
      <4>1. k + 1 \in BadRaw
        BY <2>4, <3>1 DEF BadRaw
      <4>2. \A u \in Parsers : u # t => parsePc'[u] = parsePc[u]
        BY <1>1, <3>1
      <4> QED BY <2>1, <2>2, <2>3, <3>1, <4>1, <4>2 DEF CountInv
    <3>4. seen' \in [Parsers -> Nat] /\ \A u \in Parsers : seen'[u] = IF u = t THEN bad_packet ELSE seen[u]
      BY <1>1, <3>1
    <3>5. Cardinality(BadSet') = Cardinality(BadSet)
      BY <3>2
    <3> QED BY <1>1, <2>1, <2>2, <3>1, <3>2, <3>3, <3>4, <3>5 DEF CountInv
  <2>8. CASE WriteBad(t)
    <3>1. /\ UNCHANGED seen /\ parsePc[t] = "count" /\ parseAt' = [parseAt EXCEPT ![t] = @ + 1]
          /\ bad_packet' = seen[t] + 1 /\ parsePc' = [parsePc EXCEPT ![t] = "run"]
      BY <2>8 DEF WriteBad, SetParsed
    <3>2. source = "capture" /\ k + 1 \in BadRaw
      BY <2>1, <3>1 DEF CountInv, ParseInv
    <3>3. BadSet' = BadSet \cup {k + 1}
      BY <2>5, <3>1, <3>2
    <3>4. k + 1 \notin BadSet
      BY <2>1, <2>3, <3>2, NotYetSet
    <3>5. Cardinality(BadSet') = Cardinality(BadSet) + 1
      BY <1>1, <3>3, <3>4, FS_AddElement
    <3>6. \A u \in Parsers : parsePc'[u] = "count" => parseAt'[u] < ParseEnd(u)' /\ parseAt'[u] + 1 \in BadRaw'
      <4>1. \A u \in Parsers : parsePc'[u] = "count" => u # t /\ parsePc[u] = "count"
        BY <1>1, <3>1
      <4> QED BY <2>1, <2>2, <2>5, <3>1, <4>1 DEF CountInv
    <3>7. bad_packet' \in Nat /\ bad_packet' > 0 /\ \A u \in Parsers : seen[u] \in Nat /\ seen[u] <= Cardinality(BadSet)
      BY <1>1, <2>1, <3>1, <3>2 DEF CountInv
    <3> QED BY <1>1, <2>1, <2>5, <3>1, <3>2, <3>5, <3>6, <3>7 DEF CountInv
  <2> QED BY <1>4, <2>6, <2>7, <2>8 DEF ParseStep
<1>5. CASE JoinParsers
  <2>1. phase' = "scan" /\ bad_packet' = 0 /\ seen' = [t \in Parsers |-> 0]
    BY <1>5 DEF JoinParsers
  <2> QED BY <2>1 DEF CountInv
<1>6. CASE ConstructStep
  <2>1. UNCHANGED <<bad_packet, seen>> /\ ConstructPhases
    BY <1>6, NextPhases DEF ConstructStep, captureVars, parseVars
  <2> QED BY <2>1 DEF CountInv, ConstructPhases
<1>7. CASE UNCHANGED allVars
  <2>1. UNCHANGED <<phase, source, raw, parsePc, parseAt, bad_packet, seen>>
    BY <1>7 DEF allVars, vars, captureVars, parseVars
  <2>2. BadRaw' = BadRaw /\ BadSet' = BadSet /\ \A t \in Parsers : StartOf(t)' = StartOf(t) /\ ParseEnd(t)' = ParseEnd(t)
    BY <2>1 DEF BadRaw, BadSet, StartOf, ParseEnd
  <2> QED BY <2>1, <2>2 DEF CountInv
<1> QED BY <1>3, <1>4, <1>5, <1>6, <1>7 DEF CaptureNext

(* Both invariants hold throughout.                                          *)
LEMMA AlwaysParsed == CaptureSpec => [](ParseInv /\ CountInv)
BY InitParse, StepParse, InitCount, StepCount, PTL DEF CaptureSpec

(* The count of bad packets that is logged, although its increments are not  *)
(* atomic, is never above their number and zero only if there is none: the   *)
(* ranges of the threads are disjoint and a thread writes what it read and   *)
(* one more (pcap_parser.cpp:111, 159).                                      *)
THEOREM BadPacketsCounted == CaptureSpec => []BadCounted
<1>1. ASSUME ParseInv, CountInv PROVE BadCounted
  <2> SUFFICES ASSUME phase = "parse", ParsersEnded, source = "capture"
               PROVE  bad_packet <= Cardinality(BadRaw) /\ (Cardinality(BadRaw) > 0 => bad_packet > 0)
    BY <1>1 DEF BadCounted, BadRaw
  <2>1. /\ IsFiniteSet(BadRaw) /\ Cardinality(BadSet) <= Cardinality(BadRaw)
        /\ Cardinality(BadSet) \in Nat /\ Cardinality(BadRaw) \in Nat
    BY <1>1, BadFinite
  <2>2. bad_packet \in Nat /\ bad_packet <= Cardinality(BadSet) /\ (BadSet # {} => bad_packet > 0)
    BY <1>1 DEF CountInv
  <2>3. ASSUME NEW i \in BadRaw PROVE i \in BadSet
    <3>1. Len(raw) \in Nat /\ DOMAIN raw = 1 .. Len(raw)
      BY <1>1, RawFacts DEF ParseInv
    <3>2. i \in 1 .. Len(raw) /\ i - 1 \in 0 .. Len(raw) - 1
      BY <3>1 DEF BadRaw
    <3>3. PICK t \in Parsers : StartOf(t) <= i - 1 /\ i - 1 < ParseEnd(t)
      BY <3>1, <3>2, RangesCover
    <3>4. StartOf(t) \in Nat /\ ParseEnd(t) \in Nat /\ parseAt[t] \in Nat /\ parseAt[t] >= ParseEnd(t)
      BY <1>1, <3>1, ParseRangeFacts DEF ParseInv, ParsersEnded
    <3>5. StartOf(t) < i /\ i <= parseAt[t]
      BY <3>2, <3>3, <3>4
    <3> QED BY <3>5 DEF BadSet
  <2>4. Cardinality(BadRaw) > 0 => BadSet # {}
    BY <2>1, <2>3, FS_EmptySet
  <2> QED BY <2>1, <2>2, <2>4
<1> QED BY <1>1, AlwaysParsed, PTL

(* What the type invariant says of all but the vector.                       *)
LEMMA Typed ==
  ASSUME ParseInv, CountInv
  PROVE  /\ phase \in {"read", "parse", "scan", "check", "done", "abort", "undefined"}
         /\ parsePc \in [Parsers -> {"run", "count"}] /\ parseAt \in [Parsers -> Nat]
         /\ bad_packet \in 0 .. Len(raw) /\ seen \in [Parsers -> 0 .. Len(raw)]
<1>1. Len(raw) \in Nat /\ Cardinality(BadSet) \in Nat /\ Cardinality(BadSet) <= Len(raw)
  BY BadFinite, RawFacts DEF ParseInv
<1>2. bad_packet \in Nat /\ seen \in [Parsers -> Nat]
  BY DEF CountInv
<1>3. bad_packet <= Len(raw) /\ \A t \in Parsers : seen[t] <= Len(raw)
  <2>1. CASE phase = "parse" /\ source = "capture"
    BY <1>1, <1>2, <2>1 DEF CountInv
  <2>2. CASE ~(phase = "parse" /\ source = "capture")
    BY <1>1, <2>2 DEF CountInv, ParseInv
  <2> QED BY <2>1, <2>2
<1> QED BY <1>1, <1>2, <1>3 DEF ParseInv

(* Every parser thread stays in the captured packets, and the vector is one  *)
(* of packets when construct_flow starts: no null pointer is left in it      *)
(* (pcap_parser.cpp:29-34, 146).                                             *)
THEOREM CaptureTypeCorrect == CaptureSpec => []CaptureTypeOK
<1>1. ASSUME ParseInv, CountInv PROVE CaptureTypeOK
  <2>1. Len(raw) \in Nat /\ DOMAIN raw = 1 .. Len(raw)
    BY <1>1, RawFacts DEF ParseInv
  <2>2. AllParsed(raw, source) \in Seq(Packet) /\ Len(AllParsed(raw, source)) = Len(raw)
    <3>1. AllParsed(raw, source) \in Traces
      BY <1>1, ParsedAssumption DEF ParseInv
    <3>2. AllParsed(raw, source) \in Seq(Packet)
      BY <3>1, TraceAssumption
    <3>3. DOMAIN AllParsed(raw, source) = 1 .. Len(raw)
      BY <2>1 DEF AllParsed
    <3> QED BY <2>1, <3>2, <3>3
  <2>3. CASE phase = "parse"
    <3>1. pkts \in [1 .. Len(raw) -> Packet \cup {Null}]
      BY <1>1, <2>1, <2>3 DEF ParseInv
    <3> QED BY <2>1, <2>3, <3>1, Typed, <1>1 DEF CaptureTypeOK
  <2>4. CASE phase = "read" \/ NothingRead
    <3>1. pkts = <<>>
      BY <1>1, <2>4 DEF ParseInv
    <3> QED BY <1>1, <2>4, <3>1, Typed DEF CaptureTypeOK
  <2>5. CASE phase \notin {"read", "parse"} /\ ~NothingRead
    <3>1. pkts = AllParsed(raw, source)
      BY <1>1, <2>5 DEF ParseInv
    <3> QED BY <1>1, <2>2, <2>5, <3>1, Typed DEF CaptureTypeOK
  <2> QED BY <2>3, <2>4, <2>5
<1> QED BY <1>1, AlwaysParsed, PTL

-------------------------------------------------------------------------------
(* The flows of a capture *)

(* While the packets are parsed construct_flow waits in its initial state,   *)
(* with some vector; once they are its own invariant holds.                  *)
ConstructInv ==
  /\ phase \in {"read", "parse"} => NotStarted
  /\ phase \notin {"read", "parse"} /\ ~NothingRead => WholeInv
  /\ NothingRead => NotStarted

(* construct_flow starts on the parsed packets.                              *)
LEMMA JoinStarts ==
  ASSUME ParseInv, ParseInv', ConstructInv, JoinParsers
  PROVE  Init'
<1>1. phase' = "scan" /\ phase = "parse" /\ UNCHANGED <<scanVars, result, checkVars, raw, source>>
  BY DEF JoinParsers
<1>2. ~NothingRead /\ NothingRead' = NothingRead
  BY <1>1 DEF ParseInv, NothingRead
<1>3. pkts' = AllParsed(raw', source') /\ raw' \in Captures /\ source' \in {"capture", "text"}
  BY <1>1, <1>2 DEF ParseInv, AllParsed
<1>4. pkts' \in Traces
  BY <1>3, ParsedAssumption
<1>5. NotStarted'
  BY <1>1 DEF ConstructInv, NotStarted, scanVars, checkVars
<1> QED BY <1>1, <1>4, <1>5 DEF Init

LEMMA InitConstructInv == CaptureInit => ConstructInv
BY DEF CaptureInit, ConstructInv

LEMMA StepConstructInv ==
  ParseInv /\ ParseInv' /\ ConstructInv /\ [CaptureNext]_allVars /\ (Init' => WholeInv') => ConstructInv'
<1> SUFFICES ASSUME ParseInv, ParseInv', ConstructInv, [CaptureNext]_allVars, Init' => WholeInv'
             PROVE  ConstructInv'
  OBVIOUS
<1>1. UNCHANGED <<source, raw>> /\ NothingRead' = NothingRead
  <2>1. UNCHANGED <<source, raw>>
    BY DEF CaptureNext, ReadRaw, ParseStep, ParsePacket, ReadBad, WriteBad, JoinParsers, ConstructStep,
           captureVars, allVars
  <2> QED BY <2>1 DEF NothingRead
<1>2. CASE ReadRaw \/ \E t \in Parsers : ParseStep(t)
  <2>1. /\ phase \in {"read", "parse"} /\ UNCHANGED <<scanVars, result, checkVars>>
        /\ ~NothingRead => phase' = "parse"
    BY <1>2 DEF ReadRaw, ParseStep, ParsePacket, ReadBad, WriteBad, Parsing
  <2>2. NotStarted'
    BY <2>1 DEF ConstructInv, NotStarted, scanVars, checkVars
  <2> QED BY <1>1, <2>1, <2>2 DEF ConstructInv
<1>3. CASE JoinParsers
  <2>1. WholeInv'
    BY <1>3, JoinStarts
  <2>2. phase' = "scan" /\ ~NothingRead
    BY <1>3 DEF JoinParsers, ParseInv
  <2> QED BY <1>1, <2>1, <2>2 DEF ConstructInv
<1>4. CASE ConstructStep
  <2>1. Next /\ ConstructPhases
    BY <1>4, NextPhases DEF ConstructStep
  <2>2. CASE NothingRead
    <3>1. phase = "abort"
      BY <2>1, <2>2 DEF ParseInv, ConstructPhases
    <3>2. UNCHANGED vars
      BY <2>1, <3>1 DEF Next, ScanStep, ReturnEmpty, Start, StartThrows, SkipBad, ScanPacket, Publish,
                        Join, CheckStep, BeginCheck, WorkerStep, CheckWorker, SortUndefined, JoinCheck, Finished
    <3>3. NotStarted' /\ phase' = "abort"
      BY <2>2, <3>1, <3>2 DEF ConstructInv, NotStarted, vars, scanVars, checkVars
    <3> QED BY <1>1, <2>2, <3>3 DEF ConstructInv
  <2>3. CASE ~NothingRead
    <3>1. WholeInv /\ phase' \notin {"read", "parse"}
      BY <2>1, <2>3 DEF ConstructInv, ConstructPhases
    <3>2. WholeInv'
      BY <2>1, <3>1, StepWhole
    <3> QED BY <1>1, <2>3, <3>1, <3>2 DEF ConstructInv
  <2> QED BY <2>2, <2>3
<1>5. CASE UNCHANGED allVars
  <2>1. UNCHANGED vars
    BY <1>5 DEF allVars
  <2>2. NotStarted' = NotStarted /\ phase' = phase
    BY <2>1 DEF NotStarted, vars, scanVars, checkVars
  <2>3. WholeInv => WholeInv'
    BY <2>1, StepWhole
  <2> QED BY <1>1, <2>2, <2>3 DEF ConstructInv
<1> QED BY <1>2, <1>3, <1>4, <1>5 DEF CaptureNext

(* The invariants of the parser and, behind it, of construct_flow.           *)
LEMMA AlwaysConstructed == CaptureSpec => [](ParseInv /\ ConstructInv)
BY InitParse, StepParse, InitConstructInv, StepConstructInv, InitWhole, PTL DEF CaptureSpec

(* The bits of the type code, of which none is TCP's, and the stack code     *)
(* made of them say of a packet what its next protocol is.                   *)
NextCode(p) == IF p.next = "other" THEN "UNKNOWN" ELSE p.next

LEMMA StackCodeOfNext ==
  ASSUME NEW p \in Raw
  PROVE  StackCode(TypeCode(p)) = NextCode(p)
<1>1. p.net \in {"IPv4", "IPv6", "other"} /\ p.flags \subseteq Flags
      /\ p.next \in {"TCP", "UDP", "ICMP", "IGMP", "other"}
  BY DEF Raw
<1>2. CASE p.next = "TCP"
  <2>1. TypeCode(p) = {p.net} \cup p.flags
    BY <1>2 DEF TypeCode
  <2>2. \A bit \in {"ICMP", "IGMP", "UDP", "UNKNOWN"} : bit \notin TypeCode(p)
    BY <1>1, <2>1 DEF Flags
  <2> QED BY <1>2, <2>2 DEF StackCode, NextCode
<1>3. CASE p.next \in {"UDP", "ICMP", "IGMP"}
  <2>1. TypeCode(p) = {p.net, p.next}
    BY <1>3 DEF TypeCode
  <2> QED BY <1>1, <1>3, <2>1 DEF StackCode, NextCode
<1>4. CASE p.next = "other"
  <2>1. TypeCode(p) = {p.net, "UNKNOWN"}
    BY <1>4 DEF TypeCode
  <2> QED BY <1>1, <1>4, <2>1 DEF StackCode, NextCode
<1> QED BY <1>1, <1>2, <1>3, <1>4

(* So the 5-tuple distinguishes the headers' connections and no more.        *)
LEMMA SameTuple ==
  ASSUME NEW p \in Raw, NEW q \in Raw
  PROVE  ConnectionOf(p) = ConnectionOf(q) <=> SameConnection(p, q)
<1>1. ConnectionOf(p).stack = NextCode(p) /\ ConnectionOf(q).stack = NextCode(q)
  BY StackCodeOfNext DEF ConnectionOf
<1>2. p.next \in {"TCP", "UDP", "ICMP", "IGMP", "other"} /\ q.next \in {"TCP", "UDP", "ICMP", "IGMP", "other"}
  BY DEF Raw
<1>3. NextCode(p) = NextCode(q) <=> p.next = q.next
  BY <1>2 DEF NextCode
<1>4. ASSUME ConnectionOf(p) = ConnectionOf(q) PROVE SameConnection(p, q)
  <2>1. p.next = q.next
    BY <1>1, <1>3, <1>4
  <2>2. p.net = q.net /\ p.addrs = q.addrs /\ ConnectionOf(p).ports = ConnectionOf(q).ports
    BY <1>4 DEF ConnectionOf
  <2> QED BY <2>1, <2>2 DEF ConnectionOf, SameConnection
<1>5. ASSUME SameConnection(p, q) PROVE ConnectionOf(p) = ConnectionOf(q)
  <2>1. StackCode(TypeCode(p)) = StackCode(TypeCode(q))
    BY <1>3, <1>5, StackCodeOfNext DEF SameConnection
  <2>2. p.net = q.net /\ p.addrs = q.addrs /\ p.next = q.next
    BY <1>5 DEF SameConnection
  <2>3. (p.next \in {"TCP", "UDP"}) => p.ports = q.ports
    BY <1>5 DEF SameConnection
  <2> QED BY <2>1, <2>2, <2>3 DEF ConnectionOf
<1> QED BY <1>4, <1>5

(* A good packet of the vector is a raw one of the two families.             *)
LEMMA GoodRaw ==
  ASSUME ParseInv, pkts = AllParsed(raw, source)
  PROVE  /\ N = Len(raw) /\ N \in Nat
         /\ Good = {i \in Index : raw[i + 1].net # "other"}
         /\ \A i \in Index : i + 1 \in DOMAIN raw /\ raw[i + 1] \in Raw
         /\ \A i \in Good : At(i) = [id |-> ConnectionOf(raw[i + 1]), ts |-> raw[i + 1].ts]
<1>1. Len(raw) \in Nat /\ DOMAIN raw = 1 .. Len(raw) /\ raw \in Seq(Raw) /\ raw \in Captures
  BY RawFacts DEF ParseInv
<1>2. pkts \in Traces /\ pkts \in Seq(Packet)
  BY <1>1, ParsedAssumption, TraceAssumption DEF ParseInv
<1>3. DOMAIN pkts = DOMAIN raw /\ \A k \in DOMAIN raw : pkts[k] = Parsed(raw[k], source)
  BY DEF AllParsed
<1>4. N = Len(raw)
  BY <1>1, <1>2, <1>3 DEF N
<1>5. ASSUME NEW i \in Index
      PROVE  i + 1 \in DOMAIN raw /\ raw[i + 1] \in Raw /\ At(i) = Parsed(raw[i + 1], source) /\ At(i) \in Packet
  <2>1. i + 1 \in 1 .. Len(raw)
    BY <1>1, <1>4 DEF Index
  <2>2. i + 1 \in DOMAIN raw
    BY <1>1, <2>1
  <2> QED BY <1>1, <1>2, <1>3, <2>2 DEF At
<1>6. ASSUME NEW i \in Index PROVE At(i).id \in Ids <=> raw[i + 1].net # "other"
  <2>1. i + 1 \in DOMAIN raw /\ At(i) = Parsed(raw[i + 1], source) /\ At(i) \in Packet
    BY <1>5
  <2>2. BadId \notin Ids /\ At(i).id \in Ids \cup {BadId}
    BY <2>1, IdAssumption DEF Ids, Packet
  <2>3. ConnectionOf(raw[i + 1]) # BadId
    BY <1>1, <2>1, BadIdAssumption
  <2>4. At(i).id = IF raw[i + 1].net = "other" THEN BadId ELSE ConnectionOf(raw[i + 1])
    BY <2>1 DEF Parsed
  <2> QED BY <2>2, <2>3, <2>4
<1>7. Good = {i \in Index : raw[i + 1].net # "other"}
  BY <1>6 DEF Good
<1>8. ASSUME NEW i \in Good PROVE At(i) = [id |-> ConnectionOf(raw[i + 1]), ts |-> raw[i + 1].ts]
  BY <1>5, <1>7 DEF Parsed
<1> QED BY <1>1, <1>4, <1>5, <1>7, <1>8

LEMMA RawOrder ==
  ASSUME ParseInv, pkts = AllParsed(raw, source), RawInOrder
  PROVE  PacketsInOrder
<1>1. /\ \A i \in Good : i + 1 \in DOMAIN raw /\ i \in Int
      /\ \A i \in Good : At(i).ts = raw[i + 1].ts
  <2>1. \A i \in Good : i \in Index
    BY DEF Good
  <2> QED BY <2>1, GoodRaw DEF Index
<1> SUFFICES ASSUME NEW i \in Good, NEW j \in Good, i < j PROVE At(i).ts <= At(j).ts
  BY DEF PacketsInOrder
<1>2. i + 1 \in DOMAIN raw /\ j + 1 \in DOMAIN raw /\ i + 1 < j + 1
  BY <1>1
<1>3. raw[i + 1].ts <= raw[j + 1].ts
  BY <1>2 DEF RawInOrder
<1> QED BY <1>1, <1>3

(* From the capture to the flows: each packet of the two families is in one  *)
(* flow, a flow has the packets of one connection, and the flows of one are  *)
(* the time-out apart, however many threads parse and construct              *)
(* (pcap_parser.cpp, explicit_constructor.cpp, packet_info.hpp:74-90).       *)
THEOREM ConnectionsAlwaysKept == CaptureSpec => []ConnectionsKept
<1>1. ASSUME ParseInv, ConstructInv PROVE ConnectionsKept
  <2> SUFFICES ASSUME phase = "done" PROVE ConnectionsKept
    BY DEF ConnectionsKept
  <2>1. pkts = AllParsed(raw, source) /\ FlowInv
    BY <1>1 DEF ParseInv, ConstructInv, WholeInv
  <2>2. /\ UNION result = Good
        /\ \A fl \in result : Homogeneous(fl)
    BY <2>1, InvResult DEF FlowInv, ResultPartition
  <2>3. /\ Good = {i \in Index : raw[i + 1].net # "other"}
        /\ \A i \in Good : raw[i + 1] \in Raw /\ i + 1 \in DOMAIN raw /\ i \in Int
        /\ \A i \in Good : At(i).id = ConnectionOf(raw[i + 1]) /\ At(i).ts = raw[i + 1].ts
    <3>1. \A i \in Good : i \in Index
      BY DEF Good
    <3> QED BY <1>1, <2>1, <3>1, GoodRaw DEF Index
  <2>4. ASSUME NEW fl \in result, NEW i \in fl, NEW j \in fl
        PROVE  SameConnection(raw[i + 1], raw[j + 1])
    <3>1. i \in Good /\ j \in Good /\ At(i).id = At(j).id
      BY <2>2 DEF Homogeneous
    <3> QED BY <2>3, <3>1, SameTuple
  <2>5. RawInOrder => PacketsInOrder
    BY <1>1, <2>1, RawOrder
  <2>6. ASSUME NEW fl \in result
        PROVE  RawOf(fl) \in Raw /\ FlowId(fl) = ConnectionOf(RawOf(fl))
    <3> DEFINE k == CHOOSE i \in fl : TRUE
    <3>1. \E i \in fl : TRUE
      BY <2>2 DEF Homogeneous
    <3>2. k \in fl
      BY <3>1, Zenon
    <3>3. FlowId(fl) = At(k).id /\ RawOf(fl) = raw[k + 1]
      BY DEF FlowId, RawOf
    <3> HIDE DEF k
    <3>4. k \in Good
      BY <2>2, <3>2
    <3> QED BY <2>3, <3>3, <3>4
  <2>7. ASSUME PacketsInOrder, NEW a \in result, NEW b \in result, a # b,
               SameConnection(RawOf(a), RawOf(b))
        PROVE  Str(a) - End(b) >= FLOW_TIME_OUT \/ Str(b) - End(a) >= FLOW_TIME_OUT
    <3>1. FlowId(a) = FlowId(b)
      BY <2>6, <2>7, SameTuple
    <3>2. SameIdSeparated
      BY <2>1, <2>7, InvSeparated
    <3> QED BY <2>7, <3>1, <3>2 DEF SameIdSeparated
  <2> QED BY <2>2, <2>3, <2>4, <2>5, <2>7 DEF ConnectionsKept, RawInOrder
<1> QED BY <1>1, AlwaysConstructed, PTL

(* Behind the parser too, at every moment, the flows partition the packets   *)
(* gone past (explicit_constructor.cpp:37-137).                              *)
THEOREM CaptureConserved == CaptureSpec => []Conservation
<1>1. NotStarted => Conservation
  <2> SUFFICES ASSUME NotStarted PROVE Conservation
    OBVIOUS
  <2>1. ASSUME NEW c \in Cores PROVE Held(c) = {} /\ Seen(c) = {}
    BY DEF NotStarted, NoFlow, Held, Seen
  <2>2. ASSUME NEW f \in Family PROVE Waiting(f) = {}
    BY DEF NotStarted, Waiting
  <2>3. Flows = {} /\ Scanned = {}
    BY <2>1, <2>2 DEF Flows, Scanned, NotStarted
  <2> QED BY <2>3 DEF Conservation, Disjoint
<1>2. FlowInv => Conservation
  BY InvConserves DEF FlowInv
<1>3. ConstructInv => Conservation
  BY <1>1, <1>2 DEF ConstructInv, WholeInv
<1> QED BY <1>3, AlwaysConstructed, PTL

(* And in a capture whose times do not decrease a silence inside a flow is   *)
(* bounded, as construct_flow bounds it (explicit_constructor.cpp:51-110).   *)
THEOREM CaptureSilencesBounded ==
  CaptureSpec =>
    [](source = "capture" /\ RawInOrder => LingerBound)
<1>1. ASSUME ParseInv, ConstructInv, source = "capture", RawInOrder
      PROVE  LingerBound
  <2> SUFFICES ASSUME phase = "done" PROVE LingerBound
    BY DEF LingerBound
  <2>1. pkts = AllParsed(raw, source) /\ FlowInv
    BY <1>1 DEF ParseInv, ConstructInv, WholeInv
  <2>2. \A i \in Index : i \in Int /\ i + 1 \in DOMAIN raw
    BY <1>1, <2>1, GoodRaw DEF Index
  <2>3. \A i \in Index : At(i).ts = raw[i + 1].ts
    BY <1>1, <2>1, <2>2 DEF At, AllParsed, Parsed
  <2>4. TimesInOrder
    <3> SUFFICES ASSUME NEW i \in Index, NEW j \in Index, i < j PROVE At(i).ts <= At(j).ts
      BY DEF TimesInOrder, Good
    <3>1. i + 1 \in DOMAIN raw /\ j + 1 \in DOMAIN raw /\ i + 1 < j + 1
      BY <2>2
    <3>2. raw[i + 1].ts <= raw[j + 1].ts
      BY <1>1, <3>1 DEF RawInOrder
    <3> QED BY <2>3, <3>2
  <2> QED BY <2>1, <2>4, InvBounded
<1> QED BY <1>1, AlwaysConstructed, PTL

(* The flows of such a capture are the ones FlowSpec defines on its parsed   *)
(* packets: they depend on nothing but these and the number of threads of    *)
(* construct_flow, not on the threads that parsed or constructed in parallel *)
(* (pcap_parser.cpp:23-172, explicit_constructor.cpp).                       *)
THEOREM CaptureDetermined == CaptureSpec => [](RawInOrder => ResultSpecified)
<1>1. ASSUME ParseInv, ConstructInv, RawInOrder PROVE ResultSpecified
  <2> SUFFICES ASSUME phase = "done" PROVE ResultSpecified
    BY DEF ResultSpecified
  <2>1. pkts = AllParsed(raw, source) /\ WholeInv
    BY <1>1 DEF ParseInv, ConstructInv
  <2>2. PacketsInOrder
    BY <1>1, <2>1, RawOrder
  <2> QED BY <2>1, <2>2, InvSpecified
<1> QED BY <1>1, AlwaysConstructed, PTL
================================================================================
