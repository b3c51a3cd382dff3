----------------------------- MODULE DetectorProofs ----------------------------
(***************************************************************************)
(* What a model file claims it holds, however torn it is; and the windows  *)
(* of a dataset cover it, for all sizes: for any number of datasets and    *)
(* runs, with crashes and failed writes at any point.                      *)
(***************************************************************************)
EXTENDS Detector, CommonProofs, SequenceTheorems, TLAPS

OptModel == {NoModel} \cup Model

(* A file for window p that loads as trained has that window's parameters. *)
FileInv(p, f) ==
  /\ f.model \in Model
  /\ p # FinalPath /\ f.model.trained =>
       \E v \in f.model.from : v.dataset = p[1] /\ v.window = p[2]

MemoryInv ==
  /\ run \in Nat /\ dataset \in Nat /\ window \in Nat
  /\ current \in OptModel /\ previous \in OptModel
  /\ phase \in {"save", "write"} => previous \in Model /\ ThisWindow \in previous.from
  /\ phase \in {"final", "finalWrite"} => current \in Model

DiskInv == \A p \in DOMAIN disk : FileInv(p, disk[p])

FileIInv == MemoryInv /\ DiskInv

-------------------------------------------------------------------------------
(* Model files *)

LEMMA NewModelType ==
  ASSUME NEW W \in SUBSET Windows
  PROVE  NewModel(W) \in Model /\ NewModel(W).from = W /\ NewModel(W).trained = FALSE
  BY DEF NewModel, Model

(* A model whose parameters are replaced is a model. *)
LEMMA BlendedType ==
  ASSUME NEW m \in Model, NEW W \in SUBSET Windows
  PROVE  LET b == [m EXCEPT !.from = W]
         IN  b \in Model /\ b.from = W
  BY DEF Model

LEMMA LearnedFacts ==
  ASSUME MemoryInv
  PROVE  ThisWindow \in Windows /\ Learned \in Model /\ ThisWindow \in Learned.from
<1>1. ThisWindow \in Windows
  BY DEF MemoryInv, ThisWindow, Windows
<1>2. CASE incremental_learning_enabled /\ previous # NoModel /\ previous.trained
  <2>1. previous \in Model
    BY <1>2 DEF MemoryInv, OptModel
  <2> DEFINE W == previous.from \cup {ThisWindow}
  <2>2. Learned = [previous EXCEPT !.from = W]
    BY <1>2 DEF Learned
  <2>3. W \in SUBSET Windows /\ ThisWindow \in W
    BY <1>1, <2>1 DEF Model
  <2> HIDE DEF W
  <2>4. Learned \in Model /\ Learned.from = W
    BY <2>1, <2>2, <2>3, BlendedType
  <2> QED BY <1>1, <2>3, <2>4
<1>3. CASE ~(incremental_learning_enabled /\ previous # NoModel /\ previous.trained)
  <2>1. Learned = NewModel({ThisWindow})
    BY <1>3 DEF Learned
  <2> DEFINE W == {ThisWindow}
  <2>2. W \in SUBSET Windows /\ ThisWindow \in W
    BY <1>1
  <2>3. Learned = NewModel(W)
    BY <2>1
  <2> HIDE DEF W
  <2>4. Learned \in Model /\ Learned.from = W
    BY <2>2, <2>3, NewModelType
  <2> QED BY <1>1, <2>2, <2>4
<1> QED BY <1>1, <1>2, <1>3

LEMMA DetectedFacts ==
  ASSUME NEW m \in Model, NEW d \in Detected(m)
  PROVE  d \in Model /\ d.from = m.from
  BY DEF Detected, Model

(* What is read back from a file, whole or torn, has the parameters of the   *)
(* model written when it claims to be trained.                               *)
LEMMA WrittenFacts ==
  ASSUME NEW m \in Model, NEW f \in {WholeFile(m)} \cup TornFiles(m)
  PROVE  f.model \in Model /\ (f.model.trained => f.model.from = m.from)
<1>1. CASE f = WholeFile(m)
  BY <1>1 DEF WholeFile, Serialized, Model
<1>2. CASE f \in TornFiles(m)
  <2>1. PICK t \in Torn(m) : f = [model |-> t, whole |-> FALSE]
    BY <1>2 DEF TornFiles
  <2>2. m.from \in SUBSET Windows /\ m.centroids \in SUBSET Kinds
    BY DEF Model
  <2>3. t \in Model /\ (t.trained => t.from = m.from)
    <3>1. CASE t = NewModel({}) \/ t = NewModel(m.from)
      BY <2>2, <3>1, NewModelType
    <3>2. CASE \E c \in SUBSET m.centroids : t = [trained |-> TRUE, centroids |-> c, from |-> m.from]
      BY <2>2, <3>2 DEF Model
    <3> QED BY <3>1, <3>2 DEF Torn
  <2> QED BY <2>1, <2>3
<1> QED BY <1>1, <1>2

LEMMA InitFiles == Init => FileIInv
  BY DEF Init, FileIInv, MemoryInv, DiskInv, OptModel

LEMMA OpenFileInv ==
  ASSUME FileIInv, NEW from, NEW to, NEW skipped, NEW path,
         OpenFile(from, to, skipped, path),
         \/ from = "save" /\ to = "write" /\ skipped = "window"
         \/ from = "final" /\ to = "finalWrite" /\ skipped = "done"
  PROVE  FileIInv'
<1>1. /\ phase = from /\ phase' \in {to, skipped} /\ window' \in {window, window + 1}
      /\ phase' = to => window' = window
      /\ UNCHANGED <<run, dataset, current, previous>>
  BY DEF OpenFile
<1>2. MemoryInv'
  BY <1>1 DEF FileIInv, MemoryInv, ThisWindow
<1>3. \A p \in DOMAIN disk' :
        disk'[p] = [model |-> NewModel({}), whole |-> FALSE] \/ (p \in DOMAIN disk /\ disk'[p] = disk[p])
  BY DEF OpenFile
<1>4. NewModel({}) \in Model /\ NewModel({}).trained = FALSE
  BY NewModelType
<1>5. DiskInv'
  <2> SUFFICES ASSUME NEW p \in DOMAIN disk' PROVE FileInv(p, disk'[p])
    BY DEF DiskInv, FileInv
  <2> QED BY <1>3, <1>4 DEF FileIInv, DiskInv, FileInv
<1> QED BY <1>2, <1>5 DEF FileIInv

LEMMA WriteFileInv ==
  ASSUME FileIInv, NEW from, NEW to, NEW path, NEW m \in Model,
         WriteFile(from, to, path, m), to \in {"window", "done"},
         path # FinalPath => \E v \in m.from : v.dataset = path[1] /\ v.window = path[2]
  PROVE  FileIInv'
<1>1. MemoryInv'
  BY DEF WriteFile, FileIInv, MemoryInv
<1>2. PICK f \in {WholeFile(m)} \cup TornFiles(m) : disk' = [disk EXCEPT ![path] = f]
  BY DEF WriteFile
<1>3. FileInv(path, f)
  BY WrittenFacts DEF FileInv
<1>4. \A p \in DOMAIN disk' : p \in DOMAIN disk /\ disk'[p] = IF p = path THEN f ELSE disk[p]
  BY <1>2
<1>5. DiskInv'
  BY <1>3, <1>4 DEF FileIInv, DiskInv, FileInv
<1> QED BY <1>1, <1>5 DEF FileIInv

LEMMA CrashInv == FileIInv /\ Crash => FileIInv'
<1> SUFFICES ASSUME FileIInv, Crash PROVE FileIInv'
  OBVIOUS
<1>1. MemoryInv'
  BY DEF Crash, NoRun, FileIInv, MemoryInv, OptModel
<1>2. CASE phase = "write"
  <2>1. PICK f \in TornFiles(previous) : disk' = [disk EXCEPT ![Path] = f]
    BY <1>2 DEF Crash
  <2>2. FileInv(Path, f)
    BY <1>2, WrittenFacts DEF FileIInv, MemoryInv, FileInv, ThisWindow, Path
  <2>3. \A p \in DOMAIN disk' : p \in DOMAIN disk /\ disk'[p] = IF p = Path THEN f ELSE disk[p]
    BY <2>1
  <2> QED BY <1>1, <2>2, <2>3 DEF FileIInv, DiskInv, FileInv
<1>3. CASE phase = "finalWrite"
  <2>1. PICK f \in TornFiles(current) : disk' = [disk EXCEPT ![FinalPath] = f]
    BY <1>3 DEF Crash
  <2>2. FileInv(FinalPath, f)
    BY <1>3, WrittenFacts DEF FileIInv, MemoryInv, FileInv
  <2>3. \A p \in DOMAIN disk' : p \in DOMAIN disk /\ disk'[p] = IF p = FinalPath THEN f ELSE disk[p]
    BY <2>1
  <2> QED BY <1>1, <2>2, <2>3 DEF FileIInv, DiskInv, FileInv
<1>4. CASE phase \notin {"write", "finalWrite"}
  <2>1. disk' = disk
    BY <1>4 DEF Crash
  <2> QED BY <1>1, <2>1 DEF FileIInv, DiskInv, FileInv
<1> QED BY <1>2, <1>3, <1>4

LEMMA StepFiles == FileIInv /\ [Next]_vars => FileIInv'
<1> SUFFICES ASSUME FileIInv, [Next]_vars PROVE FileIInv'
  OBVIOUS
<1>1. ASSUME disk' = disk, MemoryInv' PROVE FileIInv'
  BY <1>1 DEF FileIInv, DiskInv, FileInv
<1>2. CASE Start
  <2>1. current' \in OptModel
    BY <1>2 DEF Start, FileIInv, DiskInv, FileInv, OptModel
  <2> QED BY <1>1, <1>2, <2>1 DEF Start, NoRun, FileIInv, MemoryInv, OptModel
<1>3. CASE OpenDataset
  BY <1>1, <1>3 DEF OpenDataset, FileIInv, MemoryInv
<1>4. CASE Window
  <2>1. CASE Overshoots(WindowEnd(sizes[dataset], window), FlowThreads)
    BY <1>1, <1>4, <2>1 DEF Window, FileIInv, MemoryInv, memory
  <2>2. CASE ~Overshoots(WindowEnd(sizes[dataset], window), FlowThreads)
    <3>1. /\ previous' \in Detected(Learned) /\ UNCHANGED <<run, disk, dataset, current>>
          /\ \/ phase' = "save" /\ window' = window
             \/ phase' = "window" /\ window' = window + 1
      BY <1>4, <2>2 DEF Window
    <3>2. previous' \in Model /\ ThisWindow \in previous'.from
      BY <3>1, LearnedFacts, DetectedFacts DEF FileIInv
    <3>3. MemoryInv'
      BY <3>1, <3>2 DEF FileIInv, MemoryInv, OptModel, ThisWindow
    <3> QED BY <1>1, <3>1, <3>3
  <2> QED BY <2>1, <2>2
<1>5. CASE OpenFile("save", "write", "window", Path)
  BY <1>5, OpenFileInv
<1>6. CASE WriteFile("write", "window", Path, previous)
  <2>1. phase = "write"
    BY <1>6 DEF WriteFile
  <2>2. previous \in Model /\ \E v \in previous.from : v.dataset = Path[1] /\ v.window = Path[2]
    BY <2>1 DEF FileIInv, MemoryInv, ThisWindow, Path
  <2> QED BY <1>6, <2>2, WriteFileInv
<1>7. CASE EndDataset
  BY <1>1, <1>7 DEF EndDataset, FileIInv, MemoryInv
<1>8. CASE NextDataset
  BY <1>1, <1>8 DEF NextDataset, FileIInv, MemoryInv
<1>9. CASE EndRun
  BY <1>1, <1>9 DEF EndRun, FileIInv, MemoryInv, memory, OptModel
<1>10. CASE OpenFile("final", "finalWrite", "done", FinalPath)
  BY <1>10, OpenFileInv
<1>11. CASE WriteFile("finalWrite", "done", FinalPath, current)
  <2>1. current \in Model
    BY <1>11 DEF WriteFile, FileIInv, MemoryInv
  <2> QED BY <1>11, <2>1, WriteFileInv
<1>12. CASE Crash
  BY <1>12, CrashInv
<1>13. CASE UNCHANGED vars \/ RejectDataset
  BY <1>1, <1>13 DEF vars, memory, RejectDataset, FileIInv, MemoryInv, ThisWindow
<1> QED BY <1>2, <1>3, <1>4, <1>5, <1>6, <1>7, <1>8, <1>9, <1>10, <1>11, <1>12, <1>13
        DEF Next, Idle

(* Whatever crashes and failed writes left, a file that loads as a trained   *)
(* model has the parameters of the window it is named for                    *)
(* (graph_define.hpp:419-532 and detector_main.hpp:822-873).                 *)
THEOREM TrainedFiles == Spec => []TrainedFileHasItsWindow
<1>1. FileIInv => TrainedFileHasItsWindow
  BY DEF FileIInv, DiskInv, FileInv, TrainedFileHasItsWindow
<1> QED BY <1>1, InitFiles, StepFiles, PTL DEF Spec

-------------------------------------------------------------------------------
(* The windows of a dataset *)

(* The lengths of the first k windows of n packets. *)
Lengths(n, k) == [i \in 1 .. k |-> WindowEnd(n, i - 1)]

WindowsInv ==
  /\ sizes \in Seq(Nat)
  /\ dataset \in Nat \ {0} /\ window \in Nat
  /\ phase \in {"window", "save", "write", "results"} =>
       dataset \in DOMAIN sizes /\ sizes[dataset] > 0
  /\ phase = "window" =>
       window <= NumWindows(sizes[dataset]) /\ results = Lengths(sizes[dataset], window)
  /\ phase \in {"save", "write"} =>
       window < NumWindows(sizes[dataset]) /\ results = Lengths(sizes[dataset], window + 1)
  /\ phase = "results" => results = Lengths(sizes[dataset], NumWindows(sizes[dataset]))

LEMMA LeastMin ==
  ASSUME NEW a \in Int, NEW b \in Int
  PROVE  Min({a, b}) = Least(a, b)
<1>1. \A x \in {a, b} : (\A y \in {a, b} : x <= y) <=> x = Least(a, b)
  BY DEF Least
<1>2. Least(a, b) \in {a, b}
  BY DEF Least
<1> HIDE DEF Least
<1> QED BY <1>1, <1>2 DEF Min

(* The last of the windows, and it alone, ends with the last packet. *)
LEMMA WindowArithmetic ==
  ASSUME NEW n \in Nat \ {0}
  PROVE  /\ NumWindows(n) \in Nat \ {0}
         /\ \A w \in 0 .. NumWindows(n) - 1 :
              /\ WindowEnd(n, w) \in Nat
              /\ w = NumWindows(n) - 1 => WindowEnd(n, w) = n
              /\ w < NumWindows(n) - 1 => WindowEnd(n, w) = (w + 1) * EffectiveWindow(n)
              /\ w > 0 => WindowEnd(n, w - 1) < WindowEnd(n, w)
              /\ w > 0 => WindowEnd(n, w) - WindowEnd(n, w - 1) <= EffectiveWindow(n)
              /\ w = 0 => WindowEnd(n, w) <= EffectiveWindow(n)
<1> DEFINE E == EffectiveWindow(n)
           K == NumWindows(n)
<1>1. E \in Nat \ {0} /\ E <= n
  BY WindowAssumption DEF EffectiveWindow
<1>2. K = (n + E - 1) \div E
  BY DEF NumWindows
<1>3. \A w \in Nat : WindowEnd(n, w) = Least((w + 1) * E, n)
  <2> SUFFICES ASSUME NEW w \in Nat PROVE WindowEnd(n, w) = Least((w + 1) * E, n)
    OBVIOUS
  <2>1. (w + 1) * E \in Int
    BY <1>1
  <2> QED BY <2>1, LeastMin DEF WindowEnd
<1> HIDE DEF E, K
<1>4. K \in Int /\ E * K <= n + E - 1 /\ n + E - 1 < E * K + E
  BY <1>1, <1>2
<1>5. K >= 1
  <2>1. SUFFICES ASSUME K <= 0 PROVE FALSE
    BY <1>4
  <2>2. E * K <= 0
    BY <1>1, <1>4, <2>1
  <2> QED BY <1>1, <1>4, <2>2
<1>6. /\ \A w \in Nat : w < K - 1 => (w + 1) * E <= (K - 1) * E
      /\ (K - 1) * E < n /\ n <= K * E
  <2>1. (K - 1) * E = E * K - E /\ K * E = E * K
    BY <1>1, <1>4
  <2>2. ASSUME NEW w \in Nat, w < K - 1 PROVE w * E + E <= (K - 1) * E
    BY <1>1, <1>4, <2>2, PartsMonotone
  <2>3. \A w \in Nat : (w + 1) * E = w * E + E
    BY <1>1
  <2>4. (K - 1) * E < n /\ n <= K * E
    <3> DEFINE p == E * K
    <3>1. p \in Int /\ p <= n + E - 1 /\ n + E - 1 < p + E /\ (K - 1) * E = p - E /\ K * E = p
      BY <1>1, <1>4, <2>1
    <3> HIDE DEF p
    <3>2. p - E < n /\ n <= p
      BY <1>1, <3>1
    <3> QED BY <3>1, <3>2
  <2> QED BY <2>2, <2>3, <2>4
<1>7. ASSUME NEW w \in 0 .. K - 1
      PROVE  /\ w = K - 1 => WindowEnd(n, w) = n
             /\ w < K - 1 => WindowEnd(n, w) = (w + 1) * E
  <2>1. w \in Nat /\ (w + 1) * E \in Int /\ WindowEnd(n, w) = Least((w + 1) * E, n)
    BY <1>1, <1>3
  <2>2. w = K - 1 => (w + 1) * E = K * E
    BY <1>4
  <2>3. w < K - 1 => (w + 1) * E <= n
    BY <1>1, <1>4, <1>6, <2>1
  <2> QED BY <1>6, <2>1, <2>2, <2>3 DEF Least
<1>8. ASSUME NEW w \in 0 .. K - 1, w > 0
      PROVE  /\ WindowEnd(n, w - 1) = w * E /\ w * E < n
             /\ WindowEnd(n, w) \in {(w + 1) * E, n} /\ WindowEnd(n, w) <= (w + 1) * E
  <2>1. w - 1 \in 0 .. K - 1 /\ w - 1 < K - 1 /\ (w - 1) + 1 = w
    BY <1>4, <1>8
  <2>2. WindowEnd(n, w - 1) = w * E
    BY <1>7, <2>1
  <2>3. w * E <= (K - 1) * E /\ (K - 1) * E \in Int /\ w * E \in Int
    BY <1>1, <1>4, <1>6, <2>1
  <2>4. n <= (w + 1) * E \/ w # K - 1
    BY <1>4, <1>6
  <2>5. (w + 1) * E \in Int
    BY <1>1
  <2>6. w * E < n
    <3> DEFINE a == w * E
               b == (K - 1) * E
    <3>1. a \in Int /\ b \in Int /\ a <= b /\ b < n
      BY <1>6, <2>3
    <3> HIDE DEF a, b
    <3>2. a < n
      BY <3>1
    <3> QED BY <3>2 DEF a
  <2>7. CASE w = K - 1
    <3>1. WindowEnd(n, w) = n /\ n <= (w + 1) * E
      BY <1>7, <2>4, <2>7
    <3> QED BY <2>2, <2>6, <3>1
  <2>8. CASE w < K - 1
    <3>1. WindowEnd(n, w) = (w + 1) * E
      BY <1>7, <2>8
    <3> QED BY <2>2, <2>5, <2>6, <3>1
  <2> QED BY <1>4, <2>7, <2>8
<1>9. ASSUME NEW w \in 0 .. K - 1
      PROVE  /\ WindowEnd(n, w) \in Nat
             /\ w > 0 => WindowEnd(n, w - 1) < WindowEnd(n, w)
             /\ w > 0 => WindowEnd(n, w) - WindowEnd(n, w - 1) <= E
             /\ w = 0 => WindowEnd(n, w) <= E
  <2>1. w * E \in Nat /\ (w + 1) * E = w * E + E /\ w * E + E \in Nat
    BY <1>1
  <2>2. CASE w > 0
    <3> DEFINE a == w * E
    <3> HIDE DEF a
    <3>1. /\ a \in Nat /\ WindowEnd(n, w - 1) = a /\ a < n
          /\ WindowEnd(n, w) \in {a + E, n} /\ WindowEnd(n, w) <= a + E
      BY <1>8, <2>1, <2>2 DEF a
    <3> QED BY <1>1, <2>2, <3>1
  <2>3. CASE w = 0
    <3>1. (w + 1) * E = E
      BY <1>1, <2>3
    <3>2. WindowEnd(n, w) = Least(E, n)
      BY <1>3, <2>3, <3>1
    <3> QED BY <1>1, <2>3, <3>2 DEF Least
  <2> QED BY <2>2, <2>3
<1> QED BY <1>4, <1>5, <1>7, <1>9 DEF E, K

(* Saving a window, or giving up on it, leads to the next one. *)
LEMMA SavedWindow ==
  ASSUME WindowsInv, phase \in {"save", "write"}, UNCHANGED <<sizes, dataset, results>>,
         \/ phase' = "write" /\ window' = window
         \/ phase' = "window" /\ window' = window + 1
  PROVE  WindowsInv'
<1> DEFINE n == sizes[dataset]
<1>1. n \in Nat \ {0} /\ NumWindows(n) \in Nat
  BY WindowArithmetic DEF WindowsInv
<1>2. /\ n' = n /\ NumWindows(n)' = NumWindows(n)
      /\ \A k : Lengths(n, k)' = Lengths(n, k)
  BY DEF NumWindows, EffectiveWindow, Lengths, WindowEnd
<1> QED BY <1>1, <1>2 DEF WindowsInv

LEMMA StepWindows == WindowsInv /\ [Next]_vars => WindowsInv'
<1> SUFFICES ASSUME WindowsInv, [Next]_vars PROVE WindowsInv'
  OBVIOUS
<1> USE DEF WindowsInv
<1>1. CASE Start \/ Crash
  BY <1>1 DEF Start, Crash, NoRun
<1>2. CASE OpenDataset
  <2>1. sizes \in Seq(Nat)
    OBVIOUS
  <2>2. dataset \in DOMAIN sizes /\ sizes[dataset] \in Nat
    BY <1>2, <2>1 DEF OpenDataset
  <2>3. CASE sizes[dataset] = 0
    BY <1>2, <2>3 DEF OpenDataset
  <2>4. CASE sizes[dataset] # 0
    <3>1. NumWindows(sizes[dataset]) \in Nat
      BY <2>2, <2>4, WindowArithmetic
    <3>2. Lengths(sizes[dataset], 0) = <<>>
      BY DEF Lengths
    <3> QED BY <1>2, <2>2, <2>4, <3>1, <3>2 DEF OpenDataset, Lengths, WindowEnd, EffectiveWindow, NumWindows
  <2> QED BY <2>3, <2>4
<1>3. CASE Window
  <2> DEFINE n == sizes[dataset]
  <2>1. CASE Overshoots(WindowEnd(n, window), FlowThreads)
    BY <1>3, <2>1 DEF Window, memory
  <2>2. CASE ~Overshoots(WindowEnd(n, window), FlowThreads)
    <3>1. /\ phase = "window" /\ window < NumWindows(n)
          /\ results' = Append(results, WindowEnd(n, window))
          /\ UNCHANGED <<sizes, dataset>>
          /\ \/ phase' = "save" /\ window' = window
             \/ phase' = "window" /\ window' = window + 1
      BY <1>3, <2>2 DEF Window
    <3>2. Append(Lengths(n, window), WindowEnd(n, window)) = Lengths(n, window + 1)
      BY DEF Lengths
    <3>3. n \in Nat \ {0} /\ NumWindows(n) \in Nat
      BY <3>1, WindowArithmetic
    <3>4. results' = Lengths(n, window + 1)
      BY <3>1, <3>2
    <3>5. NumWindows(sizes'[dataset']) = NumWindows(n) /\ Lengths(sizes'[dataset'], window + 1) = Lengths(n, window + 1)
      BY <3>1
    <3> QED BY <3>1, <3>3, <3>4, <3>5
  <2> QED BY <2>1, <2>2
<1>4. ASSUME NEW path, OpenFile("save", "write", "window", path) PROVE WindowsInv'
  <2>1. /\ phase = "save" /\ UNCHANGED <<sizes, dataset, results>>
        /\ \/ phase' = "write" /\ window' = window
           \/ phase' = "window" /\ window' = window + 1
    BY <1>4 DEF OpenFile
  <2> QED BY <2>1, SavedWindow
<1>5. ASSUME NEW path, OpenFile("final", "finalWrite", "done", path) PROVE WindowsInv'
  BY <1>5 DEF OpenFile
<1>6. ASSUME NEW path, NEW m, WriteFile("write", "window", path, m) PROVE WindowsInv'
  <2>1. /\ phase = "write" /\ UNCHANGED <<sizes, dataset, results>>
        /\ phase' = "window" /\ window' = window + 1
    BY <1>6 DEF WriteFile
  <2> QED BY <2>1, SavedWindow
<1>7. ASSUME NEW path, NEW m, WriteFile("finalWrite", "done", path, m) PROVE WindowsInv'
  BY <1>7 DEF WriteFile
<1>8. CASE EndDataset
  <2>1. /\ phase = "window" /\ phase' = "results" /\ window = NumWindows(sizes[dataset])
        /\ UNCHANGED <<sizes, dataset, window, results>>
    BY <1>8 DEF EndDataset
  <2> QED BY <2>1 DEF Lengths, WindowEnd, EffectiveWindow, NumWindows
<1>9. CASE NextDataset \/ EndRun
  BY <1>9 DEF NextDataset, EndRun, memory
<1>10. CASE UNCHANGED vars \/ RejectDataset
  BY <1>10 DEF vars, memory, RejectDataset, Lengths, WindowEnd, EffectiveWindow, NumWindows
<1> QED BY <1>1, <1>2, <1>3, <1>4, <1>5, <1>6, <1>7, <1>8, <1>9, <1>10 DEF Next, Idle

LEMMA InitWindows == Init => WindowsInv
  BY InputAssumption DEF Init, WindowsInv

(* The results of a dataset end with all its packets and grow by no more     *)
(* than the window, for every size and window (detector_main.hpp:340-383).   *)
THEOREM WindowsCover == Spec => []WindowsCoverDataset
<1>1. WindowsInv => WindowsCoverDataset
  <2> SUFFICES ASSUME WindowsInv, phase = "results" PROVE WindowsCoverDataset
    BY DEF WindowsCoverDataset
  <2> DEFINE n == sizes[dataset]
             K == NumWindows(n)
  <2>1. n \in Nat \ {0} /\ results = Lengths(n, K)
    BY DEF WindowsInv
  <2>2. K \in Nat \ {0}
    BY <2>1, WindowArithmetic
  <2>3. /\ Len(results) = K /\ DOMAIN results = 1 .. K
        /\ \A i \in 1 .. K : results[i] = WindowEnd(n, i - 1)
    BY <2>1, <2>2 DEF Lengths
  <2>4. ASSUME NEW i \in 1 .. K
        PROVE  /\ results[i] \in Nat
               /\ i = K => results[i] = n
               /\ i > 1 => results[i - 1] < results[i]
               /\ i > 1 => results[i] - results[i - 1] <= EffectiveWindow(n)
               /\ i = 1 => results[i] <= EffectiveWindow(n)
    <3> DEFINE w == i - 1
    <3>1. w \in 0 .. K - 1 /\ results[i] = WindowEnd(n, w)
      BY <2>2, <2>3
    <3>2. i > 1 => results[i - 1] = WindowEnd(n, w - 1)
      BY <2>2, <2>3
    <3>3. (i = K <=> w = K - 1) /\ (i > 1 <=> w > 0) /\ (i = 1 <=> w = 0)
      BY <2>2
    <3> HIDE DEF w, K, n
    <3> QED BY <2>1, <3>1, <3>2, <3>3, WindowArithmetic DEF K
  <2>5. window_size # 0 => EffectiveWindow(n) <= window_size
    BY <2>1, WindowAssumption DEF EffectiveWindow
  <2>6. EffectiveWindow(n) \in Nat
    BY <2>1, WindowAssumption DEF EffectiveWindow
  <2> HIDE DEF n, K
  <2>7. Len(results) > 0 /\ results[Len(results)] = n
    <3>1. K \in 1 .. K /\ K > 0
      BY <2>2
    <3> QED BY <2>3, <2>4, <3>1
  <2>8. \A i \in 2 .. Len(results) : results[i - 1] < results[i]
    BY <2>2, <2>3, <2>4
  <2>9. window_size # 0 =>
          \A i \in DOMAIN results :
            results[i] - (IF i = 1 THEN 0 ELSE results[i - 1]) <= window_size
    <3> SUFFICES ASSUME window_size # 0, NEW i \in 1 .. K
                 PROVE  results[i] - (IF i = 1 THEN 0 ELSE results[i - 1]) <= window_size
      BY <2>3
    <3>1. CASE i = 1
      BY <2>4, <2>5, <2>6, <3>1, WindowAssumption
    <3>2. CASE i # 1
      <4>1. i > 1 /\ i - 1 \in 1 .. K
        BY <2>2, <3>2
      <4>2. results[i] \in Nat /\ results[i - 1] \in Nat
        BY <2>4, <4>1
      <4> QED BY <2>4, <2>5, <2>6, <3>2, <4>1, <4>2, WindowAssumption
    <3> QED BY <3>1, <3>2
  <2> QED BY <2>7, <2>8, <2>9 DEF WindowsCoverDataset, n
<1> QED BY <1>1, InitWindows, StepWindows, PTL DEF Spec

-------------------------------------------------------------------------------
(* Labels *)

LabelledPhase == phase \in {"window", "save", "write", "results"}

(* While a dataset has windows, p_label is what its construction left there. *)
LabelInv ==
  /\ [sizes |-> sizes, labelFile |-> labelFile] \in Inputs
  /\ LabelledPhase =>
       dataset \in DOMAIN sizes /\ LabelsAccepted(dataset) /\ label = Labels(dataset)
  /\ windowLabels \in Seq(Seq(Int))

LEMMA InputFacts ==
  ASSUME [sizes |-> sizes, labelFile |-> labelFile] \in Inputs
  PROVE  /\ sizes \in Seq(Nat) /\ labelFile \in LabelFile
         /\ Len(labelFile.lengths) = Len(sizes)
         /\ labelFile.source = "import" => labelFile.train = 0
         /\ labelFile.source = "capture" => Len(sizes) = 1 /\ labelFile.train <= sizes[1]
<1> DEFINE x == [sizes |-> sizes, labelFile |-> labelFile]
<1>1. x.sizes = sizes /\ x.labelFile = labelFile /\ x \in Inputs
  OBVIOUS
<1> HIDE DEF x
<1> QED BY <1>1, InputAssumption

LEMMA WindowEndBound ==
  ASSUME NEW n \in Nat \ {0}, NEW w \in Nat
  PROVE  WindowEnd(n, w) \in 1 .. n
<1>1. EffectiveWindow(n) \in Nat \ {0}
  BY WindowAssumption DEF EffectiveWindow
<1> DEFINE e == (w + 1) * EffectiveWindow(n)
<1>2. e \in Nat \ {0}
  BY <1>1
<1>3. WindowEnd(n, w) = Min({e, n})
  BY DEF WindowEnd
<1> HIDE DEF e
<1>4. WindowEnd(n, w) = Least(e, n)
  BY <1>2, <1>3, LeastMin
<1> QED BY <1>2, <1>4 DEF Least

(* The labels of a dataset, one by one.                                      *)
LEMMA LabelsFacts ==
  ASSUME [sizes |-> sizes, labelFile |-> labelFile] \in Inputs, NEW d \in DOMAIN sizes,
         LabelsAccepted(d)
  PROVE  /\ Labels(d) \in Seq(Int)
         /\ \A i \in 1 .. sizes[d] :
              LET l == IF i <= Len(Labels(d)) THEN Labels(d)[i] ELSE NoLabel
              IN  /\ l \in Int
                  /\ labelFile.train = 0 => l = IF i <= labelFile.lengths[d] THEN i - 1 ELSE NoLabel
<1>1. /\ sizes \in Seq(Nat) /\ sizes[d] \in Nat
      /\ labelFile.lengths \in Seq(Nat) /\ labelFile.lengths[d] \in Nat
      /\ labelFile.train \in Nat /\ labelFile.source \in {"import", "capture"}
  BY InputFacts DEF LabelFile
<1> DEFINE length == labelFile.lengths[d]
           train == labelFile.train
<1>2. CASE labelFile.source = "import"
  <2>1. Labels(d) = [i \in 1 .. length |-> i - 1]
    BY <1>2 DEF Labels, ImportedLabels
  <2>2. Labels(d) \in Seq(Int) /\ Len(Labels(d)) = length /\ \A i \in 1 .. length : Labels(d)[i] = i - 1
    <3>1. length \in Nat
      BY <1>1
    <3> HIDE DEF length
    <3> QED BY <2>1, <3>1
  <2>3. train = 0
    BY <1>2, InputFacts
  <2> QED BY <1>1, <2>2, <2>3 DEF NoLabel
<1>3. CASE labelFile.source = "capture"
  <2>1. d = 1 /\ sizes[d] - train \in Nat
    BY <1>1, <1>3, InputFacts
  <2> DEFINE m == sizes[d] - train
             f(k) == IF k - 1 < length THEN Character(k - 1 + train, length) ELSE NoLabel
  <2>2. Labels(d) = [k \in 1 .. m |-> f(k)]
    BY <1>3 DEF Labels, CaptureLabels
  <2>3. \A k \in Nat : f(k) \in Int
    BY <1>1 DEF Character, NoLabel, Garbage
  <2>4. \A k \in 1 .. sizes[d] :
          train = 0 => f(k) = IF k <= length THEN k - 1 ELSE NoLabel
    <3> SUFFICES ASSUME NEW k \in 1 .. sizes[d]
                 PROVE  train = 0 => f(k) = IF k <= length THEN k - 1 ELSE NoLabel
      OBVIOUS
    <3>1. k \in Nat /\ k >= 1 /\ length \in Nat /\ train \in Nat
      BY <1>1
    <3> HIDE DEF length, train
    <3> QED BY <3>1 DEF f, Character, NoLabel, Garbage
  <2>5. m \in Nat /\ m <= sizes[d] /\ (train = 0 => m = sizes[d])
    BY <1>1, <2>1
  <2> HIDE DEF m, f
  <2>6. Labels(d) \in Seq(Int) /\ Len(Labels(d)) = m /\ \A k \in 1 .. m : Labels(d)[k] = f(k)
    BY <2>2, <2>3, <2>5
  <2> SUFFICES ASSUME NEW i \in 1 .. sizes[d]
               PROVE  LET l == IF i <= Len(Labels(d)) THEN Labels(d)[i] ELSE NoLabel
                      IN  /\ l \in Int
                          /\ train = 0 => l = IF i <= length THEN i - 1 ELSE NoLabel
    BY <2>6
  <2>7. i \in Nat /\ i >= 1
    BY <1>1
  <2>8. CASE i <= m
    BY <2>3, <2>4, <2>5, <2>6, <2>7, <2>8
  <2>9. CASE i > m
    <3>1. train # 0
      BY <1>1, <2>5, <2>9
    <3> QED BY <2>5, <2>6, <2>7, <2>9, <3>1 DEF NoLabel
  <2> QED BY <2>5, <2>7, <2>8, <2>9
<1> QED BY <1>1, <1>2, <1>3

(* The labels of a window, as the property asks of them. *)
LabelsOK(l, d) ==
  labelFile.train = 0 =>
    \A i \in DOMAIN l : l[i] = IF i <= labelFile.lengths[d] THEN i - 1 ELSE NoLabel

LEMMA WindowLabelOK ==
  ASSUME LabelInv, LabelledPhase, NEW size \in 1 .. sizes[dataset]
  PROVE  WindowLabel(size) \in Seq(Int) /\ LabelsOK(WindowLabel(size), dataset)
<1>1. dataset \in DOMAIN sizes /\ LabelsAccepted(dataset) /\ label = Labels(dataset)
  BY DEF LabelInv
<1>2. sizes[dataset] \in Nat
  BY <1>1, InputFacts DEF LabelInv
<1> DEFINE l(i) == IF i <= Len(label) THEN label[i] ELSE NoLabel
<1>3. WindowLabel(size) = [i \in 1 .. size |-> l(i)]
  BY DEF WindowLabel
<1>4. \A i \in 1 .. sizes[dataset] :
        /\ l(i) \in Int
        /\ labelFile.train = 0 => l(i) = IF i <= labelFile.lengths[dataset] THEN i - 1 ELSE NoLabel
  BY <1>1, LabelsFacts DEF LabelInv
<1> HIDE DEF l
<1>5. \A i \in 1 .. size : i \in 1 .. sizes[dataset]
  BY <1>2
<1> QED BY <1>2, <1>3, <1>4, <1>5 DEF LabelsOK

LEMMA StepLabels ==
  WindowsInv /\ LabelInv /\ LabelsOfPackets /\ [Next]_vars => LabelInv' /\ LabelsOfPackets'
<1> SUFFICES ASSUME WindowsInv, LabelInv, LabelsOfPackets, [Next]_vars
             PROVE  LabelInv' /\ LabelsOfPackets'
  OBVIOUS
<1>1. /\ UNCHANGED <<sizes, labelFile>>
      /\ \A d : Labels(d)' = Labels(d) /\ LabelsAccepted(d)' = LabelsAccepted(d)
  <2>1. UNCHANGED <<sizes, labelFile>>
    BY DEF Next, vars, Start, OpenDataset, RejectDataset, Window, OpenFile, WriteFile, EndDataset,
           NextDataset, EndRun, Crash, Idle
  <2> QED BY <2>1 DEF Labels, LabelsAccepted, ImportedLabels, CaptureLabels
<1>2. ASSUME windowLabels' = <<>>, LabelledPhase' => LabelInv' PROVE LabelInv' /\ LabelsOfPackets'
  BY <1>1, <1>2 DEF LabelInv, LabelsOfPackets
<1>3. ASSUME UNCHANGED <<dataset, label, windowLabels>>, LabelledPhase' => LabelledPhase
      PROVE  LabelInv' /\ LabelsOfPackets'
  BY <1>1, <1>3 DEF LabelInv, LabelsOfPackets
<1>4. CASE Start \/ Crash
  BY <1>2, <1>4 DEF Start, Crash, NoRun, LabelledPhase
<1>5. CASE OpenDataset
  <2>1. CASE sizes[dataset] = 0
    BY <1>2, <1>5, <2>1 DEF OpenDataset, LabelledPhase
  <2>2. CASE sizes[dataset] # 0
    <3>1. /\ dataset \in DOMAIN sizes /\ LabelsAccepted(dataset) /\ label' = Labels(dataset)
          /\ dataset' = dataset /\ windowLabels' = <<>>
      BY <1>5, <2>2 DEF OpenDataset, WindowsInv
    <3> QED BY <1>1, <1>2, <3>1 DEF LabelInv
  <2> QED BY <2>1, <2>2
<1>6. CASE Window
  <2> DEFINE size == WindowEnd(sizes[dataset], window)
  <2>1. CASE Overshoots(size, FlowThreads)
    BY <1>3, <1>6, <2>1 DEF Window, memory, LabelledPhase
  <2>2. CASE ~Overshoots(size, FlowThreads)
    <3>1. /\ phase = "window" /\ windowLabels' = Append(windowLabels, WindowLabel(size))
          /\ UNCHANGED <<dataset, label>>
      BY <1>6, <2>2 DEF Window
    <3>2. LabelledPhase
      BY <3>1 DEF LabelledPhase
    <3>3. size \in 1 .. sizes[dataset]
      <4>1. sizes[dataset] \in Nat \ {0} /\ window \in Nat
        BY <3>1 DEF WindowsInv
      <4> QED BY <4>1, WindowEndBound
    <3> DEFINE new == WindowLabel(size)
    <3>4. new \in Seq(Int) /\ LabelsOK(new, dataset)
      BY <3>2, <3>3, WindowLabelOK
    <3>5. windowLabels \in Seq(Seq(Int)) /\ windowLabels' = Append(windowLabels, new)
      BY <3>1 DEF LabelInv
    <3> HIDE DEF new, size
    <3>6. LabelInv'
      BY <1>1, <3>1, <3>2, <3>4, <3>5 DEF LabelInv
    <3>7. \A w \in DOMAIN windowLabels' :
            windowLabels'[w] = new \/ (w \in DOMAIN windowLabels /\ windowLabels'[w] = windowLabels[w])
      BY <3>4, <3>5
    <3>8. LabelsOfPackets'
      BY <1>1, <3>1, <3>4, <3>7 DEF LabelsOfPackets, LabelsOK
    <3> QED BY <3>6, <3>8
  <2> QED BY <2>1, <2>2
<1>7. ASSUME NEW from, NEW to, NEW skipped, NEW path, OpenFile(from, to, skipped, path),
             \/ from = "save"
             \/ to = "finalWrite" /\ skipped = "done"
      PROVE  LabelInv' /\ LabelsOfPackets'
  BY <1>3, <1>7 DEF OpenFile, LabelledPhase
<1>8. ASSUME NEW from, NEW to, NEW path, NEW m, WriteFile(from, to, path, m),
             from = "write" \/ to = "done"
      PROVE  LabelInv' /\ LabelsOfPackets'
  BY <1>3, <1>8 DEF WriteFile, LabelledPhase
<1>9. CASE EndDataset
  BY <1>3, <1>9 DEF EndDataset, LabelledPhase
<1>10. CASE NextDataset
  BY <1>2, <1>10 DEF NextDataset, LabelledPhase
<1>11. CASE EndRun \/ RejectDataset
  BY <1>3, <1>11 DEF EndRun, RejectDataset, memory, LabelledPhase
<1>12. CASE UNCHANGED vars
  BY <1>3, <1>12 DEF vars, memory, LabelledPhase
<1> QED BY <1>4, <1>5, <1>6, <1>7, <1>8, <1>9, <1>10, <1>11, <1>12 DEF Next, Idle

LEMMA InitLabels == Init => LabelInv /\ LabelsOfPackets
<1> SUFFICES ASSUME Init PROVE LabelInv /\ LabelsOfPackets
  OBVIOUS
<1>1. PICK x \in Inputs : sizes = x.sizes /\ labelFile = x.labelFile
  BY DEF Init
<1>2. x = [sizes |-> x.sizes, labelFile |-> x.labelFile]
  BY InputAssumption
<1> QED BY <1>1, <1>2 DEF Init, LabelInv, LabelledPhase, LabelsOfPackets

(* When no training part is set apart, each window has its packets' labels,  *)
(* for all sizes, windows and label files (detector_main.hpp:400-411,        *)
(* basic_dataset.cpp:18-47).                                                 *)
THEOREM LabelsCorrect == Spec => []LabelsOfPackets
<1> QED BY InitWindows, StepWindows, InitLabels, StepLabels, PTL DEF Spec

-------------------------------------------------------------------------------
(* Types *)

(* What DetTypeOK says beyond the invariants above. *)
TypeInv ==
  /\ run \in 0 .. MaxRuns
  /\ phase \in {"down", "dataset", "window", "save", "write", "results",
                "final", "finalWrite", "done", "abort"}
  /\ dataset \in 1 .. Len(sizes) + 1
  /\ label \in Seq(Int)
  /\ results \in Seq(Nat) /\ Len(windowLabels) = Len(results)
  /\ untrained \subseteq Windows
  /\ \A p \in DOMAIN disk : disk[p] \in File

LEMMA WrittenFile ==
  ASSUME NEW m \in Model, NEW f \in {WholeFile(m)} \cup TornFiles(m)
  PROVE  f \in File
<1>1. f.model \in Model
  BY WrittenFacts
<1>2. f \in [model : {f.model}, whole : BOOLEAN]
  <2>1. CASE f = WholeFile(m)
    BY <2>1 DEF WholeFile
  <2>2. CASE f \in TornFiles(m)
    <3>1. PICK t \in Torn(m) : f = [model |-> t, whole |-> FALSE]
      BY <2>2 DEF TornFiles
    <3> QED BY <3>1
  <2> QED BY <2>1, <2>2
<1> QED BY <1>1, <1>2 DEF File

LEMMA StepTypes ==
  FileIInv /\ WindowsInv /\ LabelInv /\ LabelInv' /\ TypeInv /\ [Next]_vars => TypeInv'
<1> SUFFICES ASSUME FileIInv, WindowsInv, LabelInv, LabelInv', TypeInv, [Next]_vars PROVE TypeInv'
  OBVIOUS
<1> USE MaxRunsAssumption
<1>1. sizes' = sizes /\ Len(sizes) \in Nat /\ DOMAIN sizes = 1 .. Len(sizes)
  BY DEF Next, vars, Start, OpenDataset, RejectDataset, Window, OpenFile, WriteFile, EndDataset,
         NextDataset, EndRun, Crash, Idle, WindowsInv
<1>2. ASSUME NEW f \in File,
             \A p \in DOMAIN disk' : disk'[p] = f \/ (p \in DOMAIN disk /\ disk'[p] = disk[p])
      PROVE  \A p \in DOMAIN disk' : disk'[p] \in File
  BY <1>2 DEF TypeInv
<1>3. CASE Start
  BY <1>1, <1>3 DEF Start, NoRun, TypeInv
<1>4. CASE OpenDataset
  <2>1. CASE sizes[dataset] = 0
    BY <1>1, <1>4, <2>1 DEF OpenDataset, TypeInv
  <2>2. CASE sizes[dataset] # 0
    <3>1. label' \in Seq(Int)
      <4>1. dataset \in DOMAIN sizes /\ LabelsAccepted(dataset) /\ label' = Labels(dataset)
        BY <1>4, <2>2 DEF OpenDataset, WindowsInv
      <4> QED BY <4>1, LabelsFacts DEF LabelInv
    <3> QED BY <1>1, <1>4, <2>2, <3>1 DEF OpenDataset, TypeInv
  <2> QED BY <2>1, <2>2
<1>5. CASE RejectDataset \/ EndRun
  BY <1>1, <1>5 DEF RejectDataset, EndRun, memory, TypeInv
<1>6. CASE Window
  <2> DEFINE size == WindowEnd(sizes[dataset], window)
  <2>1. CASE Overshoots(size, FlowThreads)
    BY <1>1, <1>6, <2>1 DEF Window, memory, TypeInv
  <2>2. CASE ~Overshoots(size, FlowThreads)
    <3>1. size \in Nat
      <4>1. sizes[dataset] \in Nat \ {0} /\ window \in Nat
        BY <1>6 DEF Window, WindowsInv
      <4>2. size \in 1 .. sizes[dataset]
        BY <4>1, WindowEndBound
      <4> QED BY <4>1, <4>2
    <3>2. ThisWindow \in Windows
      BY DEF FileIInv, MemoryInv, ThisWindow, Windows
    <3>3. /\ results' = Append(results, size) /\ windowLabels' = Append(windowLabels, WindowLabel(size))
          /\ untrained' \subseteq untrained \cup {ThisWindow}
          /\ phase' \in {"save", "window"}
          /\ UNCHANGED <<dataset, label, run, disk>>
      BY <1>6, <2>2 DEF Window
    <3>4. windowLabels \in Seq(Seq(Int))
      BY DEF LabelInv
    <3> DEFINE new == WindowLabel(size)
    <3> HIDE DEF size, new
    <3>5. results' \in Seq(Nat) /\ Len(windowLabels') = Len(results')
      BY <3>1, <3>3, <3>4 DEF TypeInv, new
    <3> QED BY <1>1, <3>2, <3>3, <3>5 DEF TypeInv
  <2> QED BY <2>1, <2>2
<1>7. ASSUME NEW from, NEW to \in {"write", "finalWrite"}, NEW skipped \in {"window", "done"},
             NEW path, OpenFile(from, to, skipped, path)
      PROVE  TypeInv'
  <2> DEFINE f == [model |-> NewModel({}), whole |-> FALSE]
  <2>1. f \in File
    BY NewModelType DEF File
  <2>2. \A p \in DOMAIN disk' : disk'[p] = f \/ (p \in DOMAIN disk /\ disk'[p] = disk[p])
    BY <1>7 DEF OpenFile
  <2> HIDE DEF f
  <2>3. \A p \in DOMAIN disk' : disk'[p] \in File
    BY <1>2, <2>1, <2>2
  <2> QED BY <1>1, <1>7, <2>3 DEF OpenFile, TypeInv
<1>8. ASSUME NEW from, NEW to \in {"window", "done"}, NEW path, NEW m \in Model,
             WriteFile(from, to, path, m)
      PROVE  TypeInv'
  <2>1. PICK f \in {WholeFile(m)} \cup TornFiles(m) : disk' = [disk EXCEPT ![path] = f]
    BY <1>8 DEF WriteFile
  <2>2. f \in File
    BY WrittenFile
  <2>3. \A p \in DOMAIN disk' : disk'[p] = f \/ (p \in DOMAIN disk /\ disk'[p] = disk[p])
    BY <2>1
  <2>4. \A p \in DOMAIN disk' : disk'[p] \in File
    BY <1>2, <2>2, <2>3
  <2> QED BY <1>1, <1>8, <2>4 DEF WriteFile, TypeInv
<1>9. CASE EndDataset
  BY <1>1, <1>9 DEF EndDataset, TypeInv
<1>10. CASE NextDataset
  <2>1. dataset' \in 1 .. Len(sizes) + 1
    BY <1>1, <1>10 DEF NextDataset, WindowsInv
  <2> QED BY <1>1, <1>10, <2>1 DEF NextDataset, TypeInv
<1>11. CASE Crash
  <2>1. \A p \in DOMAIN disk' : disk'[p] \in File
    <3>1. CASE phase = "write"
      <4>1. PICK f \in TornFiles(previous) : disk' = [disk EXCEPT ![Path] = f]
        BY <1>11, <3>1 DEF Crash
      <4>2. f \in File
        BY <3>1, WrittenFile DEF FileIInv, MemoryInv
      <4>3. \A p \in DOMAIN disk' : disk'[p] = f \/ (p \in DOMAIN disk /\ disk'[p] = disk[p])
        BY <4>1
      <4> QED BY <1>2, <4>2, <4>3
    <3>2. CASE phase = "finalWrite"
      <4>1. PICK f \in TornFiles(current) : disk' = [disk EXCEPT ![FinalPath] = f]
        BY <1>11, <3>2 DEF Crash
      <4>2. f \in File
        BY <3>2, WrittenFile DEF FileIInv, MemoryInv
      <4>3. \A p \in DOMAIN disk' : disk'[p] = f \/ (p \in DOMAIN disk /\ disk'[p] = disk[p])
        BY <4>1
      <4> QED BY <1>2, <4>2, <4>3
    <3>3. CASE phase \notin {"write", "finalWrite"}
      BY <1>11, <3>3 DEF Crash, TypeInv
    <3> QED BY <3>1, <3>2, <3>3
  <2> QED BY <1>1, <1>11, <2>1 DEF Crash, NoRun, TypeInv
<1>12. CASE UNCHANGED vars
  BY <1>12 DEF vars, memory, TypeInv
<1>13. ASSUME WriteFile("write", "window", Path, previous) \/ WriteFile("finalWrite", "done", FinalPath, current)
       PROVE  TypeInv'
  <2>1. /\ phase = "write" => previous \in Model
        /\ phase = "finalWrite" => current \in Model
    BY DEF FileIInv, MemoryInv
  <2> QED BY <1>8, <1>13, <2>1 DEF WriteFile
<1> QED BY <1>3, <1>4, <1>5, <1>6, <1>7, <1>9, <1>10, <1>11, <1>12, <1>13 DEF Next, Idle

LEMMA InitTypes == Init => TypeInv
<1> SUFFICES ASSUME Init PROVE TypeInv
  OBVIOUS
<1>1. sizes \in Seq(Nat)
  BY InputAssumption DEF Init
<1> QED BY <1>1, MaxRunsAssumption DEF Init, TypeInv

(* Type correctness, of the model files too, whatever is torn.               *)
THEOREM DetTypeCorrect == Spec => []DetTypeOK
<1>1. FileIInv /\ LabelInv /\ TypeInv => DetTypeOK
  BY DEF FileIInv, MemoryInv, OptModel, LabelInv, TypeInv, DetTypeOK
<1> QED BY <1>1, InitFiles, StepFiles, InitWindows, StepWindows, InitLabels, StepLabels, InitTypes,
           StepTypes, PTL DEF Spec

-------------------------------------------------------------------------------
(* Chained learning *)

Running == phase \in {"dataset", "window", "save", "write", "results", "final", "finalWrite"}

(* The windows of the dataset at hand that were processed. *)
Reached ==
  IF phase \in {"save", "write"} THEN window + 1
  ELSE IF phase \in {"window", "results"} THEN window ELSE 0

Processed ==
  {v \in RunWindows : v.dataset < dataset \/ (v.dataset = dataset /\ v.window < Reached)}

(* The model that is passed on. *)
InHand == IF phase \in {"window", "save", "write"} THEN previous ELSE current

(* Models have learned from windows of this and earlier runs. *)
RunsInv ==
  /\ \A m \in {current, previous} : m \in Model => \A v \in m.from : v.run <= run
  /\ \A p \in DOMAIN disk : \A v \in disk[p].model.from : v.run <= run

(* The windows a model has learned from, when x was the last. *)
ChainedTo(x) ==
  /\ \A u \in Processed \ {x} : Before(u, x)
  /\ x \in untrained <=> ~InHand.trained
  /\ {v \in InHand.from : v.run = run}
       = {v \in Processed : \A u \in untrained \ {x} : Before(u, v)}

ChainInv ==
  /\ Running => untrained \subseteq Processed
  /\ phase = "results" => window = NumWindows(sizes[dataset])
  /\ phase \in {"final", "finalWrite"} => incremental_learning_enabled /\ dataset > Len(sizes)
  /\ phase \in {"save", "write"} => incremental_learning_enabled
  /\ Running /\ incremental_learning_enabled =>
       IF Processed = {}
       THEN InHand \in Model => \A v \in InHand.from : v.run < run
       ELSE InHand \in Model /\ \E x \in Processed : ChainedTo(x)

LEMMA RunWindowFacts ==
  ASSUME sizes \in Seq(Nat), run \in Nat
  PROVE  \A v : v \in RunWindows <=>
           /\ v \in Windows /\ v.run = run
           /\ v.dataset \in DOMAIN sizes /\ sizes[v.dataset] > 0
           /\ v.window < NumWindows(sizes[v.dataset])
<1> DEFINE Of(d) == {[run |-> run, dataset |-> d, window |-> w] : w \in 0 .. NumWindows(sizes[d]) - 1}
<1>1. \A d \in DOMAIN sizes : d \in Nat /\ sizes[d] \in Nat
  OBVIOUS
<1>2. \A d \in DOMAIN sizes : sizes[d] > 0 => NumWindows(sizes[d]) \in Nat
  BY <1>1, WindowArithmetic
<1>3. \A v : v \in RunWindows <=> \E d \in DOMAIN sizes : sizes[d] > 0 /\ v \in Of(d)
  BY DEF RunWindows
<1>4. \A d \in DOMAIN sizes : sizes[d] > 0 =>
        \A v : v \in Of(d) <=>
          v \in Windows /\ v.run = run /\ v.dataset = d /\ v.window < NumWindows(sizes[d])
  <2> SUFFICES ASSUME NEW d \in DOMAIN sizes, sizes[d] > 0, NEW v
               PROVE  v \in Of(d) <=>
                        v \in Windows /\ v.run = run /\ v.dataset = d /\ v.window < NumWindows(sizes[d])
    OBVIOUS
  <2> DEFINE K == NumWindows(sizes[d])
  <2>1. K \in Nat /\ d \in Nat
    BY <1>1, <1>2
  <2>2. Of(d) = {[run |-> run, dataset |-> d, window |-> w] : w \in 0 .. K - 1}
    OBVIOUS
  <2> HIDE DEF K, Of
  <2>3. v \in Of(d) => v \in Windows /\ v.run = run /\ v.dataset = d /\ v.window < K
    BY <2>1, <2>2 DEF Windows
  <2>4. ASSUME v \in Windows, v.run = run, v.dataset = d, v.window < K PROVE v \in Of(d)
    <3>1. v.window \in 0 .. K - 1 /\ v = [run |-> run, dataset |-> d, window |-> v.window]
      BY <2>1, <2>4 DEF Windows
    <3> QED BY <2>2, <3>1
  <2> QED BY <2>3, <2>4 DEF K
<1> HIDE DEF Of
<1> QED BY <1>3, <1>4

LEMMA StepRuns == FileIInv /\ RunsInv /\ [Next]_vars => RunsInv'
<1> SUFFICES ASSUME FileIInv, RunsInv, [Next]_vars PROVE RunsInv'
  OBVIOUS
<1>1. run \in Nat /\ NewModel({}).from = {}
  BY NewModelType DEF FileIInv, MemoryInv
<1>2. ASSUME NEW m \in {current, previous}, m \in Model, run' = run, NEW f \in {WholeFile(m)} \cup TornFiles(m)
      PROVE  \A v \in f.model.from : v.run <= run'
  <2>1. f.model.from \subseteq m.from
    <3>1. CASE f = WholeFile(m)
      <4>1. f.model = [m EXCEPT !.trained = m.centroids # {}]
        BY <3>1 DEF WholeFile, Serialized
      <4> QED BY <1>2, <4>1 DEF Model
    <3>2. CASE f \in TornFiles(m)
      <4>1. PICK t \in Torn(m) : f = [model |-> t, whole |-> FALSE]
        BY <3>2 DEF TornFiles
      <4>2. m.from \in SUBSET Windows
        BY <1>2 DEF Model
      <4>3. t.from \subseteq m.from
        <5>1. CASE t = NewModel({}) \/ t = NewModel(m.from)
          BY <4>2, <5>1, NewModelType
        <5>2. CASE \E c \in SUBSET m.centroids : t = [trained |-> TRUE, centroids |-> c, from |-> m.from]
          BY <5>2
        <5> QED BY <5>1, <5>2 DEF Torn
      <4> QED BY <4>1, <4>3
    <3> QED BY <3>1, <3>2
  <2> QED BY <1>2, <2>1 DEF RunsInv
<1>3. ASSUME UNCHANGED run, current' \in {current, previous, NoModel},
             previous' \in {current, previous, NoModel},
             \A p \in DOMAIN disk' : (p \in DOMAIN disk /\ disk'[p] = disk[p])
                                      \/ \A v \in disk'[p].model.from : v.run <= run
      PROVE  RunsInv'
  BY <1>3, NoModelAssumption DEF RunsInv
<1>4. CASE Start
  <2>1. run' = run + 1 /\ previous' = NoModel /\ disk' = disk
        /\ (current' = NoModel \/ \E p \in DOMAIN disk : current' = disk[p].model)
    BY <1>4 DEF Start, NoRun
  <2>2. \A v : v.run <= run /\ v \in Windows => v.run <= run'
    BY <1>1, <2>1 DEF Windows
  <2>3. \A p \in DOMAIN disk : disk[p].model.from \subseteq Windows
    BY DEF FileIInv, DiskInv, FileInv, Model
  <2> QED BY <2>1, <2>2, <2>3, NoModelAssumption DEF RunsInv
<1>5. CASE OpenDataset \/ RejectDataset \/ EndDataset \/ NextDataset \/ EndRun \/ UNCHANGED vars
  BY <1>3, <1>5 DEF OpenDataset, RejectDataset, EndDataset, NextDataset, EndRun, vars, memory
<1>6. CASE Window
  <2>1. CASE Overshoots(WindowEnd(sizes[dataset], window), FlowThreads)
    BY <1>3, <1>6, <2>1 DEF Window, memory
  <2>2. CASE ~Overshoots(WindowEnd(sizes[dataset], window), FlowThreads)
    <3>1. previous' \in Detected(Learned) /\ UNCHANGED <<run, disk, current>>
      BY <1>6, <2>2 DEF Window
    <3>2. previous'.from = Learned.from
      BY <3>1, LearnedFacts, DetectedFacts DEF FileIInv
    <3>3. \A v \in Learned.from : v.run <= run
      <4>1. ThisWindow.run <= run
        BY <1>1 DEF ThisWindow
      <4>2. CASE incremental_learning_enabled /\ previous # NoModel /\ previous.trained
        <5>1. previous \in Model
          BY <4>2 DEF FileIInv, MemoryInv, OptModel
        <5>2. Learned.from = previous.from \cup {ThisWindow}
          BY <4>2, <5>1 DEF Learned, Model
        <5> QED BY <4>1, <5>1, <5>2 DEF RunsInv
      <4>3. CASE ~(incremental_learning_enabled /\ previous # NoModel /\ previous.trained)
        BY <4>1, <4>3 DEF Learned, NewModel
      <4> QED BY <4>2, <4>3
    <3> QED BY <3>1, <3>2, <3>3 DEF RunsInv
  <2> QED BY <2>1, <2>2
<1>7. ASSUME NEW from, NEW to, NEW skipped, NEW path, OpenFile(from, to, skipped, path) PROVE RunsInv'
  <2>1. UNCHANGED <<run, current, previous>> /\ \A p \in DOMAIN disk' :
          (p \in DOMAIN disk /\ disk'[p] = disk[p]) \/ disk'[p].model = NewModel({})
    BY <1>7 DEF OpenFile
  <2> QED BY <1>1, <1>3, <2>1
<1>8. ASSUME NEW from, NEW to, NEW path, NEW m \in {current, previous}, m \in Model,
             WriteFile(from, to, path, m)
      PROVE  RunsInv'
  <2>1. PICK f \in {WholeFile(m)} \cup TornFiles(m) : disk' = [disk EXCEPT ![path] = f]
    BY <1>8 DEF WriteFile
  <2>2. UNCHANGED <<run, current, previous>>
    BY <1>8 DEF WriteFile
  <2>3. \A v \in f.model.from : v.run <= run
    BY <1>2, <1>8, <2>2
  <2>4. \A p \in DOMAIN disk' : (p \in DOMAIN disk /\ disk'[p] = disk[p]) \/ disk'[p] = f
    BY <2>1
  <2> QED BY <1>3, <2>2, <2>3, <2>4
<1>9. CASE Crash
  <2>1. UNCHANGED run /\ current' = NoModel /\ previous' = NoModel
    BY <1>9 DEF Crash, NoRun
  <2>2. CASE phase \in {"write", "finalWrite"}
    <3>1. PICK m, path, f : m \in {current, previous} /\ m \in Model /\ f \in TornFiles(m) /\ disk' = [disk EXCEPT ![path] = f]
      BY <1>9, <2>2 DEF Crash, FileIInv, MemoryInv
    <3>2. \A v \in f.model.from : v.run <= run
      BY <1>2, <2>1, <3>1
    <3>3. \A p \in DOMAIN disk' : (p \in DOMAIN disk /\ disk'[p] = disk[p]) \/ disk'[p] = f
      BY <3>1
    <3> QED BY <1>3, <2>1, <3>2, <3>3
  <2>3. CASE phase \notin {"write", "finalWrite"}
    BY <1>3, <1>9, <2>1, <2>3 DEF Crash
  <2> QED BY <2>2, <2>3
<1>10. CASE WriteFile("write", "window", Path, previous) \/ WriteFile("finalWrite", "done", FinalPath, current)
  <2>1. /\ phase = "write" => previous \in Model
        /\ phase = "finalWrite" => current \in Model
    BY DEF FileIInv, MemoryInv
  <2> QED BY <1>8, <1>10, <2>1 DEF WriteFile
<1> QED BY <1>4, <1>5, <1>6, <1>7, <1>9, <1>10 DEF Next, Idle

(* A step that processes no window and passes the model on.                  *)
LEMMA ChainKept ==
  ASSUME ChainInv, UNCHANGED run, Running, RunWindows' = RunWindows,
         Processed' = Processed, InHand' = InHand, untrained' = untrained,
         phase' = "results" => window' = NumWindows(sizes'[dataset']),
         phase' \in {"final", "finalWrite", "save", "write"} => incremental_learning_enabled,
         phase' \in {"final", "finalWrite"} => dataset' > Len(sizes')
  PROVE  ChainInv'
<1>1. \A x : ChainedTo(x)' <=> ChainedTo(x)
  BY DEF ChainedTo, Before
<1> QED BY <1>1 DEF ChainInv

(* Processing a window: a trained model passes all it has learned on, an     *)
(* untrained one nothing.                                                    *)
LEMMA ChainWindow ==
  ASSUME FileIInv, WindowsInv, RunsInv, ChainInv, phase = "window", window < NumWindows(sizes[dataset]),
         UNCHANGED <<sizes, run, dataset, current>>,
         previous' \in Detected(Learned),
         untrained' = untrained \cup {u \in {ThisWindow} : ~previous'.trained},
         IF incremental_learning_enabled
         THEN phase' = "save" /\ window' = window
         ELSE phase' = "window" /\ window' = window + 1
  PROVE  ChainInv'
<1> DEFINE w == ThisWindow
<1>1. /\ run \in Nat /\ dataset \in DOMAIN sizes /\ dataset \in Nat /\ window \in Nat
      /\ sizes \in Seq(Nat) /\ sizes[dataset] > 0 /\ w \in Windows
  BY LearnedFacts DEF FileIInv, MemoryInv, WindowsInv
<1>2. RunWindows' = RunWindows /\ w \in RunWindows
  <2>1. RunWindows' = RunWindows
    BY DEF RunWindows, NumWindows, EffectiveWindow
  <2>2. w.run = run /\ w.dataset = dataset /\ w.window = window
    BY DEF ThisWindow
  <2> HIDE DEF w
  <2> QED BY <1>1, <2>1, <2>2, RunWindowFacts
<1>3. Processed' = Processed \cup {w}
  <2>1. Reached = window /\ Reached' = window + 1
    BY DEF Reached
  <2>2. \A v \in RunWindows : v.window \in Nat /\ v.dataset \in Nat /\ v.run = run /\ v \in Windows
    BY <1>1, RunWindowFacts DEF Windows
  <2>3. w.run = run /\ w.dataset = dataset /\ w.window = window
    BY DEF ThisWindow
  <2>4. \A v \in RunWindows : v.dataset = dataset /\ v.window = window <=> v = w
    BY <1>1, <2>2, <2>3 DEF Windows, ThisWindow
  <2>5. \A v \in RunWindows : v.window < window + 1 <=> v.window < window \/ v.window = window
    BY <1>1, <2>2
  <2> HIDE DEF w
  <2> QED BY <1>2, <2>1, <2>3, <2>4, <2>5 DEF Processed
<1>4. \A v \in Processed : Before(v, w) /\ ~Before(w, v) /\ v # w /\ v.run = run
  <2>1. \A v \in RunWindows : v.window \in Nat /\ v.dataset \in Nat /\ v.run = run
    BY <1>1, RunWindowFacts DEF Windows
  <2>2. w.run = run /\ w.dataset = dataset /\ w.window = window /\ Reached = window
    BY DEF ThisWindow, Reached
  <2> HIDE DEF w
  <2> QED BY <1>1, <2>1, <2>2 DEF Processed, Before
<1>5. ~Before(w, w) /\ w.run = run
  BY <1>1 DEF Before, ThisWindow
<1>6. Running /\ Running' /\ untrained \subseteq Processed /\ InHand = previous /\ InHand' = previous'
  BY DEF Running, ChainInv, InHand
<1>7. /\ untrained' \subseteq Processed'
      /\ phase' # "results" /\ phase' \notin {"final", "finalWrite"}
      /\ phase' \in {"save", "write"} => incremental_learning_enabled
  BY <1>3, <1>6
<1>8. ASSUME incremental_learning_enabled
      PROVE  previous' \in Model /\ \E x \in Processed' : ChainedTo(x)'
  <2>1. /\ previous' \in Model /\ previous'.from = Learned.from /\ Learned \in Model
        /\ Learned.trained => previous'.trained
    <3>1. Learned \in Model
      BY LearnedFacts DEF FileIInv
    <3> QED BY <3>1, DetectedFacts DEF Detected, Model
  <2>2. \A u \in Processed' \ {w} : Before(u, w)
    BY <1>3, <1>4
  <2>3. w \in untrained' <=> ~previous'.trained
    BY <1>4, <1>6
  <2>4. untrained' \ {w} = untrained
    BY <1>4, <1>6
  <2>5. {v \in Learned.from : v.run = run}
          = {v \in Processed \cup {w} : \A u \in untrained : Before(u, v)}
    <3>1. \A u \in untrained : Before(u, w)
      BY <1>4, <1>6
    <3>2. CASE Processed = {}
      <4>1. untrained = {}
        BY <1>6, <3>2
      <4>2. previous \in Model => \A v \in previous.from : v.run < run
        BY <1>6, <1>8, <3>2 DEF ChainInv
      <4>3. \A v \in Learned.from : v = w \/ (v.run < run /\ v \in Windows)
        <5>1. CASE previous # NoModel /\ previous.trained
          <6>1. previous \in Model
            BY <5>1 DEF FileIInv, MemoryInv, OptModel
          <6>2. Learned.from = previous.from \cup {w}
            BY <1>8, <5>1, <6>1 DEF Learned, Model
          <6> QED BY <4>2, <6>1, <6>2 DEF Model
        <5>2. CASE ~(previous # NoModel /\ previous.trained)
          BY <5>2 DEF Learned, NewModel
        <5> QED BY <5>1, <5>2
      <4>4. w \in Learned.from
        BY LearnedFacts DEF FileIInv
      <4>5. \A v \in Windows : v.run < run => v.run # run
        BY <1>1 DEF Windows
      <4> HIDE DEF w
      <4> QED BY <1>5, <3>2, <4>1, <4>3, <4>4, <4>5
    <3>3. CASE Processed # {}
      <4>1. previous \in Model /\ \E x \in Processed : ChainedTo(x)
        BY <1>6, <1>8, <3>3 DEF ChainInv
      <4>2. PICK x \in Processed : ChainedTo(x)
        BY <4>1
      <4>3. /\ \A u \in Processed \ {x} : Before(u, x)
            /\ x \in untrained <=> ~previous.trained
            /\ {v \in previous.from : v.run = run}
                 = {v \in Processed : \A u \in untrained \ {x} : Before(u, v)}
        BY <1>6, <4>2 DEF ChainedTo
      <4>4. previous # NoModel
        BY <4>1, NoModelAssumption
      <4>5. CASE previous.trained
        <5>1. Learned.from = previous.from \cup {w}
          BY <1>8, <4>1, <4>4, <4>5 DEF Learned, Model
        <5>2. untrained \ {x} = untrained
          BY <4>3, <4>5
        <5> HIDE DEF w
        <5> QED BY <1>5, <3>1, <4>3, <5>1, <5>2
      <4>6. CASE ~previous.trained
        <5>1. Learned.from = {w}
          BY <4>6 DEF Learned, NewModel
        <5>2. x \in untrained
          BY <4>3, <4>6
        <5>3. \A v \in Processed : ~Before(x, v)
          <6>1. \A v \in RunWindows : v.window \in Nat /\ v.dataset \in Nat
            BY <1>1, RunWindowFacts DEF Windows
          <6> QED BY <4>3, <6>1 DEF Processed, Before
        <5> HIDE DEF w
        <5> QED BY <1>5, <3>1, <5>1, <5>2, <5>3
      <4> QED BY <4>5, <4>6 DEF Model
    <3> QED BY <3>2, <3>3
  <2> HIDE DEF w
  <2>6. {v \in previous'.from : v.run = run'}
          = {v \in Processed' : \A u \in untrained' \ {w} : Before(u, v)}
    BY <1>3, <2>1, <2>4, <2>5
  <2>7. ASSUME NEW x, x = w PROVE x \in Processed' /\ ChainedTo(x)'
    BY <1>3, <1>6, <2>2, <2>3, <2>6, <2>7 DEF ChainedTo, Before
  <2> QED BY <2>1, <2>7
<1> HIDE DEF w
<1>9. Processed' # {} /\ w \in Processed'
  BY <1>3
<1>10. incremental_learning_enabled => InHand' \in Model /\ \E x \in Processed' : ChainedTo(x)'
  BY <1>6, <1>8
<1> QED BY <1>6, <1>7, <1>9, <1>10 DEF ChainInv

LEMMA StepChain ==
  FileIInv /\ WindowsInv /\ RunsInv /\ ChainInv /\ [Next]_vars => ChainInv'
<1> SUFFICES ASSUME FileIInv, WindowsInv, RunsInv, ChainInv, [Next]_vars PROVE ChainInv'
  OBVIOUS
<1>1. /\ run \in Nat /\ dataset \in Nat \ {0} /\ window \in Nat /\ sizes \in Seq(Nat)
      /\ UNCHANGED sizes
  BY DEF FileIInv, MemoryInv, WindowsInv, Next, vars, Start, OpenDataset, RejectDataset, Window,
         OpenFile, WriteFile, EndDataset, NextDataset, EndRun, Crash, Idle
<1>2. \A v \in RunWindows : /\ v.window \in Nat /\ v.dataset \in Nat /\ v.run = run
                            /\ v.dataset \in DOMAIN sizes /\ sizes[v.dataset] > 0
                            /\ v.window < NumWindows(sizes[v.dataset])
  BY <1>1, RunWindowFacts DEF Windows
<1>3. UNCHANGED run => RunWindows' = RunWindows
  BY <1>1 DEF RunWindows, NumWindows, EffectiveWindow
<1>4. ASSUME phase' \in {"down", "done", "abort"} PROVE ChainInv'
  BY <1>4 DEF ChainInv, Running
<1>5. CASE Start
  <2>1. /\ run' = run + 1 /\ phase' = "dataset" /\ dataset' = 1 /\ untrained' = {}
        /\ (current' = NoModel \/ \E p \in DOMAIN disk : current' = disk[p].model)
    BY <1>5 DEF Start, NoRun
  <2>2. Processed' = {}
    <3>1. \A v \in RunWindows' : v.dataset \in DOMAIN sizes
      BY <1>1, <2>1 DEF RunWindows
    <3>2. Reached' = 0
      BY <2>1 DEF Reached
    <3>3. \A v \in RunWindows' : v.window \in Nat
      <4>1. \A d \in DOMAIN sizes : \A k \in 0 .. NumWindows(sizes[d]) - 1 : k \in Nat
        BY <1>1, WindowArithmetic
      <4> QED BY <1>1, <4>1 DEF RunWindows, NumWindows, EffectiveWindow
    <3> QED BY <1>1, <2>1, <3>1, <3>2, <3>3 DEF Processed
  <2>3. InHand' = current' /\ (current' \in Model => \A v \in current'.from : v.run < run')
    <3>1. \A p \in DOMAIN disk : disk[p].model.from \subseteq Windows
      BY DEF FileIInv, DiskInv, FileInv, Model
    <3>2. \A v \in Windows : v.run <= run => v.run < run'
      BY <1>1, <2>1 DEF Windows
    <3> QED BY <2>1, <3>1, <3>2, NoModelAssumption DEF InHand, RunsInv
  <2> QED BY <2>1, <2>2, <2>3 DEF ChainInv, Running
<1>6. CASE OpenDataset
  <2>1. UNCHANGED <<run, current, untrained>> /\ phase = "dataset" /\ phase' \in {"dataset", "window"}
        /\ dataset \in DOMAIN sizes
    BY <1>1, <1>6 DEF OpenDataset
  <2>2. Processed' = Processed /\ InHand' = InHand
    <3>1. CASE sizes[dataset] = 0
      <4>1. dataset' = dataset + 1 /\ phase' = "dataset"
        BY <1>6, <3>1 DEF OpenDataset
      <4>2. Reached = 0 /\ Reached' = 0 /\ InHand' = InHand
        BY <2>1, <4>1 DEF Reached, InHand
      <4>3. \A v \in RunWindows : v.dataset # dataset
        BY <1>2, <3>1
      <4> QED BY <1>1, <1>2, <1>3, <2>1, <4>1, <4>2, <4>3 DEF Processed
    <3>2. CASE sizes[dataset] # 0
      <4>1. dataset' = dataset /\ phase' = "window" /\ window' = 0 /\ previous' = current
        BY <1>6, <3>2 DEF OpenDataset
      <4>2. Reached = 0 /\ Reached' = 0 /\ InHand' = InHand
        BY <2>1, <4>1 DEF Reached, InHand
      <4> QED BY <1>3, <2>1, <4>1, <4>2 DEF Processed
    <3> QED BY <3>1, <3>2
  <2> QED BY <1>3, <2>1, <2>2, ChainKept DEF Running
<1>7. CASE Window
  <2>1. CASE Overshoots(WindowEnd(sizes[dataset], window), FlowThreads)
    BY <1>4, <1>7, <2>1 DEF Window
  <2>2. CASE ~Overshoots(WindowEnd(sizes[dataset], window), FlowThreads)
    BY <1>7, <2>2, ChainWindow DEF Window
  <2> QED BY <2>1, <2>2
<1>8. ASSUME phase \in {"save", "write"}, UNCHANGED <<run, dataset, current, previous, untrained>>,
             \/ phase' = "write" /\ window' = window
             \/ phase' = "window" /\ window' = window + 1
      PROVE  ChainInv'
  <2>1. Reached = window + 1 /\ Reached' = window + 1 /\ InHand' = InHand
    BY <1>8 DEF Reached, InHand
  <2>2. Processed' = Processed
    BY <1>3, <1>8, <2>1 DEF Processed
  <2>3. incremental_learning_enabled
    BY <1>8 DEF ChainInv
  <2> QED BY <1>3, <1>8, <2>1, <2>2, <2>3, ChainKept DEF Running
<1>9. CASE OpenFile("save", "write", "window", Path) \/ WriteFile("write", "window", Path, previous)
  BY <1>8, <1>9 DEF OpenFile, WriteFile
<1>10. ASSUME phase \in {"dataset", "final", "finalWrite"},
              UNCHANGED <<run, dataset, current, untrained>>,
              phase' \in {"final", "finalWrite"}, incremental_learning_enabled, dataset > Len(sizes)
       PROVE  ChainInv'
  <2>1. Reached = 0 /\ Reached' = 0 /\ InHand' = InHand
    BY <1>10 DEF Reached, InHand
  <2>2. Processed' = Processed
    BY <1>3, <1>10, <2>1 DEF Processed
  <2> QED BY <1>1, <1>3, <1>10, <2>1, <2>2, ChainKept DEF Running
<1>11. CASE OpenFile("final", "finalWrite", "done", FinalPath) \/ WriteFile("finalWrite", "done", FinalPath, current)
  BY <1>4, <1>10, <1>11 DEF OpenFile, WriteFile, ChainInv
<1>12. CASE EndRun
  BY <1>1, <1>4, <1>10, <1>12 DEF EndRun, memory
<1>13. CASE EndDataset
  <2>1. /\ phase = "window" /\ phase' = "results" /\ current' = previous
        /\ window = NumWindows(sizes[dataset])
        /\ UNCHANGED <<run, dataset, window, untrained>>
    BY <1>13 DEF EndDataset
  <2>2. Reached' = Reached /\ InHand' = InHand
    BY <2>1 DEF Reached, InHand
  <2>3. Processed' = Processed
    BY <1>3, <2>1, <2>2 DEF Processed
  <2>4. window' = NumWindows(sizes'[dataset'])
    BY <1>1, <2>1
  <2> QED BY <1>3, <2>1, <2>2, <2>3, <2>4, ChainKept DEF Running
<1>14. CASE NextDataset
  <2>1. /\ phase = "results" /\ phase' = "dataset" /\ dataset' = dataset + 1
        /\ UNCHANGED <<run, window, current, untrained>>
    BY <1>14 DEF NextDataset
  <2>2. Reached' = 0 /\ Reached = NumWindows(sizes[dataset]) /\ InHand' = InHand
    BY <2>1 DEF Reached, InHand, ChainInv
  <2>3. \A v \in RunWindows :
          (v.dataset < dataset \/ (v.dataset = dataset /\ v.window < Reached))
            <=> v.dataset < dataset + 1 \/ (v.dataset = dataset + 1 /\ v.window < 0)
    BY <1>1, <1>2, <2>2
  <2>4. Processed' = Processed
    BY <1>3, <2>1, <2>2, <2>3 DEF Processed
  <2> QED BY <1>3, <2>1, <2>2, <2>4, ChainKept DEF Running
<1>15. CASE Crash \/ RejectDataset
  BY <1>4, <1>15 DEF Crash, RejectDataset
<1>16. CASE UNCHANGED vars
  BY <1>16 DEF vars, memory, ChainInv, Running, Processed, Reached, RunWindows, InHand, ChainedTo, Before,
               NumWindows, EffectiveWindow
<1> QED BY <1>5, <1>6, <1>7, <1>9, <1>11, <1>12, <1>13, <1>14, <1>15, <1>16 DEF Next, Idle

LEMMA ChainMeaning == FileIInv /\ WindowsInv /\ ChainInv => ChainedLearning
<1> SUFFICES ASSUME FileIInv, WindowsInv, ChainInv, phase \in {"final", "finalWrite"},
                    NEW k \in DOMAIN sizes, sizes[k] > 0
             PROVE  LET last == CHOOSE v \in RunWindows : \A u \in RunWindows \ {v} : Before(u, v)
                    IN  {v \in current.from : v.run = run}
                          = {v \in RunWindows : \A u \in untrained \ {last} : Before(u, v)}
  BY DEF ChainedLearning
<1> DEFINE last == CHOOSE v \in RunWindows : \A u \in RunWindows \ {v} : Before(u, v)
<1>1. run \in Nat /\ dataset \in Nat /\ sizes \in Seq(Nat) /\ dataset > Len(sizes)
  BY DEF FileIInv, MemoryInv, WindowsInv, ChainInv
<1>2. \A v \in RunWindows : v.window \in Nat /\ v.dataset \in Nat /\ v.dataset \in DOMAIN sizes
  BY <1>1, RunWindowFacts DEF Windows
<1>3. Processed = RunWindows
  BY <1>1, <1>2 DEF Processed
<1>4. RunWindows # {}
  <2> DEFINE v == [run |-> run, dataset |-> k, window |-> 0]
  <2>1. NumWindows(sizes[k]) \in Nat \ {0} /\ k \in Nat
    BY <1>1, WindowArithmetic
  <2>2. v \in Windows /\ v.run = run /\ v.dataset = k /\ v.window = 0
    BY <1>1, <2>1 DEF Windows
  <2> HIDE DEF v
  <2> QED BY <1>1, <2>1, <2>2, RunWindowFacts
<1>5. InHand = current /\ Running /\ incremental_learning_enabled
  BY DEF InHand, Running, ChainInv
<1>6. PICK x \in Processed : ChainedTo(x)
  BY <1>3, <1>4, <1>5 DEF ChainInv
<1>7. last = x
  <2>1. \A u \in RunWindows \ {x} : Before(u, x)
    BY <1>3, <1>6 DEF ChainedTo
  <2>2. \A v \in RunWindows : (\A u \in RunWindows \ {v} : Before(u, v)) => v = x
    BY <1>2, <1>3, <2>1 DEF Before
  <2> QED BY <1>3, <2>1, <2>2
<1> HIDE DEF last
<1>8. {v \in current.from : v.run = run}
        = {v \in RunWindows : \A u \in untrained \ {last} : Before(u, v)}
  BY <1>3, <1>5, <1>6, <1>7 DEF ChainedTo
<1> QED BY <1>8 DEF last

(* A run's last model has learned from exactly the windows after which every *)
(* model but the last was trained, for any datasets, runs, crashes, torn     *)
(* files and outcomes of the detection (detector_main.hpp:361-555, 873).     *)
THEOREM LearningChained == Spec => []ChainedLearning
<1>1. Init => RunsInv /\ ChainInv
  BY NoModelAssumption DEF Init, RunsInv, ChainInv, Running
<1> QED BY <1>1, InitFiles, StepFiles, InitWindows, StepWindows, StepRuns, StepChain, ChainMeaning, PTL DEF Spec
================================================================================
