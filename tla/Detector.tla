-------------------------------- MODULE Detector -------------------------------
(***************************************************************************)
(* hypervision_detector: start runs the datasets one after the other,      *)
(* process_dataset runs each one's windows, every window's model learns    *)
(* from the one before and is saved to a file, and a later run may start   *)
(* from such a file.  A run may crash at any point; nothing makes a file   *)
(* appear at once, so a crash, or a full disk, may leave a torn one.       *)
(*                                                                         *)
(* The window's flows, edges and graph are those of the other modules; of  *)
(* a traffic_graph, this one keeps what passes from window to window.      *)
(* Single-dataset mode is the sequence of one dataset.                     *)
(***************************************************************************)
EXTENDS Partition, Sequences, FiniteSetsExt

CONSTANTS
  Inputs,                         \* the datasets considered: records [sizes, labelFile]
  window_size,
  incremental_learning_enabled,
  FlowThreads,                    \* threads of construct_flow
  MaxRuns,                        \* runs of the program considered
  Kinds,                          \* the kinds of edges the traffic has
  NoModel                         \* the null pointer

(* The datasets of a run are imported, each with a file of labels, or are   *)
(* the one capture, train_ratio of which is set apart: a number of packets. *)
LabelFile == [source : {"import", "capture"}, lengths : Seq(Nat), train : Nat]

ASSUME InputAssumption ==
  \A x \in Inputs :
    /\ x \in [sizes : Seq(Nat), labelFile : LabelFile]
    /\ Len(x.labelFile.lengths) = Len(x.sizes)
    /\ x.labelFile.source = "import" => x.labelFile.train = 0
    /\ x.labelFile.source = "capture" => Len(x.sizes) = 1 /\ x.labelFile.train <= x.sizes[1]

ASSUME WindowAssumption == window_size \in Nat
ASSUME LearningAssumption == incremental_learning_enabled \in BOOLEAN
ASSUME FlowThreadAssumption == FlowThreads \in Nat \ {0}
ASSUME MaxRunsAssumption == MaxRuns \in Nat
ASSUME KindsAssumption == Kinds \subseteq {"short", "long"}

VARIABLES
  sizes,      \* packets of each dataset
  labelFile,  \* where the labels come from
  run,        \* runs started so far
  phase,
  dataset,    \* dataset_idx
  window,     \* window_idx
  current,    \* current_run_model, model_in_out
  previous,   \* previous_model_for_window
  label,      \* p_label: the packets whose label each is
  results,    \* window_results: the packets of each
  windowLabels,  \* window_results: the labels of each
  untrained,  \* windows of this run whose model is not trained
  disk        \* the model files

memory == <<dataset, window, current, previous, label, results, windowLabels, untrained>>
vars == <<sizes, labelFile, run, phase, memory, disk>>

(* What a model carries on: has_trained_model, which centroid matrices are   *)
(* not empty, and the windows whose parameters are blended into its own.     *)
Windows == [run : Nat, dataset : Nat, window : Nat]
Model == [trained : BOOLEAN, centroids : SUBSET Kinds, from : SUBSET Windows]

ASSUME NoModelAssumption == NoModel \notin Model

NewModel(windows) == [trained |-> FALSE, centroids |-> {}, from |-> windows]

ThisWindowBefore == [run |-> run, dataset |-> dataset, window |-> window - 1]
ThisWindow == [run |-> run, dataset |-> dataset, window |-> window]

(* A model file is named for its dataset and window; final_*_model.bin, the  *)
(* file of a whole run, has window number -1 here.                           *)
Path == <<dataset, window>>
FinalPath == <<-1, -1>>

-------------------------------------------------------------------------------
(* do_dataset_construct and import_dataset *)

(* The label of packet i, counted from 0, is character i of the label file;  *)
(* false where there is none to read, and what happens to be in memory       *)
(* beyond the end of the string.                                             *)
NoLabel == -1
Garbage == -2

(* ll[i] *)
Character(i, length) == IF i < length THEN i ELSE IF i = length THEN NoLabel ELSE Garbage

ImportedLabels(d) == [i \in 1 .. labelFile.lengths[d] |-> i - 1]

(* The labels of the test part. *)
CaptureLabels(d) ==
  LET length == labelFile.lengths[d]
  IN  [k \in 1 .. sizes[d] - labelFile.train |->
         IF k - 1 < length THEN Character(k - 1 + labelFile.train, length) ELSE NoLabel]

Labels(d) == IF labelFile.source = "import" THEN ImportedLabels(d) ELSE CaptureLabels(d)

(* assert(p_label->size() == p_parse_result->size()) *)
LabelsAccepted(d) == labelFile.source = "import" => labelFile.lengths[d] = sizes[d]

-------------------------------------------------------------------------------
(* process_dataset's windows *)

EffectiveWindow(n) == IF window_size = 0 \/ n < window_size THEN n ELSE window_size

NumWindowsFloor(n) == n \div EffectiveWindow(n)
NumWindows(n) == (n + EffectiveWindow(n) - 1) \div EffectiveWindow(n)

(* Windows grow: each starts at packet 0. *)
WindowEnd(n, w) == Min({(w + 1) * EffectiveWindow(n), n})

(* window_label: those there are, false for the rest. *)
WindowLabelShort(size) == [i \in 1 .. size |-> IF i < Len(label) THEN label[i] ELSE NoLabel]
WindowLabel(size) == [i \in 1 .. size |-> IF i <= Len(label) THEN label[i] ELSE NoLabel]

-------------------------------------------------------------------------------
(* Model files *)

(* serialize, as deserialize reads it back: the flag is made from the        *)
(* centroids, not from has_trained_model.                                    *)
Serialized(m) == [m EXCEPT !.trained = m.centroids # {}]

TornFlagFirst(m) ==
  {NewModel({})} \cup {[trained |-> m.centroids # {}, centroids |-> {}, from |-> {}]}

(* What is read back from a part of the file: deserialize never looks at the *)
(* state of the stream.  Parameters come first, then the flag, then the      *)
(* centroids, short before long.                                             *)
Torn(m) ==
  {NewModel({}), NewModel(m.from)}
    \cup {[trained |-> TRUE, centroids |-> c, from |-> m.from] :
            c \in {c \in SUBSET m.centroids : m.centroids # {} /\ ("long" \in c => c = m.centroids)}}

File == [model : Model, whole : BOOLEAN]
TornFiles(m) == {[model |-> t, whole |-> FALSE] : t \in Torn(m)}
WholeFile(m) == [model |-> Serialized(m), whole |-> TRUE]

-------------------------------------------------------------------------------
(* start *)

NoRun ==
  /\ dataset' = 1 /\ window' = 0
  /\ previous' = NoModel /\ label' = <<>>
  /\ results' = <<>> /\ windowLabels' = <<>> /\ untrained' = {}

Init ==
  /\ \E x \in Inputs : sizes = x.sizes /\ labelFile = x.labelFile
  /\ run = 0
  /\ phase = "down"
  /\ dataset = 1 /\ window = 0
  /\ current = NoModel /\ previous = NoModel
  /\ label = <<>> /\ results = <<>> /\ windowLabels = <<>> /\ untrained = {}
  /\ disk = [p \in {} |-> NoModel]

(* load_model: a file that opens is a model, torn or not. *)
Start ==
  /\ phase \in {"down", "done", "abort"} /\ run < MaxRuns
  /\ run' = run + 1
  /\ current' \in {NoModel}
       \cup (IF incremental_learning_enabled THEN {disk[p].model : p \in DOMAIN disk} ELSE {})
  /\ phase' = "dataset"
  /\ NoRun
  /\ UNCHANGED <<sizes, labelFile, disk>>

(* The head of the dataset loop, up to the windows. *)
OpenDataset ==
  /\ phase = "dataset" /\ dataset <= Len(sizes) /\ LabelsAccepted(dataset)
  /\ results' = <<>> /\ windowLabels' = <<>>
  /\ IF sizes[dataset] = 0
     THEN dataset' = dataset + 1 /\ label' = <<>> /\ UNCHANGED <<phase, window, previous>>
     ELSE /\ label' = Labels(dataset)
          /\ previous' = current
          /\ window' = 0
          /\ phase' = "window"
          /\ UNCHANGED dataset
  /\ UNCHANGED <<sizes, labelFile, run, current, untrained, disk>>

RejectDataset ==
  /\ phase = "dataset" /\ dataset <= Len(sizes) /\ ~LabelsAccepted(dataset)
  /\ phase' = "abort"
  /\ UNCHANGED <<sizes, labelFile, run, memory, disk>>

(* apply_incremental_learning on the window's new graph. *)
Learned ==
  IF incremental_learning_enabled /\ previous # NoModel /\ previous.trained
  THEN [previous EXCEPT !.from = @ \cup {ThisWindow}]
  ELSE NewModel({ThisWindow})

(* graph_detect: of each kind, the last component with such edges, if any,   *)
(* leaves its centroids; if all the edges are noise there are none.          *)
Detected(m) ==
  {[m EXCEPT !.trained = m.trained \/ kinds.met # {},
             !.centroids = (@ \ kinds.met) \cup kinds.found] :
     kinds \in {k \in [met : SUBSET Kinds, found : SUBSET Kinds] : k.found \subseteq k.met}}

Window ==
  /\ phase = "window" /\ window < NumWindows(sizes[dataset])
  /\ LET size == WindowEnd(sizes[dataset], window)
     IN  IF Overshoots(size, FlowThreads)
         THEN phase' = "abort" /\ UNCHANGED memory
         ELSE /\ previous' \in Detected(Learned)
              /\ results' = Append(results, size)
              /\ windowLabels' = Append(windowLabels, WindowLabel(size))
              /\ untrained' = untrained \cup {u \in {ThisWindow} : ~previous'.trained}
              /\ IF incremental_learning_enabled
                 THEN phase' = "save" /\ UNCHANGED window
                 ELSE window' = window + 1 /\ UNCHANGED phase
              /\ UNCHANGED <<dataset, current, label>>
  /\ UNCHANGED <<sizes, labelFile, run, disk>>

(* save_model opens and truncates the file, or cannot and gives up. *)
OpenFile(from, to, skipped, path) ==
  /\ phase = from
  /\ \/ /\ disk' = [p \in DOMAIN disk \cup {path} |->
                      IF p = path THEN [model |-> NewModel({}), whole |-> FALSE] ELSE disk[p]]
        /\ phase' = to
        /\ UNCHANGED window
     \/ /\ phase' = skipped
        /\ window' = window + 1
        /\ UNCHANGED disk
  /\ UNCHANGED <<sizes, labelFile, run, dataset, current, previous, label, results, windowLabels,
                 untrained>>

(* serialize and close: a failed write raises nothing. *)
WriteFile(from, to, path, m) ==
  /\ phase = from
  /\ \E f \in {WholeFile(m)} \cup TornFiles(m) : disk' = [disk EXCEPT ![path] = f]
  /\ phase' = to
  /\ window' = window + 1
  /\ UNCHANGED <<sizes, labelFile, run, dataset, current, previous, label, results, windowLabels,
                 untrained>>

EndDatasetKeepsModel ==
  /\ phase = "window" /\ window = NumWindows(sizes[dataset])
  /\ phase' = "results"
  /\ UNCHANGED <<sizes, labelFile, run, memory, disk>>

EndDataset ==
  /\ phase = "window" /\ window = NumWindows(sizes[dataset])
  /\ current' = previous
  /\ phase' = "results"
  /\ UNCHANGED <<sizes, labelFile, run, dataset, window, previous, label, results, windowLabels,
                 untrained, disk>>

(* do_save2, and what start clears between datasets. *)
NextDataset ==
  /\ phase = "results"
  /\ label' = <<>> /\ results' = <<>> /\ windowLabels' = <<>>
  /\ dataset' = dataset + 1
  /\ phase' = "dataset"
  /\ UNCHANGED <<sizes, labelFile, run, window, current, previous, untrained, disk>>

EndRun ==
  /\ phase = "dataset" /\ dataset > Len(sizes)
  /\ phase' = IF current # NoModel /\ incremental_learning_enabled THEN "final" ELSE "done"
  /\ UNCHANGED <<sizes, labelFile, run, memory, disk>>

Crash ==
  /\ phase \notin {"down", "done", "abort"}
  /\ phase' = "down"
  /\ current' = NoModel
  /\ NoRun
  /\ CASE phase = "write" -> \E f \in TornFiles(previous) : disk' = [disk EXCEPT ![Path] = f]
       [] phase = "finalWrite" -> \E f \in TornFiles(current) : disk' = [disk EXCEPT ![FinalPath] = f]
       [] OTHER -> UNCHANGED disk
  /\ UNCHANGED <<sizes, labelFile, run>>

Idle == phase \in {"down", "done", "abort"} /\ run = MaxRuns /\ UNCHANGED vars

Next ==
  \/ Start \/ OpenDataset \/ RejectDataset \/ Window
  \/ OpenFile("save", "write", "window", Path)
  \/ WriteFile("write", "window", Path, previous)
  \/ EndDataset \/ NextDataset \/ EndRun
  \/ OpenFile("final", "finalWrite", "done", FinalPath)
  \/ WriteFile("finalWrite", "done", FinalPath, current)
  \/ Crash \/ Idle

Spec == Init /\ [][Next]_vars

-------------------------------------------------------------------------------
(* Properties *)

DetTypeOK ==
  /\ [sizes |-> sizes, labelFile |-> labelFile] \in Inputs
  /\ run \in 0 .. MaxRuns
  /\ phase \in {"down", "dataset", "window", "save", "write", "results",
                "final", "finalWrite", "done", "abort"}
  /\ dataset \in 1 .. Len(sizes) + 1
  /\ window \in Nat
  /\ current \in {NoModel} \cup Model /\ previous \in {NoModel} \cup Model
  /\ label \in Seq(Int)
  /\ results \in Seq(Nat) /\ windowLabels \in Seq(Seq(Int)) /\ Len(windowLabels) = Len(results)
  /\ untrained \subseteq Windows
  /\ \A p \in DOMAIN disk : disk[p] \in File

(* The results of a dataset end with one of all its packets, and from one to *)
(* the next the window grows by window_size at most, whatever the sizes      *)
(* (lines 340-383: window size 0, more packets than data, a partial window). *)
WindowsCoverDataset ==
  phase = "results" =>
    LET n == sizes[dataset]
    IN  /\ Len(results) > 0 /\ results[Len(results)] = n
        /\ \A i \in 2 .. Len(results) : results[i - 1] < results[i]
        /\ window_size # 0 =>
             \A i \in DOMAIN results :
               results[i] - (IF i = 1 THEN 0 ELSE results[i - 1]) <= window_size

(* When no training part is set apart, the labels of each window are its     *)
(* packets' own, false where the label file is too short (lines 400-411,     *)
(* basic_dataset.cpp:18-47, basic_dataset.hpp:143-155).                      *)
LabelsOfPackets ==
  labelFile.train = 0 =>
    \A w \in DOMAIN windowLabels : \A i \in DOMAIN windowLabels[w] :
      windowLabels[w][i] = IF i <= labelFile.lengths[dataset] THEN i - 1 ELSE NoLabel

(* "Labels corresponding to train_data" (line 400) and "only use the portion *)
(* of labels corresponding to the test set" (basic_dataset.cpp:33): whatever *)
(* part of a capture is set apart, no packet of a window has the label of    *)
(* another, or one read beyond the end of the label string.                  *)
LabelsCorrespond ==
  \A w \in DOMAIN windowLabels : \A i \in DOMAIN windowLabels[w] :
    windowLabels[w][i] \in {i - 1, NoLabel}

(* Order of this run's windows. *)
Before(a, b) ==
  a.dataset < b.dataset \/ (a.dataset = b.dataset /\ a.window < b.window)

RunWindows ==
  UNION {{[run |-> run, dataset |-> d, window |-> w] : w \in 0 .. NumWindows(sizes[d]) - 1} :
           d \in {k \in DOMAIN sizes : sizes[k] > 0}}

(* Chained learning: the model a run ends with has learned from exactly the  *)
(* windows of all datasets that no untrained model came between, because     *)
(* an untrained one passes nothing on (lines 361-371, 458-471, 555, 873).    *)
ChainedLearning ==
  (phase \in {"final", "finalWrite"} /\ \E k \in DOMAIN sizes : sizes[k] > 0) =>
    LET last == CHOOSE v \in RunWindows : \A u \in RunWindows \ {v} : Before(u, v)
    IN  {v \in current.from : v.run = run}
          = {v \in RunWindows : \A u \in untrained \ {last} : Before(u, v)}

(* Any file, torn or whole, that loads as a trained model holds the          *)
(* parameters of the window it is named for: they are written before the     *)
(* flag (graph_define.hpp:419-464), which is all that protects a later run,  *)
(* for loading checks nothing (481-532).                                     *)
TrainedFileHasItsWindow ==
  \A p \in DOMAIN disk :
    p # FinalPath /\ disk[p].model.trained =>
      \E v \in disk[p].model.from : v.dataset = p[1] /\ v.window = p[2]

(* "Save has_trained_model flag" (graph_define.hpp:438): a file written      *)
(* whole reads back as trained as the model it was made from.                *)
SavedFlag ==
  [][phase = "write" /\ phase' = "window" /\ disk'[Path].whole =>
       disk'[Path].model.trained = previous.trained]_vars
================================================================================
