------------------------------- MODULE MCDetector ------------------------------
(* Instances of Detector for TLC. *)
EXTENDS Detector

Import(s, lengths) ==
  [sizes |-> s, labelFile |-> [source |-> "import", lengths |-> lengths, train |-> 0]]

Capture(n, length, train) ==
  [sizes |-> <<n>>, labelFile |-> [source |-> "capture", lengths |-> <<length>>, train |-> train]]

(* One window or two, in one dataset or several; an empty dataset, a partial *)
(* window, and one packet for three threads, whose ranges overshoot; a label *)
(* file that does not fit; captures with and without a training part.        *)
SomeInputs ==
  {Import(s, s) : s \in {<<3>>, <<0, 2>>, <<2, 1>>, <<2, 0, 2>>}}
    \cup {Import(<<2, 2>>, <<2, 1>>)}
    \cup {Capture(3, 1, train) : train \in {0, 2}}

(* A part of the capture is set apart, and there are fewer labels than packets. *)
SplitCapture == {Capture(5, 3, 2)}
================================================================================
