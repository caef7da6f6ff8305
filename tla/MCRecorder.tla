---------------------------- MODULE MCRecorder ----------------------------
(* Two producers. Of the second the first update has a symbol, and the     *)
(* second one more levels, than the fields of a BINARY record can say.     *)
EXTENDS Recorder, TLC

CONSTANTS p1, p2

MCUsual == [symbol |-> 255, levels |-> 65535]
MCSizes == <<p2, 1>> :> [symbol |-> 256, levels |-> 1] @@
           <<p2, 2>> :> [symbol |-> 7, levels |-> 65536]
=============================================================================
