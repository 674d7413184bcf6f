----------------------------- MODULE MCFrameDeque -----------------------------
(* TLC instance of FrameDeque.  Two slots are enough for every relative      *)
(* position of the two cursors (full, empty, between); three make room for   *)
(* an element below the two that a race touches.                             *)
EXTENDS FrameDeque

MCLimit == 3
=============================================================================
