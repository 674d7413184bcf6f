------------------------------- MODULE MCSample -------------------------------
(* TLC instance of Sample.  The program accepts two buffers, one for the     *)
(* driver while a frame is worked on.  Two elements are enough for a stale   *)
(* one below a current one, for a full and an empty deque, and for either    *)
(* thread to be overtaken inside a call.                                     *)
EXTENDS Sample

MCMaxGrant == 2
MCMaxDelay == 1
MCLimit == 2
=============================================================================
