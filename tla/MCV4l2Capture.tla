---------------------------- MODULE MCV4l2Capture ----------------------------
(* TLC instance of V4l2Capture: the program asks for 4 buffers; a driver that *)
(* grants 0 to 5 covers refusal, the minimum of 2, the request and more.     *)
EXTENDS V4l2Capture

MCMaxGrant == 5
=============================================================================
