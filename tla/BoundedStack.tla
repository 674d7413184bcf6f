----------------------------- MODULE BoundedStack -----------------------------
(***************************************************************************)
(* What rtsp_server::m_framedq promises the two threads that share it: a   *)
(* stack of at most Limit NALUs.  The constructor fills it to its limit    *)
(* with empty pointers, the capture thread pushes at the back when there   *)
(* is room, the rtsp thread takes from the back.                           *)
(***************************************************************************)
EXTENDS Naturals, Sequences

CONSTANTS Limit, Nalus, Null

VARIABLE stack

Init == stack = [i \in 1 .. Limit |-> Null]

Push ==
    /\ Len(stack) < Limit
    /\ \E n \in Nalus : stack' = Append(stack, n)

Pop ==
    /\ stack # <<>>
    /\ stack' = SubSeq(stack, 1, Len(stack) - 1)

Clear == stack' = <<>>

Next == Push \/ Pop \/ Clear

Spec == Init /\ [][Next]_stack
=============================================================================
