----------------------------- MODULE MCFramePipe -----------------------------
(* TLC instance of FramePipe.  A frame of two chunks can be torn, and a pipe *)
(* of one chunk less than a frame makes the writer wait inside a frame; the  *)
(* real sizes are 307 KB to 1.2 MB and 64 KB.  Of three frames the second is *)
(* not written: both branches of read_frame.  Pictures of 4 x 4 pixels have  *)
(* two pairs in a row and two rows of blocks of four.                        *)
EXTENDS FramePipe

MCWidth == 4
MCHeight == 4
MCMaxRequests == 1
MCMaxGrant == 3
MCDstFrame == 2
MCChunksPerFrame == 2
MCCapacity == 1
MCMaxFrames == 3
=============================================================================
