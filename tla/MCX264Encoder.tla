---------------------------- MODULE MCX264Encoder ----------------------------
(* TLC instance of X264Encoder: up to 9 delayed frames, so that a flush can   *)
(* need one packet more than enc_h264_out holds, and fewer.  4 x 4 pixels    *)
(* have two pairs in a row and two rows with chroma that is kept.            *)
EXTENDS X264Encoder

MCMaxDelay == 9
MCWidth == 4
MCHeight == 4
=============================================================================
