----------------------------- MODULE MCRtspStream -----------------------------
(* TLC instance of RtspStream: more places for a source, and more files that  *)
(* may be open, than one round needs; files of no frame up to six.           *)
EXTENDS RtspStream

MCMaxFiles == 3
MCMaxFrames == 6
=============================================================================
