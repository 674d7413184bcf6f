------------------------------ MODULE RtspStream ------------------------------
(***************************************************************************)
(* rtsp_task, play and afterPlaying of rtsp.cpp: test.264 is streamed over *)
(* and over again by one RTP sink; every round has a source of its own, a  *)
(* framer that owns a file source.  After the start everything happens in  *)
(* callbacks of liveMedia's event loop, one at a time.                     *)
(*                                                                         *)
(* liveMedia is external: the sink asks its source for a frame, sends it,  *)
(* and has the loop call it for the next one; when the source has no more, *)
(* the function given to startPlaying is called.  Sending packets, RTCP    *)
(* and the RTSP clients, which only listen to the multicast, are left out. *)
(*                                                                         *)
(* The program does not call rtsp_task (task_rtsp runs rtsp_server_start). *)
(***************************************************************************)
EXTENDS Integers, FiniteSets

CONSTANTS
    Sources,    \* the memory a framer with its file source may get
    None,       \* no source
    MaxFiles,   \* files the process may have open at a time
    MaxFrames   \* bound: NAL units in the file

ASSUME RtspAssumption ==
    /\ None \notin Sources
    /\ MaxFiles \in Nat \ {0} /\ MaxFrames \in Nat

VARIABLES
    pc,         \* what rtsp_task or a callback does next; "loop": the event
                \* loop, "exited"
    videoSource,
    open,       \* sources that exist, each with its file open
    left,       \* frames between the position in videoSource's file and its end
    fSource,    \* the sink: what it plays, or None
    waits,      \* the sink: for "frame", a frame of fSource; for "task", to be
                \* called by the loop when the next packet is due; or "idle"
    round       \* history: rounds begun, modulo 2

sink == <<fSource, waits>>
vars == <<pc, videoSource, open, left, sink, round>>

-----------------------------------------------------------------------------
(* rtsp_task *)

\* The sink, RTCP for it, the RTSP server, and the session with the sink.
CreateSink ==
    /\ pc = "sink" /\ pc' = "server"
    /\ UNCHANGED <<videoSource, open, left, sink, round>>

CreateServer ==
    /\ pc = "server" /\ pc' = "play"
    /\ UNCHANGED <<videoSource, open, left, sink, round>>

\* The port is taken: exit(1).
CreateServerFails ==
    /\ pc = "server" /\ pc' = "exited"
    /\ UNCHANGED <<videoSource, open, left, sink, round>>

-----------------------------------------------------------------------------
(* play *)

\* ByteStreamFileSource and H264VideoStreamFramer: the file may be another one
\* than in the round before, and it may be empty.
OpenSource ==
    /\ pc = "play" /\ Cardinality(open) < MaxFiles
    /\ \E s \in Sources \ open, n \in 0 .. MaxFrames :
         /\ videoSource' = s
         /\ open' = open \cup {s}
         /\ left' = n
    /\ pc' = "start"
    /\ UNCHANGED <<sink, round>>

\* Seeded variant: the null pointer is not noticed.
OpenSourceFailsUnnoticed ==
    /\ pc = "play" /\ pc' = "start"
    /\ videoSource' = None
    /\ UNCHANGED <<open, left, sink, round>>

\* There is no such file, or no file descriptor: exit(1).
OpenSourceFails ==
    /\ pc = "play" /\ pc' = "exited"
    /\ UNCHANGED <<videoSource, open, left, sink, round>>

\* Seeded variant: the old source is closed when the new one plays.
StartPlayingThenClose ==
    /\ pc = "start" /\ pc' = "loop"
    /\ fSource' = videoSource /\ waits' = "frame"
    /\ open' = open \ {videoSource}
    /\ round' = 1 - round
    /\ UNCHANGED <<videoSource, left>>

\* startPlaying asks for the first frame; a sink that is playing refuses, which
\* goes unnoticed.
StartPlaying ==
    /\ pc = "start" /\ pc' = "loop"
    /\ IF fSource = None THEN fSource' = videoSource /\ waits' = "frame"
                         ELSE UNCHANGED sink
    /\ round' = 1 - round
    /\ UNCHANGED <<videoSource, open, left>>

-----------------------------------------------------------------------------
(* The event loop *)

\* The source has a frame; the packet goes out and the next one gets its time.
FrameArrives ==
    /\ pc = "loop" /\ waits = "frame" /\ fSource \in open /\ left > 0
    /\ left' = left - 1 /\ waits' = "task"
    /\ UNCHANGED <<pc, videoSource, open, fSource, round>>

SendNext ==
    /\ pc = "loop" /\ waits = "task" /\ waits' = "frame"
    /\ UNCHANGED <<pc, videoSource, open, left, fSource, round>>

\* onSourceClosure: the sink forgets its source and calls afterPlaying.
SourceEnds ==
    /\ pc = "loop" /\ waits = "frame" /\ fSource \in open /\ left = 0
    /\ fSource' = None /\ waits' = "idle"
    /\ pc' = "stop"
    /\ UNCHANGED <<videoSource, open, left, round>>

-----------------------------------------------------------------------------
(* afterPlaying *)

\* Seeded variant: the source is stopped and never closed.
StopPlayingOnly ==
    /\ pc = "stop" /\ pc' = "play"
    /\ fSource' = None /\ waits' = "idle"
    /\ UNCHANGED <<videoSource, open, left, round>>

StopPlaying ==
    /\ pc = "stop" /\ pc' = "close"
    /\ fSource' = None /\ waits' = "idle"
    /\ UNCHANGED <<videoSource, open, left, round>>

\* Seeded variant: no second round.
CloseSourceLast ==
    /\ pc = "close" /\ pc' = "loop"
    /\ open' = open \ {videoSource} /\ left' = 0
    /\ UNCHANGED <<videoSource, sink, round>>

\* Medium::close of the framer, and with it of the file; then play again.
CloseSource ==
    /\ pc = "close" /\ pc' = "play"
    /\ open' = open \ {videoSource} /\ left' = 0
    /\ UNCHANGED <<videoSource, sink, round>>

-----------------------------------------------------------------------------
Init ==
    /\ pc = "sink" /\ videoSource = None /\ open = {} /\ left = 0
    /\ fSource = None /\ waits = "idle" /\ round = 0

Stream == \/ CreateSink \/ CreateServer \/ OpenSource \/ StartPlaying
          \/ FrameArrives \/ SendNext \/ SourceEnds
          \/ StopPlaying \/ CloseSource

Next == Stream \/ CreateServerFails \/ OpenSourceFails

Spec == Init /\ [][Next]_vars

\* doEventLoop serves every event; the file can be read.
LiveSpec == Spec /\ WF_vars(Stream)

-----------------------------------------------------------------------------
(* Properties *)

TypeOK ==
    /\ pc \in {"sink", "server", "play", "start", "loop", "stop", "close",
               "exited"}
    /\ videoSource \in Sources \cup {None}
    /\ pc \in {"start", "loop", "stop", "close"} => videoSource # None
    /\ open \in SUBSET Sources /\ left \in 0 .. MaxFrames
    /\ fSource \in Sources \cup {None}
    /\ waits \in {"idle", "frame", "task"} /\ round \in {0, 1}

\* The sink never asks a source that has been closed, in whatever round, and
\* in the event loop it always has something to wait for.
PlaysOpenSource ==
    /\ fSource # None => fSource \in open
    /\ pc = "loop" => fSource # None /\ waits # "idle"

\* "Note that this also closes the input file that this source read from": no
\* round leaves its file open, so that the process never runs out of them.
NoFileLeftOpen ==
    /\ open \subseteq {videoSource}
    /\ pc = "play" => open = {}

\* "Start playing once again": every round is followed by another, unless the
\* file cannot be opened any more.
RoundsGoOn ==
    \A r \in {0, 1} : (pc = "loop" /\ round = r)
                        ~> (pc = "loop" /\ round # r) \/ pc = "exited"
=============================================================================
