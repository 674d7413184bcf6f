-------------------------------- MODULE Sample --------------------------------
(***************************************************************************)
(* The sample program, Project/main.cpp: the main thread configures the    *)
(* camera and waits for a 'q'; the capture thread moves frames from the    *)
(* camera through the encoder into rtsp->m_framedq; the rtsp thread        *)
(* (rtsp_server_start) takes them out again.                               *)
(*                                                                         *)
(* V4l2Capture, X264Encoder and FrameDeque supply the calls.  The calls on *)
(* the deque are not locked, so they are made here as they are there, one  *)
(* memory access at a time, with the other threads running in between.     *)
(* Waiting for the server, for a frame (DQBUF, EAGAIN) or for a key is a   *)
(* stuttering step.                                                        *)
(***************************************************************************)
EXTENDS Integers, Sequences

CONSTANTS
    MaxGrant, NoFrame,  \* of V4l2Capture
    MaxDelay,           \* of X264Encoder
    Limit               \* m_dqlimit, 10 in the constructor

ASSUME SampleAssumption ==
    /\ MaxGrant \in Nat /\ MaxGrant >= 2 /\ NoFrame \notin Nat
    /\ MaxDelay \in Nat /\ Limit \in Nat \ {0}

VARIABLES
    proc, phase, granted, mapped, next, owner, frame,  \* V4l2Capture
    handle, pic, delayed, out, crash,                          \* X264Encoder
    server,         \* the global rtsp: "null", "alive", "deleted"
    fin, slots, ppc, pcur, pnalu, cpc, ccur, cnalu,
    fault, overlap, \* FrameDeque, rtsp->m_framedq
    ret,            \* what Enc_yuvToh264 returned last; nobody reads it
    exit1, exit2,   \* the threads' exit flags
    main, capture, rtspd    \* where the three threads are

camera == <<proc, phase, granted, mapped, next, owner, frame>>
encoder == <<handle, pic, delayed, out, ret>>
deque == <<fin, slots, ppc, pcur, pnalu, cpc, ccur, cnalu, fault, overlap>>
queue == <<server, deque>>
flags == <<exit1, exit2>>
vars == <<camera, encoder, crash, queue, flags, main, capture, rtspd>>

V == INSTANCE V4l2Capture

E == INSTANCE X264Encoder
       WITH Eofs <- {0}, call <- "idle", eof <- 0, before <- 0,
            planes <- <<>>, Width <- 2, Height <- 2

\* An element is told by what its payload is worth.
D == INSTANCE FrameDeque
       WITH Nalus <- E!Payloads, Null <- "empty", Dangling <- "dangling"

Alive == proc = "running" /\ ~crash /\ ~fault /\ main # "end"

MainAt(pc) == Alive /\ main = pc
CaptureAt(pc) == Alive /\ capture = pc
RtspAt(pc) == Alive /\ rtspd = pc

-----------------------------------------------------------------------------
(* main() *)

\* v4l2_dev_config.
Configure ==
    /\ MainAt("config")
    /\ V!Config
    /\ main' = IF phase' = "streaming" THEN "create1" ELSE "config"
    /\ UNCHANGED <<encoder, crash, queue, flags, capture, rtspd>>

\* The results of pthread_create are ignored.
CreateCapture ==
    /\ MainAt("create1")
    /\ main' = "create2"
    /\ capture' \in {"wait", "failed"}
    /\ UNCHANGED <<camera, encoder, crash, queue, flags, rtspd>>

CreateRtsp ==
    /\ MainAt("create2")
    /\ main' = "getchar"
    /\ rtspd' \in {"new", "failed"}
    /\ UNCHANGED <<camera, encoder, crash, queue, flags, capture>>

\* The user types 'q'.
Quit ==
    /\ MainAt("getchar")
    /\ main' = "exit1"
    /\ UNCHANGED <<camera, encoder, crash, queue, flags, capture, rtspd>>

SetExit1 ==
    /\ MainAt("exit1")
    /\ exit1' = 1
    /\ main' = "exit2"
    /\ UNCHANGED <<camera, encoder, crash, queue, exit2, capture, rtspd>>

SetExit2 ==
    /\ MainAt("exit2")
    /\ exit2' = 1
    /\ main' = "join1"
    /\ UNCHANGED <<camera, encoder, crash, queue, exit1, capture, rtspd>>

\* pthread_join returns when the thread is done; for a thread that was never
\* created the id is uninitialized, and it returns an error or crashes.
Join(thread, then) ==
    \/ thread = "done" /\ main' = then /\ UNCHANGED crash
    \/ thread = "failed" /\ main' = then /\ UNCHANGED crash
    \/ thread = "failed" /\ crash' = TRUE /\ UNCHANGED main

JoinCapture ==
    /\ MainAt("join1")
    /\ Join(capture, "join2")
    /\ UNCHANGED <<camera, encoder, queue, flags, capture, rtspd>>

\* Seeded variant: the second thread is not waited for.
JoinRtspForgotten ==
    /\ MainAt("join2")
    /\ main' = "delete"
    /\ UNCHANGED <<camera, encoder, crash, queue, flags, capture, rtspd>>

JoinRtsp ==
    /\ MainAt("join2")
    /\ Join(rtspd, "delete")
    /\ UNCHANGED <<camera, encoder, queue, flags, capture, rtspd>>

\* delete rtsp (of a null pointer: nothing), then main returns.
DeleteServer ==
    /\ MainAt("delete")
    /\ \/ server = "alive" /\ server' = "deleted" /\ D!ClearDeque
       \/ server # "alive" /\ UNCHANGED queue
    /\ main' = "end"
    /\ UNCHANGED <<camera, encoder, crash, flags, capture, rtspd>>

Main == \/ Configure \/ CreateCapture \/ CreateRtsp \/ SetExit1 \/ SetExit2
        \/ JoinCapture \/ JoinRtsp \/ DeleteServer

-----------------------------------------------------------------------------
(* task_uvc_capture_encode *)

\* The loop on rtsp == nullptr ends.
ServerSeen ==
    /\ CaptureAt("wait")
    /\ server # "null"
    /\ capture' = "open"
    /\ UNCHANGED <<camera, encoder, crash, queue, flags, main, rtspd>>

OpenEncoder ==
    /\ CaptureAt("open")
    /\ E!OpenHandle
    /\ capture' = "loop"
    /\ UNCHANGED <<camera, delayed, out, ret, crash, queue, flags, main, rtspd>>

TestExit ==
    /\ CaptureAt("loop")
    /\ capture' = IF exit1 = 0 THEN "read" ELSE "close"
    /\ UNCHANGED <<camera, encoder, crash, queue, flags, main, rtspd>>

\* Seeded variant: the buffer goes back to the driver as soon as it is read.
ReadAndRequeue ==
    /\ CaptureAt("read")
    /\ \E b \in V!Buffers :
         /\ owner[b] = "done"
         /\ owner' = [owner EXCEPT ![b] = "queued"]
         /\ frame' = b
    /\ capture' = "encode"
    /\ UNCHANGED <<proc, phase, granted, mapped, next>>
    /\ UNCHANGED <<encoder, crash, queue, flags, main, rtspd>>

\* v4l2_read_frame returns a frame, ...
Read ==
    /\ CaptureAt("read")
    /\ V!Dqbuf
    /\ capture' = "encode"
    /\ UNCHANGED <<proc, phase, granted, mapped, next>>
    /\ UNCHANGED <<encoder, crash, queue, flags, main, rtspd>>

\* ... or ends the process.
ReadFails ==
    /\ CaptureAt("read")
    /\ \E why \in V!DqbufErrors : V!Die(why)
    /\ UNCHANGED <<encoder, crash, queue, flags, main, capture, rtspd>>

\* A call into libx264: what the deque and the rtsp thread hold goes stale.
PayloadsGoStale ==
    /\ slots' = E!Stale(slots)
    /\ cnalu' = E!Stale(<<cnalu>>)[1]
    /\ UNCHANGED <<fin, ppc, pcur, pnalu, cpc, ccur, fault, overlap>>

\* Seeded variant: a failed call is answered by "continue".
EncodeOrContinue ==
    /\ CaptureAt("encode")
    /\ E!EncodePicture
    /\ PayloadsGoStale
    /\ capture' = IF ret' = -1 THEN "loop" ELSE "packet"
    /\ UNCHANGED <<camera, handle, pic, crash, server, flags, main, rtspd>>

\* Enc_yuvToh264; its result is ignored.
Encode ==
    /\ CaptureAt("encode")
    /\ E!EncodePicture
    /\ PayloadsGoStale
    /\ capture' = "packet"
    /\ UNCHANGED <<camera, handle, pic, crash, server, flags, main, rtspd>>

\* The loop over out.framenum: room and a new nalu_data, whose payload is the
\* pointer into libx264's memory; or "Deque is full".
NextPacket ==
    /\ CaptureAt("packet")
    /\ \/ /\ out = <<>>
          /\ capture' = "release"
          /\ UNCHANGED <<out, deque>>
       \/ /\ out # <<>>
          /\ D!CheckRoom /\ pnalu' = Head(out)
          /\ capture' = "push"
          /\ UNCHANGED out
       \/ /\ out # <<>> /\ ~D!Room
          /\ capture' = "packet"
          /\ out' = Tail(out)
          /\ UNCHANGED deque
    /\ UNCHANGED <<camera, handle, pic, delayed, ret, crash, server, flags, main, rtspd>>

\* Seeded variant: push_front in place of push_back.
PushFront ==
    /\ CaptureAt("push")
    /\ slots' = [i \in D!Slots |->
                   IF i = 0 THEN pnalu
                   ELSE IF i <= fin THEN slots[i - 1] ELSE slots[i]]
    /\ fin' = fin + 1
    /\ ppc' = "idle" /\ pnalu' = "empty"
    /\ capture' = "packet"
    /\ out' = Tail(out)
    /\ UNCHANGED <<camera, handle, pic, delayed, ret, crash, server, flags, main, rtspd>>
    /\ UNCHANGED <<pcur, cpc, ccur, cnalu, fault, overlap>>

\* An access of push_back; with the last one the turn of the loop ends.
Push ==
    /\ CaptureAt("push")
    /\ D!PushLoad \/ D!PushConstruct \/ D!PushReload \/ D!PushStore
    /\ capture' = IF ppc' = "idle" THEN "packet" ELSE "push"
    /\ out' = IF ppc' = "idle" THEN Tail(out) ELSE out
    /\ UNCHANGED <<camera, handle, pic, delayed, ret, crash, server, flags, main, rtspd>>

\* v4l2_release_frame.
Release ==
    /\ CaptureAt("release")
    /\ \/ /\ V!Qbuf(frame)
          /\ frame' = NoFrame
          /\ capture' = "loop"
          /\ UNCHANGED <<proc, phase, granted, mapped, next>>
       \/ V!QbufFails(frame) /\ UNCHANGED capture
    /\ UNCHANGED <<encoder, crash, queue, flags, main, rtspd>>

CloseEncoder ==
    /\ CaptureAt("close")
    /\ E!CloseHandle
    /\ PayloadsGoStale
    /\ capture' = "reset"
    /\ UNCHANGED <<camera, delayed, out, ret, server, flags, main, rtspd>>

\* *pExit = 0: the flag is lowered again.
ResetExit ==
    /\ CaptureAt("reset")
    /\ exit1' = 0
    /\ capture' = "done"
    /\ UNCHANGED <<camera, encoder, crash, queue, exit2, main, rtspd>>

Capture == \/ ServerSeen \/ OpenEncoder \/ TestExit \/ Read \/ Encode
           \/ NextPacket \/ Push \/ Release \/ CloseEncoder \/ ResetExit

-----------------------------------------------------------------------------
(* task_rtsp *)

\* The constructor has filled the deque when the pointer is published; it is
\* there from the start, since nobody can look at it before.
NewServer ==
    /\ RtspAt("new")
    /\ server' = "alive"
    /\ rtspd' = "loop"
    /\ UNCHANGED <<camera, encoder, crash, deque, flags, main, capture>>

\* Seeded variant: both threads are given the address of exit1.
RtspExitShared == exit1 # 0

RtspExit == exit2 # 0

RtspLoop ==
    /\ RtspAt("loop")
    /\ rtspd' = IF RtspExit THEN "done" ELSE "empty"
    /\ UNCHANGED <<camera, encoder, crash, queue, flags, main, capture>>

\* Seeded variant: back() without the test.
CheckEmptyForgotten ==
    /\ RtspAt("empty")
    /\ cpc' = "back" /\ rtspd' = "take"
    /\ UNCHANGED <<fin, slots, ppc, pcur, pnalu, ccur, cnalu, fault, overlap>>
    /\ UNCHANGED <<camera, encoder, crash, server, flags, main, capture>>

CheckEmpty ==
    /\ RtspAt("empty")
    /\ \/ D!CheckEmpty /\ rtspd' = "take"
       \/ ~D!Something /\ rtspd' = "loop" /\ UNCHANGED deque
    /\ UNCHANGED <<camera, encoder, crash, server, flags, main, capture>>

\* An access of back() or pop_back(); the element read dies with the loop body.
Take ==
    /\ RtspAt("take")
    /\ \/ D!BackLoad \/ D!BackCopy
       \/ D!PopLoad \/ D!PopStore \/ D!PopReload \/ D!PopDestroy
    /\ rtspd' = IF cpc' = "idle" THEN "loop" ELSE "take"
    /\ UNCHANGED <<camera, encoder, crash, server, flags, main, capture>>

Rtsp == NewServer \/ RtspLoop \/ CheckEmpty \/ Take

-----------------------------------------------------------------------------
DriverFill ==
    /\ Alive
    /\ V!DriverFill
    /\ UNCHANGED <<encoder, crash, queue, flags, main, capture, rtspd>>

Init ==
    /\ V!Init
    /\ handle = "null" /\ pic = "none" /\ delayed = 0 /\ out = <<>> /\ ret = 0
    /\ crash = FALSE
    /\ server = "null" /\ D!Init
    /\ exit1 = 0 /\ exit2 = 0
    /\ main = "config" /\ capture = "none" /\ rtspd = "none"

Next == Main \/ Quit \/ Capture \/ ReadFails \/ Rtsp \/ DriverFill

Spec == Init /\ [][Next]_vars

\* The scheduler runs every thread.  The camera need not deliver, the user
\* need not type 'q'.
ThreadsRun == WF_vars(Main) /\ WF_vars(Capture) /\ WF_vars(Rtsp)

ThreadSpec == Spec /\ ThreadsRun

\* In addition the camera fills queued buffers.
LiveSpec == ThreadSpec /\ WF_vars(DriverFill)

-----------------------------------------------------------------------------
(* Properties *)

TypeOK ==
    /\ V!TypeOK
    /\ handle \in {"null", "open", "dangling"} /\ pic \in {"none", "allocated"}
    /\ delayed \in 0 .. MaxDelay /\ ret \in {0, -1} /\ crash \in BOOLEAN
    /\ out \in {<<>>, <<"current">>}
    /\ server \in {"null", "alive", "deleted"}
    /\ D!TypeOK /\ fin <= Limit
    /\ exit1 \in {0, 1} /\ exit2 \in {0, 1}
    /\ main \in {"config", "create1", "create2", "getchar", "exit1", "exit2",
                 "join1", "join2", "delete", "end"}
    /\ capture \in {"none", "failed", "wait", "open", "loop", "read", "encode",
                    "packet", "push", "release", "close", "reset", "done"}
    /\ rtspd \in {"none", "failed", "new", "loop", "empty", "take", "done"}

\* From DQBUF to the release the capture thread works on a mapped buffer that
\* the driver does not own, and never on a server that is not there.
WorksOnOwnFrame ==
    capture \in {"encode", "packet", "push", "release"} =>
        /\ frame # NoFrame /\ frame < mapped /\ owner[frame] = "app"
        /\ server = "alive"

\* The server is deleted only after both threads have ended, for good.
ServerOutlivesThreads ==
    server = "deleted" =>
        capture \in {"done", "failed"} /\ rtspd \in {"done", "failed"}

\* The only NALU whose payload libx264 still keeps is the newest, which is the
\* one back() returns.  Race or no race: no stale cursor puts a push below an
\* element that is still current, or the size two above it.
CurrentPayloadOnTop ==
    \A i \in 0 .. fin - 1 : slots[i] = "current" => i = fin - 1

\* Between the two tests and the two uses the deque may change, and yet the
\* push finds room and the take an element.
TestsStillHold ==
    /\ CaptureAt("push") => fin < Limit
    /\ RtspAt("take") /\ cpc \in {"back", "pop"} => fin > 0

\* The frame loop, step by step, keeps to the capture protocol of V4l2Capture.
CaptureProtocol == V!Spec

\* The program uses the deque only as the threads of FrameDeque do: each call
\* comes after its test and after the one before has returned, and clear() when
\* neither thread is in a call or will make another.  So what is claimed there,
\* with the race, is what the program has: no more, and no less.  The payloads
\* are not told apart there.
Worth(v) == IF v \in E!Payloads THEN "nalu" ELSE v
Protocol == INSTANCE FrameDeque
              WITH Nalus <- {"nalu"}, Null <- "empty", Dangling <- "dangling",
                   slots <- [i \in D!Slots |-> Worth(slots[i])],
                   pnalu <- Worth(pnalu), cnalu <- Worth(cnalu)
DequeProtocol == Protocol!Spec

\* After 'q' the program ends, one way or the other, unless the one failure
\* that keeps it came before: a capture thread without an rtsp thread waits for
\* the server for ever.  Refuted when the camera may stall.
QuitEnds ==
    (main = "exit1" /\ (rtspd = "failed" => capture = "failed")) ~> ~Alive

\* The contract of x264_nal_t.p_payload: a payload is used or copied before the
\* next call of the encoder.  Refuted: the deque keeps the pointer.
NoStalePayloadQueued ==
    CaptureAt("packet") => \A i \in 0 .. fin - 1 : slots[i] # "stale"
=============================================================================
