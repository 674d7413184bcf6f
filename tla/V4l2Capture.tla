----------------------------- MODULE V4l2Capture -----------------------------
(***************************************************************************)
(* The capture side of the sample program: Project/module/v4l2.c, in the   *)
(* order main.cpp calls it (v4l2_dev_config, then the read and release     *)
(* calls of task_uvc_capture_encode).  The kernel driver is external: it   *)
(* grants buffers, may refuse any ioctl, and fills queued buffers whenever *)
(* it likes.                                                               *)
(*                                                                         *)
(* Every failed call ends the whole process through errno_exit, so "proc"  *)
(* is "running" or the call the process died in.  An ioctl interrupted by  *)
(* a signal is repeated by xioctl and a DQBUF answered EAGAIN is repeated  *)
(* by v4l2_read_frame: both are stuttering steps here.                     *)
(***************************************************************************)
EXTENDS Naturals

CONSTANTS
    MaxGrant,   \* the largest number of buffers a driver grants
    NoFrame     \* the capture loop holds no frame

ASSUME MaxGrantAssumption == MaxGrant \in Nat /\ MaxGrant >= 2
ASSUME NoFrameAssumption == NoFrame \notin Nat

VARIABLES
    proc,       \* "running", or why the process ended
    phase,      \* the next step of v4l2_dev_config; "streaming" after it
    granted,    \* req.count as VIDIOC_REQBUFS returned it
    mapped,     \* *n_buffers: buffers mapped so far
    next,       \* the loop index of v4l2_start_capturing
    owner,      \* who may touch a buffer: the application or the driver
    frame       \* the v4l2_buffer of the loop: an index, or NoFrame

vars == <<proc, phase, granted, mapped, next, owner, frame>>

Buffers == 0 .. MaxGrant - 1

Phases == {"open", "init", "reqbufs", "map", "queue", "streamon", "streaming"}

\* "none": not allocated; "app": dequeued; "queued": waiting to be filled;
\* "done": filled and waiting for DQBUF.
Owners == {"none", "app", "queued", "done"}

DriverOwns(b) == owner[b] \in {"queued", "done"}

OpenErrors == {"stat", "not a device", "open"}
InitErrors == {"VIDIOC_QUERYCAP", "no video capture", "no streaming i/o",
               "VIDIOC_S_FMT"}
DqbufErrors == {"VIDIOC_DQBUF EIO", "VIDIOC_DQBUF ENODEV"}
Deaths == OpenErrors \cup InitErrors \cup DqbufErrors \cup
          {"VIDIOC_REQBUFS", "insufficient buffers", "calloc SIGSEGV",
           "VIDIOC_QUERYBUF", "mmap", "VIDIOC_QBUF EINVAL",
           "VIDIOC_QBUF ENODEV", "VIDIOC_STREAMON"}

-----------------------------------------------------------------------------
At(p) == proc = "running" /\ phase = p

\* errno_exit and the exit(EXIT_FAILURE) calls: nothing else happens any more.
Die(why) ==
    /\ proc' = why
    /\ UNCHANGED <<phase, granted, mapped, next, owner, frame>>

v4l2_open_device ==
    /\ At("open")
    /\ \/ /\ phase' = "init"
          /\ UNCHANGED <<proc, granted, mapped, next, owner, frame>>
       \/ \E why \in OpenErrors : Die(why)

\* VIDIOC_S_FMT may answer with another picture size than the one asked for;
\* the size is not read back.  Cropping errors are ignored.
v4l2_init_device ==
    /\ At("init")
    /\ \/ /\ phase' = "reqbufs"
          /\ UNCHANGED <<proc, granted, mapped, next, owner, frame>>
       \/ \E why \in InitErrors : Die(why)

\* Seeded variant: the check as "req.count < 1".
EnoughBuffersOffByOne(n) == n >= 1

EnoughBuffers(n) == n >= 2

\* The first half of init_mmap.  The driver may grant fewer or more buffers
\* than the 4 asked for; calloc's result is used unchecked.
RequestBuffers ==
    /\ At("reqbufs")
    /\ \/ Die("VIDIOC_REQBUFS")
       \/ \E n \in 0 .. MaxGrant : ~EnoughBuffers(n) /\ Die("insufficient buffers")
       \/ \E n \in 0 .. MaxGrant :
            /\ EnoughBuffers(n)
            /\ granted' = n
            /\ owner' = [b \in Buffers |-> IF b < n THEN "app" ELSE "none"]
            /\ phase' = "map"
            /\ UNCHANGED <<proc, mapped, next, frame>>
       \/ Die("calloc SIGSEGV")

\* Seeded variants: the mapping loop stops one buffer early; one late.
MoreToMapOffByOne(done) == done + 1 < granted
MoreToMapInclusive(done) == done <= granted

MoreToMap(done) == done < granted

\* One turn of the mapping loop of init_mmap: QUERYBUF, then mmap.
MapBuffer ==
    /\ At("map")
    /\ \/ /\ mapped' = mapped + 1
          /\ phase' = IF MoreToMap(mapped + 1) THEN "map" ELSE "queue"
          /\ UNCHANGED <<proc, granted, next, owner, frame>>
       \/ Die("VIDIOC_QUERYBUF")
       \/ Die("mmap")

\* VIDIOC_QBUF: the driver answers EINVAL for a buffer it already owns.
Qbuf(b) == owner[b] = "app" /\ owner' = [owner EXCEPT ![b] = "queued"]

QbufFails(b) ==
    IF owner[b] = "app" THEN Die("VIDIOC_QBUF ENODEV")
                        ELSE Die("VIDIOC_QBUF EINVAL")

\* One turn of the queueing loop of v4l2_start_capturing.
QueueBuffer ==
    /\ At("queue")
    /\ \/ /\ Qbuf(next)
          /\ next' = next + 1
          /\ phase' = IF next + 1 < mapped THEN "queue" ELSE "streamon"
          /\ UNCHANGED <<proc, granted, mapped, frame>>
       \/ QbufFails(next)

StreamOn ==
    /\ At("streamon")
    /\ \/ /\ phase' = "streaming"
          /\ UNCHANGED <<proc, granted, mapped, next, owner, frame>>
       \/ Die("VIDIOC_STREAMON")

-----------------------------------------------------------------------------
\* External: the driver finishes filling some queued buffer.
DriverFill ==
    /\ At("streaming")
    /\ \E b \in Buffers :
         /\ owner[b] = "queued"
         /\ owner' = [owner EXCEPT ![b] = "done"]
    /\ UNCHANGED <<proc, phase, granted, mapped, next, frame>>

\* VIDIOC_DQBUF hands out a filled buffer; which one is the driver's choice.
Dqbuf ==
    \E b \in Buffers :
        /\ owner[b] = "done"
        /\ owner' = [owner EXCEPT ![b] = "app"]
        /\ frame' = b

\* v4l2_read_frame, the DQBUF that succeeds.
ReadFrame ==
    /\ At("streaming")
    /\ frame = NoFrame
    /\ Dqbuf
    /\ UNCHANGED <<proc, phase, granted, mapped, next>>

\* v4l2_read_frame, any errno but EAGAIN.
ReadFrameFails ==
    /\ At("streaming")
    /\ frame = NoFrame
    /\ \E why \in DqbufErrors : Die(why)

\* Seeded variant: the frame is dropped without giving the buffer back, as a
\* "continue" between the read and the release would do.
ReleaseFrameForgets ==
    /\ At("streaming")
    /\ frame # NoFrame
    /\ frame' = NoFrame
    /\ UNCHANGED <<proc, phase, granted, mapped, next, owner>>

\* Seeded variant: the buffer is queued but the loop goes on using the frame
\* and releases it once more.
ReleaseFrameTwice ==
    /\ At("streaming")
    /\ frame # NoFrame
    /\ \/ /\ Qbuf(frame)
          /\ UNCHANGED <<proc, phase, granted, mapped, next, frame>>
       \/ QbufFails(frame)

v4l2_release_frame ==
    /\ At("streaming")
    /\ frame # NoFrame
    /\ \/ /\ Qbuf(frame)
          /\ frame' = NoFrame
          /\ UNCHANGED <<proc, phase, granted, mapped, next>>
       \/ QbufFails(frame)

-----------------------------------------------------------------------------
Init ==
    /\ proc = "running" /\ phase = "open"
    /\ granted = 0 /\ mapped = 0 /\ next = 0
    /\ owner = [b \in Buffers |-> "none"]
    /\ frame = NoFrame

Config == \/ v4l2_open_device \/ v4l2_init_device \/ RequestBuffers
          \/ MapBuffer \/ QueueBuffer \/ StreamOn

Loop == ReadFrame \/ ReadFrameFails \/ v4l2_release_frame

Next == Config \/ Loop \/ DriverFill

Spec == Init /\ [][Next]_vars

\* The scheduler runs the program's threads, and the camera delivers.  No
\* failure is ever due.
LiveSpec ==
    /\ Spec
    /\ WF_vars(ReadFrame) /\ WF_vars(v4l2_release_frame) /\ WF_vars(DriverFill)

-----------------------------------------------------------------------------
(* Properties *)

TypeOK ==
    /\ proc \in {"running"} \cup Deaths
    /\ phase \in Phases
    /\ granted \in 0 .. MaxGrant
    /\ mapped \in 0 .. MaxGrant
    /\ next \in 0 .. MaxGrant
    /\ owner \in [Buffers -> Owners]
    /\ frame \in Buffers \cup {NoFrame}

Streaming == phase = "streaming"

\* Once streaming, the application owns the frame it is working on and nothing
\* else: every buffer DQBUF handed out came back through v4l2_release_frame.
AppOwnsOnlyFrame ==
    Streaming => \A b \in 0 .. granted - 1 : owner[b] = "app" <=> b = frame

\* The driver is never left without a buffer to fill or to hand out, whatever
\* the application holds: this is what the "req.count < 2" check is for.
DriverNeverStarved ==
    Streaming => \E b \in 0 .. granted - 1 : DriverOwns(b)

\* No VIDIOC_QBUF is made for a buffer the driver already owns, in the start
\* loop or in the release of a frame.
QbufNeverRejected == proc # "VIDIOC_QBUF EINVAL"

\* Every buffer the driver knows is mapped, so buffers[frame.index] points to
\* mapped memory: the assertion commented out in v4l2_read_frame.
FrameIsMapped ==
    /\ \A b \in Buffers : DriverOwns(b) => b < mapped
    /\ frame # NoFrame => frame < mapped
    /\ Streaming => mapped = granted

\* With a camera that delivers, frames keep coming until the process dies.
FramesKeepComing ==
    (Streaming /\ frame = NoFrame) ~> (frame # NoFrame \/ proc # "running")
=============================================================================
