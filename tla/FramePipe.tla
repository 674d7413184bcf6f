------------------------------- MODULE FramePipe -------------------------------
(***************************************************************************)
(* "capturer_mmap | viewer" and "capturer_read | viewer": three programs   *)
(* of one source file each.  The capturer takes frames from the driver and *)
(* writes them to its standard output, the viewer reads its standard       *)
(* input into videoFrame and draws it.  Between them is a pipe, smaller    *)
(* than a frame: a frame is cut into ChunksPerFrame chunks, of which the   *)
(* pipe holds Capacity.  The viewer's image is read by the X server, which *)
(* paints the window: from the request, or later, from the memory the two  *)
(* share.  The driver, the pipe and the X server are external.             *)
(***************************************************************************)
EXTENDS Integers, Sequences, PixelConversion

CONSTANTS
    MaxGrant,       \* buffers the driver grants at most (4 are requested)
    DstFrame,       \* dstframe, 8 in capturer_mmap: one frame of so many goes out
    ChunksPerFrame, \* Bpf, counted in chunks
    Capacity,       \* of the pipe, in chunks
    MaxRequests,    \* what the connection to the X server holds
    MaxFrames       \* bound: the camera falls silent after so many frames

\* A frame is longer than one chunk, which is as long as the texts are.
ASSUME PipeAssumption ==
    /\ {MaxGrant, ChunksPerFrame} \subseteq Nat \ {0, 1}
    /\ {DstFrame, Capacity, MaxRequests, MaxFrames} \subseteq Nat \ {0}

VARIABLES
    program, format, windowArg, deviceInfo, \* the command line: which capturer,
                                            \* -p, -w, -d
    cphase,     \* capturer: where it is
    granted,    \* buffers 1 .. granted exist
    queued, filled,     \* driver: its empty and its filled buffers, in order
    content,    \* the frame number in each buffer
    captured,   \* frames filled so far
    held,       \* capturer_mmap: buf.index; capturer_read: 0
    copy,       \* capturer_read: the frame number in buffers[0]
    cnt,        \* static cnt, modulo dstframe
    part,       \* chunks of this write done
    pipe,
    stream,     \* history: the frame chunks ever written
    vphase,     \* viewer: where it is
    image,      \* viewer: what image_create made, the depth if it is usable
    isShared,   \* viewer: the image is in memory the X server reads
    videoFrame, vpos,   \* viewer: the frame buffer, chunks of this read done
    short,      \* history: some read returned less than a frame
    drawn,      \* upper and lower half of the image: the frame they were
                \* converted from
    requests,   \* sent to the X server: the halves, or nothing if shared
    serving,    \* the X server has painted the upper half of Head(requests)
    screen      \* the halves of the window

config == <<program, format, windowArg, deviceInfo>>
driver == <<granted, queued, filled, content, captured>>
writer == <<held, copy, cnt, part>>
window == <<drawn, requests, serving, screen>>
viewer == <<vphase, image, isShared, videoFrame, vpos, short, window>>
vars == <<config, cphase, driver, writer, pipe, stream, viewer>>

NoChunk == [frame |-> 0, part |-> 0]
Text == [frame |-> 0, part |-> 1]
Streaming == cphase \in {"select", "read", "write", "requeue"}

-----------------------------------------------------------------------------
(* The driver *)

DriverFill ==
    /\ Streaming /\ queued # <<>> /\ captured < MaxFrames
    /\ captured' = captured + 1
    /\ content' = [content EXCEPT ![Head(queued)] = captured + 1]
    /\ queued' = Tail(queued) /\ filled' = Append(filled, Head(queued))
    /\ UNCHANGED <<config, cphase, granted, writer, pipe, stream, viewer>>

-----------------------------------------------------------------------------
(* The capturer *)

\* exit() writes what printf left in the buffer of stdout: "window size ...".
Exit == cphase' = IF windowArg THEN "flush" ELSE "ended"

\* Not set_standard, which only reports.
CapturerFails ==
    /\ cphase \in {"open", "input", "init", "buffers", "start"}
    /\ Exit
    /\ UNCHANGED <<config, driver, writer, pipe, stream, viewer>>

\* -d: what the device can do goes to the standard output, which is the pipe.
device_info ==
    /\ deviceInfo /\ cphase = "open" /\ cphase' = "flush"
    /\ UNCHANGED <<config, driver, writer, pipe, stream, viewer>>

open_device ==
    /\ ~deviceInfo /\ cphase = "open" /\ cphase' = "input"
    /\ UNCHANGED <<config, driver, writer, pipe, stream, viewer>>

\* set_input and set_standard, which change nothing here.
set_input ==
    /\ cphase = "input" /\ cphase' = "init"
    /\ UNCHANGED <<config, driver, writer, pipe, stream, viewer>>

init_device ==
    /\ cphase = "init" /\ cphase' = "buffers"
    /\ UNCHANGED <<config, driver, writer, pipe, stream, viewer>>

\* Seeded variant: one buffer passes for sufficient.
EnoughBuffersOffByOne(n) == n >= 1

EnoughBuffers(n) == n >= 2

\* REQBUFS and the mapping.  (Fewer than two is one of CapturerFails.)
init_mmap ==
    /\ program = "capturer_mmap" /\ cphase = "buffers"
    /\ \E n \in 0 .. MaxGrant : EnoughBuffers(n) /\ granted' = n
    /\ cphase' = "start"
    /\ UNCHANGED <<config, queued, filled, content, captured, writer, pipe,
                   stream, viewer>>

\* One malloc; the driver has buffers of its own.
init_read ==
    /\ program = "capturer_read" /\ cphase = "buffers"
    /\ granted' \in 2 .. MaxGrant
    /\ cphase' = "start"
    /\ UNCHANGED <<config, queued, filled, content, captured, writer, pipe,
                   stream, viewer>>

\* All buffers are queued in order; STREAMON.
start_capturing ==
    /\ cphase = "start" /\ cphase' = "select"
    /\ queued' = [i \in 1 .. granted |-> i]
    /\ UNCHANGED <<config, granted, filled, content, captured, writer, pipe,
                   stream, viewer>>

SelectReady ==
    /\ cphase = "select" /\ filled # <<>>
    /\ cphase' = "read"
    /\ UNCHANGED <<config, driver, writer, pipe, stream, viewer>>

\* Seeded variant: a timeout is handled like EINTR.
SelectTimeoutContinues ==
    /\ cphase = "select" /\ filled = <<>>
    /\ UNCHANGED vars

\* Two seconds without a frame, or select fails.
SelectTimeout ==
    /\ cphase = "select" /\ filled = <<>>
    /\ Exit
    /\ UNCHANGED <<config, driver, writer, pipe, stream, viewer>>

\* Seeded variant: a frame that is not written is not queued again.
DqbufForgetsSkipped ==
    /\ program = "capturer_mmap" /\ cphase = "read"
    /\ held' = Head(filled) /\ filled' = Tail(filled)
    /\ cnt' = (cnt + 1) % DstFrame
    /\ cphase' = IF cnt = 0 THEN "write" ELSE "select"
    /\ part' = 0
    /\ UNCHANGED <<config, granted, queued, content, captured, copy, pipe,
                   stream, viewer>>

\* Seeded variant: the buffer is queued again before it is written.
DqbufRequeuesFirst ==
    /\ program = "capturer_mmap" /\ cphase = "read"
    /\ held' = Head(filled) /\ filled' = Tail(filled)
    /\ queued' = Append(queued, Head(filled))
    /\ cnt' = (cnt + 1) % DstFrame
    /\ cphase' = IF cnt = 0 THEN "write" ELSE "requeue"
    /\ part' = 0
    /\ UNCHANGED <<config, granted, content, captured, copy, pipe, stream,
                   viewer>>

\* read_frame of capturer_mmap: DQBUF; cnt++ % dstframe == 0 selects the
\* frames that are written.
Dqbuf ==
    /\ program = "capturer_mmap" /\ cphase = "read"
    /\ held' = Head(filled) /\ filled' = Tail(filled)
    /\ cnt' = (cnt + 1) % DstFrame
    /\ cphase' = IF cnt = 0 THEN "write" ELSE "requeue"
    /\ part' = 0
    /\ UNCHANGED <<config, granted, queued, content, captured, copy, pipe,
                   stream, viewer>>

\* read_frame of capturer_read: read() copies the oldest frame to buffers[0];
\* every frame is written.
ReadDevice ==
    /\ program = "capturer_read" /\ cphase = "read"
    /\ copy' = content[Head(filled)]
    /\ filled' = Tail(filled) /\ queued' = Append(queued, Head(filled))
    /\ cphase' = "write" /\ part' = 0
    /\ UNCHANGED <<config, granted, content, captured, held, cnt, pipe,
                   stream, viewer>>

\* select, DQBUF, read or QBUF with an error.  (EAGAIN, which returns to the
\* loop, does not follow a select that found a frame.)
DeviceFails ==
    /\ cphase \in {"select", "read", "requeue"}
    /\ Exit
    /\ UNCHANGED <<config, driver, writer, pipe, stream, viewer>>

Source == IF program = "capturer_mmap" THEN content[held] ELSE copy

\* write(), which blocks while the pipe is full.
Write ==
    /\ cphase = "write" /\ vphase # "ended" /\ Len(pipe) < Capacity
    /\ LET chunk == [frame |-> Source, part |-> part + 1]
       IN  pipe' = Append(pipe, chunk) /\ stream' = Append(stream, chunk)
    /\ part' = part + 1
    /\ cphase' = IF part' < ChunksPerFrame THEN "write"
                 ELSE IF program = "capturer_mmap" THEN "requeue"
                 ELSE "select"
    /\ UNCHANGED <<config, driver, held, copy, cnt, viewer>>

\* Nobody reads the pipe any more: SIGPIPE.
WriteKilled ==
    /\ cphase \in {"write", "flush"} /\ vphase = "ended"
    /\ cphase' = "ended"
    /\ UNCHANGED <<config, driver, writer, pipe, stream, viewer>>

Qbuf ==
    /\ cphase = "requeue" /\ cphase' = "select"
    /\ queued' = Append(queued, held)
    /\ UNCHANGED <<config, granted, filled, content, captured, writer, pipe,
                   stream, viewer>>

Flush ==
    /\ cphase = "flush" /\ vphase # "ended" /\ Len(pipe) < Capacity
    /\ pipe' = Append(pipe, Text)
    /\ cphase' = "ended"
    /\ UNCHANGED <<config, driver, writer, stream, viewer>>

Capturer ==
    \/ device_info \/ open_device \/ set_input \/ init_device \/ init_mmap \/ init_read \/ start_capturing
    \/ SelectReady \/ SelectTimeout \/ Dqbuf \/ ReadDevice
    \/ Write \/ WriteKilled \/ Qbuf \/ Flush

-----------------------------------------------------------------------------
(* The viewer *)

\* XOpenDisplay or image_create without success; later, the end of Xlib when
\* the window or the display is closed, or the event pointer, which is never
\* set, when there is an event to take.
ViewerFails ==
    /\ vphase \in {"display", "image", "upper", "lower", "put"}
    /\ vphase' = "ended"
    /\ UNCHANGED <<config, cphase, driver, writer, pipe, stream, image,
                   isShared, videoFrame, vpos, short, window>>

OpenDisplay ==
    /\ vphase = "display" /\ vphase' = "image"
    /\ UNCHANGED <<config, cphase, driver, writer, pipe, stream, image,
                   isShared, videoFrame, vpos, short, window>>

\* With the extension of the X server, or without.  "unusable": the depth is
\* neither 16 nor 24, or shmat failed, which the test of its result for a
\* negative pointer does not notice.
image_create ==
    /\ vphase = "image" /\ vphase' = "read"
    /\ image' \in Depths \cup {"unusable"} /\ isShared' \in BOOLEAN
    /\ UNCHANGED <<config, cphase, driver, writer, pipe, stream, videoFrame,
                   vpos, short, window>>

ReadSize == ChunksPerFrame

\* read() takes what is there, ...
ReadChunk ==
    /\ vphase = "read" /\ pipe # <<>> /\ vpos < ReadSize
    /\ videoFrame' = [videoFrame EXCEPT ![vpos + 1] = Head(pipe)]
    /\ pipe' = Tail(pipe) /\ vpos' = vpos + 1
    /\ UNCHANGED <<config, cphase, driver, writer, stream, vphase, image,
                   isShared, short, window>>

\* ... and returns when it has all that was asked for, or something and the
\* pipe is empty, or nothing and there is no writer.
ReadReturns ==
    /\ vphase = "read"
    /\ \/ vpos = ReadSize
       \/ pipe = <<>> /\ (vpos > 0 \/ cphase = "ended")
    /\ vphase' = IF image = "unusable" THEN "ended" ELSE "upper"
    /\ short' = (short \/ vpos < ReadSize)
    /\ UNCHANGED <<config, cphase, driver, writer, pipe, stream, image,
                   isShared, videoFrame, vpos, window>>

\* The conversion of the whole of videoFrame, half by half: the X server may
\* read the image in between.  The number of bytes read is not looked at.
Draw(f) ==
    /\ format = f
    /\ \/ /\ vphase = "upper" /\ vphase' = "lower"
          /\ drawn' = [drawn EXCEPT ![1] = videoFrame]
       \/ /\ vphase = "lower" /\ vphase' = "put"
          /\ drawn' = [drawn EXCEPT ![2] = videoFrame]
    /\ UNCHANGED <<config, cphase, driver, writer, pipe, stream, image,
                   isShared, videoFrame, vpos, short, requests, serving, screen>>

process_image_yuv420 == Draw("yuv420")
process_image_rgb565 == Draw("rgb565")
process_image_rgb32 == Draw("rgb32")
process_image_yuv422 == Draw("yuyv")

\* XPutImage sends the image, XShmPutImage only that it is there; XPending
\* writes the request to the connection.  The next turn of the loop.
image_put ==
    /\ vphase = "put" /\ Len(requests) < MaxRequests
    /\ requests' = Append(requests, IF isShared THEN <<>> ELSE drawn)
    /\ vphase' = "read" /\ vpos' = 0
    /\ UNCHANGED <<config, cphase, driver, writer, pipe, stream, image,
                   isShared, videoFrame, short, drawn, serving, screen>>

Viewer ==
    \/ OpenDisplay \/ image_create \/ ReadChunk \/ ReadReturns
    \/ process_image_yuv420 \/ process_image_rgb565 \/ process_image_rgb32
    \/ process_image_yuv422 \/ image_put

\* The X server paints one half of the window after the other.
XServer ==
    /\ vphase # "ended" /\ requests # <<>>
    /\ LET half == IF serving THEN 2 ELSE 1
           from == IF isShared THEN drawn ELSE Head(requests)
       IN  screen' = [screen EXCEPT ![half] = from[half]]
    /\ serving' = ~serving
    /\ requests' = IF serving THEN Tail(requests) ELSE requests
    /\ UNCHANGED <<config, cphase, driver, writer, pipe, stream, vphase, image,
                   isShared, videoFrame, vpos, short, drawn>>

-----------------------------------------------------------------------------
\* Both programs are given the same format; capturer_read knows three.
Init ==
    /\ program \in {"capturer_mmap", "capturer_read"}
    /\ format \in IF program = "capturer_mmap" THEN Formats
                                               ELSE Formats \ {"yuyv"}
    /\ windowArg \in BOOLEAN /\ deviceInfo \in BOOLEAN
    /\ cphase = "open" /\ vphase = "display"
    /\ image = "none" /\ isShared = FALSE
    /\ granted = 0 /\ queued = <<>> /\ filled = <<>>
    /\ content = [b \in 1 .. MaxGrant |-> 0] /\ captured = 0
    /\ held = 0 /\ copy = 0 /\ cnt = 0 /\ part = 0
    /\ pipe = <<>> /\ stream = <<>>
    /\ videoFrame = [i \in 1 .. ChunksPerFrame |-> NoChunk] /\ vpos = 0
    /\ short = FALSE
    /\ drawn = <<videoFrame, videoFrame>> /\ screen = drawn
    /\ requests = <<>> /\ serving = FALSE

Next == \/ DriverFill \/ Capturer \/ Viewer \/ XServer
        \/ CapturerFails \/ DeviceFails \/ ViewerFails

Spec == Init /\ [][Next]_vars

\* Three processes the system schedules; the camera owes nothing, and no call
\* has to fail.
LiveSpec == Spec /\ WF_vars(Capturer) /\ WF_vars(Viewer) /\ WF_vars(XServer)

-----------------------------------------------------------------------------
(* Properties *)

TypeOK ==
    /\ cphase \in {"open", "input", "init", "buffers", "start", "select",
                  "read", "write", "requeue", "flush", "ended"}
    /\ granted \in {0} \cup 2 .. MaxGrant
    /\ \A i \in DOMAIN queued : queued[i] \in 1 .. granted
    /\ \A i \in DOMAIN filled : filled[i] \in 1 .. granted
    /\ cphase = "read" => filled # <<>>
    /\ held \in 0 .. granted /\ cnt \in 0 .. DstFrame - 1
    /\ part \in 0 .. ChunksPerFrame
    /\ Len(pipe) <= Capacity
    /\ vphase \in {"display", "image", "read", "upper", "lower", "put", "ended"}
    /\ image \in Depths \cup {"none", "unusable"}
    /\ Len(requests) <= MaxRequests /\ (serving => requests # <<>>)
    /\ vpos \in 0 .. ChunksPerFrame

\* Between two turns of its loop the capturer holds no buffer, written or
\* skipped frame alike: the driver never runs dry.
BuffersBack == cphase = "select" => Len(queued) + Len(filled) = granted

\* Each frame goes out whole, as one frame of the camera, after all earlier
\* ones: the driver does not fill a buffer that is still being written,
\* however long the viewer lets the capturer wait.
FramesIntact ==
    \A i \in DOMAIN stream :
        LET before == (i - 1) % ChunksPerFrame
            first == stream[i - before]
        IN  /\ stream[i] = [frame |-> first.frame, part |-> before + 1]
            /\ \A j \in 1 .. i : stream[j].frame <= first.frame
            /\ i > ChunksPerFrame =>
                 stream[i - ChunksPerFrame].frame < first.frame

Whole(v) ==
    \A i \in 1 .. ChunksPerFrame : v[i] = [frame |-> v[1].frame, part |-> i]

\* The chunk byte b of a frame is in.
ChunkOf(b) == 1 + (b * ChunksPerFrame) \div FrameBytes(format)

\* Every pixel of the frame is in the window, each colour made of the bytes
\* V4L2 has for it there, all of one frame of the camera.
WindowIsFrame ==
    \A pixels \in Conversion[format][image] :
        /\ pixels = Picture[format]
        /\ \E n \in 1 .. MaxFrames : \A p \in pixels, c \in {"B", "G", "R"} :
             \A b \in p[c] :
                LET half == IF p.y < Height \div 2 THEN 1 ELSE 2
                IN  screen[half][ChunkOf(b)] =
                        [frame |-> n, part |-> ChunkOf(b)]

\* The X server is not at work, and the window is no longer empty.
Painted == image \in Depths /\ ~serving /\ screen[2][1] # NoChunk

\* As long as every read brought a whole frame, and the image is not shared,
\* the window shows one frame: the image is complete when it is sent.
PictureIsFrame ==
    Painted /\ ~short /\ ~isShared /\ format # "yuyv" => WindowIsFrame

\* "in every loop 2 pixels are processed": the same for a YUYV frame.
PixelsProcessed ==
    Painted /\ ~short /\ ~isShared /\ format = "yuyv" => WindowIsFrame

\* "process one entire frame": what is drawn is one frame, once there was one.
EntireFrame == vphase = "upper" /\ stream # <<>> /\ cphase # "ended"
                 => Whole(videoFrame)

\* When the camera falls silent the capturer ends, and the viewer has taken
\* all that was written, unless it has ended itself.
DrainsAfterSilence ==
    (captured = MaxFrames) ~>
        cphase = "ended" /\ (pipe = <<>> \/ vphase = "ended")
=============================================================================
