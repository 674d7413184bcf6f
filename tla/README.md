# Verification of V4L2_X264_RTMP

TLA+ models of the programs in this repository, checked with TLC on small
instances, and theorems about them checked with TLAPS for every instance.

## 1. The system

The repository holds two generations of one idea, to move pictures from a V4L2
camera to somewhere else.

**The sample program** (`src/Project`): three threads in one process.

```
 camera driver --DQBUF--> capture thread --Enc_yuvToh264--> libx264
       ^                      |    push_back (no lock)
       +--------QBUF----------+        v
                               rtsp->m_framedq --back, pop_back--> rtsp thread
 main thread: configure, create both threads, wait for 'q', raise the exit
              flags, join, delete the server
```

**The tools** (`src/*.c`): `capturer_mmap` and `capturer_read` write raw frames
to standard output, `viewer` reads them from standard input into an X11 shared
memory image. They are connected by a pipe on the command line.

| Component | State | Operations | Interaction | What is hard, what makes it correct |
|---|---|---|---|---|
| camera module `module/v4l2.c` | fd, mapped buffers, the frame at hand; the driver's queues | open, init (S_FMT, REQBUFS, mmap), start, read, release | ioctls of the driver; every failed call ends the process | a driver that refuses, grants fewer buffers, stalls; each buffer has one owner, none leaks, the driver is never starved |
| encoder wrapper `module/encoder.c` | static handle and picture, packets of a call | open, encode (with or without flush), close | libx264, which reuses its output memory and delays frames | payload life time, fixed arrays of 8 packets, failed open |
| frame deque `rtsp_server::m_framedq` | `std::deque` of shared pointers, limit 10, created full of empty pointers | size test and push_back; empty test, back, pop_back; clear | capture thread and rtsp thread, no lock | data race on the cursor and the elements; bounds; which element is taken |
| sample program `main.cpp`, `rtsp_server_start` | server pointer, exit flags, thread positions | configure, create, quit, join, delete; the two loops | all of the above | start-up order, shutdown, use of the server, a camera that stalls, failed thread creation |
| JPEG encoder `module/jpegenc.c` | quantization and Huffman tables, DC predictors, the partial byte | encode_rgb2jpg, encode_yuyvjpg, encode_yuv444Tojpg | called by Enc_yuyv2jpg in a JPEGENC build | run lengths, the 128 entry array, byte stuffing, the last partial byte |
| pixel conversions (`YUYV2NV12`, `_convertMBColor*`, viewer) | none | index arithmetic | frames as driver or pipe delivers them | each value made from the bytes of its own pixel, planes and rows of another length |
| RTSP streaming `module/rtsp.cpp` (`rtsp_task`, `play`, `afterPlaying`) | sink, source, open file | create, play, restart at end of file | liveMedia's event loop; not called by the program | a source closed and another opened inside the callback of the sink that plays it; no file left open; the next round always comes |
| `MyFramedSource` | a queue nothing fills | doGetNextFrame | liveMedia; never instantiated, does not compile | - |
| `capturer_mmap.c`, `capturer_read.c` | mapped buffers or one read buffer, frame counter | main loop with select, read_frame | driver; standard output | EAGAIN, EIO, time-out, one frame in eight written |
| `viewer.c` | X image, in shared memory or not | main loop, four decoders, create, put | standard input; X server, which reads the image later | short reads, an image overwritten while it is painted, index arithmetic |


Read with the code: `rtsp_task`, `play` and `afterPlaying` are compiled but never
reached from `main`; `MyFramedSource` is a sketch that no compiler accepts;
`dump_yuyv`, `dump_enc` and `readbmp` have no caller. The repository's own code
is 3,700 lines in a dozen files. The other 50,000 lines of the tree, everything
under `include/ffmpeg`, `include/x264`, `include/rtsp/*.hh` and `lib`, are
headers of third-party libraries: declarations, no behaviour to model.

### Hard behaviours

The full list, each at its line, is `PROJECT.json` "hazards". The ones that
shaped the models:

- the deque is tested, read and changed by two threads without a lock;
- the payload pointers in it belong to libx264, which reuses the memory;
- both exit flags, the joins and the deletion of the server are a hand-made
  shutdown protocol, and `v4l2_read_frame` retries without looking at a flag;
- a driver may grant another number of buffers or another picture size than
  asked for, refuse any call, or stop delivering;
- libx264 delays frames, and a flush may return more packets than the arrays hold;
- the bit stream of the JPEG encoder is assembled by hand: runs longer than 15,
  a block without zeros, a byte 0xFF, bits left over at the end;
- a pipe is smaller than a frame, so writer and reader meet inside a frame;
- the X server paints from memory the viewer goes on writing to;
- each format has its own arithmetic of rows, planes and pairs of pixels;
- the RTSP rounds replace a source from inside a callback of the sink playing it.

## 2. The plan

| Step | Modules | Content | State |
|---|---|---|---|
| 1 | `V4l2Capture`, `MCV4l2Capture` | the camera module and its driver | done |
| 2 | `BoundedStack`, `FrameDeque`, `MCFrameDeque` | what the deque promises, and what two unlocked threads make of it | done |
| 3 | `X264Encoder`, `MCX264Encoder` | the encoder wrapper and its packets | done |
| 4 | `Sample`, `MCSample` | the three threads, composed of 1, 2 and 3, the deque access by access | done |
| 5 | `V4l2Capture_proofs`, `FrameDeque_proofs` | theorems about 1 and 2 | done |
| 6 | `JpegTables`, `JpegEncoder`, `JpegDecoder`, `MCJpegEncoder` | the JPEG encoder and a reference decoder | done |
| 7 | `FramePipe`, `MCFramePipe` | the three command line tools | done |
| 8 | `RtspStream`, `MCRtspStream`, `RtspStream_proofs` | `rtsp_task`, `play`, `afterPlaying` against liveMedia's event loop | done |
| 9 | `PixelConversion`, and parts of `X264Encoder`, `JpegEncoder`, `FramePipe` | index arithmetic of the conversions, the JPEG header, the X server | done |
| 10 | `Sample_proofs` | the five safety properties of the program, and both refinements, for every limit, delay and number of buffers | done |
| 11 | `X264Encoder_proofs` | `PacketsFit` and `FlushLeavesNothing` for every delay, `PictureIsFrame` for every even size | done |
| 12 | `FramePipe_proofs` | the viewer's conversions for every size; the pipelines' four invariants for every number of buffers, chunks, frames and requests | done |
| 13 | `JpegEncoder_proofs` | `EntriesFit`, `NoMarkerInData`, `SamplesOfOwnPixels` for every size, quality and block | done |
| 14 | `JpegDecoder_proofs` | `HeaderReadsBack` and `Decodable` for every size, quality and sequence of blocks: the encoder is correct against the decoder | done |

How the modules use each other (an arrow reads "instantiates" or "extends"):

```
 Sample --> V4l2Capture          FrameDeque --> BoundedStack
        --> X264Encoder          FrameDeque_proofs --> FrameDeque
        --> FrameDeque           V4l2Capture_proofs --> V4l2Capture
 JpegEncoder --> JpegTables      RtspStream_proofs --> RtspStream
 FramePipe --> PixelConversion   X264Encoder_proofs --> X264Encoder
 JpegDecoder --> JpegEncoder     JpegEncoder_proofs --> JpegEncoder
 Sample_proofs --> Sample, V4l2Capture_proofs, FrameDeque_proofs
 FramePipe_proofs --> FramePipe
 JpegDecoder_proofs --> JpegDecoder, JpegEncoder_proofs
 MCJpegEncoder --> JpegDecoder, every other MCxxx --> xxx
```

## 3. The modules and the code

Variables carry the names of the code's where it has a name for them; the
header comment of each variable says what it stands for. Definitions named
"Seeded variant" in their comment are plausible slips of the code; no
specification uses them. They show that the properties notice.

### V4l2Capture - `module/v4l2.c`

`phase` walks through `v4l2_dev_config` (open, init, reqbufs, map, queue,
streamon) and then stays "streaming". Each call that the code makes for one
buffer (mmap, QBUF) is one action, since it can fail on its own. All failures
go through `errno_exit` or `exit`, so a failed call sets `proc` to its name and
nothing follows. `owner` is the driver's view of each buffer, and `frame` the
`v4l2_buffer` of the capture loop. The driver's action `DriverFill` interleaves
freely. `xioctl` repeats on EINTR and `v4l2_read_frame` on EAGAIN: stuttering.
The EIO case of `v4l2_read_frame` says "Could ignore EIO" and falls through to
`errno_exit`: the model ends the process, as the code does.

### BoundedStack, FrameDeque - `rtsp_server::m_framedq`

`BoundedStack` is the promise: elements enter at the top while there is room
and leave from the top. (From the top: the consumer takes `back()`, so it is a
stack though the name says queue.) `FrameDeque` is what runs: `push_back`,
`back` and `pop_back` as the loads and stores of libstdc++ in this build,
interleaved one access at a time. `fin` is the finish cursor and `slots` the
memory of the deque's node; ten 16-byte pointers and the cursor never leave one
node. A `shared_ptr` destroyed in place leaves its bytes behind, hence
`Dangling`; touching it is undefined behaviour and sets `fault`, after which the
model stops. `overlap` remembers whether a `push_back` ever ran while the other
thread was inside `back`/`pop_back`.

### X264Encoder - `module/encoder.c`

`handle` and `pic` are the static variables, `out` the packets of the last call,
each "current" (libx264's memory still holds it) or "stale". `Enc_yuvToh264` is
one action for the picture (fails, delays, emits), followed by one `Flush`
action per turn of the flush loop: an error, a packet, or nothing yet.
`Enc_CloseX264` does not clear the handle, so a second close is a `crash`; so is
a close after a failed open. `planes` is the picture as `YUYV2NV12` leaves it:
which byte of each plane holds which byte of the frame, so that a hole, a byte
written twice or past the plane, and a sample of another pixel all show.

### Sample - `main.cpp` and `rtsp_server_start`

`main`, `capture` and `rtspd` are program counters; the camera's and the
encoder's actions are those of the two modules, instantiated, and each action of
a thread guards them with its own position. The deque is `FrameDeque` itself,
instantiated: `Push` and `Take` make one memory access of `push_back`, `back` or
`pop_back` per step, and the other threads run in between, so the race is part
of the program and a touched dangling pointer (`fault`) ends it. An element is
told by what its payload is worth, "current" or "stale"; each call into libx264
makes the payloads in the deque, and the one the rtsp thread has in its hand,
stale (`PayloadsGoStale`). `DequeProtocol` says that the program uses the deque
as `FrameDeque` has it, and so has what is shown there, no more and no less.
`pthread_create` may fail, unnoticed by the code; the join of a thread that was
never created returns or crashes (the id is uninitialized). `ResetExit` lowers
the flag as the thread ends, as the code does.

### JpegTables, JpegEncoder, JpegDecoder - `module/jpegenc.c`

`JpegTables` holds the constant tables. `JpegEncoder` builds quantizers and
Huffman tables from them by the code's algorithms, writes the header byte by
byte (`WriteJpegHeader`), takes the samples of each macro block from the picture
(`ConvertMBColor...`: which bytes each sample is made from), codes a block into
bit strings (`DoHuffmanEncoding`) and bit strings into bytes (`WriteBitString`).
The three public functions differ only in the conversion. The floating point
transform between samples and coefficients is abstracted to "any block of the
job".

`JpegDecoder` models no code of the repository: it is a decoder written from the
decoding procedure of the baseline standard, to hold the encoder against. It walks
through the header by its length fields and takes the size, the quantizers and the
Huffman tables from the bytes of the file; it shares nothing with the encoder but
those bytes. It is total: what is no code or lies past the end makes it give up.
Its two properties are claimed for pictures narrower and lower than 65536 pixels
(`SizeFits`): the header has 16 bits for each side, and `_write_word_` drops the
others without a word.

### FramePipe, PixelConversion - `capturer_mmap.c`, `capturer_read.c`, `viewer.c`

Both pipelines in one module: `program` is which capturer runs, `format` the
pixel format, `windowArg` whether `-w` makes it print, `deviceInfo` whether `-d`
makes it report the device, into the pipe, and end. A frame is its number, cut
into chunks. `cphase` and `vphase` follow the two programs, the driver keeps two
queues of buffers, and `write` blocks in the middle of a frame while the pipe is
full. What `-w` prints stays in stdio's buffer until `exit` and so comes after
the frames (`Flush`); when the viewer is gone the capturer dies of SIGPIPE.
A `read` of the viewer returns when it is full, or when the pipe is empty and it
has something: a short read, which the code does not notice.

The conversion fills the image half by half, and `image_put` sends a request to
the X server: with `XPutImage` the image itself, with `XShmPutImage` only the
news, so that the server paints, half by half and later, from memory that may
already hold the next frame. `PixelConversion` says which bytes of the frame each
pixel is made from; `WindowIsFrame` puts both together: every pixel of the window
has its colours from its own bytes, and all from one frame of the camera. The
16 bit loop for YUYV uses two variables no one sets, so its result is any of a set.

### RtspStream - `module/rtsp.cpp`

`pc` walks through `rtsp_task` to the event loop, and in each round through
`afterPlaying` (stop, close) and `play` (open, start). In the loop `waits` says
which event is due: a frame of the source or the sink's own timer. `videoSource`
and `fSource` are the program's and the sink's pointer to the source, `open` the
sources that exist; a name in `Sources` can be used again, as memory is.
liveMedia's part is what `rtsp.cpp` relies on: `startPlaying` asks for frames and
is refused by a sink that plays, the function given to it is called once, after
the sink has forgotten its source, and closing the framer closes the file.

## 4. The runs

| Run | What it checks | Bounds, and why they are enough |
|---|---|---|
| `v4l2` | buffer ownership, mapping, starvation, double QBUF; frames keep coming | 0 to 5 granted buffers: refusal (0, 1), the minimum 2, the 4 asked for, and more |
| `encoder` | packet arrays, flush, the planes against NV12 | up to 9 delayed frames, one more than makes 8 packets, with and without eof; 4 x 4 pixels: two pairs in a row, two rows whose chroma is kept |
| `deque` | cursor, elements, order, draining under every interleaving of accesses | 3 slots: full, empty and between for both cursors, and an element below the two a race touches; 2 NALUs tell "same" from "other" |
| `sample` | the program from start-up to exit, and that it implements the capture protocol and the deque's | 2 buffers, one with the driver while the other is worked on (`v4l2` has up to 5); 2 deque slots: full, empty, a stale payload below the current one, and each thread overtaken inside a call; 1 delayed frame |
| `jpeg` | header, samples, tables, block coding, stuffing, against the decoder | all sequences of 4 blocks over two macro blocks (4^6), so that each DC predictor is used; the blocks have zero runs of 0, 16, 17 and 62, coefficients of 1 to 10 bits, DC differences of 0 to 11, no AC and no zero; quality -1, 0, 1, 50, 99, 100; pictures of 2 x 2 macro blocks in each of the three formats, and of 12 x 12 pixels, whose last macro blocks stick out |
| `pipe` | both pipelines, all formats and depths, with and without a shared image | frames of 2 chunks over a pipe of 1, so that both sides wait inside a frame; 3 frames, every second written, 2 or 3 buffers; 1 request to the X server; 4 x 4 pixels, so that rows, pairs and chroma rows all repeat |
| `rtsp` | the rounds, without a bound on their number | files of 0 to 6 frames, empty ones among them, up to 3 open files and 4 places for a source, more than one round needs |

What they show, in words:

- The application never holds more than the frame it works on, and since
  `init_mmap` insists on two buffers the driver always has one.
- The unlocked deque is less broken than it looks and more than is safe: its
  cursor cannot leave the node under any interleaving, the constructor's empty
  pointers stay below every NALU, and unless it faults it does not stay full for
  ever; but what is taken, and whether it is alive, is certain only until a
  `push_back` overlaps a `back`/`pop_back` (`IntactUnlessOverlap` and
  `PopsWhatItRead` have that premise, and TLC refutes each without it). The
  program is exposed to all of this: it uses the deque as `FrameDeque` has it
  (`DequeProtocol`), with no lock that would rule the overlap out.
- Between its size test and its push each thread loses nothing to the other,
  because only it moves the size in the direction it tested (`TestsStillHold`).
- The shutdown is orderly: the server outlives both threads. 'q' ends the
  program if the camera delivers, unless only the capture thread could be
  created, which then waits for the server for ever. A crash counts as an end:
  that the join of a thread never created may crash, and that the encoder may be
  closed unopened, is in the model, but no property forbids it.
- The JPEG file is exact but for its end: a standard decoder finds its way
  through the header, learns the size and the quantizers that were used, and from
  the data plus the partial byte recovers every block; every sample is made from
  its own pixel, for YUV444 if the picture has the one size built in. The 128
  entries are enough.
- libx264 is given the whole picture: each byte of both planes is written, once,
  with the sample NV12 wants there.
- Frames enter the pipe whole and in order however slow the viewer is. As long
  as no read is short and the image is not shared, the window shows one frame, and
  for three of the four formats the right pixels. Without either premise TLC
  refutes it: a shared image is overwritten while the X server paints.
- The sink of the RTSP rounds never asks a closed source, each round closes its
  file, and each is followed by another until the file cannot be opened.

### Divergences found

Each is a run that TLC must end with a counterexample, and a finding in
`PROJECT.json` with the line it contradicts.

| Run | Refuted | Why |
|---|---|---|
| `sample_payload` | `NoStalePayloadQueued` | the deque keeps libx264's pointers past the next encode |
| `sample_stall` | `QuitEnds` without a delivering camera | the DQBUF retry loop never looks at the exit flag |
| `jpeg_tail` | `AllBitsInFile` | the bits in the last partial byte are never written |
| `pipe_torn` | `EntireFrame` | the viewer draws after a short read as if it were whole; the rest is what the memory held, nothing at first, later part of an earlier frame |
| `pipe_yuyv` | `PixelsProcessed` | the second luminance of a YUYV pair is the next pair's; at depth 16 the loop never moves |

Two more are plain from a single line and have no run: `v4l2.c:226` never reads
back the size S_FMT answers with (the "check the configuration" of line 229 is
commented out), so a buffer may be smaller than the picture the encoder reads;
and `main.cpp:92` never sets eof, so that the frames still inside libx264 are
lost when the encoder is closed.

`sample_stall` runs under `ThreadSpec`, which has fairness for all three
threads, so the counterexample is the stalled camera and nothing else.

Deadlock is not checked (`CHECK_DEADLOCK FALSE`) in runs whose program really
ends: a dead process, a closed encoder, a finished file, a faulted deque.

### Fairness

- `V4l2Capture!LiveSpec`: weak fairness of the read and release of the running
  loop, and of `DriverFill`, which is an assumption about the camera.
- `FrameDeque!LiveSpec`: weak fairness of each thread; both are ordinary threads
  of a preemptive scheduler and no step of theirs waits for a lock.
- `Sample!ThreadSpec`: weak fairness of each of the three threads as a whole.
  `Quit` (a key) and `ReadFails` have none. `LiveSpec` adds `DriverFill`.
- `FramePipe!LiveSpec`: weak fairness of each of the two processes and of the X
  server. The camera and failing calls have none; `SelectTimeout` is part of the capturer because
  the kernel's clock makes it happen.
- `RtspStream!LiveSpec`: weak fairness of the stream as a whole: `doEventLoop`
  handles every event and the file can be read. `exit(1)` is never due.

## 5. The proofs

TLC looks at small instances; the theorems below hold for every value of the
constants, from these assumptions only.

| Assumption | Why the code justifies it |
|---|---|
| `MaxGrant >= 2` | a driver that grants fewer buffers never gets past `init_mmap` |
| `NoFrame` is no number; an empty pointer, a dangling one and a NALU are three things; `None` is no source | they are names for different things |
| `Limit` is positive, `MaxDelay` a number, eof 0 or 1 | the limit is 10, the others are counts and flags |
| at least one file may be open | else `play` never gets its first |
| the size of the encoder's and the viewer's picture is even | 640 x 480; both loops work on pairs of pixels and of lines |
| a frame has at least 2 chunks | a chunk is what a pipe passes at once; the text `-w` prints is shorter than a frame, but with one chunk per frame it would count as one and `PictureIsFrame` would be false |
| JPEG: the width of a YUYV picture is even, its size otherwise any number | a YUYV line is made of pairs |
| JPEG: coefficients have 11 bits, and AC coefficients are not -1024 | 8-bit samples through an orthonormal transform, divided by quantizers of 1 or more |

**`V4l2Capture_proofs`.** The properties are about the streaming phase and are
not inductive: that every granted buffer is mapped and queued by then is the
work of three loops. `IInv` adds what holds between their turns:

- `Progress`: in each phase, how much is granted, mapped and queued, and that no
  frame is held before streaming. "At least two" enters here.
- `Ownership`: a buffer exists iff it is below `granted`; during the queueing
  loop the driver owns exactly those below `next`; afterwards the application
  owns exactly its frame.
- `QbufNeverRejected`, needed by itself: only `Ownership` tells that the QBUF of
  a loop turn cannot meet a buffer the driver owns.

Theorems: `TypeCorrect`, `NoBufferLeaks` (`AppOwnsOnlyFrame`),
`DriverHasABuffer` (`DriverNeverStarved`: of two buffers the application has one
at most), `NoDoubleQueue`, `FrameAlwaysMapped`.

**`FrameDeque_proofs`.** `IInv` is `TypeOK /\ Cursors /\ Bottom /\ (~overlap =>
Calls /\ Elements)`. `Cursors` and `Bottom` are race-proof. `Cursors` follows
thread by thread what a thread knows of the size, given that the other can only
move it away from the bound that was tested. `Bottom` says that the empty
pointers come first among the elements and in the slots a `push_back` under way
may yet add: a consumer's stale cursor only lowers the size, and the producer
raises it to one past a slot it has loaded or written. `Calls` is what a call under way knows while the other thread
is in none (the cursor it loaded is still the cursor, the slot it wrote still
holds its element), and `Elements` what the deque then holds.

Theorems: `TypeCorrect`, `CursorStaysInBounds`, `OverlapIsTheOnlyDanger`
(`IntactUnlessOverlap`), `TakesWhatItRead`, `NullsStayAtBottom`; and the
refinement. `StepsLikeAStack` maps each step to one of `BoundedStack` or to a
stutter - the stack changes at the store of the cursor, in `PushStore` and
`PopStore`, and nowhere else - and `SerialIsStack` concludes that executions
without overlapping calls implement the bounded stack. With a lock around
`push_back` and around `back`/`pop_back` every execution is of that kind.

**`RtspStream_proofs`.** `IInv` is `TypeOK /\ Round`, where `Round` says for each
place of the program which source is open and what the sink has: nothing before
`play`, the new source from then on, and in the event loop, and only there, the
sink plays it. Neither property is inductive without it: that a closed source is
not played depends on the sink having let go two steps earlier. Theorems:
`TypeCorrect`, `SinkPlaysOpenSource`, `FilesAreClosed`, and `OneFileIsEnough`: the
limit on open files never stops a round.

**`X264Encoder_proofs`.** `IInv` is `TypeOK /\ Packets /\ FlushLeavesNothing`.
`Packets` counts: each turn of the flush loop moves at most one frame from
`delayed` to `out`, so that their sum stays at most one above what was inside
when the call began. Theorems: `TypeCorrect`, `ArraysLargeEnough`
(`PacketsFit`), `FlushIsComplete` (`FlushLeavesNothing`), for every delay.
`PictureIsAlwaysFrame` (`PictureIsFrame`) is about `YUYV2NV12`: for every even
size each byte of both planes is written, and with the sample NV12 wants there.
The invariant (`Filled`) says only whose planes they are; the rest is arithmetic:
each place in a plane is reached from exactly one row and one pair, and each
pair reaches a place of the plane.

**`Sample_proofs`.** The camera inside the program takes steps of the camera
module only, so its invariant is inherited, not proved again: `KeepsCaptureProtocol`
(`CaptureProtocol`) is the refinement, and `InheritsCameraSafety` draws the four
camera properties from it. `IInv` of the program then adds what the thread
positions say of each other and of what they share: who may still use the server
(main deletes it only after both joins), which frame the capture thread holds
from the read to the release, where in a call each thread is (`Calling`), and
which payload is current (`Newest`). The deque's own invariant is inherited like
the camera's: every step of the program is one of `FrameDeque` or none
(`QueueStep`), so what a thread's test still says comes from `Cursors`, race
included. `Newest` is needed because the order of the calls is not enough: no
slot is current until the push has written its element; from then on it lies at
the end of the deque or beyond, and so does every cursor the push still holds,
so that neither the push nor a `pop_back` that overlaps it can lift the size over
it by more than one. Theorems: `TypeCorrect`,
`CaptureWorksOnOwnFrame` (`WorksOnOwnFrame`), `ServerIsDeletedLast`
(`ServerOutlivesThreads`), `OnlyTopIsCurrent` (`CurrentPayloadOnTop`),
`TestsHoldUntilUse` (`TestsStillHold`), and `KeepsDequeProtocol`
(`DequeProtocol`), the second refinement. `InheritsDequeSafety` draws from it
what `FrameDeque_proofs` shows, under the premise it has there: bounds and
empty pointers always, whole elements as long as no `push_back` has run during a
`back`/`pop_back`.

**`FramePipe_proofs`.** First the conversions: the loops of the viewer as sets of
stored pixels, against the picture the V4L2 format describes, for every even size
and both depths. `ConversionIsPicture` (YUV420, RGB565, RGB32: equal),
`YuyvIsNeverPicture` (YUYV: never equal, for no size), `BytesInFrame` (no conversion
of the three reads behind the frame).

Then the pipeline. The argument follows a frame. Each buffer of the
capturer's driver is in one place (`IInv`: queued, filled, or the application's),
so the driver never fills the one that is being written; therefore what enters
the pipe is whole, one camera frame after the other (`FramesGoOutWhole`); what the
viewer took is a prefix of that stream, so that without a short read `videoFrame`
holds one whole frame; and with a private image each later stage - image, request,
window - holds what the one before held (`WindowShowsFrame`, with the conversions'
theorems). `BuffersComeBack` says that between two turns of its loop the capturer
holds no buffer. All four invariants of the run `pipe` are theorems.

**`JpegEncoder_proofs`.** The coder's functions are recursive over data, and the
library's induction rules take a predicate, which the provers cannot instantiate.
The induction is done with sets: the numbers for which a claim fails, if there
are any, have a least one (`Least`, from the well-foundedness of `<`). `FlattenKeeps`
turns this into the rule the rest uses: a set of sequences that is kept when one
more piece is appended holds the whole.

- `BitStringsFit` (`EntriesFit`): each coefficient's bit strings are charged to
  the positions of its run. A coefficient after z zeros takes z / 16 + 2 strings and
  z + 1 positions, so that all up to the last nonzero one, at `EndPos`, take at most
  2 `EndPos`. With the DC's two and the end of block, which is left out at position
  63, this is 128 and no more.
- `NoMarkerWritten` (`NoMarkerInData`): the data without a marker are closed under
  concatenation, because none of them ends in 0xFF; and each stuffed byte is such data.
- `TypeCorrect`: needs the types of the Huffman tables (each code at most 16 bits,
  from the lengths in ascending order), that each quantizer is in 1 .. 255 and that
  the scan reaches all 64, that AC coefficients have 10 bits and DC differences 11.
- `SamplesInPlace` (`SamplesOfOwnPixels`): macro blocks start at multiples of 8, hence
  at an even pixel, and the code's offset of a pair of pixels is that of its own.
- `ReadsInside`: with both sides multiples of 8 no conversion reads past the
  picture. Without it the last macro blocks stick out, and `encode_*` looks at no size.

The proof corrected the model: `TypeOK` used to say that `y` stays within the
height, which is false for a height that is no multiple of 8. The run now has such
pictures.

**`JpegDecoder_proofs`.** `HeaderReadsBack` and `Decodable` relate the first byte of
the file to the last and are not inductive: at the end they speak of all blocks at
once, on the way of none. `ScanInv` says what holds in between.

- The file without its stuffed zeros, followed by the bits in `acc`, is the bits of
  the codes of the blocks sent, one after the other (`Streamed`).
- The blocks sent are those up to the place (x, y) and the component at hand
  (`Coded`), and `prevDC` holds the DC coefficient of the last block of each
  component (`PrevKept`). Without these `Streamed` would say nothing of which block
  a code belongs to, nor against which predictor its difference was taken.
- The header is the one of the job, and a picture is only closed when no macro block
  is left.

`ScanInvariant` (`Spec => [](IInv /\ ScanInv)`) is proved from two facts: what
`WriteBitString` appends and keeps are the bits it was given, in order, however
they fall on byte boundaries and whatever is stuffed; and each step takes (x, y) to the next macro block.
What is left is about the decoder alone:

- `DCLumDecodes`, `ACLumDecodes`, `DCChromaDecodes`, `ACChromaDecodes`: where the
  code of a symbol stands, the decoder's table - made from the counts and values
  only - finds this symbol, no shorter code fits there, and it ends where the code
  does. Codes of one length are consecutive and begin behind all that the shorter
  ones begin (`FirstCodesApart`), so no code is the beginning of another.
- `BlockRead`: where the bit strings of a block stand the decoder reads the block:
  the difference with its sign, runs of any length, the end of block left out at 63.
- `ScanRead`: where the codes of a list of blocks stand it reads the list, by
  induction on its length.
- `HeaderStands`, `HeaderWalk`, `MarkedOnce`, `HeaderTells`: each segment stands
  where the lengths of those before lead, is the only one with its marker, and the
  tables in it are the ones the encoder used. The literal lengths of
  `_write_jpeg_header` (16, 132, 17, 418, 12) enter here.

Theorems: `HeaderIsReadBack` (`HeaderReadsBack`), `PictureIsDecoded` (`Decodable`),
and `NothingIsLost`, which says more than `Decodable`: at any time between header
and end the bytes and the bits kept back decode to the blocks sent so far. The last
partial byte, which the code drops (`jpeg_tail`), is the only loss.

The proofs are about the floating point transform's result, any block of the job,
not about the transform; and about a file whose writes succeed, as the code
assumes.

**Only model-checked.** Liveness (`FramesKeepComing`, `FullIsDrained`,
`QuitEnds`, `DrainsAfterSilence`, `RoundsGoOn`) needs fairness and ENABLED, which the
prover does not have. Every other property of a passing run is a theorem.

## 6. Limits

- The memory accesses of `FrameDeque` are interleaved one by one, in program
  order. That is what the unoptimised build does on one core or on a strongly
  ordered machine; an optimising compiler or a weaker memory order may do more.
- Some properties hold under a premise that leaves a hazard of the code outside,
  and say nothing of it: `PacketsFit` (fewer than 8 frames inside libx264),
  `SamplesOfOwnPixels` (YUV444 only in the size built in), `PictureIsFrame` (no
  short read, no shared image), `PopsWhatItRead` (no overlap). `FlushLeavesNothing`
  is about calls with eof, which `main.cpp` never makes, and `BuffersBack` about
  `capturer_mmap`: `capturer_read` asks the driver for no buffers. The hazards left
  outside are in `PROJECT.json` with a note and no property.
- Sizes of `Sample` and `FramePipe` are small; the properties compare positions
  (full, empty, newest; same or other frame), which these sizes all produce.
- The value of a pixel is data: of a conversion the models keep which bytes go
  into which result, not the arithmetic. The transform and rate control are left
  out.
- The X server paints in two halves, and the viewer converts in two; finer steps
  would tear at more lines, not in more ways. Its window is never resized.
- A `read` in `FramePipe` may return after any chunk when the pipe is empty; a
  chunk itself is never split.
- Signals, apart from EINTR as a repeated call and SIGPIPE, are left out.

Not modelled, and why:

| Part | Reason |
|---|---|
| `MyFramedSource` | does not compile: the class has no closing semicolon, and `createNew` and `deliverFrame0` are not static; nothing fills its queue |
| the arithmetic in `yuv_to_rgb_*`, `_convertMBColor*` | floating point, out of TLC's reach; the bytes it is applied to are modelled |
| `announceURL`, RTCP, the RTSP clients | print, or run inside liveMedia without a call to this code |
| `_forword_FDC` | floating point; any block stands for its result |
| `dump_yuyv`, `dump_enc`, `readbmp` | no caller |
| `stop_capturing`, `uninit_device` of the capturers | behind a main loop that does not return |
| `image_destroy` | its only caller is a second `image_create`, which never happens |
| `include/ffmpeg`, `include/x264`, `include/rtsp/*.hh`, `lib`, makefiles | third-party code and build rules |

## 7. Running the checks

`tlc -config <run>.cfg <module>.tla` with module and configuration as in
`PROJECT.json` "runs"; `sample`, `jpeg` and `pipe` take about a minute, the
others seconds. `tlapm` on each `*_proofs.tla` checks the proofs;
`JpegDecoder_proofs` takes ten minutes, `JpegEncoder_proofs` and `FramePipe_proofs` one
or two, the others seconds.
