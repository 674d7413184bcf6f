--------------------------- MODULE FramePipe_proofs ---------------------------
(***************************************************************************)
(* The pipeline for every number of buffers, frames, chunks and bytes: the *)
(* capturer gives its buffers back and sends its frames whole and in       *)
(* order, and a viewer that reads whole frames shows whole frames.         *)
(***************************************************************************)
EXTENDS FramePipe, SequenceTheorems, TLAPS

-----------------------------------------------------------------------------
(* The conversions of the viewer, for every even width and height: those of  *)
(* the three formats with a loop that is right make each pixel of the        *)
(* picture, and no other, from the bytes V4L2 has for it.                    *)

\* Width and Height are sums of two halves.
LEMMA EvenSize ==
    /\ Width \div 2 \in Nat \ {0} /\ Width = 2 * (Width \div 2)
    /\ Height \div 2 \in Nat \ {0} /\ Height = 2 * (Height \div 2)
  BY SizeAssumption

\* Width and Height in blocks of 2 x 2 pixels.
LEMMA AreaOfBlocks ==
    ASSUME NEW w \in Nat, NEW h \in Nat
    PROVE  /\ (2 * w) * (2 * h) = 4 * (w * h)
           /\ ((2 * w) * (2 * h)) \div 4 = w * h
           /\ ((2 * h) * (2 * w)) \div 4 = w * h
           /\ ((2 * w) * (2 * h) * 12) \div 8 = 6 * (w * h)
  OBVIOUS

\* What is in a row, and a row in the whole: less than the area.
LEMMA RowMajor ==
    ASSUME NEW w \in Nat, NEW h \in Nat, NEW x \in 0 .. w - 1, NEW y \in 0 .. h - 1
    PROVE  w * y + x \in 0 .. w * h - 1
  <1>1. w * (y + 1) <= w * h
    OBVIOUS
  <1> QED
    BY <1>1

\* Blue takes what the code calls V, red what it calls U: Cb and Cr.
LEMMA ColoursOfYuv ==
    ASSUME NEW x, NEW y, NEW Y, NEW Cb, NEW Cr
    PROVE  yuv_to_rgb(x, y, Y, Cr, Cb) = Colour(x, y, Y, Cb, Cr)
  <1>1. {Y, Cr, Cb} = {Y, Cb, Cr}
    OBVIOUS
  <1> QED
    BY <1>1 DEF yuv_to_rgb, Colour

\* The four pixels of a block, as one turn of the loop stores them.
Stored(xx, yy, dx, dy) ==
    yuv_to_rgb(2 * xx + dx, 2 * yy + dy, Width * (2 * yy + dy) + 2 * xx + dx,
               Width * Height + (Height * Width) \div 4
                   + (Width \div 2) * yy + xx,
               Width * Height + (Width \div 2) * yy + xx)

LEMMA StoredPixel ==
    ASSUME NEW xx \in 0 .. Width \div 2 - 1, NEW yy \in 0 .. Height \div 2 - 1,
           NEW dx \in 0 .. 1, NEW dy \in 0 .. 1
    PROVE  Stored(xx, yy, dx, dy) = Pixel("yuv420", 2 * xx + dx, 2 * yy + dy)
  <1> DEFINE x == 2 * xx + dx
             y == 2 * yy + dy
             n == Width * y + x
             quarter == (y \div 2) * (Width \div 2) + x \div 2
             area == Width * Height
  <1> USE EvenSize, SizeAssumption
  <1>1. x \div 2 = xx /\ y \div 2 = yy
    OBVIOUS
  <1>2. quarter = (Width \div 2) * yy + xx /\ quarter \in Int
    BY <1>1
  <1>3. n = Width * (2 * yy + dy) + 2 * xx + dx
    OBVIOUS
  <1>4. Width * Height + (Width \div 2) * yy + xx = area + quarter
    BY <1>2
  <1>5. Width * Height + (Height * Width) \div 4 + (Width \div 2) * yy + xx
          = area + area \div 4 + quarter
    BY <1>2
  <1>6. Stored(xx, yy, dx, dy)
          = yuv_to_rgb(x, y, n, area + area \div 4 + quarter, area + quarter)
    BY <1>3, <1>4, <1>5 DEF Stored
  <1>7. @ = Colour(x, y, n, area + quarter, area + area \div 4 + quarter)
    BY ColoursOfYuv
  <1>8. @ = Pixel("yuv420", x, y)
    BY Zenon DEF Pixel
  <1> QED
    BY <1>6, <1>7, <1>8

\* The four pixels of the blocks are the pixels of the picture.
LEMMA Yuv420IsPicture == FromYuv420 = Picture["yuv420"]
  <1> DEFINE S == {Stored(xx, yy, dx, dy) :
                      xx \in 0 .. Width \div 2 - 1,
                      yy \in 0 .. Height \div 2 - 1,
                      dx \in 0 .. 1, dy \in 0 .. 1}
             P == {Pixel("yuv420", x, y) : x \in 0 .. Width - 1,
                                           y \in 0 .. Height - 1}
  <1>1. FromYuv420 = S
    BY DEF FromYuv420, Stored
  <1>2. Picture["yuv420"] = P
    BY DEF Picture, Formats
  <1>3. ASSUME NEW p \in S PROVE p \in P
    <2> PICK xx \in 0 .. Width \div 2 - 1, yy \in 0 .. Height \div 2 - 1,
             dx \in 0 .. 1, dy \in 0 .. 1 : p = Stored(xx, yy, dx, dy)
      OBVIOUS
    <2>1. 2 * xx + dx \in 0 .. Width - 1 /\ 2 * yy + dy \in 0 .. Height - 1
      BY EvenSize
    <2> QED
      BY <2>1, StoredPixel
  <1>4. ASSUME NEW p \in P PROVE p \in S
    <2> PICK x \in 0 .. Width - 1, y \in 0 .. Height - 1 :
               p = Pixel("yuv420", x, y)
      OBVIOUS
    <2>1. /\ x \div 2 \in 0 .. Width \div 2 - 1 /\ x % 2 \in 0 .. 1
          /\ x = 2 * (x \div 2) + (x % 2)
          /\ y \div 2 \in 0 .. Height \div 2 - 1 /\ y % 2 \in 0 .. 1
          /\ y = 2 * (y \div 2) + (y % 2)
      BY EvenSize
    <2>2. p = Stored(x \div 2, y \div 2, x % 2, y % 2)
      BY <2>1, StoredPixel
    <2> QED
      BY <2>1, <2>2
  <1> HIDE DEF S, P
  <1> QED
    BY <1>1, <1>2, <1>3, <1>4

LEMMA Rgb565IsPicture == FromRgb565 = Picture["rgb565"]
  <1>1. ASSUME NEW x \in 0 .. Width - 1, NEW y \in 0 .. Height - 1
        PROVE  Width * 2 * y + 2 * x = 2 * (Width * y + x)
    BY SizeAssumption
  <1> QED
    BY <1>1 DEF FromRgb565, Picture, Pixel, Formats

LEMMA Rgb32IsPicture == FromRgb32 = Picture["rgb32"]
  <1>1. ASSUME NEW x \in 0 .. Width - 1, NEW y \in 0 .. Height - 1
        PROVE  Width * 4 * y + 4 * x = 4 * (Width * y + x)
    BY SizeAssumption
  <1> QED
    BY <1>1 DEF FromRgb32, Picture, Pixel, Formats

-----------------------------------------------------------------------------
\* For every size of the frame, and either depth of the screen, the three
\* conversions whose loops are right store the picture V4L2 describes.
THEOREM ConversionIsPicture ==
    \A f \in Formats \ {"yuyv"}, d \in Depths : Conversion[f][d] = {Picture[f]}
  <1> SUFFICES ASSUME NEW f \in Formats \ {"yuyv"}, NEW d \in Depths
               PROVE  Conversion[f][d] = {Picture[f]}
    OBVIOUS
  <1>1. CASE f = "yuv420"
    BY <1>1, Yuv420IsPicture DEF Conversion, Formats
  <1>2. CASE f = "rgb565"
    BY <1>2, Rgb565IsPicture DEF Conversion, Formats
  <1>3. CASE f = "rgb32"
    BY <1>3, Rgb32IsPicture DEF Conversion, Formats
  <1> QED
    BY <1>1, <1>2, <1>3 DEF Formats

\* And there is no size for which the YUYV conversion is right: for 24 bits the
\* second pixel of a pair takes the luminance of the next pair, for 16 bits two
\* pixels at most are stored.
THEOREM YuyvIsNeverPicture ==
    \A d \in Depths : \A pixels \in Conversion["yuyv"][d] :
        pixels # Picture["yuyv"]
  <1> USE SizeAssumption
  <1>1. Pixel("yuyv", 1, 0) \in Picture["yuyv"]
    <2>1. 1 \in 0 .. Width - 1 /\ 0 \in 0 .. Height - 1
      BY EvenSize
    <2> QED
      BY <2>1 DEF Picture, Formats
  <1>2. Pixel("yuyv", 1, 0) = Colour(1, 0, 2, 1, 3)
    BY SMTT(30) DEF Pixel
  <1>3. Pixel("yuyv", 1, 0) \notin FromYuyv24
    <2> SUFFICES ASSUME NEW xx \in 0 .. Width \div 2 - 1,
                        NEW y \in 0 .. Height - 1, NEW d \in 0 .. 1
                 PROVE  Colour(1, 0, 2, 1, 3)
                          # yuv_to_rgb(2 * xx + d, y,
                                       Width * 2 * y + 2 * (2 * xx + 2 * d),
                                       Width * 2 * y + 2 * (2 * xx) + 3,
                                       Width * 2 * y + 2 * (2 * xx) + 1)
      BY <1>2 DEF FromYuyv24
    <2>1. CASE 2 * xx + d = 1 /\ y = 0
      <3>1. xx = 0 /\ d = 1
        BY <2>1, EvenSize
      <3>2. 2 \notin {4, 1}
        OBVIOUS
      <3> QED
        BY <3>1, <3>2, <2>1 DEF Colour, yuv_to_rgb
    <2>2. CASE ~(2 * xx + d = 1 /\ y = 0)
      BY <2>2 DEF Colour, yuv_to_rgb
    <2> QED
      BY <2>1, <2>2
  <1>4. ASSUME NEW x \in 0 .. Width - 2, NEW y \in 0 .. Height - 1
        PROVE  FromYuyv16(x, y) # Picture["yuyv"]
    <2>1. PICK r \in 0 .. 1 : r # y
      OBVIOUS
    <2>2. Pixel("yuyv", 0, r) \in Picture["yuyv"]
      BY <2>1, EvenSize DEF Picture, Formats
    <2>3. Pixel("yuyv", 0, r).y = r
      BY DEF Pixel, Colour
    <2>4. \A p \in FromYuyv16(x, y) : p.y = y
      BY DEF FromYuyv16, yuv_to_rgb
    <2> QED
      BY <2>1, <2>2, <2>3, <2>4
  <1> SUFFICES ASSUME NEW d \in Depths, NEW pixels \in Conversion["yuyv"][d]
               PROVE  pixels # Picture["yuyv"]
    OBVIOUS
  <1>5. CASE d = "24"
    BY <1>1, <1>3, <1>5 DEF Conversion, Formats, Depths
  <1>6. CASE d = "16"
    BY <1>1, <1>4, <1>6 DEF Conversion, Formats, Depths
  <1> QED
    BY <1>5, <1>6 DEF Depths

\* No pixel of a picture has a byte beyond the frame.
THEOREM BytesInFrame ==
    \A f \in Formats \ {"yuyv"} : \A p \in Picture[f], c \in {"B", "G", "R"} :
        p[c] \subseteq 0 .. FrameBytes(f) - 1
  <1> USE SizeAssumption
  <1> SUFFICES ASSUME NEW x \in 0 .. Width - 1, NEW y \in 0 .. Height - 1,
                      NEW f \in Formats \ {"yuyv"}, NEW c \in {"B", "G", "R"}
               PROVE  Pixel(f, x, y)[c] \subseteq 0 .. FrameBytes(f) - 1
    BY DEF Picture
  <1> DEFINE n == Width * y + x
             area == Width * Height
  <1>1. n \in 0 .. area - 1 /\ area \in Nat
    BY RowMajor
  <1>2. CASE f = "rgb565"
    <2>1. FrameBytes(f) = 2 * area
      BY <1>2 DEF FrameBytes
    <2>2. Pixel(f, x, y)[c] \subseteq {2 * n, 2 * n + 1}
      BY <1>2 DEF Pixel
    <2> HIDE DEF n, area
    <2> QED
      BY <1>1, <2>1, <2>2
  <1>3. CASE f = "rgb32"
    <2>1. FrameBytes(f) = 4 * area
      BY <1>3 DEF FrameBytes
    <2>2. Pixel(f, x, y)[c] \subseteq {4 * n + 1, 4 * n + 2, 4 * n + 3}
      BY <1>3 DEF Pixel
    <2> HIDE DEF n, area
    <2> QED
      BY <1>1, <2>1, <2>2
  <1>4. CASE f = "yuv420"
    <2> DEFINE w == Width \div 2
               h == Height \div 2
               quarter == (y \div 2) * w + x \div 2
    <2>1. /\ w \in Nat /\ h \in Nat /\ Width = 2 * w /\ Height = 2 * h
          /\ x \div 2 \in 0 .. w - 1 /\ y \div 2 \in 0 .. h - 1
      BY EvenSize
    <2>2. quarter \in 0 .. w * h - 1
      <3>1. w * (y \div 2) + x \div 2 \in 0 .. w * h - 1
        BY <2>1, RowMajor
      <3> QED
        BY <2>1, <3>1
    <2>3. area = 4 * (w * h) /\ area \div 4 = w * h /\ FrameBytes(f) = 6 * (w * h)
      BY <1>4, <2>1, AreaOfBlocks DEF FrameBytes
    <2>4. Pixel(f, x, y)[c]
            \subseteq {n, area + quarter, area + area \div 4 + quarter}
      BY <1>4 DEF Pixel, Colour
    <2>5. w * h \in Nat
      BY <2>1
    <2> HIDE DEF n, area, quarter, w, h
    <2> QED
      BY <1>1, <2>2, <2>3, <2>4, <2>5
  <1> QED
    BY <1>2, <1>3, <1>4 DEF Formats

-----------------------------------------------------------------------------
(* The invariant of the pipeline *)

C == ChunksPerFrame

Buffers == 1 .. granted

Chunks == [frame : Nat, part : Nat]

Before == {"open", "input", "init", "buffers", "start"}

\* capturer_mmap has a buffer of the driver.
Holding == program = "capturer_mmap" /\ cphase \in {"write", "requeue"}

Constants ==
    /\ program \in {"capturer_mmap", "capturer_read"} /\ format \in Formats
    /\ windowArg \in BOOLEAN

\* Every buffer is in one place: with the driver, empty or filled, or held.
Driver ==
    /\ queued \in Seq(Buffers) /\ filled \in Seq(Buffers)
    /\ content \in [1 .. MaxGrant -> Nat] /\ captured \in 0 .. MaxFrames
    /\ cphase \in Before => queued = <<>> /\ filled = <<>> /\ held = 0
    /\ \A i, j \in DOMAIN queued : queued[i] = queued[j] => i = j
    /\ \A i, j \in DOMAIN filled : filled[i] = filled[j] => i = j
    /\ \A i \in DOMAIN queued, j \in DOMAIN filled : queued[i] # filled[j]
    /\ cphase = "requeue" => Holding
    /\ Holding => /\ held \in Buffers
                  /\ \A i \in DOMAIN queued : queued[i] # held
                  /\ \A i \in DOMAIN filled : filled[i] # held
    /\ Streaming =>
         Len(queued) + Len(filled) = IF Holding THEN granted - 1 ELSE granted

\* The frames waiting in the driver are in order, and newer than what is being
\* written, which is newer than what has been written.
Order ==
    Streaming =>
        /\ \A i \in DOMAIN filled : content[filled[i]] \in 1 .. captured
        /\ \A i, j \in DOMAIN filled :
             i < j => content[filled[i]] < content[filled[j]]
        /\ \A i \in DOMAIN filled, k \in DOMAIN stream :
             stream[k].frame < content[filled[i]]
        /\ cphase = "write" =>
             /\ Source \in 1 .. captured
             /\ \A i \in DOMAIN filled : Source < content[filled[i]]

\* The write under way: so many chunks of its frame are out.
Written ==
    /\ stream \in Seq(Chunks)
    /\ \A k \in DOMAIN stream : stream[k].frame \in 1 .. captured
    /\ cphase \in Before => stream = <<>>
    /\ cphase \in {"select", "read", "requeue", "flush"} => Len(stream) % C = 0
    /\ cphase = "write" =>
         /\ part < C /\ Len(stream) % C = part
         /\ \A k \in DOMAIN stream :
              IF k <= Len(stream) - part THEN stream[k].frame < Source
                                         ELSE stream[k].frame = Source

\* What the viewer has taken from the pipe is what was written first: n chunks,
\* of which the last are in videoFrame; with, at the end of the pipe, a text.
Taken(texts) ==
    LET n == Len(stream) + texts - Len(pipe)
    IN  /\ n \in 0 .. Len(stream) /\ n % C = vpos % C /\ vpos <= n
        /\ Len(pipe) >= texts
        /\ \A i \in 1 .. Len(pipe) - texts : pipe[i] = stream[n + i]
        /\ \A i \in 1 .. vpos : videoFrame[i] = stream[n - vpos + i]

\* As long as no read fell short, the viewer is in step with the capturer.
InStep ==
    /\ pipe \in Seq(Chunks) /\ videoFrame \in [1 .. C -> Chunks]
    /\ short \in BOOLEAN
    /\ vphase \in {"display", "image"} => ~short /\ vpos = 0
    /\ ~short =>
         /\ vphase \in {"upper", "lower", "put"} => vpos = C
         /\ \/ Taken(0)
            \/ cphase = "ended" /\ Len(stream) % C = 0 /\ Taken(1)
            \/ cphase = "ended" /\ pipe = <<>> /\ vphase = "read" /\ vpos = 1

\* The frames of the camera, whole.
WholeFrames ==
    {[i \in 1 .. C |-> [frame |-> n, part |-> i]] : n \in 1 .. MaxFrames}

\* The halves of an image; what is sent of it.
Image == [1 .. 2 -> [1 .. C -> Chunks]]
Sent == IF isShared THEN {<<>>} ELSE Image

WindowTypes ==
    /\ drawn \in Image /\ screen \in Image /\ requests \in Seq(Sent)
    /\ isShared \in BOOLEAN /\ serving \in BOOLEAN
    /\ vphase \in {"display", "image"} =>
         /\ requests = <<>> /\ ~serving
         /\ screen[1] = screen[2] /\ screen[2][1] = NoChunk

\* From the conversion to the window: both halves are of one frame.
Window ==
    ~short /\ ~isShared =>
      /\ vphase \in {"upper", "lower", "put"} => videoFrame \in WholeFrames
      /\ vphase \in {"lower", "put"} => drawn[1] = videoFrame
      /\ vphase = "put" => drawn[2] = videoFrame
      /\ \A i \in DOMAIN requests :
           requests[i][1] = requests[i][2] /\ requests[i][1] \in WholeFrames
      /\ IF serving THEN screen[1] = requests[1][1]
         ELSE /\ screen[1] = screen[2]
              /\ screen[2][1] # NoChunk => screen[2] \in WholeFrames

IInv ==
    /\ TypeOK /\ Constants /\ Driver /\ Order /\ Written /\ FramesIntact
    /\ InStep /\ WindowTypes /\ Window

\* TypeOK program by program.
CapturerTypes ==
    /\ cphase \in Before \cup {"select", "read", "write", "requeue", "flush",
                               "ended"}
    /\ granted \in {0} \cup 2 .. MaxGrant
    /\ cphase = "read" => filled # <<>>
    /\ held \in 0 .. granted /\ cnt \in 0 .. DstFrame - 1
    /\ part \in 0 .. C

ViewerTypes ==
    /\ vphase \in {"display", "image", "read", "upper", "lower", "put", "ended"}
    /\ image \in Depths \cup {"none", "unusable"}
    /\ Len(requests) <= MaxRequests /\ (serving => requests # <<>>)
    /\ vpos \in 0 .. C

-----------------------------------------------------------------------------
(* Arithmetic *)

LEMMA Parameters ==
    /\ C \in Nat \ {0} /\ C >= 2 /\ MaxGrant \in Nat /\ DstFrame \in Nat \ {0}
    /\ Capacity \in Nat /\ MaxRequests \in Nat /\ MaxFrames \in Nat
  BY PipeAssumption DEF C

LEMMA ModUnique ==
    ASSUME NEW c \in Nat \ {0}, NEW q \in Nat, NEW r \in 0 .. c - 1
    PROVE  (c * q + r) % c = r
  OBVIOUS

LEMMA ModSmall ==
    ASSUME NEW c \in Nat \ {0}, NEW r \in 0 .. c - 1
    PROVE  r % c = r
  OBVIOUS

LEMMA ModRange ==
    ASSUME NEW c \in Nat \ {0}, NEW a \in Nat
    PROVE  a % c \in 0 .. c - 1 /\ a % c <= a
  OBVIOUS

\* The next one.
LEMMA ModStep ==
    ASSUME NEW c \in Nat \ {0}, NEW a \in Nat
    PROVE  (a + 1) % c = IF a % c = c - 1 THEN 0 ELSE (a % c) + 1
  <1> DEFINE q == a \div c
             r == a % c
  <1>1. a = c * q + r /\ q \in Nat /\ r \in 0 .. c - 1
    OBVIOUS
  <1> HIDE DEF q, r
  <1>2. CASE r = c - 1
    <2>1. a + 1 = c * (q + 1) + 0
      BY <1>1, <1>2
    <2>2. (a + 1) % c = 0
      BY <1>1, <2>1, ModUnique
    <2> QED
      BY <1>2, <2>2 DEF r
  <1>3. CASE r # c - 1
    <2>1. a + 1 = c * q + (r + 1) /\ r + 1 \in 0 .. c - 1
      BY <1>1, <1>3
    <2>2. (a + 1) % c = r + 1
      BY <1>1, <2>1, ModUnique
    <2> QED
      BY <1>3, <2>2 DEF r
  <1> QED
    BY <1>2, <1>3

\* The k-th one after a multiple.
LEMMA ModOffset ==
    ASSUME NEW c \in Nat \ {0}, NEW a \in Nat, a % c = 0, NEW k \in 0 .. c - 1
    PROVE  (a + k) % c = k
  <1> DEFINE q == a \div c
  <1>1. a = c * q /\ q \in Nat
    OBVIOUS
  <1> HIDE DEF q
  <1> QED
    BY <1>1, ModUnique

\* A whole multiple back.
LEMMA ModBack ==
    ASSUME NEW c \in Nat \ {0}, NEW a \in Nat, a % c = 0, a >= c
    PROVE  (a - c) % c = 0
  <1> DEFINE q == a \div c
  <1>1. a = c * q /\ q \in Nat
    OBVIOUS
  <1> HIDE DEF q
  <1>2. q >= 1 /\ a - c = c * (q - 1) + 0
    BY <1>1
  <1> QED
    BY <1>2, <1>1, ModUnique

-----------------------------------------------------------------------------
(* The capturer *)

LEMMA TypeParts == TypeOK /\ Driver => CapturerTypes
  BY DEF TypeOK, CapturerTypes, Before, C

\* A step that neither moves a buffer nor writes a frame.
Quiet ==
    /\ UNCHANGED <<config, driver, writer, stream>>
    /\ \/ cphase' = cphase
       \/ cphase \in Before /\ cphase' \in Before
       \/ cphase = "select" /\ cphase' = "read" /\ filled # <<>>
       \/ cphase' = "flush" /\ cphase \in Before \cup {"select", "read", "requeue"}
       \/ cphase' = "ended"

LEMMA CapturerSteps == [Next]_vars =>
    \/ DriverFill \/ init_mmap \/ init_read \/ start_capturing \/ Dqbuf
    \/ ReadDevice \/ Write \/ Qbuf \/ Quiet
  <1> SUFFICES ASSUME [Next]_vars
               PROVE  \/ DriverFill \/ init_mmap \/ init_read
                      \/ start_capturing \/ Dqbuf \/ ReadDevice \/ Write
                      \/ Qbuf \/ Quiet
    OBVIOUS
  <1> USE DEF Quiet, Before
  <1>1. CASE Viewer \/ XServer \/ ViewerFails \/ UNCHANGED vars
    BY <1>1 DEF Viewer, XServer, ViewerFails, vars, OpenDisplay, image_create,
                ReadChunk, ReadReturns, Draw, process_image_yuv420,
                process_image_rgb565, process_image_rgb32,
                process_image_yuv422, image_put
  <1>2. CASE CapturerFails \/ DeviceFails
    BY <1>2 DEF CapturerFails, DeviceFails, Exit
  <1>3. CASE Capturer
    BY <1>3 DEF Capturer, device_info, open_device, set_input, init_device,
                SelectReady, SelectTimeout, Exit, WriteKilled, Flush
  <1> QED
    BY <1>1, <1>2, <1>3 DEF Next

LEMMA ConstantsNext == Constants /\ [Next]_vars => Constants'
  BY CapturerSteps
  DEF Constants, Quiet, config, DriverFill, init_mmap, init_read,
      start_capturing, Dqbuf, ReadDevice, Write, Qbuf

LEMMA CapturerNext == IInv /\ [Next]_vars => CapturerTypes'
  <1> SUFFICES ASSUME IInv, [Next]_vars PROVE CapturerTypes'
    OBVIOUS
  <1> USE Parameters DEF CapturerTypes
  <1>1. CapturerTypes /\ Constants
    BY TypeParts DEF IInv
  <1>2. CASE Quiet
    BY <1>1, <1>2 DEF Quiet, Before, driver, writer
  <1>3. CASE DriverFill
    <2>1. /\ filled' = Append(filled, Head(queued)) /\ filled \in Seq(Buffers)
          /\ UNCHANGED <<cphase, granted, writer>>
      BY <1>3 DEF DriverFill, Driver, IInv
    <2>2. filled' # <<>>
      BY <2>1
    <2> QED
      BY <1>1, <2>1, <2>2 DEF writer
  <1>4. CASE init_mmap \/ init_read
    <2>1. held = 0
      BY <1>4 DEF init_mmap, init_read, IInv, Driver, Before
    <2> QED
      BY <1>1, <1>4, <2>1
      DEF init_mmap, init_read, EnoughBuffers, Before, writer
  <1>5. CASE start_capturing
    BY <1>1, <1>5 DEF start_capturing, writer
  <1>6. CASE Dqbuf
    <2>1. Head(filled) \in Buffers
      BY <1>1, <1>6 DEF Dqbuf, IInv, Driver
    <2>2. (cnt + 1) % DstFrame \in 0 .. DstFrame - 1
      BY <1>1
    <2> QED
      BY <1>1, <1>6, <2>1, <2>2 DEF Dqbuf, Buffers
  <1>7. CASE ReadDevice
    BY <1>1, <1>7 DEF ReadDevice
  <1>8. CASE Write
    <2>1. part < C
      BY <1>8 DEF Write, IInv, Written
    <2> QED
      BY <1>1, <1>8, <2>1 DEF Write, driver, C
  <1>9. CASE Qbuf
    BY <1>1, <1>9 DEF Qbuf, writer
  <1> QED
    BY <1>2, <1>3, <1>4, <1>5, <1>6, <1>7, <1>8, <1>9, CapturerSteps

-----------------------------------------------------------------------------
(* The buffers *)

\* What Head, Tail and Append do to a queue of the driver.
LEMMA HeadAndTail ==
    ASSUME NEW S, NEW q \in Seq(S), q # <<>>
    PROVE  /\ Head(q) \in S /\ Head(q) = q[1] /\ 1 \in DOMAIN q
           /\ Tail(q) \in Seq(S) /\ Len(q) \in Nat /\ Len(Tail(q)) = Len(q) - 1
           /\ \A i \in DOMAIN Tail(q) : i + 1 \in DOMAIN q /\ Tail(q)[i] = q[i + 1]
  BY HeadTailProperties, EmptySeq

LEMMA Appended ==
    ASSUME NEW S, NEW q \in Seq(S), NEW e \in S
    PROVE  /\ Append(q, e) \in Seq(S) /\ Len(q) \in Nat
           /\ Len(Append(q, e)) = Len(q) + 1
           /\ DOMAIN Append(q, e) = DOMAIN q \cup {Len(q) + 1}
           /\ \A i \in DOMAIN q : Append(q, e)[i] = q[i] /\ i < Len(q) + 1
           /\ Append(q, e)[Len(q) + 1] = e
  BY AppendProperties

LEMMA DriverNext == IInv /\ [Next]_vars => Driver'
  <1> SUFFICES ASSUME IInv, [Next]_vars PROVE Driver'
    OBVIOUS
  <1> USE Parameters
  <1>1. Driver /\ CapturerTypes /\ Constants
    BY TypeParts DEF IInv
  <1>2. CASE Quiet
    BY <1>1, <1>2 DEF Quiet, Before, driver, writer, config, Driver, Holding,
                      Streaming, Buffers
  <1>3. CASE DriverFill
    <2>1. /\ queued \in Seq(Buffers) /\ queued # <<>> /\ filled \in Seq(Buffers)
          /\ queued' = Tail(queued) /\ filled' = Append(filled, Head(queued))
          /\ content' = [content EXCEPT ![Head(queued)] = captured + 1]
          /\ captured' = captured + 1 /\ captured < MaxFrames
          /\ UNCHANGED <<cphase, granted, config, writer>> /\ Streaming
      BY <1>1, <1>3 DEF DriverFill, Driver
    <2>2. /\ Head(queued) \in Buffers /\ Head(queued) = queued[1]
          /\ 1 \in DOMAIN queued
          /\ queued' \in Seq(Buffers) /\ Len(queued) \in Nat
          /\ Len(queued') = Len(queued) - 1
          /\ \A i \in DOMAIN queued' : i + 1 \in DOMAIN queued
                                       /\ queued'[i] = queued[i + 1]
      BY <2>1, HeadAndTail
    <2>3. /\ filled' \in Seq(Buffers) /\ Len(filled) \in Nat
          /\ Len(filled') = Len(filled) + 1
          /\ DOMAIN filled' = DOMAIN filled \cup {Len(filled) + 1}
          /\ \A i \in DOMAIN filled : filled'[i] = filled[i]
          /\ filled'[Len(filled) + 1] = queued[1]
      BY <2>1, <2>2, Appended
    <2>4. /\ Buffers' = Buffers /\ (Holding' <=> Holding) /\ held' = held
          /\ Streaming' /\ cphase' \notin Before
      BY <2>1 DEF Buffers, Holding, config, writer, Streaming, Before
    <2>5. content' \in [1 .. MaxGrant -> Nat] /\ captured' \in 0 .. MaxFrames
      <3>1. content \in [1 .. MaxGrant -> Nat] /\ captured \in 0 .. MaxFrames
        BY <1>1 DEF Driver
      <3>2. captured' \in 0 .. MaxFrames /\ captured + 1 \in Nat
        BY <2>1, <3>1
      <3> QED
        BY <2>1, <3>1, <3>2
    <2>6. \A i, j \in DOMAIN queued' : queued'[i] = queued'[j] => i = j
      <3> SUFFICES ASSUME NEW i \in DOMAIN queued', NEW j \in DOMAIN queued',
                          queued'[i] = queued'[j]
                   PROVE  i = j
        OBVIOUS
      <3>1. i + 1 = j + 1
        BY <1>1, <2>2 DEF Driver
      <3> QED
        BY <3>1, <2>2
    <2>7. \A i, j \in DOMAIN filled' : filled'[i] = filled'[j] => i = j
      BY <1>1, <2>2, <2>3 DEF Driver
    <2>8. \A i \in DOMAIN queued', j \in DOMAIN filled' : queued'[i] # filled'[j]
      <3> SUFFICES ASSUME NEW i \in DOMAIN queued', NEW j \in DOMAIN filled'
                   PROVE  queued'[i] # filled'[j]
        OBVIOUS
      <3>1. i + 1 \in DOMAIN queued /\ i + 1 # 1 /\ queued'[i] = queued[i + 1]
        BY <2>2
      <3> QED
        BY <1>1, <2>2, <2>3, <3>1, SMTT(30) DEF Driver
    <2>9. Holding' => /\ held' \in Buffers'
                      /\ \A i \in DOMAIN queued' : queued'[i] # held'
                      /\ \A i \in DOMAIN filled' : filled'[i] # held'
      BY <1>1, <2>2, <2>3, <2>4 DEF Driver
    <2>10. Len(queued') + Len(filled') = Len(queued) + Len(filled)
      BY <2>2, <2>3
    <2>11. Streaming' => Len(queued') + Len(filled')
                           = IF Holding' THEN granted' - 1 ELSE granted'
      BY <1>1, <2>1, <2>4, <2>10 DEF Driver
    <2>12. cphase' = "requeue" => Holding'
      BY <1>1, <2>1, <2>4 DEF Driver
    <2> QED
      BY <2>2, <2>3, <2>4, <2>5, <2>6, <2>7, <2>8, <2>9, <2>11, <2>12
      DEF Driver
  <1>4. CASE init_mmap \/ init_read
    <2>1. /\ queued = <<>> /\ filled = <<>> /\ held = 0 /\ cphase' = "start"
          /\ UNCHANGED <<queued, filled, content, captured, held>>
      BY <1>1, <1>4 DEF init_mmap, init_read, Driver, Before, writer
    <2> QED
      BY <1>1, <2>1 DEF Driver, Holding, Streaming
  <1>5. CASE start_capturing
    <2>1. /\ cphase = "start" /\ cphase' = "select" /\ filled = <<>>
          /\ queued' = [i \in Buffers |-> i]
          /\ UNCHANGED <<granted, filled, content, captured>>
      BY <1>1, <1>5 DEF start_capturing, Driver, Before, Buffers
    <2>2. granted \in Nat /\ granted' = granted
      BY <1>1, <2>1 DEF CapturerTypes
    <2>3. queued' \in Seq(Buffers) /\ Len(queued') = granted
      BY <2>1, <2>2 DEF Buffers
    <2> QED
      BY <1>1, <2>1, <2>2, <2>3 DEF Driver, Holding, Streaming, Buffers, Before
  <1>6. CASE Dqbuf
    <2>1. /\ filled \in Seq(Buffers) /\ filled # <<>>
          /\ held' = Head(filled) /\ filled' = Tail(filled)
          /\ cphase' \in {"write", "requeue"} /\ cphase = "read"
          /\ program' = program /\ program = "capturer_mmap"
          /\ UNCHANGED <<granted, queued, content, captured>>
      BY <1>1, <1>6 DEF Dqbuf, Driver, CapturerTypes, config
    <2>2. /\ Head(filled) \in Buffers /\ Head(filled) = filled[1]
          /\ 1 \in DOMAIN filled
          /\ filled' \in Seq(Buffers) /\ Len(filled) \in Nat
          /\ Len(filled') = Len(filled) - 1
          /\ \A i \in DOMAIN filled' : i + 1 \in DOMAIN filled
                                       /\ filled'[i] = filled[i + 1]
      BY <2>1, HeadAndTail
    <2>3. /\ Buffers' = Buffers /\ Holding' /\ ~Holding /\ Streaming
          /\ Streaming' /\ cphase' \notin Before
      BY <2>1 DEF Buffers, Holding, Streaming, Before
    <2>4. \A i, j \in DOMAIN filled' : filled'[i] = filled'[j] => i = j
      <3> SUFFICES ASSUME NEW i \in DOMAIN filled', NEW j \in DOMAIN filled',
                          filled'[i] = filled'[j]
                   PROVE  i = j
        OBVIOUS
      <3>1. i + 1 = j + 1
        BY <1>1, <2>2 DEF Driver
      <3> QED
        BY <3>1, <2>2
    <2>5. /\ \A i \in DOMAIN queued : queued[i] # held'
          /\ \A i \in DOMAIN filled' : filled'[i] # held'
      <3>1. \A i \in DOMAIN filled' : i + 1 \in DOMAIN filled /\ i + 1 # 1
        BY <2>2
      <3> QED
        BY <1>1, <2>1, <2>2, <3>1, SMTT(30) DEF Driver
    <2>6. Len(queued) + Len(filled') = granted - 1
      BY <1>1, <2>2, <2>3 DEF Driver, CapturerTypes
    <2> QED
      BY <1>1, <2>1, <2>2, <2>3, <2>4, <2>5, <2>6 DEF Driver
  <1>7. CASE ReadDevice
    <2>1. /\ filled \in Seq(Buffers) /\ filled # <<>> /\ queued \in Seq(Buffers)
          /\ filled' = Tail(filled) /\ queued' = Append(queued, Head(filled))
          /\ cphase' = "write" /\ cphase = "read"
          /\ program' = program /\ program = "capturer_read"
          /\ UNCHANGED <<granted, content, captured>>
      BY <1>1, <1>7 DEF ReadDevice, Driver, CapturerTypes, config
    <2>2. /\ Head(filled) \in Buffers /\ Head(filled) = filled[1]
          /\ 1 \in DOMAIN filled
          /\ filled' \in Seq(Buffers) /\ Len(filled) \in Nat
          /\ Len(filled') = Len(filled) - 1
          /\ \A i \in DOMAIN filled' : i + 1 \in DOMAIN filled
                                       /\ filled'[i] = filled[i + 1]
      BY <2>1, HeadAndTail
    <2>3. /\ queued' \in Seq(Buffers) /\ Len(queued) \in Nat
          /\ Len(queued') = Len(queued) + 1
          /\ DOMAIN queued' = DOMAIN queued \cup {Len(queued) + 1}
          /\ \A i \in DOMAIN queued : queued'[i] = queued[i]
          /\ queued'[Len(queued) + 1] = filled[1]
      BY <2>1, <2>2, Appended
    <2>4. /\ Buffers' = Buffers /\ ~Holding' /\ ~Holding /\ Streaming
          /\ Streaming' /\ cphase' \notin Before
      BY <2>1 DEF Buffers, Holding, Streaming, Before
    <2>5. \A i, j \in DOMAIN filled' : filled'[i] = filled'[j] => i = j
      <3> SUFFICES ASSUME NEW i \in DOMAIN filled', NEW j \in DOMAIN filled',
                          filled'[i] = filled'[j]
                   PROVE  i = j
        OBVIOUS
      <3>1. i + 1 = j + 1
        BY <1>1, <2>2 DEF Driver
      <3> QED
        BY <3>1, <2>2
    <2>6. \A i, j \in DOMAIN queued' : queued'[i] = queued'[j] => i = j
      BY <1>1, <2>2, <2>3 DEF Driver
    <2>7. \A i \in DOMAIN queued', j \in DOMAIN filled' : queued'[i] # filled'[j]
      <3> SUFFICES ASSUME NEW i \in DOMAIN queued', NEW j \in DOMAIN filled'
                   PROVE  queued'[i] # filled'[j]
        OBVIOUS
      <3>1. j + 1 \in DOMAIN filled /\ j + 1 # 1 /\ filled'[j] = filled[j + 1]
        BY <2>2
      <3>2. filled[j + 1] # filled[1]
        BY <1>1, <2>2, <3>1 DEF Driver
      <3>3. CASE i \in DOMAIN queued
        BY <1>1, <2>3, <3>1, <3>3 DEF Driver
      <3> QED
        BY <2>3, <3>1, <3>2, <3>3
    <2>8. Len(queued') + Len(filled') = granted
      BY <1>1, <2>2, <2>3, <2>4 DEF Driver, CapturerTypes
    <2> QED
      BY <1>1, <2>1, <2>2, <2>3, <2>4, <2>5, <2>6, <2>7, <2>8 DEF Driver
  <1>8. CASE Write
    <2>1. /\ cphase = "write" /\ program' = program /\ held' = held
          /\ \/ cphase' = "write"
             \/ cphase' = "requeue" /\ program = "capturer_mmap"
             \/ cphase' = "select" /\ program = "capturer_read"
          /\ UNCHANGED driver
      BY <1>1, <1>8 DEF Write, config, Constants
    <2> QED
      BY <1>1, <2>1
      DEF Driver, driver, Holding, Streaming, Before, Buffers
  <1>9. CASE Qbuf
    <2>2. Holding
      BY <1>1, <1>9 DEF Driver, Qbuf
    <2>3. /\ queued \in Seq(Buffers) /\ held \in Buffers
          /\ queued' = Append(queued, held)
          /\ cphase' = "select" /\ cphase = "requeue"
          /\ UNCHANGED <<granted, filled, content, captured, held>>
      BY <1>1, <1>9, <2>2 DEF Qbuf, Driver, writer
    <2>4. /\ queued' \in Seq(Buffers) /\ Len(queued) \in Nat
          /\ Len(queued') = Len(queued) + 1
          /\ DOMAIN queued' = DOMAIN queued \cup {Len(queued) + 1}
          /\ \A i \in DOMAIN queued : queued'[i] = queued[i]
          /\ queued'[Len(queued) + 1] = held
      BY <2>3, Appended
    <2>5. /\ Buffers' = Buffers /\ ~Holding' /\ Streaming
          /\ Streaming' /\ cphase' \notin Before
      BY <2>3 DEF Buffers, Holding, Streaming, Before
    <2>6. \A i, j \in DOMAIN queued' : queued'[i] = queued'[j] => i = j
      BY <1>1, <2>2, <2>4 DEF Driver
    <2>7. \A i \in DOMAIN queued', j \in DOMAIN filled' : queued'[i] # filled'[j]
      BY <1>1, <2>2, <2>3, <2>4 DEF Driver
    <2>8. Len(queued') + Len(filled') = granted
      <3>1. Len(filled) \in Nat /\ granted \in Nat
        BY <1>1 DEF Driver, CapturerTypes
      <3>2. Len(queued) + Len(filled) = granted - 1
        BY <1>1, <2>2, <2>5 DEF Driver
      <3> QED
        BY <2>3, <2>4, <3>1, <3>2
    <2> QED
      BY <1>1, <2>3, <2>4, <2>5, <2>6, <2>7, <2>8 DEF Driver
  <1> QED
    BY <1>2, <1>3, <1>4, <1>5, <1>6, <1>7, <1>8, <1>9, CapturerSteps
\* The driver does not fill the buffer that is being written.
LEMMA FillKeepsSource == IInv /\ DriverFill /\ cphase = "write" => Source' = Source
  <1> SUFFICES ASSUME IInv, DriverFill, cphase = "write" PROVE Source' = Source
    OBVIOUS
  <1>1. Driver /\ CapturerTypes
    BY TypeParts DEF IInv
  <1>2. /\ queued \in Seq(Buffers) /\ queued # <<>>
        /\ content' = [content EXCEPT ![Head(queued)] = captured + 1]
        /\ UNCHANGED <<program, held, copy>>
    BY <1>1 DEF DriverFill, Driver, config, writer
  <1>3. Head(queued) = queued[1] /\ 1 \in DOMAIN queued
    BY <1>2, HeadAndTail
  <1>4. CASE Holding
    <2>1. held \in 1 .. MaxGrant /\ held # queued[1]
      BY <1>1, <1>3, <1>4, Parameters DEF Driver, Buffers, CapturerTypes
    <2> QED
      BY <1>1, <1>2, <1>3, <2>1 DEF Source, Driver
  <1>5. CASE program # "capturer_mmap"
    BY <1>2, <1>5 DEF Source
  <1> QED
    BY <1>4, <1>5 DEF Holding

\* What is written next is the oldest frame of the driver.
LEMMA DequeuedIsSource ==
    Driver /\ (Dqbuf \/ ReadDevice) /\ filled # <<>> =>
        Source' = content[filled[1]] /\ 1 \in DOMAIN filled
  BY HeadAndTail DEF Dqbuf, ReadDevice, Source, config, Driver

LEMMA OrderNext == IInv /\ [Next]_vars => Order'
  <1> SUFFICES ASSUME IInv, [Next]_vars, Streaming' PROVE Order'
    BY DEF Order
  <1> USE Parameters
  <1>1. Driver /\ CapturerTypes /\ Constants /\ Order /\ Written
    BY TypeParts DEF IInv
  <1>2. CASE Quiet
    <2>1. UNCHANGED <<program, filled, content, captured, held, copy, stream>>
      BY <1>2 DEF Quiet, config, driver, writer
    <2>2. Streaming /\ Source' = Source /\ (cphase' = "write" => cphase = "write")
      BY <1>2, <2>1 DEF Quiet, Before, Streaming, Source
    <2> QED
      BY <1>1, <2>1, <2>2 DEF Order
  <1>3. CASE DriverFill
    <2>1. /\ queued \in Seq(Buffers) /\ queued # <<>> /\ filled \in Seq(Buffers)
          /\ filled' = Append(filled, Head(queued))
          /\ content' = [content EXCEPT ![Head(queued)] = captured + 1]
          /\ captured' = captured + 1 /\ captured \in Nat
          /\ UNCHANGED <<cphase, program, held, copy, stream>> /\ Streaming
      BY <1>1, <1>3 DEF DriverFill, Driver, config, writer
    <2>2. Head(queued) \in Buffers /\ Head(queued) = queued[1] /\ 1 \in DOMAIN queued
      BY <2>1, HeadAndTail
    <2>3. /\ filled' \in Seq(Buffers) /\ Len(filled) \in Nat
          /\ DOMAIN filled' = DOMAIN filled \cup {Len(filled) + 1}
          /\ \A i \in DOMAIN filled : filled'[i] = filled[i] /\ i < Len(filled) + 1
          /\ filled'[Len(filled) + 1] = queued[1]
      BY <2>1, <2>2, Appended
    <2>4. \A b \in Buffers :
            content'[b] = IF b = queued[1] THEN captured + 1 ELSE content[b]
      <3>1. Buffers \subseteq 1 .. MaxGrant
        BY <1>1 DEF Buffers, CapturerTypes
      <3> QED
        BY <1>1, <2>1, <2>2, <3>1 DEF Driver
    <2>5. \A i \in DOMAIN filled : content'[filled'[i]] = content[filled[i]]
                                   /\ content[filled[i]] \in 1 .. captured
      <3>1. \A i \in DOMAIN filled : filled[i] \in Buffers /\ filled[i] # queued[1]
        BY <1>1, <2>1, <2>2 DEF Driver
      <3> QED
        BY <1>1, <2>1, <2>3, <2>4, <3>1 DEF Order
    <2>6. content'[filled'[Len(filled) + 1]] = captured + 1
      BY <2>2, <2>3, <2>4
    <2>7. cphase = "write" => Source' = Source
      BY <1>3, FillKeepsSource
    <2>8. \A i \in DOMAIN filled' : content'[filled'[i]] \in 1 .. captured'
      BY <2>1, <2>3, <2>5, <2>6
    <2>9. \A i, j \in DOMAIN filled' :
            i < j => content'[filled'[i]] < content'[filled'[j]]
      <3> SUFFICES ASSUME NEW i \in DOMAIN filled', NEW j \in DOMAIN filled', i < j
                   PROVE  content'[filled'[i]] < content'[filled'[j]]
        OBVIOUS
      <3>1. i \in DOMAIN filled
        BY <2>3
      <3>2. CASE j \in DOMAIN filled
        BY <1>1, <2>1, <2>5, <3>1, <3>2 DEF Order
      <3>3. CASE j = Len(filled) + 1
        BY <2>1, <2>5, <2>6, <3>1, <3>3
      <3> QED
        BY <2>3, <3>2, <3>3
    <2>10. \A i \in DOMAIN filled', k \in DOMAIN stream' :
             stream'[k].frame < content'[filled'[i]]
      <3> SUFFICES ASSUME NEW i \in DOMAIN filled', NEW k \in DOMAIN stream
                   PROVE  stream[k].frame < content'[filled'[i]]
        BY <2>1
      <3>1. CASE i \in DOMAIN filled
        BY <1>1, <2>1, <2>5, <3>1 DEF Order
      <3>2. CASE i = Len(filled) + 1
        <4>1. stream[k].frame \in 1 .. captured
          BY <1>1 DEF Written
        <4> QED
          BY <2>1, <2>6, <3>2, <4>1
      <3> QED
        BY <2>3, <3>1, <3>2
    <2>11. cphase' = "write" =>
             /\ Source' \in 1 .. captured'
             /\ \A i \in DOMAIN filled' : Source' < content'[filled'[i]]
      <3> SUFFICES ASSUME cphase = "write"
                   PROVE  /\ Source \in 1 .. captured'
                          /\ \A i \in DOMAIN filled' : Source < content'[filled'[i]]
        BY <2>1, <2>7
      <3>1. /\ Source \in 1 .. captured
            /\ \A i \in DOMAIN filled : Source < content[filled[i]]
        BY <1>1, <2>1 DEF Order
      <3> QED
        BY <2>1, <2>3, <2>5, <2>6, <3>1
    <2> QED
      BY <2>8, <2>9, <2>10, <2>11 DEF Order
  <1>4. CASE init_mmap \/ init_read
    BY <1>4 DEF init_mmap, init_read, Streaming
  <1>5. CASE start_capturing
    <2>1. filled' = <<>> /\ cphase' = "select"
      BY <1>1, <1>5 DEF start_capturing, Driver, Before
    <2> QED
      BY <2>1 DEF Order
  <1>6. CASE Dqbuf \/ ReadDevice
    <2>1. /\ filled \in Seq(Buffers) /\ filled # <<>> /\ filled' = Tail(filled)
          /\ UNCHANGED <<content, captured, stream>> /\ Streaming
      BY <1>1, <1>6 DEF Dqbuf, ReadDevice, Driver, CapturerTypes, Streaming
    <2>2. /\ Head(filled) = filled[1] /\ 1 \in DOMAIN filled
          /\ \A i \in DOMAIN filled' : /\ i + 1 \in DOMAIN filled /\ 1 < i + 1
                                       /\ filled'[i] = filled[i + 1]
      BY <2>1, HeadAndTail
    <2>3. Source' = content[filled[1]]
      BY <1>1, <1>6, <2>1, DequeuedIsSource
    <2>4. \A i, j \in DOMAIN filled' :
            i < j => content[filled'[i]] < content[filled'[j]]
      <3> SUFFICES ASSUME NEW i \in DOMAIN filled', NEW j \in DOMAIN filled', i < j
                   PROVE  content[filled[i + 1]] < content[filled[j + 1]]
        BY <2>2
      <3>1. i + 1 < j + 1
        BY <2>1
      <3> QED
        BY <1>1, <2>1, <2>2, <3>1 DEF Order
    <2> QED
      BY <1>1, <2>1, <2>2, <2>3, <2>4 DEF Order
  <1>7. CASE Write
    <2>1. /\ cphase = "write"
          /\ stream' = Append(stream, [frame |-> Source, part |-> part + 1])
          /\ UNCHANGED <<program, filled, content, captured, held, copy>>
          /\ stream \in Seq(Chunks) /\ Streaming
      BY <1>1, <1>7 DEF Write, config, driver, Written, Streaming
    <2>2. /\ Source \in 1 .. captured
          /\ \A i \in DOMAIN filled : Source < content[filled[i]]
      BY <1>1, <2>1 DEF Order
    <2>3. \A k \in DOMAIN stream' :
            \/ k \in DOMAIN stream /\ stream'[k] = stream[k]
            \/ stream'[k].frame = Source
      BY <2>1
    <2> QED
      BY <1>1, <2>1, <2>2, <2>3 DEF Order, Source
  <1>8. CASE Qbuf
    <2>1. /\ cphase' = "select" /\ Streaming
          /\ UNCHANGED <<filled, content, captured, stream>>
      BY <1>8 DEF Qbuf, Streaming
    <2> QED
      BY <1>1, <2>1 DEF Order
  <1> QED
    BY <1>2, <1>3, <1>4, <1>5, <1>6, <1>7, <1>8, CapturerSteps

-----------------------------------------------------------------------------
(* The stream *)

LEMMA WrittenNext == IInv /\ [Next]_vars => Written'
  <1> SUFFICES ASSUME IInv, [Next]_vars PROVE Written'
    OBVIOUS
  <1> USE Parameters
  <1>1. Driver /\ CapturerTypes /\ Constants /\ Order /\ Written
    BY TypeParts DEF IInv
  <1>2. stream \in Seq(Chunks) /\ Len(stream) \in Nat /\ captured \in Nat
    BY <1>1 DEF Written, Driver
  <1>3. CASE Quiet
    <2>1. UNCHANGED <<program, content, captured, held, copy, part, stream>>
      BY <1>3 DEF Quiet, config, driver, writer
    <2>2. cphase' = "write" => cphase = "write" /\ Source' = Source
      BY <1>3, <2>1 DEF Quiet, Before, Source
    <2>3. cphase' \in {"select", "read", "requeue", "flush"} => Len(stream) % C = 0
      <3>1. CASE cphase \in Before
        <4>1. Len(stream) = 0 /\ 0 % C = 0
          BY <1>1, <3>1 DEF Written
        <4> QED
          BY <4>1
      <3> QED
        BY <1>1, <1>3, <3>1 DEF Quiet, Written
    <2>4. cphase' \in Before => stream = <<>>
      BY <1>1, <1>3 DEF Quiet, Written, Before
    <2> QED
      BY <1>1, <2>1, <2>2, <2>3, <2>4 DEF Written
  <1>4. CASE DriverFill
    <2>1. captured' = captured + 1 /\ UNCHANGED <<cphase, part, stream>>
      BY <1>4 DEF DriverFill, writer
    <2>2. cphase = "write" => Source' = Source
      BY <1>4, FillKeepsSource
    <2>3. \A k \in DOMAIN stream : stream[k].frame \in 1 .. captured'
      BY <1>1, <1>2, <2>1 DEF Written
    <2> QED
      BY <1>1, <2>1, <2>2, <2>3 DEF Written
  <1>5. CASE init_mmap \/ init_read \/ start_capturing
    <2>1. /\ stream = <<>> /\ UNCHANGED <<stream, captured>>
          /\ cphase' \in {"start", "select"}
      BY <1>1, <1>5 DEF init_mmap, init_read, start_capturing, Written, Before
    <2>2. Len(stream) = 0 /\ 0 % C = 0
      BY <2>1
    <2> QED
      BY <1>1, <2>1, <2>2 DEF Written
  <1>6. CASE Dqbuf \/ ReadDevice
    <2>1. /\ cphase = "read" /\ filled # <<>> /\ Streaming /\ part' = 0
          /\ cphase' \in {"write", "requeue"}
          /\ UNCHANGED <<captured, stream>>
      BY <1>1, <1>6 DEF Dqbuf, ReadDevice, CapturerTypes, Streaming
    <2>2. Source' = content[filled[1]] /\ 1 \in DOMAIN filled
      BY <1>1, <1>6, <2>1, DequeuedIsSource
    <2>3. \A k \in DOMAIN stream : stream[k].frame < Source'
      BY <1>1, <2>1, <2>2 DEF Order
    <2>4. Len(stream) % C = 0
      BY <1>1, <2>1 DEF Written
    <2>5. \A k \in DOMAIN stream : k <= Len(stream) - 0
      BY <1>2
    <2> QED
      BY <1>1, <2>1, <2>3, <2>4, <2>5 DEF Written, Before
  <1>7. CASE Write
    <2>1. /\ stream' = Append(stream, [frame |-> Source, part |-> part + 1])
          /\ part' = part + 1 /\ cphase = "write" /\ Streaming
          /\ cphase' \in {"write", "requeue", "select"}
          /\ cphase' = "write" <=> part' < C
          /\ UNCHANGED <<program, content, captured, held, copy>>
      BY <1>7 DEF Write, Streaming, C, config, driver
    <2>2. /\ Source \in 1 .. captured /\ part \in Nat /\ part < C
          /\ Len(stream) % C = part /\ Source' = Source
      BY <1>1, <2>1 DEF Order, Written, CapturerTypes, Source
    <2>3. [frame |-> Source, part |-> part + 1] \in Chunks
      BY <1>2, <2>2 DEF Chunks
    <2>4. /\ stream' \in Seq(Chunks) /\ Len(stream') = Len(stream) + 1
          /\ DOMAIN stream' = DOMAIN stream \cup {Len(stream) + 1}
          /\ \A k \in DOMAIN stream : stream'[k] = stream[k]
          /\ stream'[Len(stream) + 1].frame = Source
      BY <1>2, <2>1, <2>3, Appended
    <2>5. Len(stream') % C = IF part = C - 1 THEN 0 ELSE part + 1
      <3>1. (Len(stream) + 1) % C
              = IF Len(stream) % C = C - 1 THEN 0 ELSE (Len(stream) % C) + 1
        BY <1>2, ModStep
      <3> QED
        BY <2>2, <2>4, <3>1
    <2>6. \A k \in DOMAIN stream' : stream'[k].frame \in 1 .. captured'
      BY <1>1, <2>1, <2>2, <2>4 DEF Written
    <2>7. \A k \in DOMAIN stream' :
            IF k <= Len(stream') - part' THEN stream'[k].frame < Source
                                         ELSE stream'[k].frame = Source
      <3>1. Len(stream') - part' = Len(stream) - part
        BY <1>2, <2>1, <2>2, <2>4
      <3>2. ~(Len(stream) + 1 <= Len(stream) - part)
        BY <1>2, <2>2
      <3> QED
        BY <1>1, <2>1, <2>4, <3>1, <3>2 DEF Written
    <2>8. cphase' # "write" => Len(stream') % C = 0
      BY <2>1, <2>2, <2>5
    <2>9. cphase' = "write" => Len(stream') % C = part'
      BY <2>1, <2>2, <2>5
    <2> QED
      BY <2>1, <2>2, <2>4, <2>6, <2>7, <2>8, <2>9 DEF Written, Before
  <1>8. CASE Qbuf
    BY <1>1, <1>8 DEF Qbuf, Written, Before
  <1> QED
    BY <1>3, <1>4, <1>5, <1>6, <1>7, <1>8, CapturerSteps

LEMMA FramesIntactNext == IInv /\ [Next]_vars => FramesIntact'
  <1> SUFFICES ASSUME IInv, [Next]_vars PROVE FramesIntact'
    OBVIOUS
  <1> USE Parameters
  <1>1. /\ CapturerTypes /\ Order /\ Written /\ FramesIntact
        /\ stream \in Seq(Chunks) /\ Len(stream) \in Nat
    BY TypeParts DEF IInv, Written
  <1>2. CASE stream' = stream
    BY <1>1, <1>2 DEF FramesIntact
  <1>3. CASE Write
    <2> DEFINE chunk == [frame |-> Source, part |-> part + 1]
               last == Len(stream) + 1
    <2>1. stream' = Append(stream, chunk) /\ cphase = "write" /\ Streaming
      BY <1>3 DEF Write, Streaming
    <2>2. /\ Source \in 1 .. captured /\ part \in Nat /\ part < C
          /\ Len(stream) % C = part /\ captured \in Nat /\ part <= Len(stream)
      <3>1. Source \in 1 .. captured /\ part \in Nat /\ part < C
            /\ Len(stream) % C = part /\ captured \in Nat
        BY <1>1, <2>1 DEF IInv, Driver, Order, Written, CapturerTypes
      <3>2. Len(stream) % C <= Len(stream)
        BY <1>1, ModRange
      <3> QED
        BY <3>1, <3>2
    <2>3. chunk \in Chunks
      BY <2>2 DEF Chunks
    <2>4. /\ Len(stream') = last /\ DOMAIN stream' = DOMAIN stream \cup {last}
          /\ \A k \in DOMAIN stream : stream'[k] = stream[k]
          /\ stream'[last] = chunk
      BY <1>1, <2>1, <2>3, Appended
    <2>5. \A k \in DOMAIN stream :
            IF k <= Len(stream) - part THEN stream[k].frame < Source
                                       ELSE stream[k].frame = Source
      BY <1>1, <2>1 DEF Written
    <2>6. DOMAIN stream = 1 .. Len(stream)
      BY <1>1
    <2> HIDE DEF chunk
    <2> SUFFICES
          ASSUME NEW i \in DOMAIN stream'
          PROVE  LET before == (i - 1) % C
                     first == stream'[i - before]
                 IN  /\ stream'[i] = [frame |-> first.frame, part |-> before + 1]
                     /\ \A j \in 1 .. i : stream'[j].frame <= first.frame
                     /\ i > C => stream'[i - C].frame < first.frame
      BY DEF FramesIntact, C
    <2>7. CASE i \in DOMAIN stream
      <3> DEFINE before == (i - 1) % C
      <3>1. before \in Nat /\ before <= i - 1
        <4>1. i - 1 \in Nat
          BY <1>1, <2>6, <2>7
        <4> QED
          BY <4>1, ModRange
      <3> HIDE DEF before
      <3>2. i - before \in DOMAIN stream /\ \A j \in 1 .. i : j \in DOMAIN stream
        BY <1>1, <2>6, <2>7, <3>1
      <3>3. i > C => i - C \in DOMAIN stream
        BY <1>1, <2>6, <2>7
      <3>4. /\ stream[i] = [frame |-> stream[i - before].frame,
                            part |-> before + 1]
            /\ \A j \in 1 .. i : stream[j].frame <= stream[i - before].frame
            /\ i > C => stream[i - C].frame < stream[i - before].frame
        BY <1>1, <2>7 DEF FramesIntact, before, C
      <3>5. /\ stream'[i] = [frame |-> stream'[i - before].frame,
                             part |-> before + 1]
            /\ \A j \in 1 .. i : stream'[j].frame <= stream'[i - before].frame
            /\ i > C => stream'[i - C].frame < stream'[i - before].frame
        BY <2>4, <2>7, <3>2, <3>3, <3>4
      <3> QED
        BY <3>5 DEF before
    <2>8. CASE i = last
      <3>1. (i - 1) % C = part /\ i - part \in DOMAIN stream'
        BY <1>1, <2>2, <2>4, <2>6, <2>8
      <3>2. stream'[i - part].frame = Source
        <4>1. CASE part = 0
          BY <1>1, <2>4, <2>8, <4>1 DEF chunk
        <4>2. CASE part # 0
          <5>1. i - part \in DOMAIN stream /\ ~(i - part <= Len(stream) - part)
            BY <1>1, <2>2, <2>6, <2>8, <4>2
          <5> QED
            BY <2>4, <2>5, <5>1
        <4> QED
          BY <4>1, <4>2
      <3>3. \A j \in 1 .. i : stream'[j].frame <= Source
        <4>1. \A j \in DOMAIN stream : stream[j].frame <= Source
          <5>1. \A j \in DOMAIN stream : stream[j].frame \in Nat
            BY <1>1, <2>2 DEF Written
          <5> QED
            BY <2>2, <2>5, <5>1
        <4>2. \A j \in 1 .. i : j \in DOMAIN stream \/ j = last
          BY <1>1, <2>6, <2>8
        <4>3. chunk.frame = Source /\ Source <= Source
          BY <2>2 DEF chunk
        <4> QED
          BY <2>4, <4>1, <4>2, <4>3
      <3>4. i > C => stream'[i - C].frame < Source
        <4> SUFFICES ASSUME i > C PROVE stream'[i - C].frame < Source
          OBVIOUS
        <4>1. i - C \in DOMAIN stream /\ i - C <= Len(stream) - part
          BY <1>1, <2>2, <2>6, <2>8
        <4> QED
          BY <2>4, <2>5, <4>1
      <3> QED
        BY <2>4, <2>8, <3>1, <3>2, <3>3, <3>4 DEF chunk
    <2> QED
      BY <2>4, <2>7, <2>8
  <1>4. stream' = stream \/ Write
    BY CapturerSteps
    DEF Quiet, DriverFill, init_mmap, init_read, start_capturing, Dqbuf,
        ReadDevice, Qbuf
  <1> QED
    BY <1>2, <1>3, <1>4

-----------------------------------------------------------------------------
(* The pipe *)

\* A step that neither writes nor reads.
Apart ==
    /\ UNCHANGED <<pipe, stream, videoFrame, vpos, short>>
    /\ cphase = "ended" => cphase' = "ended"
    /\ \/ vphase' = vphase
       \/ vphase = "display" /\ vphase' = "image"
       \/ vphase = "image" /\ vphase' = "read"
       \/ vphase = "upper" /\ vphase' = "lower"
       \/ vphase = "lower" /\ vphase' = "put"
       \/ vphase # "read" /\ vphase' = "ended"

LEMMA PipeSteps == [Next]_vars =>
    Write \/ Flush \/ ReadChunk \/ ReadReturns \/ image_put \/ Apart
  <1> SUFFICES ASSUME [Next]_vars
               PROVE  \/ Write \/ Flush \/ ReadChunk \/ ReadReturns
                      \/ image_put \/ Apart
    OBVIOUS
  <1> USE DEF Apart, viewer, Streaming
  <1>1. CASE DriverFill \/ XServer \/ ViewerFails \/ UNCHANGED vars
    BY <1>1 DEF DriverFill, XServer, ViewerFails, vars
  <1>2. CASE CapturerFails \/ DeviceFails
    BY <1>2 DEF CapturerFails, DeviceFails, Exit
  <1>3. CASE Capturer
    BY <1>3 DEF Capturer, device_info, open_device, set_input, init_device,
                init_mmap, init_read, start_capturing, SelectReady,
                SelectTimeout, Exit, Dqbuf, ReadDevice, WriteKilled, Qbuf
  <1>4. CASE Viewer
    BY <1>4 DEF Viewer, OpenDisplay, image_create, Draw, process_image_yuv420,
                process_image_rgb565, process_image_rgb32, process_image_yuv422
  <1> QED
    BY <1>1, <1>2, <1>3, <1>4 DEF Next

\* Reading a chunk of a frame, be there a text behind it or not.
LEMMA ChunkTaken ==
    ASSUME stream \in Seq(Chunks), InStep, vpos \in 0 .. C, ReadChunk,
           NEW texts \in {0, 1}, Taken(texts), Len(pipe) > texts
    PROVE  Taken(texts)'
  <1> DEFINE n == Len(stream) + texts - Len(pipe)
             m == Len(stream') + texts - Len(pipe')
  <1> USE Parameters
  <1>1. /\ pipe \in Seq(Chunks) /\ pipe # <<>> /\ pipe' = Tail(pipe)
        /\ vpos < C /\ vpos' = vpos + 1 /\ stream' = stream
        /\ videoFrame' = [videoFrame EXCEPT ![vpos + 1] = Head(pipe)]
        /\ videoFrame \in [1 .. C -> Chunks] /\ Len(stream) \in Nat
    BY DEF InStep, ReadChunk, ReadSize, C
  <1>2. /\ Head(pipe) = pipe[1] /\ Len(pipe) \in Nat
        /\ Len(pipe') = Len(pipe) - 1
        /\ \A i \in DOMAIN pipe' : pipe'[i] = pipe[i + 1]
        /\ DOMAIN pipe' = 1 .. Len(pipe')
    <2>1. Tail(pipe) \in Seq(Chunks)
      BY <1>1, HeadAndTail
    <2> QED
      BY <1>1, <2>1, HeadAndTail
  <1>3. /\ n \in 0 .. Len(stream) /\ n % C = vpos % C /\ vpos <= n
        /\ \A i \in 1 .. Len(pipe) - texts : pipe[i] = stream[n + i]
        /\ \A i \in 1 .. vpos : videoFrame[i] = stream[n - vpos + i]
    BY DEF Taken
  <1>4. m = n + 1
    BY <1>1, <1>2
  <1>5. n + 1 \in 0 .. Len(stream)
    BY <1>1, <1>2, <1>3
  <1> HIDE DEF n, m
  <1>6. (n + 1) % C = (vpos + 1) % C
    <2>1. n \in Nat /\ vpos \in Nat
      BY <1>1, <1>3
    <2>2. (n + 1) % C = IF n % C = C - 1 THEN 0 ELSE (n % C) + 1
      BY <2>1, ModStep
    <2>3. (vpos + 1) % C = IF vpos % C = C - 1 THEN 0 ELSE (vpos % C) + 1
      BY <2>1, ModStep
    <2> QED
      BY <1>3, <2>2, <2>3
  <1>7. \A i \in 1 .. Len(pipe') - texts : pipe'[i] = stream[n + 1 + i]
    <2> SUFFICES ASSUME NEW i \in 1 .. Len(pipe') - texts
                 PROVE  pipe'[i] = stream[n + 1 + i]
      OBVIOUS
    <2>1. i \in DOMAIN pipe' /\ i + 1 \in 1 .. Len(pipe) - texts
      BY <1>2
    <2>2. n + (i + 1) = n + 1 + i
      BY <1>3, <2>1
    <2> QED
      BY <1>2, <1>3, <2>1, <2>2
  <1>8. \A i \in 1 .. vpos + 1 : videoFrame'[i] = stream[n - vpos + i]
    <2> SUFFICES ASSUME NEW i \in 1 .. vpos + 1
                 PROVE  videoFrame'[i] = stream[n - vpos + i]
      OBVIOUS
    <2>1. CASE i \in 1 .. vpos
      BY <1>1, <1>3, <2>1
    <2>2. CASE i = vpos + 1
      <3>1. n - vpos + i = n + 1 /\ 1 \in 1 .. Len(pipe) - texts
        BY <1>2, <1>3, <2>2
      <3>2. pipe[1] = stream[n + 1]
        BY <1>3, <3>1
      <3> QED
        BY <1>1, <1>2, <2>2, <3>1, <3>2
    <2> QED
      BY <2>1, <2>2
  <1>9. Len(pipe') >= texts /\ vpos' <= m
    BY <1>1, <1>2, <1>3, <1>4
  <1>10. \A i \in 1 .. vpos' : videoFrame'[i] = stream'[m - vpos' + i]
    <2>1. m - vpos' = n - vpos
      BY <1>1, <1>3, <1>4
    <2> QED
      BY <1>1, <1>8, <2>1
  <1>11. /\ m \in 0 .. Len(stream') /\ m % C = vpos' % C
         /\ \A i \in 1 .. Len(pipe') - texts : pipe'[i] = stream'[m + i]
    BY <1>1, <1>4, <1>5, <1>6, <1>7
  <1> QED
    BY <1>9, <1>10, <1>11 DEF Taken, m

\* Writing a chunk of a frame.
LEMMA ChunkWritten ==
    ASSUME stream \in Seq(Chunks), InStep, vpos \in 0 .. C, Taken(0),
           NEW chunk \in Chunks, stream' = Append(stream, chunk),
           pipe' = Append(pipe, chunk), UNCHANGED <<vpos, videoFrame>>
    PROVE  Taken(0)'
  <1> DEFINE n == Len(stream) + 0 - Len(pipe)
             m == Len(stream') + 0 - Len(pipe')
  <1> USE Parameters
  <1>1. /\ Len(stream') = Len(stream) + 1 /\ Len(stream) \in Nat
        /\ \A k \in 1 .. Len(stream) : stream'[k] = stream[k]
        /\ stream'[Len(stream) + 1] = chunk
    BY Appended
  <1>2. /\ Len(pipe') = Len(pipe) + 1 /\ Len(pipe) \in Nat
        /\ \A i \in 1 .. Len(pipe) : pipe'[i] = pipe[i]
        /\ pipe'[Len(pipe) + 1] = chunk
    BY Appended DEF InStep
  <1>3. /\ n \in 0 .. Len(stream) /\ n % C = vpos % C /\ vpos <= n
        /\ \A i \in 1 .. Len(pipe) : pipe[i] = stream[n + i]
        /\ \A i \in 1 .. vpos : videoFrame[i] = stream[n - vpos + i]
    BY <1>2 DEF Taken
  <1>4. m = n /\ n + Len(pipe) = Len(stream) /\ n \in Nat
    BY <1>1, <1>2, <1>3
  <1> HIDE DEF n, m
  <1>5. \A i \in 1 .. Len(pipe') - 0 : pipe'[i] = stream'[m + i]
    <2> SUFFICES ASSUME NEW i \in 1 .. Len(pipe') - 0
                 PROVE  pipe'[i] = stream'[n + i]
      BY <1>4
    <2>1. CASE i \in 1 .. Len(pipe)
      <3>1. n + i \in 1 .. Len(stream)
        BY <1>2, <1>4, <2>1
      <3> QED
        BY <1>1, <1>2, <1>3, <2>1, <3>1
    <2>2. CASE i = Len(pipe) + 1
      <3>1. n + (Len(pipe) + 1) = (n + Len(pipe)) + 1
        BY <1>2, <1>4
      <3>2. n + i = Len(stream) + 1
        BY <1>4, <2>2, <3>1
      <3> QED
        BY <1>1, <1>2, <2>2, <3>2
    <2>3. Len(pipe') - 0 = Len(pipe) + 1
      BY <1>2
    <2>4. i \in 1 .. Len(pipe) \/ i = Len(pipe) + 1
      BY <1>2, <2>3
    <2> QED
      BY <2>1, <2>2, <2>4
  <1>6. \A i \in 1 .. vpos' : videoFrame'[i] = stream'[m - vpos' + i]
    <2>1. \A i \in 1 .. vpos : n - vpos + i \in 1 .. Len(stream)
      BY <1>1, <1>3
    <2> QED
      BY <1>1, <1>3, <1>4, <2>1
  <1>7. /\ m \in 0 .. Len(stream') /\ m % C = vpos' % C
        /\ vpos' <= m /\ Len(pipe') >= 0
    BY <1>1, <1>2, <1>3, <1>4
  <1> QED
    BY <1>5, <1>6, <1>7 DEF Taken, m

LEMMA InStepNext == IInv /\ [Next]_vars => InStep'
  <1> SUFFICES ASSUME IInv, [Next]_vars PROVE InStep'
    OBVIOUS
  <1> USE Parameters
  <1>1. /\ InStep /\ Written /\ CapturerTypes /\ stream \in Seq(Chunks)
        /\ Len(stream) \in Nat /\ vpos \in 0 .. C /\ pipe \in Seq(Chunks)
        /\ videoFrame \in [1 .. C -> Chunks] /\ short \in BOOLEAN
    BY TypeParts DEF IInv, Written, InStep, TypeOK, C
  <1>2. CASE Write
    <2> DEFINE chunk == [frame |-> Source, part |-> part + 1]
    <2>1. /\ pipe' = Append(pipe, chunk) /\ stream' = Append(stream, chunk)
          /\ cphase = "write" /\ UNCHANGED <<vphase, videoFrame, vpos, short>>
      BY <1>2 DEF Write, viewer
    <2>2. chunk \in Chunks
      <3>1. Source \in Nat /\ part + 1 \in Nat
        BY <1>1, <2>1 DEF IInv, Driver, Order, Streaming, CapturerTypes
      <3> QED
        BY <3>1 DEF Chunks
    <2> HIDE DEF chunk
    <2>3. pipe' \in Seq(Chunks)
      BY <1>1, <2>1, <2>2, Appended
    <2>4. ~short => Taken(0)'
      BY <1>1, <2>1, <2>2, ChunkWritten DEF InStep
    <2> QED
      BY <1>1, <2>1, <2>3, <2>4 DEF InStep
  <1>3. CASE Flush
    <2>1. /\ pipe' = Append(pipe, Text) /\ cphase' = "ended" /\ cphase = "flush"
          /\ UNCHANGED <<stream, vphase, videoFrame, vpos, short>>
      BY <1>3 DEF Flush, viewer
    <2>2. Text \in Chunks
      BY DEF Text, Chunks
    <2>3. /\ pipe' \in Seq(Chunks) /\ Len(pipe') = Len(pipe) + 1
          /\ Len(pipe) \in Nat /\ \A i \in 1 .. Len(pipe) : pipe'[i] = pipe[i]
      BY <1>1, <2>1, <2>2, Appended
    <2>4. ~short => Len(stream) % C = 0 /\ Taken(0)
      BY <1>1, <2>1 DEF InStep, Written
    <2>5. ~short => Taken(1)'
      <3> DEFINE n == Len(stream) + 0 - Len(pipe)
                 m == Len(stream') + 1 - Len(pipe')
      <3>1. m = n /\ Len(pipe') - 1 = Len(pipe) - 0
        BY <1>1, <2>1, <2>3
      <3>2. ~short =>
              /\ n \in 0 .. Len(stream) /\ n % C = vpos % C /\ vpos <= n
              /\ \A i \in 1 .. Len(pipe) - 0 : pipe[i] = stream[n + i]
              /\ \A i \in 1 .. vpos : videoFrame[i] = stream[n - vpos + i]
        BY <2>4 DEF Taken
      <3> HIDE DEF n, m
      <3>3. Len(pipe') >= 1
        BY <2>3
      <3>4. ~short =>
              /\ m \in 0 .. Len(stream') /\ m % C = vpos' % C /\ vpos' <= m
              /\ \A i \in 1 .. Len(pipe') - 1 : pipe'[i] = stream'[m + i]
              /\ \A i \in 1 .. vpos' : videoFrame'[i] = stream'[m - vpos' + i]
        BY <2>1, <2>3, <3>1, <3>2
      <3> QED
        BY <3>3, <3>4 DEF Taken, m
    <2> QED
      BY <1>1, <2>1, <2>3, <2>4, <2>5 DEF InStep
  <1>4. CASE ReadChunk
    <2>1. /\ pipe # <<>> /\ pipe' = Tail(pipe) /\ vphase = "read"
          /\ vpos < C /\ vpos' = vpos + 1
          /\ videoFrame' = [videoFrame EXCEPT ![vpos + 1] = Head(pipe)]
          /\ UNCHANGED <<cphase, stream, vphase, short>>
      BY <1>4 DEF ReadChunk, ReadSize, C
    <2>2. /\ Len(pipe) \in Nat /\ Len(pipe) > 0 /\ pipe' \in Seq(Chunks)
          /\ Len(pipe') = Len(pipe) - 1 /\ Head(pipe) \in Chunks
      BY <1>1, <2>1, HeadAndTail
    <2>3. videoFrame' \in [1 .. C -> Chunks]
      BY <1>1, <2>1, <2>2
    <2>4. ~short =>
            \/ Taken(0)'
            \/ cphase = "ended" /\ Len(stream) % C = 0 /\ Taken(1)'
            \/ cphase = "ended" /\ pipe' = <<>> /\ vpos' = 1
      <3> SUFFICES ASSUME ~short
                   PROVE  \/ Taken(0)'
                          \/ cphase = "ended" /\ Len(stream) % C = 0 /\ Taken(1)'
                          \/ cphase = "ended" /\ pipe' = <<>> /\ vpos' = 1
        OBVIOUS
      <3>1. CASE Taken(0)
        <4>1. Len(pipe) > 0 /\ 0 \in {0, 1}
          BY <2>2
        <4> QED
          BY <1>1, <1>4, <3>1, <4>1, ChunkTaken
      <3>2. CASE cphase = "ended" /\ Len(stream) % C = 0 /\ Taken(1)
        <4>1. CASE Len(pipe) > 1
          BY <1>1, <1>4, <3>2, <4>1, ChunkTaken
        <4>2. CASE Len(pipe) = 1
          <5>1. Len(stream) % C = vpos % C
            BY <1>1, <3>2, <4>2 DEF Taken
          <5>2. vpos % C = vpos
            <6>1. vpos \in 0 .. C - 1
              BY <1>1, <2>1
            <6> QED
              BY <6>1, ModSmall
          <5>3. Len(pipe') = 0 /\ vpos' = 1
            BY <1>1, <2>1, <2>2, <3>2, <4>2, <5>1, <5>2
          <5> QED
            BY <2>2, <3>2, <5>3
        <4> QED
          BY <2>2, <4>1, <4>2
      <3> QED
        BY <1>1, <2>1, <3>1, <3>2 DEF InStep
    <2> QED
      BY <1>1, <2>1, <2>2, <2>3, <2>4 DEF InStep
  <1>5. CASE ReadReturns
    <2>1. /\ vphase = "read" /\ vphase' \in {"upper", "ended"}
          /\ short' = (short \/ vpos < C)
          /\ UNCHANGED <<cphase, pipe, stream, videoFrame, vpos>>
      BY <1>5 DEF ReadReturns, ReadSize, C
    <2>2. ~short' => vpos = C /\ ~short
      <3>1. ~short' => ~(vpos < C) /\ ~short
        BY <2>1, Zenon
      <3> QED
        BY <1>1, <3>1
    <2>3. ~short' =>
            \/ Taken(0)
            \/ cphase = "ended" /\ Len(stream) % C = 0 /\ Taken(1)
      BY <1>1, <2>2 DEF InStep
    <2>4. (Taken(0) => Taken(0)') /\ (Taken(1) => Taken(1)')
      BY <2>1 DEF Taken
    <2>5. short' \in BOOLEAN
      BY <2>1
    <2> QED
      BY <1>1, <2>1, <2>2, <2>3, <2>4, <2>5 DEF InStep
  <1>6. CASE image_put
    <2>1. /\ vphase = "put" /\ vphase' = "read" /\ vpos' = 0
          /\ UNCHANGED <<cphase, pipe, stream, videoFrame, short>>
      BY <1>6 DEF image_put
    <2>2. ~short => vpos % C = 0 /\ 0 % C = 0
      <3>1. ~short => vpos = C
        BY <1>1, <2>1 DEF InStep
      <3>2. C % C = 0 /\ 0 % C = 0
        OBVIOUS
      <3> QED
        BY <3>1, <3>2
    <2>3. ~short /\ Taken(0) => Taken(0)'
      BY <1>1, <2>1, <2>2 DEF Taken
    <2>4. ~short /\ Taken(1) => Taken(1)'
      BY <1>1, <2>1, <2>2 DEF Taken
    <2> QED
      BY <1>1, <2>1, <2>3, <2>4 DEF InStep
  <1>7. CASE Apart
    <2>1. (Taken(0) => Taken(0)') /\ (Taken(1) => Taken(1)')
      BY <1>7 DEF Taken, Apart
    <2> QED
      BY <1>1, <1>7, <2>1 DEF InStep, Apart
  <1> QED
    BY <1>2, <1>3, <1>4, <1>5, <1>6, <1>7, PipeSteps

-----------------------------------------------------------------------------
(* The window *)

\* A read that fills the frame buffer fills it with one frame.
LEMMA WholeRead ==
    ASSUME Driver, Written, FramesIntact, InStep, vpos = C,
           NEW texts \in {0, 1}, Taken(texts)
    PROVE  videoFrame \in WholeFrames
  <1> DEFINE n == Len(stream) + texts - Len(pipe)
             base == n - C
  <1> USE Parameters
  <1>1. /\ stream \in Seq(Chunks) /\ Len(stream) \in Nat
        /\ DOMAIN stream = 1 .. Len(stream)
    BY DEF Written
  <1>2. /\ n \in 0 .. Len(stream) /\ n % C = C % C /\ C <= n
        /\ \A i \in 1 .. C : videoFrame[i] = stream[base + i]
    BY DEF Taken
  <1>3. base \in Nat /\ base + C <= Len(stream) /\ base % C = 0
    <2>1. C % C = 0 /\ n \in Nat
      BY <1>1, <1>2
    <2> HIDE DEF n
    <2>2. n % C = 0 /\ n >= C
      BY <1>2, <2>1
    <2>3. (n - C) % C = 0
      BY <2>1, <2>2, ModBack
    <2> QED
      BY <1>1, <1>2, <2>1, <2>2, <2>3
  <1> HIDE DEF n, base
  <1>4. ASSUME NEW i \in 1 .. C
        PROVE  stream[base + i] = [frame |-> stream[base + 1].frame, part |-> i]
    <2>1. base + i \in DOMAIN stream
      BY <1>1, <1>3
    <2>2. (base + (i - 1)) % C = i - 1
      <3>1. i - 1 \in 0 .. C - 1
        OBVIOUS
      <3> QED
        BY <1>3, <3>1, ModOffset
    <2>3. (base + i) - 1 = base + (i - 1) /\ (base + i) - (i - 1) = base + 1
          /\ (i - 1) + 1 = i
      BY <1>3
    <2>4. stream[base + i] =
            [frame |-> stream[(base + i) - (((base + i) - 1) % C)].frame,
             part |-> (((base + i) - 1) % C) + 1]
      BY <2>1 DEF FramesIntact, C
    <2> QED
      BY <2>2, <2>3, <2>4
  <1>5. stream[base + 1].frame \in 1 .. MaxFrames
    <2>1. base + 1 \in DOMAIN stream
      BY <1>1, <1>3
    <2>2. stream[base + 1].frame \in 1 .. captured /\ captured \in 0 .. MaxFrames
      BY <2>1 DEF Driver, Written
    <2> QED
      BY <2>2
  <1> QED
    <2>1. videoFrame \in [1 .. C -> Chunks]
      BY DEF InStep
    <2>2. videoFrame =
            [i \in 1 .. C |-> [frame |-> stream[base + 1].frame, part |-> i]]
      BY <1>2, <1>4, <2>1
    <2> QED
      BY <1>5, <2>2 DEF WholeFrames

\* A step that changes nothing on the way from videoFrame to the window.
Elsewhere ==
    /\ UNCHANGED <<window, image, isShared, short>> /\ vpos' \in {vpos, vpos + 1}
    /\ \/ UNCHANGED <<vphase, videoFrame, vpos>>
       \/ vphase = "read" /\ vphase' = "read" /\ vpos < C
       \/ vphase = "display" /\ vphase' = "image" /\ vpos' = vpos
       \/ vphase' = "ended" /\ vpos' = vpos

LEMMA WindowSteps == [Next]_vars =>
    \/ image_create \/ ReadReturns \/ image_put \/ XServer \/ Elsewhere
    \/ \E f \in Formats : Draw(f)
  <1> SUFFICES ASSUME [Next]_vars
               PROVE  \/ image_create \/ ReadReturns \/ image_put \/ XServer
                      \/ Elsewhere \/ \E f \in Formats : Draw(f)
    OBVIOUS
  <1> USE DEF Elsewhere, viewer
  <1>1. CASE DriverFill \/ ViewerFails \/ UNCHANGED vars
    BY <1>1 DEF DriverFill, ViewerFails, vars
  <1>2. CASE CapturerFails \/ DeviceFails
    BY <1>2 DEF CapturerFails, DeviceFails
  <1>3. CASE Capturer
    BY <1>3 DEF Capturer, device_info, open_device, set_input, init_device,
                init_mmap, init_read, start_capturing, SelectReady,
                SelectTimeout, Dqbuf, ReadDevice, Write, WriteKilled, Qbuf,
                Flush
  <1>4. CASE Viewer
    <2>1. {"yuv420", "rgb565", "rgb32", "yuyv"} \subseteq Formats
      BY DEF Formats
    <2> QED
      BY <1>4, <2>1
      DEF Viewer, OpenDisplay, ReadChunk, ReadSize, C, process_image_yuv420,
          process_image_rgb565, process_image_rgb32, process_image_yuv422
  <1> QED
    BY <1>1, <1>2, <1>3, <1>4 DEF Next

LEMMA ViewerNext == IInv /\ [Next]_vars => ViewerTypes'
  <1> SUFFICES ASSUME IInv, [Next]_vars PROVE ViewerTypes'
    OBVIOUS
  <1> USE Parameters DEF ViewerTypes
  <1>1. /\ ViewerTypes /\ Len(requests) \in Nat /\ requests \in Seq(Sent)
        /\ drawn \in Image
    BY DEF IInv, TypeOK, WindowTypes, C
  <1>2. CASE image_create
    BY <1>1, <1>2 DEF image_create, window
  <1>3. CASE ReadReturns
    BY <1>1, <1>3 DEF ReadReturns, window
  <1>4. CASE image_put
    <2>1. /\ requests' = Append(requests, IF isShared THEN <<>> ELSE drawn)
          /\ vphase' = "read" /\ vpos' = 0 /\ Len(requests) < MaxRequests
          /\ UNCHANGED <<image, serving>>
      BY <1>4 DEF image_put
    <2>2. (IF isShared THEN <<>> ELSE drawn) \in Sent
      BY <1>1 DEF Sent
    <2>3. Len(requests') = Len(requests) + 1 /\ requests' # <<>>
      BY <1>1, <2>1, <2>2, Appended
    <2> QED
      BY <1>1, <2>1, <2>3
  <1>5. CASE XServer
    <2>1. /\ requests # <<>> /\ serving' = ~serving
          /\ requests' = IF serving THEN Tail(requests) ELSE requests
          /\ UNCHANGED <<vphase, image, vpos>>
      BY <1>5 DEF XServer
    <2>2. Len(requests') <= MaxRequests
      <3>1. Len(Tail(requests)) = Len(requests) - 1
        BY <1>1, <2>1, HeadAndTail
      <3> QED
        BY <1>1, <2>1, <3>1
    <2>3. serving' => requests' # <<>>
      BY <2>1, Zenon
    <2> QED
      BY <1>1, <2>1, <2>2, <2>3
  <1>6. CASE Elsewhere
    BY <1>1, <1>6 DEF Elsewhere, window
  <1>7. ASSUME NEW f \in Formats, Draw(f) PROVE ViewerTypes'
    BY <1>1, <1>7 DEF Draw
  <1> QED
    BY <1>2, <1>3, <1>4, <1>5, <1>6, <1>7, WindowSteps

LEMMA WindowTypesNext == IInv /\ [Next]_vars => WindowTypes'
  <1> SUFFICES ASSUME IInv, [Next]_vars PROVE WindowTypes'
    OBVIOUS
  <1> USE Parameters
  <1>1. /\ WindowTypes /\ videoFrame \in [1 .. C -> Chunks]
        /\ drawn \in Image /\ screen \in Image /\ requests \in Seq(Sent)
        /\ isShared \in BOOLEAN /\ serving \in BOOLEAN
    BY DEF IInv, InStep, WindowTypes
  <1>2. CASE Elsewhere
    BY <1>1, <1>2 DEF Elsewhere, window, WindowTypes, Sent
  <1>3. CASE image_create
    <2>1. /\ requests = <<>> /\ vphase' = "read" /\ isShared' \in BOOLEAN
          /\ UNCHANGED <<requests, serving, screen, drawn>>
      BY <1>1, <1>3 DEF image_create, window, WindowTypes
    <2>2. requests' \in Seq(Sent')
      BY <2>1
    <2> QED
      BY <1>1, <2>1, <2>2 DEF WindowTypes
  <1>4. CASE ReadReturns
    BY <1>1, <1>4 DEF ReadReturns, window, WindowTypes, Sent
  <1>5. ASSUME NEW f \in Formats, Draw(f) PROVE WindowTypes'
    <2>1. /\ UNCHANGED <<isShared, requests, serving, screen>>
          /\ vphase' \in {"lower", "put"} /\ Sent' = Sent
          /\ \/ drawn' = [drawn EXCEPT ![1] = videoFrame]
             \/ drawn' = [drawn EXCEPT ![2] = videoFrame]
      BY <1>5 DEF Draw, Sent
    <2>2. drawn' \in Image
      BY <1>1, <2>1 DEF Image
    <2> QED
      BY <1>1, <2>1, <2>2 DEF WindowTypes
  <1>6. CASE image_put
    <2>1. /\ requests' = Append(requests, IF isShared THEN <<>> ELSE drawn)
          /\ vphase' = "read" /\ Sent' = Sent
          /\ UNCHANGED <<isShared, drawn, serving, screen>>
      BY <1>6 DEF image_put, Sent
    <2>2. (IF isShared THEN <<>> ELSE drawn) \in Sent
      BY <1>1 DEF Sent
    <2>3. requests' \in Seq(Sent)
      BY <1>1, <2>1, <2>2, Appended
    <2> QED
      BY <1>1, <2>1, <2>3 DEF WindowTypes
  <1>7. CASE XServer
    <2> DEFINE half == IF serving THEN 2 ELSE 1
               from == IF isShared THEN drawn ELSE Head(requests)
    <2>1. /\ requests # <<>> /\ serving' = ~serving
          /\ requests' = IF serving THEN Tail(requests) ELSE requests
          /\ screen' = [screen EXCEPT ![half] = from[half]]
          /\ UNCHANGED <<vphase, isShared, drawn>> /\ Sent' = Sent
      BY <1>7 DEF XServer, Sent
    <2>2. Head(requests) \in Sent /\ Tail(requests) \in Seq(Sent)
      BY <1>1, <2>1, HeadAndTail
    <2>3. from \in Image /\ half \in 1 .. 2
      BY <1>1, <2>2 DEF Sent
    <2> HIDE DEF half, from
    <2>4. screen' \in Image
      BY <1>1, <2>1, <2>3 DEF Image
    <2>5. requests' \in Seq(Sent)
      BY <1>1, <2>1, <2>2
    <2>6. vphase' \notin {"display", "image"}
      BY <1>1, <2>1 DEF WindowTypes
    <2>7. serving' \in BOOLEAN
      BY <2>1
    <2> QED
      BY <1>1, <2>1, <2>4, <2>5, <2>6, <2>7 DEF WindowTypes
  <1> QED
    BY <1>2, <1>3, <1>4, <1>5, <1>6, <1>7, WindowSteps

LEMMA WindowNext == IInv /\ [Next]_vars => Window'
  <1> SUFFICES ASSUME IInv, [Next]_vars, ~short', ~isShared' PROVE Window'
    BY DEF Window
  <1> USE Parameters
  <1>1. /\ Window /\ WindowTypes /\ videoFrame \in [1 .. C -> Chunks]
        /\ drawn \in Image /\ screen \in Image /\ requests \in Seq(Sent)
        /\ isShared \in BOOLEAN /\ (serving => requests # <<>>)
    BY DEF IInv, InStep, WindowTypes, TypeOK
  <1>2. CASE Elsewhere
    BY <1>1, <1>2 DEF Elsewhere, window, Window
  <1>3. CASE image_create
    <2>1. /\ requests' = <<>> /\ ~serving' /\ vphase' = "read"
          /\ screen' = screen
          /\ screen[1] = screen[2] /\ screen[2][1] = NoChunk
      BY <1>1, <1>3 DEF image_create, window, WindowTypes
    <2> QED
      BY <2>1 DEF Window
  <1>4. CASE ReadReturns
    <2>1. /\ vphase = "read" /\ vphase' \in {"upper", "ended"}
          /\ short' = (short \/ vpos < C)
          /\ UNCHANGED <<isShared, videoFrame, drawn, requests, serving, screen>>
      BY <1>4 DEF ReadReturns, ReadSize, C, window
    <2>2. ~short /\ ~(vpos < C)
      BY <2>1, Zenon
    <2>3. vpos = C
      BY <2>2 DEF IInv, TypeOK, C
    <2>4. Taken(0) \/ Taken(1)
      BY <2>1, <2>2, <2>3 DEF IInv, InStep
    <2>5. videoFrame \in WholeFrames
      BY <2>3, <2>4, WholeRead DEF IInv
    <2> QED
      BY <1>1, <2>1, <2>2, <2>5 DEF Window
  <1>5. ASSUME NEW f \in Formats, Draw(f) PROVE Window'
    <2>1. /\ UNCHANGED <<isShared, videoFrame, short, requests, serving, screen>>
          /\ \/ /\ vphase = "upper" /\ vphase' = "lower"
                /\ drawn' = [drawn EXCEPT ![1] = videoFrame]
             \/ /\ vphase = "lower" /\ vphase' = "put"
                /\ drawn' = [drawn EXCEPT ![2] = videoFrame]
      BY <1>5 DEF Draw
    <2>2. /\ vphase' = "lower" => drawn'[1] = videoFrame
          /\ vphase' = "put" => drawn'[1] = drawn[1] /\ drawn'[2] = videoFrame
      BY <1>1, <2>1 DEF Image
    <2> QED
      BY <1>1, <2>1, <2>2 DEF Window
  <1>6. CASE image_put
    <2>1. /\ requests' = Append(requests, drawn)
          /\ vphase = "put" /\ vphase' = "read" /\ drawn \in Sent
          /\ UNCHANGED <<isShared, videoFrame, short, drawn, serving, screen>>
      BY <1>1, <1>6 DEF image_put, Sent
    <2>2. drawn[1] = drawn[2] /\ drawn[1] \in WholeFrames
      BY <1>1, <2>1 DEF Window
    <2>3. /\ DOMAIN requests' = DOMAIN requests \cup {Len(requests) + 1}
          /\ \A i \in DOMAIN requests : requests'[i] = requests[i]
          /\ requests'[Len(requests) + 1] = drawn
      BY <1>1, <2>1, Appended
    <2>4. serving => 1 \in DOMAIN requests
      BY <1>1, HeadAndTail
    <2> QED
      BY <1>1, <2>1, <2>2, <2>3, <2>4 DEF Window
  <1>7. CASE XServer
    <2>1. /\ requests # <<>> /\ serving' = ~serving
          /\ requests' = IF serving THEN Tail(requests) ELSE requests
          /\ UNCHANGED <<vphase, isShared, videoFrame, short, drawn>>
      BY <1>7 DEF XServer
    <2>2. /\ Head(requests) = requests[1] /\ 1 \in DOMAIN requests
          /\ \A i \in DOMAIN Tail(requests) :
               i + 1 \in DOMAIN requests /\ Tail(requests)[i] = requests[i + 1]
      BY <1>1, <2>1, HeadAndTail
    <2>3. ~short /\ ~isShared
      BY <2>1
    <2>4. CASE ~serving
      <3>1. screen' = [screen EXCEPT ![1] = Head(requests)[1]]
        BY <1>7, <2>3, <2>4 DEF XServer
      <3>2. screen'[1] = requests[1][1]
        BY <1>1, <2>2, <3>1 DEF Image
      <3> QED
        BY <1>1, <2>1, <2>3, <2>4, <3>2 DEF Window
    <2>5. CASE serving
      <3>1. screen' = [screen EXCEPT ![2] = Head(requests)[2]]
        BY <1>7, <2>3, <2>5 DEF XServer
      <3>2. screen'[1] = screen[1] /\ screen'[2] = requests[1][2]
        BY <1>1, <2>2, <3>1 DEF Image
      <3>3. /\ requests[1][1] = requests[1][2] /\ requests[1][1] \in WholeFrames
            /\ screen[1] = requests[1][1]
        BY <1>1, <2>2, <2>3, <2>5 DEF Window
      <3>4. \A i \in DOMAIN requests' :
              requests'[i][1] = requests'[i][2] /\ requests'[i][1] \in WholeFrames
        BY <1>1, <2>1, <2>2, <2>3, <2>5 DEF Window
      <3> QED
        BY <1>1, <2>1, <2>3, <2>5, <3>2, <3>3, <3>4 DEF Window
    <2> QED
      BY <2>4, <2>5
  <1> QED
    BY <1>2, <1>3, <1>4, <1>5, <1>6, <1>7, WindowSteps

-----------------------------------------------------------------------------
(* The invariant *)

LEMMA TypeNext == IInv /\ [Next]_vars => TypeOK'
  <1> SUFFICES ASSUME IInv, [Next]_vars PROVE TypeOK'
    OBVIOUS
  <1> USE Parameters
  <1>1. CapturerTypes' /\ ViewerTypes' /\ Driver'
    BY CapturerNext, ViewerNext, DriverNext
  <1>2. pipe \in Seq(Chunks) /\ Len(pipe) \in Nat /\ Len(pipe) <= Capacity
    BY DEF IInv, InStep, TypeOK
  <1>3. pipe' \in Seq(Chunks)
    BY InStepNext DEF InStep
  <1>4. Len(pipe') <= Capacity
    <2>1. CASE Write \/ Flush
      <3>1. Len(pipe) < Capacity /\ \E chunk : pipe' = Append(pipe, chunk)
        BY <2>1 DEF Write, Flush
      <3>2. Len(pipe') = Len(pipe) + 1
        BY <1>2, <3>1
      <3> QED
        BY <1>2, <3>1, <3>2
    <2>2. CASE ReadChunk
      <3>1. pipe # <<>> /\ pipe' = Tail(pipe)
        BY <2>2 DEF ReadChunk
      <3>2. Len(pipe') = Len(pipe) - 1
        BY <1>2, <3>1, HeadAndTail
      <3> QED
        BY <1>2, <3>2
    <2>3. CASE ReadReturns \/ image_put \/ Apart
      BY <1>2, <2>3 DEF ReadReturns, image_put, Apart
    <2> QED
      BY <2>1, <2>2, <2>3, PipeSteps
  <1>5. /\ \A i \in DOMAIN queued' : queued'[i] \in 1 .. granted'
        /\ \A i \in DOMAIN filled' : filled'[i] \in 1 .. granted'
    <2>1. queued' \in Seq(Buffers') /\ filled' \in Seq(Buffers')
      BY <1>1 DEF Driver
    <2>2. /\ \A i \in DOMAIN queued' : queued'[i] \in Buffers'
          /\ \A i \in DOMAIN filled' : filled'[i] \in Buffers'
      BY <2>1
    <2> QED
      BY <2>2 DEF Buffers
  <1> QED
    BY <1>1, <1>4, <1>5 DEF TypeOK, CapturerTypes, ViewerTypes, Before, C

LEMMA InitIInv == Init => IInv
  <1> SUFFICES ASSUME Init PROVE IInv
    OBVIOUS
  <1> USE Parameters
  <1> DEFINE Nothing == [i \in 1 .. C |-> NoChunk]
  <1>1. /\ cphase = "open" /\ vphase = "display" /\ image = "none"
        /\ isShared = FALSE /\ short = FALSE /\ serving = FALSE
        /\ granted = 0 /\ held = 0 /\ copy = 0 /\ cnt = 0 /\ part = 0
        /\ captured = 0 /\ vpos = 0
        /\ queued = <<>> /\ filled = <<>> /\ pipe = <<>> /\ stream = <<>>
        /\ requests = <<>> /\ content = [b \in 1 .. MaxGrant |-> 0]
    BY DEF Init
  <1>2. /\ videoFrame = Nothing /\ drawn = <<Nothing, Nothing>>
        /\ screen = <<Nothing, Nothing>>
    BY DEF Init, C
  <1>3. Nothing \in [1 .. C -> Chunks] /\ Nothing[1] = NoChunk
    BY DEF NoChunk, Chunks
  <1> HIDE DEF Nothing
  <1>4. /\ <<>> \in Seq(Buffers) /\ <<>> \in Seq(Chunks) /\ <<>> \in Seq(Sent)
        /\ Len(<<>>) = 0 /\ DOMAIN <<>> = {}
    OBVIOUS
  <1>5. TypeOK
    <2>1. /\ \A i \in DOMAIN queued : queued[i] \in 1 .. granted
          /\ \A i \in DOMAIN filled : filled[i] \in 1 .. granted
          /\ Len(pipe) <= Capacity /\ Len(requests) <= MaxRequests
      BY <1>1, <1>4
    <2> QED
      BY <1>1, <2>1 DEF TypeOK, C
  <1>6. Constants
    BY DEF Init, Constants, Formats
  <1>7. Driver
    BY <1>1, <1>4 DEF Driver, Holding, Streaming
  <1>8. Order
    BY <1>1 DEF Order, Streaming
  <1>9. Written
    BY <1>1, <1>4 DEF Written
  <1>10. FramesIntact
    BY <1>1, <1>4 DEF FramesIntact
  <1>11. InStep
    <2>1. Taken(0)
      BY <1>1, <1>4 DEF Taken
    <2> QED
      BY <1>1, <1>2, <1>3, <1>4, <2>1 DEF InStep
  <1>12. WindowTypes
    <2>1. drawn \in Image /\ screen = drawn
      BY <1>2, <1>3 DEF Image
    <2>2. screen[1] = screen[2] /\ screen[2][1] = NoChunk
      BY <1>2, <1>3
    <2> QED
      BY <1>1, <1>4, <2>1, <2>2 DEF WindowTypes
  <1>13. Window
    <2>1. screen[1] = screen[2] /\ screen[2][1] = NoChunk
      BY <1>2, <1>3
    <2> QED
      BY <1>1, <1>4, <2>1 DEF Window
  <1> QED
    BY <1>5, <1>6, <1>7, <1>8, <1>9, <1>10, <1>11, <1>12, <1>13 DEF IInv

LEMMA NextIInv == IInv /\ [Next]_vars => IInv'
  <1> SUFFICES ASSUME IInv, [Next]_vars PROVE IInv'
    OBVIOUS
  <1>1. Constants
    BY DEF IInv
  <1> QED
    BY <1>1, TypeNext, ConstantsNext, DriverNext, OrderNext, WrittenNext,
       FramesIntactNext, InStepNext, WindowTypesNext, WindowNext
    DEF IInv

LEMMA Invariant == Spec => []IInv
  BY InitIInv, NextIInv, PTL DEF Spec

-----------------------------------------------------------------------------
(* Theorems *)

\* The phases, buffers, counters and queues of the two programs stay in their
\* ranges.
THEOREM TypeCorrect == Spec => []TypeOK
  <1>1. IInv => TypeOK
    BY DEF IInv
  <1> QED
    BY Invariant, <1>1, PTL

\* read_frame gives its buffer back whether the frame was written or skipped:
\* when the capturer waits in select, the driver has all it granted.
THEOREM BuffersComeBack == Spec => []BuffersBack
  <1>1. IInv => BuffersBack
    BY DEF IInv, Driver, BuffersBack, Streaming, Holding
  <1> QED
    BY Invariant, <1>1, PTL

\* process_image writes each frame whole, as one frame of the camera and after
\* all earlier ones, however many buffers the driver has and however small the
\* pipe is.
THEOREM FramesGoOutWhole == Spec => []FramesIntact
  <1>1. IInv => FramesIntact
    BY DEF IInv
  <1> QED
    BY Invariant, <1>1, PTL

\* The bytes of a frame can be counted.
LEMMA FrameBytesNat == ASSUME NEW f \in Formats PROVE FrameBytes(f) \in Nat
  <1>1. /\ Width * Height * 2 \in Nat /\ Width * Height * 4 \in Nat
        /\ Width * Height * 12 \in Nat
    BY SizeAssumption
  <1> DEFINE bits == Width * Height * 12
  <1>2. bits \div 8 \in Nat
    <2> HIDE DEF bits
    <2> SUFFICES ASSUME bits \in Nat PROVE bits \div 8 \in Nat
      BY <1>1 DEF bits
    <2> QED
      OBVIOUS
  <1> QED
    BY <1>1, <1>2 DEF FrameBytes, Formats

\* A byte of a frame is in one of its chunks.
LEMMA ChunkOfByte ==
    ASSUME NEW f \in Formats, FrameBytes(f) \in Nat,
           NEW b \in 0 .. FrameBytes(f) - 1,
           NEW k, k = (b * ChunksPerFrame) \div FrameBytes(f)
    PROVE  1 + k \in 1 .. C
  <1> DEFINE bytes == FrameBytes(f)
  <1>1. bytes \in Nat \ {0} /\ b \in Nat /\ b <= bytes - 1
    OBVIOUS
  <1>2. C \in Nat \ {0} /\ k = (b * C) \div bytes
    BY Parameters DEF C
  <1> HIDE DEF bytes
  <1>3. b * C < bytes * C /\ b * C \in Nat
    BY <1>1, <1>2
  <1>4. k \in Nat /\ bytes * k <= b * C
    BY <1>1, <1>2, <1>3
  <1>5. k < C
    BY <1>1, <1>2, <1>3, <1>4
  <1> QED
    BY <1>2, <1>4, <1>5

\* process_image_yuv420, process_image_rgb565 and process_image_rgb32 after
\* reads that each brought a whole frame, sent by XPutImage: when the X server
\* is done, every pixel of the window is made of the bytes V4L2 has for it, all
\* of one frame of the camera.
THEOREM WindowShowsFrame == Spec => []PictureIsFrame
  <1>1. IInv => PictureIsFrame
    <2> SUFFICES ASSUME IInv, Painted, ~short, ~isShared, format # "yuyv"
                 PROVE  WindowIsFrame
      BY DEF PictureIsFrame
    <2>1. format \in Formats \ {"yuyv"} /\ image \in Depths
      BY DEF IInv, Constants, Painted
    <2>2. Conversion[format][image] = {Picture[format]}
      BY <2>1, ConversionIsPicture
    <2>3. screen[1] = screen[2] /\ screen[2] \in WholeFrames
      BY DEF IInv, Window, Painted
    <2>4. PICK n \in 1 .. MaxFrames :
            screen[2] = [i \in 1 .. C |-> [frame |-> n, part |-> i]]
      BY <2>3 DEF WholeFrames
    <2>5. ASSUME NEW p \in Picture[format], NEW c \in {"B", "G", "R"},
                 NEW b \in p[c], NEW half \in {1, 2}
          PROVE  screen[half][ChunkOf(b)] = [frame |-> n, part |-> ChunkOf(b)]
      <3>1. b \in 0 .. FrameBytes(format) - 1
        BY <2>1, BytesInFrame
      <3>2. ChunkOf(b) \in 1 .. C
        BY <2>1, <3>1, FrameBytesNat, ChunkOfByte DEF ChunkOf
      <3>3. screen[half] = [i \in 1 .. C |-> [frame |-> n, part |-> i]]
        BY <2>3, <2>4
      <3> HIDE DEF ChunkOf
      <3> QED
        BY <3>2, <3>3
    <2> QED
      BY <2>2, <2>5 DEF WindowIsFrame
  <1> QED
    BY Invariant, <1>1, PTL
=============================================================================
