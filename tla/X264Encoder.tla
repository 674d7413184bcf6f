----------------------------- MODULE X264Encoder -----------------------------
(***************************************************************************)
(* Project/module/encoder.c: the static x264 handle and picture, and the   *)
(* packets one Enc_yuvToh264 call hands back in an enc_h264_out.  libx264  *)
(* is external: a picture may fail, stay inside as a delayed frame, or     *)
(* come out as one packet.  Of the pixels it is kept which byte of the     *)
(* camera's frame each byte of the picture comes from; Enc_yuyv2jpg is in  *)
(* JpegEncoder, the time stamps are left out.                              *)
(*                                                                         *)
(* libx264 reuses its output memory: a payload is valid ("current") until  *)
(* the next call of x264_encoder_encode, and "stale" from then on.         *)
(***************************************************************************)
EXTENDS Integers, Sequences

CONSTANTS
    MaxDelay,   \* frames libx264 may keep inside
    Eofs,       \* the values of parameter eof: the program passes 0 only
    Width, Height   \* of the picture

ASSUME PictureAssumption ==
    /\ Width \in Nat \ {0} /\ Width % 2 = 0
    /\ Height \in Nat \ {0} /\ Height % 2 = 0
ASSUME MaxDelayAssumption == MaxDelay \in Nat
ASSUME EofsAssumption == Eofs \subseteq {0, 1}

VARIABLES
    handle,     \* the static x264_t pointer; it is not cleared by the close
    pic,        \* whether the planes of the static picture are allocated
    planes,     \* the pairs <<byte of the plane, byte of the frame>> written
    call,       \* "unopened", "idle", "flush": the call under way
    delayed,    \* x264_encoder_delayed_frames
    out,        \* out.packetdata[0 .. framenum - 1]
    ret,        \* what the last call returned: 0 or -1
    eof,        \* history: the eof parameter of the last call
    before,     \* history: delayed frames when the last call began
    crash       \* x264_encoder_close was given no open encoder

vars == <<handle, pic, planes, call, delayed, out, ret, eof, before, crash>>

PacketSlots == 8    \* packetdata[8], packetlen[8]

Payloads == {"current", "stale"}

\* What earlier payloads are worth after a call into libx264.
Stale(payloads) ==
    [i \in DOMAIN payloads |->
        IF payloads[i] = "current" THEN "stale" ELSE payloads[i]]

-----------------------------------------------------------------------------
NoPlanes == [Y |-> {}, UV |-> {}]

\* Seeded variant: the rows of the chroma plane twice as far apart.
ChromaRowFull(y) == y * Width

\* Where uvData has the chroma of row y.
ChromaRow(y) == (y * Width) \div 2

\* pin is packed as Y U Y V; the chroma of the odd rows is dropped.
YUYV2NV12 ==
    LET pin(y) == y * Width * 2
        Even(n) == {i \in 0 .. n - 1 : i % 2 = 0}
    IN  [Y |-> {<<y * Width + x, pin(y) + 2 * x>> :
                   x \in 0 .. Width - 1, y \in 0 .. Height - 1},
         UV |-> {<<ChromaRow(y) + x + i, pin(y) + 1 + 2 * i + (x \div 2) * 4>> :
                   x \in Even(Width), y \in Even(Height), i \in 0 .. 1}]

\* The parameters are rejected, or the picture cannot be allocated; or the
\* encoder cannot be opened and the picture stays allocated; or all is well.
OpenHandle ==
    \/ UNCHANGED <<handle, pic>>
    \/ handle' = "null" /\ pic' = "allocated"
    \/ handle' = "open" /\ pic' = "allocated"

Enc_OpenX264 ==
    /\ call = "unopened"
    /\ call' = "idle"
    /\ OpenHandle
    /\ UNCHANGED <<planes, delayed, out, ret, eof, before, crash>>

\* x264_encoder_encode on a new picture: an error, ...
EncodeFails == out' = <<>> /\ UNCHANGED delayed

\* ... no output yet, ...
EncodeDelays ==
    /\ delayed < MaxDelay
    /\ delayed' = delayed + 1
    /\ out' = <<>>

\* Seeded variant: framenum is not reset when a call begins.
EncodeEmitsMore ==
    /\ out' = Append(Stale(out), "current")
    /\ UNCHANGED delayed

\* ... or the packet of this frame, or of an earlier one in its stead.
EncodeEmits ==
    /\ out' = <<"current">>
    /\ UNCHANGED delayed

\* Without a handle, or when libx264 reports an error, -1 is returned.
EncodePicture ==
    \/ EncodeFails /\ ret' = -1
    \/ handle = "open" /\ EncodeDelays /\ ret' = 0
    \/ handle = "open" /\ EncodeEmits /\ ret' = 0

\* The picture is filled and encoded.  With eof set and frames left inside,
\* the flush loop follows.
Enc_yuvToh264 ==
    /\ call = "idle"
    /\ eof' \in Eofs
    /\ planes' = IF handle = "null" THEN planes ELSE YUYV2NV12
    /\ EncodePicture
    /\ call' = IF ret' = 0 /\ eof' = 1 /\ delayed' > 0 THEN "flush" ELSE "idle"
    /\ before' = delayed
    /\ UNCHANGED <<handle, pic, crash>>

\* Seeded variant: "if" in place of "while" around the flush.
FlushOnce(left) == FALSE

MoreToFlush(left) == left > 0

\* One turn of the flush loop: an error, after which the packets so far stay in
\* out; a packet; or no output yet.
Flush ==
    /\ call = "flush"
    /\ \/ /\ call' = "idle" /\ ret' = -1
          /\ out' = Stale(out)
          /\ UNCHANGED delayed
       \/ /\ delayed' = delayed - 1
          /\ out' = Append(Stale(out), "current")
          /\ call' = IF MoreToFlush(delayed') THEN "flush" ELSE "idle"
          /\ UNCHANGED ret
       \/ /\ out' = Stale(out)
          /\ UNCHANGED <<call, delayed, ret>>
    /\ UNCHANGED <<handle, pic, planes, eof, before, crash>>

\* x264_encoder_close of a handle that is not open ends the process.
CloseHandle ==
    /\ crash' = (handle # "open")
    /\ handle' = IF handle = "open" THEN "dangling" ELSE handle
    /\ pic' = IF handle = "open" THEN "none" ELSE pic

Enc_CloseX264 ==
    /\ call = "idle"
    /\ call' = "closed"
    /\ CloseHandle
    /\ out' = Stale(out)
    /\ UNCHANGED <<planes, delayed, ret, eof, before>>

-----------------------------------------------------------------------------
Init ==
    /\ handle = "null" /\ pic = "none" /\ call = "unopened"
    /\ planes = NoPlanes
    /\ delayed = 0 /\ out = <<>>
    /\ ret = 0 /\ eof = 0 /\ before = 0 /\ crash = FALSE

Next == Enc_OpenX264 \/ Enc_yuvToh264 \/ Flush \/ Enc_CloseX264

Spec == Init /\ [][Next]_vars

-----------------------------------------------------------------------------
(* Properties *)

TypeOK ==
    /\ handle \in {"null", "open", "dangling"}
    /\ pic \in {"none", "allocated"}
    /\ call \in {"unopened", "idle", "flush", "closed"}
    /\ delayed \in 0 .. MaxDelay
    /\ out \in Seq(Payloads) /\ Len(out) <= MaxDelay + 1
    /\ ret \in {0, -1} /\ eof \in {0, 1}
    /\ before \in 0 .. MaxDelay /\ crash \in BOOLEAN

\* The fixed arrays of enc_h264_out are never overrun as long as fewer than 8
\* frames were delayed when the call began.
PacketsFit == before < PacketSlots => Len(out) <= PacketSlots

\* A flushing call that returns 0 leaves no frame inside the encoder.
FlushLeavesNothing == call = "idle" /\ eof = 1 /\ ret = 0 => delayed = 0

\* Where NV12 wants the samples: the luma of pixel (x, y) at y * Width + x of
\* the first plane; in the second, for a block of 2 x 2 pixels, U and V side
\* by side, here those of the block's upper row.
Nv12(x, y, i) ==
    [Y |-> <<y * Width + x, 2 * (y * Width + x)>>,
     UV |-> <<(y \div 2) * Width + 2 * (x \div 2) + i,
              2 * (2 * (y \div 2) * Width + 2 * (x \div 2)) + 1 + 2 * i>>]

\* What libx264 is given is the whole of the frame: every byte of the planes
\* is written, each once, and with the sample of its own pixel.
PictureIsFrame ==
    planes # NoPlanes =>
        \A p \in {"Y", "UV"} :
            planes[p] = {Nv12(x, y, i)[p] : x \in 0 .. Width - 1,
                                            y \in 0 .. Height - 1, i \in 0 .. 1}
=============================================================================
