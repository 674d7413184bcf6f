-------------------------- MODULE X264Encoder_proofs --------------------------
(***************************************************************************)
(* X264Encoder for every delay libx264 may have.  How many packets a call  *)
(* hands back follows from what is left inside: each turn of the flush     *)
(* loop moves one frame from the one count to the other.                   *)
(***************************************************************************)
EXTENDS X264Encoder, TLAPS

\* A flush begins with no more than the frames delayed before and the new one.
Packets ==
    /\ Len(out) <= before + 1
    /\ call = "flush" => delayed > 0 /\ Len(out) + delayed <= before + 1
    /\ call = "unopened" => eof = 0 /\ before = 0 /\ delayed = 0

IInv == TypeOK /\ Packets /\ FlushLeavesNothing

\* A call into libx264 changes what payloads are worth, not how many there are.
LEMMA StaleKeepsLength ==
    ASSUME NEW s \in Seq(Payloads)
    PROVE  Stale(s) \in Seq(Payloads) /\ Len(Stale(s)) = Len(s)
  BY DEF Stale, Payloads

\* No packet, and one.
LEMMA ShortSequences ==
    /\ <<>> \in Seq(Payloads) /\ Len(<<>>) = 0
    /\ <<"current">> \in Seq(Payloads) /\ Len(<<"current">>) = 1
  BY DEF Payloads

LEMMA InitIInv == Init => IInv
  <1> SUFFICES ASSUME Init PROVE IInv
    OBVIOUS
  <1>1. out \in Seq(Payloads) /\ Len(out) = 0
    BY ShortSequences DEF Init
  <1>2. TypeOK
    <2>1. Len(out) <= MaxDelay + 1 /\ delayed \in 0 .. MaxDelay
          /\ before \in 0 .. MaxDelay
      BY <1>1, MaxDelayAssumption DEF Init
    <2>2. ret \in {0, -1} /\ eof \in {0, 1} /\ crash \in BOOLEAN
          /\ handle \in {"null", "open", "dangling"}
          /\ pic \in {"none", "allocated"}
          /\ call \in {"unopened", "idle", "flush", "closed"}
      BY DEF Init
    <2> QED
      BY <1>1, <2>1, <2>2 DEF TypeOK
  <1>3. Packets /\ FlushLeavesNothing
    BY <1>1 DEF Init, Packets, FlushLeavesNothing
  <1> QED
    BY <1>2, <1>3 DEF IInv

\* What EncodePicture can make of delayed and out.
LEMMA EncodeCounts ==
    ASSUME TypeOK, EncodePicture
    PROVE  /\ ret' \in {0, -1} /\ delayed' \in 0 .. MaxDelay
           /\ out' \in Seq(Payloads) /\ Len(out') + delayed' <= delayed + 1
           /\ delayed' >= delayed
  <1>1. CASE EncodeFails /\ ret' = -1
    BY <1>1, ShortSequences, MaxDelayAssumption DEF TypeOK, EncodeFails
  <1>2. CASE EncodeDelays /\ ret' = 0
    BY <1>2, ShortSequences, MaxDelayAssumption DEF TypeOK, EncodeDelays
  <1>3. CASE EncodeEmits /\ ret' = 0
    BY <1>3, ShortSequences, MaxDelayAssumption DEF TypeOK, EncodeEmits
  <1> QED
    BY <1>1, <1>2, <1>3 DEF EncodePicture

LEMMA NextIInv == IInv /\ [Next]_vars => IInv'
  <1> SUFFICES ASSUME IInv, [Next]_vars PROVE IInv'
    OBVIOUS
  <1> USE MaxDelayAssumption
  <1>1. CASE Enc_OpenX264
    BY <1>1 DEF Enc_OpenX264, OpenHandle, IInv, TypeOK, Packets,
                FlushLeavesNothing
  <1>2. CASE Enc_yuvToh264
    <2>1. /\ ret' \in {0, -1} /\ delayed' \in 0 .. MaxDelay
          /\ out' \in Seq(Payloads) /\ Len(out') + delayed' <= delayed + 1
          /\ delayed' >= delayed
      BY <1>2, EncodeCounts DEF IInv, Enc_yuvToh264
    <2>2. eof' \in {0, 1}
      BY <1>2, EofsAssumption DEF Enc_yuvToh264
    <2>3. Len(out') \in Nat /\ delayed \in 0 .. MaxDelay
      BY <2>1 DEF IInv, TypeOK
    <2>4. TypeOK'
      BY <1>2, <2>1, <2>2, <2>3 DEF IInv, TypeOK, Enc_yuvToh264
    <2>5. Packets'
      BY <1>2, <2>1, <2>3 DEF Packets, Enc_yuvToh264
    <2>6. FlushLeavesNothing'
      BY <1>2, <2>1 DEF FlushLeavesNothing, Enc_yuvToh264
    <2> QED
      BY <2>4, <2>5, <2>6 DEF IInv
  <1>3. CASE Flush
    <2>1. Stale(out) \in Seq(Payloads) /\ Len(Stale(out)) = Len(out)
      BY StaleKeepsLength DEF IInv, TypeOK
    <2>2. /\ Append(Stale(out), "current") \in Seq(Payloads)
          /\ Len(Append(Stale(out), "current")) = Len(out) + 1
      BY <2>1 DEF Payloads
    <2>3. Len(out) \in Nat
      BY DEF IInv, TypeOK
    <2> USE DEF IInv, TypeOK, Packets, FlushLeavesNothing
    <2>4. CASE call' = "idle" /\ ret' = -1 /\ out' = Stale(out)
               /\ UNCHANGED delayed
      BY <1>3, <2>1, <2>3, <2>4 DEF Flush
    <2>5. CASE /\ delayed' = delayed - 1
               /\ out' = Append(Stale(out), "current")
               /\ call' = IF MoreToFlush(delayed') THEN "flush" ELSE "idle"
               /\ UNCHANGED ret
      <3>1. TypeOK' /\ Packets'
        BY <1>3, <2>2, <2>3, <2>5 DEF Flush, MoreToFlush
      <3>2. FlushLeavesNothing'
        BY <1>3, <2>5 DEF Flush, MoreToFlush
      <3> QED
        BY <3>1, <3>2
    <2>6. CASE out' = Stale(out) /\ UNCHANGED <<call, delayed, ret>>
      BY <1>3, <2>1, <2>3, <2>6 DEF Flush
    <2> QED
      BY <1>3, <2>4, <2>5, <2>6 DEF Flush
  <1>4. CASE Enc_CloseX264
    <2>1. Stale(out) \in Seq(Payloads) /\ Len(Stale(out)) = Len(out)
      BY StaleKeepsLength DEF IInv, TypeOK
    <2> QED
      BY <1>4, <2>1 DEF Enc_CloseX264, CloseHandle, IInv, TypeOK, Packets,
                        FlushLeavesNothing
  <1>5. CASE UNCHANGED vars
    BY <1>5 DEF vars, IInv, TypeOK, Packets, FlushLeavesNothing
  <1> QED
    BY <1>1, <1>2, <1>3, <1>4, <1>5 DEF Next

LEMMA Invariant == Spec => []IInv
  BY InitIInv, NextIInv, PTL DEF Spec

-----------------------------------------------------------------------------
\* The type invariant of the encoder wrapper.
THEOREM TypeCorrect == Spec => []TypeOK
  <1>1. IInv => TypeOK
    BY DEF IInv
  <1> QED
    BY Invariant, <1>1, PTL

\* However many frames libx264 may delay: with fewer than 8 of them inside when
\* a call begins, packetdata and packetlen of enc_h264_out are large enough.
THEOREM ArraysLargeEnough == Spec => []PacketsFit
  <1>1. IInv => PacketsFit
    BY DEF IInv, TypeOK, Packets, PacketsFit, PacketSlots
  <1> QED
    BY Invariant, <1>1, PTL

\* The flush loop ends without an error only when nothing is left inside.
THEOREM FlushIsComplete == Spec => []FlushLeavesNothing
  <1>1. IInv => FlushLeavesNothing
    BY DEF IInv
  <1> QED
    BY Invariant, <1>1, PTL

-----------------------------------------------------------------------------
(* The picture *)

\* Every luma sample of the frame, once.
LEMMA LumaIsFrame ==
    YUYV2NV12.Y = {Nv12(x, y, i).Y : x \in 0 .. Width - 1,
                                     y \in 0 .. Height - 1, i \in 0 .. 1}
  <1>1. ASSUME NEW x \in 0 .. Width - 1, NEW y \in 0 .. Height - 1
        PROVE  y * Width * 2 + 2 * x = 2 * (y * Width + x)
    BY PictureAssumption
  <1> QED
    BY <1>1 DEF YUYV2NV12, Nv12

\* The chroma of the block of pixel (x, y), which its upper left pixel names.
LEMMA ChromaOfBlock ==
    ASSUME NEW x \in 0 .. Width - 1, NEW y \in 0 .. Height - 1, NEW i \in 0 .. 1,
           x % 2 = 0, y % 2 = 0
    PROVE  Nv12(x, y, i).UV = <<ChromaRow(y) + x + i,
                                y * Width * 2 + 1 + 2 * i + (x \div 2) * 4>>
  <1> USE PictureAssumption
  <1> DEFINE a == x \div 2
             b == y \div 2
  <1>1. a \in Nat /\ b \in Nat /\ x = 2 * a /\ y = 2 * b
    OBVIOUS
  <1>2. ChromaRow(y) = b * Width
    <2>1. y * Width = 2 * (b * Width)
      BY <1>1
    <2> QED
      BY <1>1, <2>1 DEF ChromaRow
  <1>3. Nv12(x, y, i).UV = <<b * Width + 2 * a + i,
                             2 * (2 * b * Width + 2 * a) + 1 + 2 * i>>
    BY DEF Nv12
  <1>4. 2 * (2 * b * Width + 2 * a) + 1 + 2 * i
          = y * Width * 2 + 1 + 2 * i + a * 4
    BY <1>1
  <1> QED
    BY <1>1, <1>2, <1>3, <1>4

\* The pixels of a block share their chroma.
LEMMA SameBlock ==
    ASSUME NEW x \in 0 .. Width - 1, NEW y \in 0 .. Height - 1, NEW i \in 0 .. 1
    PROVE  /\ x - (x % 2) \in 0 .. Width - 1 /\ (x - (x % 2)) % 2 = 0
           /\ y - (y % 2) \in 0 .. Height - 1 /\ (y - (y % 2)) % 2 = 0
           /\ Nv12(x - (x % 2), y - (y % 2), i).UV = Nv12(x, y, i).UV
  <1>1. /\ (x - (x % 2)) \div 2 = x \div 2 /\ (y - (y % 2)) \div 2 = y \div 2
        /\ x - (x % 2) \in 0 .. Width - 1 /\ (x - (x % 2)) % 2 = 0
        /\ y - (y % 2) \in 0 .. Height - 1 /\ (y - (y % 2)) % 2 = 0
    BY PictureAssumption
  <1> QED
    BY <1>1 DEF Nv12

LEMMA ChromaIsFrame ==
    YUYV2NV12.UV = {Nv12(x, y, i).UV : x \in 0 .. Width - 1,
                                       y \in 0 .. Height - 1, i \in 0 .. 1}
  <1> DEFINE Even(n) == {k \in 0 .. n - 1 : k % 2 = 0}
             S == {<<ChromaRow(y) + x + i,
                     y * Width * 2 + 1 + 2 * i + (x \div 2) * 4>> :
                      x \in Even(Width), y \in Even(Height), i \in 0 .. 1}
             P == {Nv12(x, y, i).UV : x \in 0 .. Width - 1,
                                      y \in 0 .. Height - 1, i \in 0 .. 1}
  <1>1. YUYV2NV12.UV = S
    BY DEF YUYV2NV12
  <1>2. ASSUME NEW s \in S PROVE s \in P
    BY ChromaOfBlock
  <1>3. ASSUME NEW p \in P PROVE p \in S
    <2> PICK x \in 0 .. Width - 1, y \in 0 .. Height - 1, i \in 0 .. 1 :
               p = Nv12(x, y, i).UV
      OBVIOUS
    <2> DEFINE u == x - (x % 2)
               v == y - (y % 2)
    <2>1. u \in Even(Width) /\ v \in Even(Height) /\ p = Nv12(u, v, i).UV
      BY SameBlock
    <2> HIDE DEF u, v
    <2>2. /\ u \in 0 .. Width - 1 /\ u % 2 = 0
          /\ v \in 0 .. Height - 1 /\ v % 2 = 0
      BY <2>1
    <2>3. p = <<ChromaRow(v) + u + i,
                v * Width * 2 + 1 + 2 * i + (u \div 2) * 4>>
      BY <2>1, <2>2, ChromaOfBlock
    <2> QED
      BY <2>1, <2>3
  <1>4. S = P
    <2> HIDE DEF S, P
    <2> QED
      BY <1>2, <1>3
  <1> QED
    BY <1>1, <1>4

\* The planes hold nothing, or what one whole pass of YUYV2NV12 wrote.
Filled == planes \in {NoPlanes, YUYV2NV12}

LEMMA FilledAlways == Spec => []Filled
  <1>1. Init => Filled
    BY DEF Init, Filled
  <1>2. Filled /\ [Next]_vars => Filled'
    BY DEF Filled, Next, vars, Enc_OpenX264, Enc_yuvToh264, Flush,
           Enc_CloseX264
  <1> QED
    BY <1>1, <1>2, PTL DEF Spec

\* For every even width and height the picture given to libx264 is the camera's
\* frame in NV12: the bytes the format has in a plane are written, no others,
\* and each with the sample of its own pixel.
THEOREM PictureIsAlwaysFrame == Spec => []PictureIsFrame
  <1>1. ASSUME Filled, planes # NoPlanes, NEW p \in {"Y", "UV"}
        PROVE  planes[p] = {Nv12(x, y, i)[p] : x \in 0 .. Width - 1,
                                               y \in 0 .. Height - 1,
                                               i \in 0 .. 1}
    <2>1. planes = YUYV2NV12
      BY <1>1 DEF Filled
    <2> QED
      BY <2>1, LumaIsFrame, ChromaIsFrame
  <1>2. Filled => PictureIsFrame
    BY <1>1 DEF PictureIsFrame
  <1> QED
    BY <1>2, FilledAlways, PTL
=============================================================================
