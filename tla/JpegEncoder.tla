------------------------------ MODULE JpegEncoder ------------------------------
(***************************************************************************)
(* The baseline JPEG encoder of jpegenc.c.  encode_rgb2jpg, encode_yuyvjpg *)
(* and encode_yuv444Tojpg differ in the colour conversion only: each       *)
(* writes the header, then for every 8x8 macro block the quantized blocks  *)
(* of Y, Cb and Cr, Huffman coded against the previous block of the same   *)
(* component, then the end marker.                                         *)
(*                                                                         *)
(* A quantized block is a function on 0 .. 63 in zigzag order.  Of the     *)
(* colour conversion it is kept which bytes of the picture each sample is  *)
(* made from; what the transform makes of the samples is data: any block   *)
(* of the picture's set of blocks.                                         *)
(***************************************************************************)
EXTENDS Integers, SequencesExt, JpegTables

CONSTANTS
    Jobs,       \* calls: records of the input format, Qp, width, height, and
                \* the quantized blocks that may come up
    PlaneSize   \* 640 * 480, the size of a plane of a YUV444 picture

ASSUME PlaneSizeAssumption == PlaneSize \in Nat

\* Samples of 8 bits through the transform give 11 bits for every coefficient;
\* all but the first stay off the lowest value.
IsBlock(DU) ==
    /\ DU \in [0 .. 63 -> Int]
    /\ -1024 <= DU[0] /\ DU[0] < 1024
    /\ \A k \in 1 .. 63 : -1024 < DU[k] /\ DU[k] < 1024

\* A YUYV line is made of pairs of pixels.
ASSUME JobsAssumption ==
    \A j \in Jobs :
        /\ j.input \in {"rgb", "yuyv", "yuv444"}
        /\ j.width \in Nat /\ j.height \in Nat /\ j.Qp \in Int
        /\ j.input = "yuyv" => j.width % 2 = 0
        /\ \A DU \in j.blocks : IsBlock(DU)

VARIABLES
    job,        \* the parameters of the call
    pc,         \* "header", "convert", "Y", "Cb", "Cr", "closed"; "crashed"
    x, y,       \* the macro block
    header,     \* the bytes of the header
    mb,         \* yData, cbData, crData: the bytes each sample is made from
    prevDC,     \* prev_DC_Y, prev_DC_Cb, prev_DC_Cr
    acc,        \* the bits of newByte above newBytePos
    file,       \* entropy coded bytes written
    entries,    \* bitStringCnt of the last block
    sent        \* history: the blocks coded

vars == <<job, pc, x, y, header, mb, prevDC, acc, file, entries, sent>>

-----------------------------------------------------------------------------
(* Tables *)

Clamp(v, low, high) == IF v < low THEN low ELSE IF v > high THEN high ELSE v

Quantizer(base, qp) == Clamp((base * qp + 50) \div 100, 1, 255)

\* _init_QualityTables: the scaled base table, stored in zigzag order.
QualityTable(base, Qp) ==
    LET qp == IF Qp >= 100 THEN 99 ELSE IF Qp <= 0 THEN 1 ELSE Qp
    IN  [k \in 0 .. 63 |->
            LET i == CHOOSE i \in 1 .. 64 : ZigZag[i] = k
            IN  Quantizer(base[i], qp)]

\* _forword_FDC: the quantizer of coefficient (v, u), and where it is stored.
FdcPlace(v, u) == ZigZag[v * 8 + u + 1]

\* The lengths of the codes, position by position of the value table.
CodeLengths(nrCodes) ==
    FlattenSeq([k \in 1 .. 16 |-> [j \in 1 .. nrCodes[k] |-> k]])

\* _computeHuffmanTable on a table cleared by memset: consecutive codes,
\* doubled at every step to the next length.
ComputeHuffmanTable(nrCodes, values, size) ==
    LET lengths == CodeLengths(nrCodes)
        code[p \in 1 .. Len(values)] ==
            IF p = 1 THEN 0
            ELSE (code[p - 1] + 1) * 2 ^ (lengths[p] - lengths[p - 1])
    IN  [v \in 0 .. size - 1 |->
            IF \E p \in DOMAIN values : values[p] = v
              THEN LET p == CHOOSE p \in DOMAIN values : values[p] = v
                   IN  [length |-> lengths[p], value |-> code[p]]
              ELSE [length |-> 0, value |-> 0]]

Y_DC_Huffman_Tab ==
    ComputeHuffmanTable(Standard_DC_Lum_NRCodes, Standard_DC_Lum_Values, 12)
Y_AC_Huffman_Tab ==
    ComputeHuffmanTable(Standard_AC_Lum_NRCodes, Standard_AC_Lum_Values, 256)
CbCr_DC_Huffman_Tab ==
    ComputeHuffmanTable(Standard_DC_Chroma_NRCodes,
                        Standard_DC_Chroma_Values, 12)
CbCr_AC_Huffman_Tab ==
    ComputeHuffmanTable(Standard_AC_Chroma_NRCodes,
                        Standard_AC_Chroma_Values, 256)

HTDC(c) == IF c = "Y" THEN Y_DC_Huffman_Tab ELSE CbCr_DC_Huffman_Tab
HTAC(c) == IF c = "Y" THEN Y_AC_Huffman_Tab ELSE CbCr_AC_Huffman_Tab

-----------------------------------------------------------------------------
(* The header *)

Word(v) == <<(v \div 256) % 256, v % 256>>

\* Seeded variant: the length of the four tables without their class bytes.
DHTLengthShort == 414

DHTLength == 418

\* The segments, each with its marker and its length.
APP0 == Word(65504) \o Word(16) \o <<74, 70, 73, 70, 0, 1, 1, 0>>
          \o Word(1) \o Word(1) \o <<0, 0>>

DQT(YTab, CbCrTab) ==
    LET bytes(tab) == [i \in 1 .. 64 |-> tab[i - 1]]
    IN  Word(65499) \o Word(132)
          \o <<0>> \o bytes(YTab) \o <<1>> \o bytes(CbCrTab)

SOF0(width, height) ==
    Word(65472) \o Word(17) \o <<8>> \o Word(height) \o Word(width)
      \o <<3, 1, 17, 0, 2, 17, 1, 3, 17, 1>>

HuffmanSpec(id, nrCodes, values) == <<id>> \o nrCodes \o values

DHT ==
    Word(65476) \o Word(DHTLength)
      \o HuffmanSpec(0, Standard_DC_Lum_NRCodes, Standard_DC_Lum_Values)
      \o HuffmanSpec(16, Standard_AC_Lum_NRCodes, Standard_AC_Lum_Values)
      \o HuffmanSpec(1, Standard_DC_Chroma_NRCodes, Standard_DC_Chroma_Values)
      \o HuffmanSpec(17, Standard_AC_Chroma_NRCodes, Standard_AC_Chroma_Values)

SOS == Word(65498) \o Word(12) \o <<3, 1, 0, 2, 17, 3, 17, 0, 63, 0>>

\* _write_jpeg_header: the start of the image and the segments.
WriteJpegHeader(width, height, YTab, CbCrTab) ==
    Word(65496) \o APP0 \o DQT(YTab, CbCrTab) \o SOF0(width, height)
      \o DHT \o SOS

-----------------------------------------------------------------------------
(* The colour conversion of one macro block *)

Samples == 0 .. 63

\* Red, green and blue of a BGR pixel go into every component.
ConvertMBColorRGB2YUV(xPos, yPos, patch) ==
    LET p(i) == (i \div 8 + yPos) * patch * 3 + xPos * 3 + 3 * (i % 8)
        rgb == [i \in Samples |-> <<p(i) + 2, p(i) + 1, p(i)>>]
    IN  [Y |-> rgb, Cb |-> rgb, Cr |-> rgb]

\* Seeded variant: the chroma of the pixel, not of the pair.
PairOfPixel(xPos) == xPos * 4

PairOf(xPos) == (xPos \div 2) * 4

\* Minus 128 on a char, which wraps: the level shift of the standard.
ConvertMBColorYUYV2YUV(xPos, yPos, patch) ==
    LET line(i) == (i \div 8 + yPos) * patch * 2
    IN  [Y  |-> [i \in Samples |-> <<line(i) + xPos * 2 + 2 * (i % 8)>>],
         Cb |-> [i \in Samples |->
                   <<line(i) + PairOf(xPos) + 1 + ((i % 8) \div 2) * 4>>],
         Cr |-> [i \in Samples |->
                   <<line(i) + PairOf(xPos) + 3 + ((i % 8) \div 2) * 4>>]]

ConvertMBColorYUV444ToYUV(xPos, yPos, patch) ==
    LET py(i) == (i \div 8 + yPos) * patch + xPos + (i % 8)
    IN  [Y  |-> [i \in Samples |-> <<py(i)>>],
         Cb |-> [i \in Samples |-> <<py(i) + PlaneSize>>],
         Cr |-> [i \in Samples |-> <<py(i) + PlaneSize * 2>>]]

-----------------------------------------------------------------------------
(* Huffman coding of one block *)

\* _getBitCode: the number of bits of |v|, and one's complement below zero.
GetBitCode(v) ==
    LET abs == IF v > 0 THEN v ELSE -v
        length == CHOOSE n \in 0 .. 16 : abs < 2 ^ n
                                         /\ (n = 0 \/ abs >= 2 ^ (n - 1))
    IN  [length |-> length, value |-> IF v > 0 THEN v ELSE 2 ^ length + v - 1]

CodeDC(diff, dc) ==
    LET bs == GetBitCode(diff)
    IN  IF diff = 0 THEN <<dc[0]>> ELSE <<dc[bs.length], bs>>

\* Seeded variant: one SIXTEEN_ZEROS however long the run.
CodeRunOnce(zeros, v, ac) ==
    LET bs == GetBitCode(v)
    IN  (IF zeros >= 16 THEN <<ac[240]>> ELSE <<>>)
          \o <<ac[16 * (zeros % 16) + bs.length], bs>>

\* A run of zeros and the coefficient that ends it.
CodeRun(zeros, v, ac) ==
    LET bs == GetBitCode(v)
    IN  [i \in 1 .. zeros \div 16 |-> ac[240]]
          \o <<ac[16 * (zeros % 16) + bs.length], bs>>

\* Seeded variant: an EOB after the last coefficient as well.
CodeEndAlways(endPos, ac) == <<ac[0]>>

CodeEnd(endPos, ac) == IF endPos # 63 THEN <<ac[0]>> ELSE <<>>

\* endPos, for the coefficients up to k: the last that is not zero, if any.
EndPos(DU, k) ==
    CHOOSE e \in 0 .. k : /\ e = 0 \/ DU[e] # 0
                          /\ \A i \in e + 1 .. k : DU[i] = 0

CodeAC(DU, k, ac) ==
    IF DU[k] = 0 THEN <<>>
                 ELSE CodeRun(k - 1 - EndPos(DU, k - 1), DU[k], ac)

\* _doHuffmanEncoding: MbBitString up to bitStringCounts.
DoHuffmanEncoding(DU, prev, dc, ac) ==
    CodeDC(DU[0] - prev, dc)
      \o FlattenSeq([k \in 1 .. 63 |-> CodeAC(DU, k, ac)])
      \o CodeEnd(EndPos(DU, 63), ac)

-----------------------------------------------------------------------------
(* The bit stream *)

BitsOf(bs) ==
    [i \in 1 .. bs.length |-> (bs.value \div 2 ^ (bs.length - i)) % 2]

ByteOf(bits) ==
    bits[1] * 128 + bits[2] * 64 + bits[3] * 32 + bits[4] * 16
      + bits[5] * 8 + bits[6] * 4 + bits[7] * 2 + bits[8]

\* Seeded variant: 0xFF is written as any other byte.
StuffedPlain(byte) == <<byte>>

Stuffed(byte) == IF byte = 255 THEN <<255, 0>> ELSE <<byte>>

\* Seeded variant: a byte is written when the next bit does not fit.
FullLate(bits) == (Len(bits) - 1) \div 8

Full(bits) == Len(bits) \div 8

\* _write_bitstring_: [acc, bytes] after the bits of bs are appended.
WriteBitString(bs) ==
    LET bits == acc \o FlattenSeq([n \in DOMAIN bs |-> BitsOf(bs[n])])
        byte(n) == ByteOf(SubSeq(bits, 8 * n - 7, 8 * n))
    IN  [acc   |-> SubSeq(bits, 8 * Full(bits) + 1, Len(bits)),
         bytes |-> FlattenSeq([n \in 1 .. Full(bits) |-> Stuffed(byte(n))])]

-----------------------------------------------------------------------------
(* The program *)

Init ==
    /\ job \in Jobs
    /\ pc = "header" /\ x = 0 /\ y = 0
    /\ header = <<>> /\ mb = <<>>
    /\ prevDC = [c \in {"Y", "Cb", "Cr"} |-> 0]
    /\ acc = <<>> /\ file = <<>> /\ entries = 0 /\ sent = <<>>

\* _init_QualityTables and _write_jpeg_header.
WriteHeader ==
    /\ pc = "header"
    /\ header' = WriteJpegHeader(job.width, job.height,
                                 QualityTable(Lum_Quantization_Tab, job.Qp),
                                 QualityTable(Chroma_Quantization_Tab, job.Qp))
    /\ pc' = "convert"
    /\ UNCHANGED <<job, x, y, mb, prevDC, acc, file, entries, sent>>

\* The file cannot be opened: the null pointer goes to fwrite.
OpenFails ==
    /\ pc = "header" /\ pc' = "crashed"
    /\ UNCHANGED <<job, x, y, header, mb, prevDC, acc, file, entries, sent>>

\* The loop bounds: y < height, x < width.
MoreBlocks == y < job.height /\ x < job.width

Convert(input, samples) ==
    /\ job.input = input /\ pc = "convert" /\ MoreBlocks
    /\ mb' = samples
    /\ pc' = "Y"
    /\ UNCHANGED <<job, x, y, header, prevDC, acc, file, entries, sent>>

\* The first lines of the loops, in which the three encoders differ.
encode_rgb2jpg == Convert("rgb", ConvertMBColorRGB2YUV(x, y, job.width))
encode_yuyvjpg == Convert("yuyv", ConvertMBColorYUYV2YUV(x, y, job.width))
encode_yuv444Tojpg ==
    Convert("yuv444", ConvertMBColorYUV444ToYUV(x, y, job.width))

\* _forword_FDC gives a block; it is coded and written.
CodeBlock(c) ==
    \E DU \in job.blocks :
        LET bs  == DoHuffmanEncoding(DU, prevDC[c], HTDC(c), HTAC(c))
            out == WriteBitString(bs)
        IN  /\ prevDC' = [prevDC EXCEPT ![c] = DU[0]]
            /\ entries' = Len(bs)
            /\ acc' = out.acc
            /\ file' = file \o out.bytes
            /\ sent' = Append(sent, DU)

CodeY ==
    /\ pc = "Y"
    /\ CodeBlock("Y")
    /\ pc' = "Cb" /\ UNCHANGED <<job, x, y, header, mb>>

CodeCb ==
    /\ pc = "Cb"
    /\ CodeBlock("Cb")
    /\ pc' = "Cr" /\ UNCHANGED <<job, x, y, header, mb>>

\* The last component; then the next macro block, line by line.
CodeCr ==
    /\ pc = "Cr"
    /\ CodeBlock("Cr")
    /\ pc' = "convert"
    /\ IF x + 8 < job.width THEN x' = x + 8 /\ y' = y
                            ELSE x' = 0 /\ y' = y + 8
    /\ UNCHANGED <<job, header, mb>>

\* The end marker, and fclose.
Finish ==
    /\ pc = "convert" /\ ~MoreBlocks
    /\ pc' = "closed"
    /\ UNCHANGED <<job, x, y, header, mb, prevDC, acc, file, entries, sent>>

Next == \/ WriteHeader \/ OpenFails
        \/ encode_rgb2jpg \/ encode_yuyvjpg \/ encode_yuv444Tojpg
        \/ CodeY \/ CodeCb \/ CodeCr \/ Finish

Spec == Init /\ [][Next]_vars

-----------------------------------------------------------------------------
(* Properties *)

TypeOK ==
    /\ pc \in {"header", "convert", "Y", "Cb", "Cr", "closed", "crashed"}
    /\ x \in 0 .. job.width /\ y \in 0 .. job.height + 7
    /\ \A c \in {"Y", "Cb", "Cr"} :
           prevDC[c] \in Int /\ -32768 <= prevDC[c] /\ prevDC[c] < 32768
    /\ Len(acc) < 8 /\ \A i \in DOMAIN acc : acc[i] \in {0, 1}
    /\ \A i \in DOMAIN file : file[i] \in 0 .. 255
    /\ entries \in Nat /\ \A i \in DOMAIN sent : sent[i] \in job.blocks
    /\ \A i \in DOMAIN header : header[i] \in 0 .. 255

\* MbBitString has room for 128 bit strings: a block without a single zero
\* takes all of them.
EntriesFit == entries <= 128

\* Where sample c of pixel (px, py) is in a picture of each format.
Sample(c, px, py) ==
    LET n == py * job.width + px
        plane == job.width * job.height
    IN  CASE job.input = "rgb" -> <<3 * n + 2, 3 * n + 1, 3 * n>>
          [] job.input = "yuyv" ->
               <<CASE c = "Y" -> 2 * n
                   [] c = "Cb" -> 4 * (n \div 2) + 1
                   [] c = "Cr" -> 4 * (n \div 2) + 3>>
          [] job.input = "yuv444" ->
               <<CASE c = "Y" -> n
                   [] c = "Cb" -> n + plane
                   [] c = "Cr" -> n + 2 * plane>>

\* Every sample of every macro block is made from the bytes of its own pixel:
\* blocks neither overlap nor skip a column.  (Past the right edge of a picture
\* that a macro block sticks out of, "its own" are the bytes the rows continue
\* with.)  A YUV444 picture has to be of the one size the code has built in.
SamplesOfOwnPixels ==
    pc = "Y" /\ (job.input = "yuv444" => job.width * job.height = PlaneSize)
      => \A c \in {"Y", "Cb", "Cr"}, i \in Samples :
           mb[c][i] = Sample(c, x + (i % 8), y + i \div 8)

\* A decoder that looks for markers finds none inside the coded data.
NoMarkerInData ==
    \A i \in DOMAIN file :
        file[i] = 255 => i < Len(file) /\ file[i + 1] = 0

\* Every macro block is, as the comments at each component say, written to
\* the file.  (It is not: the bits of a last, partial byte are dropped.)
AllBitsInFile == pc = "closed" => acc = <<>>
=============================================================================
