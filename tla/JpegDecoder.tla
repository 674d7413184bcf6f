----------------------------- MODULE JpegDecoder -----------------------------
(***************************************************************************)
(* A decoder to hold JpegEncoder against: the decoding procedures of the   *)
(* baseline standard.  It is given the bytes of the file and nothing else, *)
(* and is total: "broken" is what it makes of bytes that are no picture.   *)
(***************************************************************************)
EXTENDS JpegEncoder

-----------------------------------------------------------------------------
(* The header *)

\* A number of two bytes.
Short(h, p) == 256 * h[p] + h[p + 1]

\* The first byte behind the segment at p; what is in the segment.
EndOf(h, p) == p + 2 + Short(h, p + 2)
Content(h, p) == SubSeq(h, p + 4, EndOf(h, p) - 1)

\* Where the first sixteen segments of a header begin, as their lengths tell:
\* behind its first two bytes the first.
SegmentAfter(h, p) == IF p + 3 > Len(h) THEN p ELSE EndOf(h, p)

Begin(h) ==
    LET at[n \in 1 .. 16] == IF n = 1 THEN 3 ELSE SegmentAfter(h, at[n - 1])
    IN  {at[n] : n \in 1 .. 16}

\* The places of the segments with this marker.
Marked(h, marker) ==
    {p \in Begin(h) : p + 3 <= Len(h) /\ h[p] = 255 /\ h[p + 1] = marker}

\* A decoder finds the segments it needs, whole, and the scan where it looks
\* for it.
HeaderComplete ==
    /\ \A marker \in {192, 196, 218, 219} :
         \E p \in Marked(header, marker) : EndOf(header, p) <= Len(header) + 1
    /\ \E p \in Marked(header, 218) : EndOf(header, p) = Len(header) + 1

Segment(marker) == Content(header, CHOOSE p \in Marked(header, marker) : TRUE)

\* A segment of quantizers holds tables of 64, each behind its number.
QuantTable(s, id) ==
    LET i == CHOOSE i \in 0 .. Len(s) \div 65 - 1 : s[65 * i + 1] = id
    IN  SubSeq(s, 65 * i + 2, 65 * i + 65)

\* How many codes are shorter, how many there are, and the first code of each
\* length.
Table(nrCodes, values) ==
    LET first[k \in 1 .. 16] ==
            IF k = 1 THEN 0 ELSE 2 * (first[k - 1] + nrCodes[k - 1])
        before[k \in 1 .. 16] ==
            IF k = 1 THEN 0 ELSE before[k - 1] + nrCodes[k - 1]
    IN  [first |-> first, before |-> before, count |-> nrCodes,
         values |-> values]

TableAt(s, p) == Table(SubSeq(s, p + 1, p + 16), SubSeq(s, p + 17, Len(s)))

\* Where the Huffman tables of a segment begin, of which the standard has eight:
\* each has its number, the counts and as many values as they say.
TableAfter(s, p) ==
    IF p + 16 > Len(s) THEN p
    ELSE LET t == TableAt(s, p) IN p + 17 + t.before[16] + t.count[16]

TableBegin(s) ==
    LET at[n \in 1 .. 8] == IF n = 1 THEN 1 ELSE TableAfter(s, at[n - 1])
    IN  {at[n] : n \in 1 .. 8}

HuffmanTable(s, id) ==
    TableAt(s, CHOOSE p \in TableBegin(s) : p + 16 <= Len(s) /\ s[p] = id)

\* What the header tells a decoder: the size, and per component the quantizers
\* and the two Huffman tables.
Told ==
    LET sof == Segment(192)
        sos == Segment(218)
        tables == Segment(196)
    IN  [height |-> Short(sof, 2), width |-> Short(sof, 4),
         quant |-> [c \in 0 .. 2 |-> QuantTable(Segment(219), sof[9 + 3 * c])],
         dc |-> [c \in 0 .. 2 |->
                   HuffmanTable(tables, sos[3 + 2 * c] \div 16)],
         ac |-> [c \in 0 .. 2 |->
                   HuffmanTable(tables, 16 + (sos[3 + 2 * c] % 16))]]

\* Coefficient (v, u) in the zigzag scan of the standard: the diagonals one
\* after the other, in turn downwards and upwards.
ZigZagScan(v, u) ==
    LET d == v + u
        before == IF d < 8 THEN (d * (d + 1)) \div 2
                  ELSE 64 - ((15 - d) * (16 - d)) \div 2
        first == IF d < 8 THEN 0 ELSE d - 7
    IN  before + (IF d % 2 = 0 THEN u ELSE v) - first

-----------------------------------------------------------------------------
(* The scan *)

\* The bit at position p; a one past the end.
Bit(bits, p) == IF p <= Len(bits) THEN bits[p] ELSE 1

\* The number in the n bits from position p on.
Number(bits, p, n) ==
    LET number[i \in 1 .. n + 1] ==
            IF i = 1 THEN 0 ELSE 2 * number[i - 1] + Bit(bits, p + i - 2)
    IN  number[n + 1]

\* The k bits at p are a code of the table.
IsCode(bits, p, k, t) ==
    Number(bits, p, k) - t.first[k] \in 0 .. t.count[k] - 1

\* The symbol at p, and where the next bits are; -1 if there is none.
Symbol(bits, p, t) ==
    LET k == CHOOSE k \in 1 .. 16 : /\ IsCode(bits, p, k, t)
                                    /\ \A j \in 1 .. k - 1 : ~IsCode(bits, p, j, t)
        i == t.before[k] + Number(bits, p, k) - t.first[k] + 1
    IN  IF (\E j \in 1 .. 16 : IsCode(bits, p, j, t)) /\ i \in DOMAIN t.values
          THEN [value |-> t.values[i], next |-> p + k]
          ELSE [value |-> -1, next |-> 0]

Extend(v, n) == IF n > 0 /\ v < 2 ^ (n - 1) THEN v - 2 ^ n + 1 ELSE v

\* One symbol of the AC coefficients, of which those below k are known: the end
\* of the block, sixteen zeros, or a run of zeros and a coefficient.  A block
\* that is broken has no next.
ReadAC(bits, t, s) ==
    LET code == Symbol(bits, s.next, t)
        size == code.value % 16
        i == s.k + code.value \div 16
    IN  IF s.k > 63 THEN s
        ELSE IF code.value = 0
          THEN [k |-> 64, next |-> code.next, block |-> s.block]
        ELSE IF code.value < 0 \/ i > 63 \/ (size = 0 /\ code.value # 240)
          THEN [k |-> 64, next |-> 0, block |-> s.block]
        ELSE IF size = 0
          THEN [k |-> i + 1, next |-> code.next, block |-> s.block]
        ELSE [k |-> i + 1, next |-> code.next + size,
              block |-> [s.block EXCEPT
                           ![i] = Extend(Number(bits, code.next, size), size)]]

\* A block with its DC coefficient takes 63 symbols at most.
DecodeAC(bits, p, dcValue, t) ==
    LET read[n \in 1 .. 64] ==
            IF n = 1
              THEN [k |-> 1, next |-> p,
                    block |-> [k \in 0 .. 63 |-> IF k = 0 THEN dcValue ELSE 0]]
              ELSE ReadAC(bits, t, read[n - 1])
    IN  read[64]

DecodeBlock(bits, p, prev, dc, ac) ==
    LET code == Symbol(bits, p, dc)
        diff == Extend(Number(bits, code.next, code.value), code.value)
        rest == DecodeAC(bits, code.next + code.value, prev + diff, ac)
    IN  IF code.value < 0 THEN [block |-> <<>>, next |-> 0]
                          ELSE [block |-> rest.block, next |-> rest.next]

\* The DC coefficient before that of the next block: of the same component.
PrevDC(done) == IF Len(done) < 3 THEN 0 ELSE done[Len(done) - 2][0]

\* One block more; nothing once something is broken.
ReadBlock(bits, told, s) ==
    LET c == Len(s.done) % 3
        d == DecodeBlock(bits, s.next, PrevDC(s.done), told.dc[c], told.ac[c])
    IN  IF s.next = 0 \/ d.next = 0
          THEN [next |-> 0, done |-> <<>>]
          ELSE [next |-> d.next, done |-> Append(s.done, d.block)]

\* The first n blocks of the scan.
DecodeScan(bits, n, told) ==
    LET scan[i \in 1 .. n + 1] ==
            IF i = 1 THEN [next |-> 1, done |-> <<>>]
                     ELSE ReadBlock(bits, told, scan[i - 1])
    IN  scan[n + 1].done

\* What the decoder takes from the file: the bits of its bytes, without the
\* stuffed zeros.
DataBits ==
    FlattenSeq([i \in DOMAIN file |->
                  IF i > 1 /\ file[i - 1] = 255 THEN <<>>
                  ELSE BitsOf([length |-> 8, value |-> file[i]])])

MacroBlocks(told) == ((told.width + 7) \div 8) * ((told.height + 7) \div 8)

-----------------------------------------------------------------------------
(* Properties *)

\* The size of the picture fits into the header.
SizeFits == job.width < 65536 /\ job.height < 65536

\* The header is one a decoder can walk through by its lengths, and tells the
\* size of the picture and for every coefficient the quantizer the transform
\* divided it by, in the order of the scan; none is 0.
HeaderReadsBack ==
    pc = "convert" /\ sent = <<>> /\ SizeFits =>
        /\ HeaderComplete
        /\ LET told == Told
               base(c) == IF c = 0 THEN Lum_Quantization_Tab
                                   ELSE Chroma_Quantization_Tab
           IN  /\ told.width = job.width /\ told.height = job.height
               /\ \A c \in 0 .. 2, v \in 0 .. 7, u \in 0 .. 7 :
                    /\ FdcPlace(v, u) = ZigZagScan(v, u)
                    /\ told.quant[c][ZigZagScan(v, u) + 1] \in 1 .. 255
                    /\ told.quant[c][ZigZagScan(v, u) + 1]
                         = QualityTable(base(c), job.Qp)[FdcPlace(v, u)]

\* What was coded can be decoded: from the bytes of the file, which include the
\* tables, and the bits of the unwritten byte a decoder recovers every block of
\* every component.
Decodable ==
    pc = "closed" /\ SizeFits =>
        /\ HeaderComplete
        /\ LET told == Told
           IN  DecodeScan(DataBits \o acc, 3 * MacroBlocks(told), told) = sent
=============================================================================
