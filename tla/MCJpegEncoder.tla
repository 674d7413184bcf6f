---------------------------- MODULE MCJpegEncoder ----------------------------
(***************************************************************************)
(* TLC instance of JpegEncoder and of the decoder it is held against.      *)
(***************************************************************************)
EXTENDS JpegDecoder, TLC

Block(dc, ac) ==
    [k \in 0 .. 63 |-> IF k = 0 THEN dc
                       ELSE IF k \in DOMAIN ac THEN ac[k] ELSE 0]

\* Runs of 0, 16, 17 and 62 zeros, coefficients of 1 to 10 bits, DC
\* differences of 0 to 11 bits, a block without AC and one without zeros.
MCBlocks ==
    { Block(0, <<>>),
      Block(1016, (1 :> 1023) @@ (18 :> -1) @@ (36 :> 2)),
      Block(-1024, 63 :> -1023),
      Block(5, [k \in 1 .. 63 |-> IF k % 2 = 0 THEN 1 ELSE -6]) }

\* A picture of two macro blocks, and the ends of the quality range; pictures
\* of two lines of macro blocks for the two other formats, a YUV444 picture of
\* another size than the one built in, and pictures whose sides are no multiples
\* of 8.
MCPlaneSize == 256

MCJobs ==
    [input : {"yuyv"}, Qp : {50}, width : {16}, height : {8}, blocks : {MCBlocks}]
      \cup [input : {"yuyv"}, Qp : {-1, 0, 1, 99, 100}, width : {8}, height : {8},
            blocks : {MCBlocks}]
      \cup [input : {"rgb", "yuyv", "yuv444"}, Qp : {80}, width : {16},
            height : {16}, blocks : {{Block(5, 2 :> 3)}}]
      \cup [input : {"rgb", "yuyv"}, Qp : {80}, width : {12}, height : {12},
            blocks : {{Block(5, 2 :> 3)}}]
      \cup [input : {"yuv444"}, Qp : {80}, width : {8}, height : {8},
            blocks : {{Block(5, 2 :> 3)}}]

=============================================================================
