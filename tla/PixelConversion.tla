---------------------------- MODULE PixelConversion ----------------------------
(***************************************************************************)
(* Which bytes of videoFrame the viewer makes each pixel of its image      *)
(* from.  The arithmetic on the values is left out: a pixel is a place and *)
(* the bytes its blue, green and red depend on.  One element of a set      *)
(* below is one pixel stored by the loops of a process_image function.     *)
(***************************************************************************)
EXTENDS Integers

CONSTANTS Width, Height     \* of the frame

ASSUME SizeAssumption ==
    /\ Width \in Nat \ {0} /\ Width % 2 = 0
    /\ Height \in Nat \ {0} /\ Height % 2 = 0

Formats == {"yuv420", "rgb565", "rgb32", "yuyv"}
Depths == {"16", "24"}

\* What each process_image function reads from its standard input.
FrameBytes(f) == CASE f = "yuv420" -> (Width * Height * 12) \div 8
                   [] f \in {"rgb565", "yuyv"} -> Width * Height * 2
                   [] f = "rgb32" -> Width * Height * 4

\* yuv_to_rgb_16 and yuv_to_rgb_24: blue takes v, red takes u, green both.
yuv_to_rgb(px, py, Y, U, V) ==
    [x |-> px, y |-> py, B |-> {Y, V}, G |-> {Y, U, V}, R |-> {Y, U}]

\* Seeded variant: the chroma planes as wide as the picture.
FromYuv420FullStride ==
    {yuv_to_rgb(2 * xx + dx, 2 * yy + dy, Width * (2 * yy + dy) + 2 * xx + dx,
                Width * Height + (Height * Width) \div 4 + Width * yy + xx,
                Width * Height + Width * yy + xx) :
        xx \in 0 .. Width \div 2 - 1, yy \in 0 .. Height \div 2 - 1,
        dx \in 0 .. 1, dy \in 0 .. 1}

\* Four pixels in every loop, the same for both depths.
FromYuv420 ==
    {yuv_to_rgb(2 * xx + dx, 2 * yy + dy, Width * (2 * yy + dy) + 2 * xx + dx,
                Width * Height + (Height * Width) \div 4
                    + (Width \div 2) * yy + xx,
                Width * Height + (Width \div 2) * yy + xx) :
        xx \in 0 .. Width \div 2 - 1, yy \in 0 .. Height \div 2 - 1,
        dx \in 0 .. 1, dy \in 0 .. 1}

\* Two pixels in every loop; the second luminance is read at 2 * (x + 2).
FromYuyv24 ==
    {LET x == 2 * xx  IN
     yuv_to_rgb(x + d, y, Width * 2 * y + 2 * (x + 2 * d),
                Width * 2 * y + 2 * x + 3, Width * 2 * y + 2 * x + 1) :
        xx \in 0 .. Width \div 2 - 1, y \in 0 .. Height - 1, d \in 0 .. 1}

\* No loop sets x and y.  Whatever they hold, every loop stores the same two
\* pixels, or, where they name none, does not touch the picture.
FromYuyv16(x, y) ==
    {yuv_to_rgb(x + d, y, Width * 2 * y + x + 2 * d,
                Width * 2 * y + x + 3, Width * 2 * y + x + 1) : d \in 0 .. 1}

FromRgb565 ==
    {LET at == Width * 2 * y + 2 * x  IN
     [x |-> x, y |-> y, B |-> {at}, G |-> {at, at + 1}, R |-> {at + 1}] :
        x \in 0 .. Width - 1, y \in 0 .. Height - 1}

FromRgb32 ==
    {LET at == Width * 4 * y + 4 * x  IN
     [x |-> x, y |-> y, B |-> {at + 3}, G |-> {at + 2}, R |-> {at + 1}] :
        x \in 0 .. Width - 1, y \in 0 .. Height - 1}

\* What a conversion may store; more than one result if it is undefined.
Conversion == [f \in Formats |-> [d \in Depths |->
    CASE f = "yuv420" -> {FromYuv420}
      [] f = "rgb565" -> {FromRgb565}
      [] f = "rgb32" -> {FromRgb32}
      [] f = "yuyv" /\ d = "24" -> {FromYuyv24}
      [] f = "yuyv" /\ d = "16" ->
           {{}} \cup {FromYuyv16(x, y) : x \in 0 .. Width - 2,
                                         y \in 0 .. Height - 1}]]

-----------------------------------------------------------------------------
(* Reference: where V4L2 puts a pixel of each format. *)

Colour(px, py, Y, Cb, Cr) ==
    [x |-> px, y |-> py, B |-> {Y, Cb}, G |-> {Y, Cb, Cr}, R |-> {Y, Cr}]

Pixel(f, x, y) ==
    LET n == Width * y + x
        quarter == (y \div 2) * (Width \div 2) + x \div 2
        area == Width * Height
    IN  CASE f = "yuv420" ->
               Colour(x, y, n, area + quarter, area + area \div 4 + quarter)
          [] f = "yuyv" ->
               Colour(x, y, 2 * n, 4 * (n \div 2) + 1, 4 * (n \div 2) + 3)
          [] f = "rgb565" -> [x |-> x, y |-> y, B |-> {2 * n},
                              G |-> {2 * n, 2 * n + 1}, R |-> {2 * n + 1}]
          [] f = "rgb32" -> [x |-> x, y |-> y, B |-> {4 * n + 3},
                             G |-> {4 * n + 2}, R |-> {4 * n + 1}]

Picture == [f \in Formats |->
    {Pixel(f, x, y) : x \in 0 .. Width - 1, y \in 0 .. Height - 1}]
=============================================================================
