----------------------------- MODULE YuvTransform -----------------------------
(***************************************************************************)
(* YUV2_to_YUV420: one frame from the camera (YUYV: four bytes for two     *)
(* points) into planes.  Odd lines give their U and even lines their V, so *)
(* that each chroma plane gets every other line.  A byte is modelled by    *)
(* its place in the camera's frame.                                        *)
(***************************************************************************)
EXTENDS Integers

CONSTANTS Width, Height   \* sizes of a frame

ASSUME SizeAssumption == Width \subseteq Nat \ {0} /\ Height \subseteq Nat \ {0}

VARIABLES
    dims,                      \* video_width and video_height
    i, Y_index, U_index, V_index,
    yuv420                     \* place written |-> byte it came from

yuvvars == <<dims, i, Y_index, U_index, V_index, yuv420>>

Points(d) == d.w * d.h
yuv2_length(d) == 2 * Points(d)
U(d) == Points(d)
V(d) == Points(d) + Points(d) \div 4

\* Global_Init: the bytes of Raw_YUV420.
Allocated(d) == (3 * Points(d)) \div 2

YuvInit ==
    /\ dims \in [w : Width, h : Height]
    /\ i = 0 /\ Y_index = 0 /\ U_index = 0 /\ V_index = 0
    /\ yuv420 = [p \in {} |-> 0]

\* Bug: a line is taken for as many bytes as it has points.
H_indexOfPoints(k) == k \div dims.w

H_index(k) == k \div (2 * dims.w)

\* One round of the loop.
Convert ==
    /\ i < yuv2_length(dims)
    /\ LET odd == H_index(i) % 2 = 1
           chroma == IF odd THEN U(dims) + U_index ELSE V(dims) + V_index
           written == {Y_index, Y_index + 1, chroma}
       IN  /\ yuv420' = [p \in DOMAIN yuv420 \cup written |->
                            IF p = chroma THEN i + (IF odd THEN 1 ELSE 3)
                            ELSE IF p = Y_index + 1 THEN i + 2
                            ELSE IF p = Y_index THEN i
                            ELSE yuv420[p]]
           /\ U_index' = IF odd THEN U_index + 1 ELSE U_index
           /\ V_index' = IF odd THEN V_index ELSE V_index + 1
    /\ Y_index' = Y_index + 2
    /\ i' = i + 4
    /\ UNCHANGED dims

YuvSpec == YuvInit /\ [][Convert]_yuvvars

-----------------------------------------------------------------------------
\* What a frame should become: each plane line by line.
Planes(d) ==
    [p \in 0..(Allocated(d) - 1) |->
        LET half == d.w \div 2
            At(line, column, byte) == 2 * d.w * line + 4 * column + byte
        IN  CASE p < U(d) -> 2 * p
              [] p >= U(d) /\ p < V(d) ->
                     At(2 * ((p - U(d)) \div half) + 1, (p - U(d)) % half, 1)
              [] OTHER -> At(2 * ((p - V(d)) \div half), (p - V(d)) % half, 3)]

Even(n) == n % 2 = 0

\* A frame of even width and height is converted into its planes, every place
\* written once with the right byte, and no place twice or outside the buffer on
\* the way.  An odd height makes the V plane one line too long: the frame ends
\* behind the buffer (unless it is two points wide).
ConversionSound ==
    /\ Even(dims.w) /\ Even(dims.h) =>
          /\ \A p \in DOMAIN yuv420 :
                p < Allocated(dims) /\ yuv420[p] = Planes(dims)[p]
          /\ i >= yuv2_length(dims) => DOMAIN yuv420 = DOMAIN Planes(dims)
    /\ Even(dims.w) /\ dims.w > 2 /\ ~Even(dims.h) /\ i >= yuv2_length(dims) =>
          \E p \in DOMAIN yuv420 : p >= Allocated(dims)
=============================================================================
