------------------------------ MODULE Resample ------------------------------
(***************************************************************************)
(* How a cover becomes the picture on the screen: the square in its middle *)
(* (decodeCover() in src/src/adapters/cover_art.cpp), scaled by            *)
(* resampleRgb888() (src/src/ui/image.cpp): along each axis an output      *)
(* pixel covers some source pixels, the outermost ones in part, and takes  *)
(* the rounded mean of what it covers.  One colour channel stands for the  *)
(* three.                                                                  *)
(***************************************************************************)
EXTENDS Integers, FiniteSetsExt

\* The rows and the columns of a picture that a cover keeps.
Side(width, height)    == Min({width, height})
Kept(extent, side)     == (extent - side) \div 2 .. (extent - side) \div 2 + side - 1
Square(width, height)  == [columns |-> Kept(width, Side(width, height)),
                           rows    |-> Kept(height, Side(width, height))]

\* spans(): output pixel o of outSize covers [SpanBegin, SpanEnd) of an axis of `size'
\* source pixels, in units of 1/outSize of a source pixel.
SpanBegin(o, size) == o * size
SpanEnd(o, size)   == SpanBegin(o, size) + size

SpanFirst(o, size, outSize) == SpanBegin(o, size) \div outSize

\* The loop goes by the end alone, not by the size.
SpanPixels(o, size, outSize) ==
    {s \in SpanFirst(o, size, outSize) .. SpanEnd(o, size) : s * outSize < SpanEnd(o, size)}

Weight(o, s, size, outSize) ==
    Min({SpanEnd(o, size), (s + 1) * outSize}) - Max({SpanBegin(o, size), s * outSize})

\* One output pixel, a byte; the source is a function of the pixels' numbers, row after row.
Resampled(source, width, height, outWidth, outHeight, ox, oy) ==
    LET total == width * height
        covered == SpanPixels(ox, width, outWidth) \X SpanPixels(oy, height, outHeight)
        part == [p \in covered |-> Weight(ox, p[1], width, outWidth) * Weight(oy, p[2], height, outHeight)
                                   * source[p[2] * width + p[1]]]
    IN ((SumFunctionOnSet(part, covered) + total \div 2) \div total) % 256

----------------------------------------------------------------------------
(* What is asked of it; of the scaling, for one axis.                      *)

\* The square is inside the picture, as large as it can be, and in its middle: what is cut
\* off on both sides differs by a pixel at most.
CutsTheMiddle(width, height) ==
    \A kept \in {<<Square(width, height).columns, width>>, <<Square(width, height).rows, height>>} :
        LET first == Min(kept[1])
            after == kept[2] - 1 - Max(kept[1])
        IN /\ Cardinality(kept[1]) = Side(width, height)
           /\ first >= 0 /\ after - first \in {0, 1}

\* No source pixel outside the picture is read: the loop has no test of its own.
ReadsInside(size, outSize) ==
    \A o \in 0 .. outSize - 1 : SpanPixels(o, size, outSize) \subseteq 0 .. size - 1

\* No source pixel is left out.
ReadsAll(size, outSize) ==
    \A s \in 0 .. size - 1 : \E o \in 0 .. outSize - 1 : s \in SpanPixels(o, size, outSize)

\* Each part read counts, and none for more than a source pixel.
CountsEach(size, outSize) ==
    \A o \in 0 .. outSize - 1 : \A s \in SpanPixels(o, size, outSize) :
        Weight(o, s, size, outSize) \in 1 .. outSize

\* The output pixels share the source evenly: each takes `size', and of each source
\* pixel all of it is taken.
SharesEvenly(size, outSize) ==
    LET Takers(s) == {o \in 0 .. outSize - 1 : s \in SpanPixels(o, size, outSize)}
        Taken(o)  == SumFunctionOnSet([s \in SpanPixels(o, size, outSize) |-> Weight(o, s, size, outSize)],
                                      SpanPixels(o, size, outSize))
        Given(s)  == SumFunctionOnSet([o \in Takers(s) |-> Weight(o, s, size, outSize)], Takers(s))
    IN /\ \A o \in 0 .. outSize - 1 : Taken(o) = size
       /\ \A s \in 0 .. size - 1 : Given(s) = outSize

\* The picture gets neither darker than its darkest pixel nor brighter than its brightest,
\* so no sum overflows a byte, and one colour stays what it is.
StaysBetween(source, width, height, outWidth, outHeight, low, high) ==
    \A ox \in 0 .. outWidth - 1, oy \in 0 .. outHeight - 1 :
        Resampled(source, width, height, outWidth, outHeight, ox, oy) \in low .. high
=============================================================================
