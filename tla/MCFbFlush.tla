----------------------------- MODULE MCFbFlush -----------------------------
(* FbFlush for TLC, with the size of the mi0283qt panel.                   *)
EXTENDS FbFlush

R(x1, y1, x2, y2) == [x1 |-> x1, y1 |-> y1, x2 |-> x2, y2 |-> y2]

(* The whole frame, whole rows, parts of rows with an end at column 256    *)
(* and in the last corner, and rectangles that are too wide, inverted and  *)
(* at the limit of 16 bits.                                                *)
MCRects ==
    { R(0, 0, 320, 240), R(0, 10, 320, 20), R(10, 10, 20, 20),
      R(100, 50, 256, 60), R(319, 239, 320, 240),
      R(0, 0, 321, 240), R(10, 30, 20, 20),
      R(65535, 65535, 65535, 65535) }
=============================================================================
