-------------------------- MODULE MCFrameAllocator --------------------------
(***************************************************************************)
(* Instances of FrameAllocator for TLC.                                    *)
(***************************************************************************)
EXTENDS FrameAllocator

\* Three bytes: one and two frames, a whole byte, and two bytes (which do not
\* divide three) are requested; 25 exceeds the largest order.
FragmentedBitmaps ==
  { {},
    Frames,
    0 .. 7,
    {7, 8, 9, 22, 23},
    {1, 2, 3} \cup (8 .. 15) \cup {17, 18},
    (2 .. 16) \cup {20, 23} }

\* Two bytes with holes at every position of a group of four.
QuadBitmaps ==
  { Frames, Frames \ {3}, Frames \ {0}, {0, 1, 2, 4, 5, 6}, 4 .. 12 }
==============================================================================
