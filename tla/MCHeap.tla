-------------------------------- MODULE MCHeap --------------------------------
EXTENDS Heap

\* Three bytes of frames: some with holes, too few, a whole byte, two whole bytes.
KernelBitmaps == {(3 .. 9) \cup {12, 13, 18}, {5, 6, 7, 8, 9}, 7 .. 16, 8 .. 23}

\* Around the block sizes and the chunk's size, alignments above the size, and
\* requests for no chunk, for five and for nine, which are rounded up.
MCLayouts ==
  {[size |-> 16, align |-> 256], [size |-> 256, align |-> 8],
   [size |-> 0, align |-> 512], [size |-> 257, align |-> 1],
   [size |-> 2049, align |-> 16], [size |-> 4097, align |-> 1]}
==============================================================================
