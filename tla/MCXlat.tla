------------------------------ MODULE MCXlat ------------------------------
EXTENDS Xlat

\* An outer and an inner static region, and dynamic ones that begin and
\* end inside and at the bounds of blocks, some with an unaligned offset.
Region(va, size, off, gran, dyn) ==
  [va |-> va, pa |-> va + off, size |-> size, granularity |-> gran, dynamic |-> dyn,
   attr |-> IF dyn THEN "dyn" ELSE IF size = 1 THEN "inner" ELSE "outer"]
MCStatic == {Region(0, 4, 0, 4, FALSE), Region(1, 1, 0, 4, FALSE)}
MCDynamic == {Region(va, size, 0, 4, TRUE) : va \in {0, 1, 3, 4, 5, 6}, size \in {1, 3, 4, 5}}
             \cup {Region(va, 2, 1, 4, TRUE) : va \in {2, 4, 5}}
=============================================================================
