---------------------------- MODULE MCOrderEntry -----------------------------
(* Instances of OrderEntry: short CSV files.                                *)
EXTENDS OrderEntry

CONSTANTS a, b    \* two order words

\* Every file fills its FIFO exactly, as the repository's data do.
EvenSource == [s \in Lanes |-> [i \in 1 .. Depth |-> IF i = 2 THEN b ELSE a]]

\* No file fills its FIFO, and they differ in length.
ShortSource == [s \in Lanes |-> IF s = 1 THEN <<b>> ELSE <<a, b>>]

FullOrShort == {EvenSource, ShortSource}

\* The first file fills its FIFO, the others do not.
Uneven == {[s \in Lanes |-> IF s = 1 THEN EvenSource[1] ELSE <<a>>]}
=============================================================================
