------------------------------- MODULE MCMmu --------------------------------
(* Programs for model checking Mmu.                                          *)
EXTENDS Mmu

R(k, i) == [k |-> k, idx |-> i, wr |-> FALSE, data |-> 0, stray |-> FALSE]
W(k, i, d) == [k |-> k, idx |-> i, wr |-> TRUE, data |-> d, stray |-> FALSE]
Stray(k, i) == [k |-> k, idx |-> i, wr |-> FALSE, data |-> 0, stray |-> TRUE]

\* Engine 2 fills a partition, is rejected and reads from the other bank.
MCProgram ==
  [e \in 0 .. 2 |->
     CASE e = 0 -> <<W(0, 0, 1), R(0, 0)>>
       [] e = 1 -> <<W(0, 0, 2), R(0, 0)>>
       [] e = 2 -> <<W(0, 0, 1), Stray(0, 1), Stray(0, 2), R(1, 0)>>]
=============================================================================
