---------------------------- MODULE MCCommIncoming ----------------------------
(* One file: three calls that nobody reads, and two with a thread in blocking read()
   while allocations fail. *)
EXTENDS CommIncoming

CONSTANT f1

MCFiles == {f1}
MCFile  == [r \in Readers |-> f1]
MCCases == {[NoMem |-> FALSE, reads |-> FALSE, calls |-> 3],
            [NoMem |-> TRUE, reads |-> TRUE, calls |-> 2]}
===============================================================================
