-------------------------------- MODULE MCComm --------------------------------
(* Three structures of drivers/cpu_comm for TLC: the ring in shared memory, the
   routine table and the queues of user space.  They share no state, so a
   behaviour is one of a single structure, as "part" says.

   Two threads share the first file; the second has a reader of its own.  The
   table has two hashed slots: of MCIds three ids collide in the first and two in
   the second, of MCTwo two in each.  The descriptors of the ids have the word 0 at +92, a
   slot of the table, and that of 6 has a cpu above 1. *)
EXTENDS CommFifo, CommRoutine, CommUserQueue, TLC

CONSTANTS f1, f2, r1, r2, r3

VARIABLE part

MCFiles    == {f1, f2}
MCReaders  == {r1, r2, r3}
MCFile     == r1 :> f1 @@ r2 :> f1 @@ r3 :> f2
MCNonBlock == {f2}

MCIds    == {1, 2, 3, 4, 6}
MCTwo    == {1, 2, 3, 4}
MCCpu    == [i \in Ids |-> CASE i = 2 -> 0 [] i = 6 -> 2 [] OTHER -> 1]
AllOps   == {"remove", "reset", "release", "find"}
Symmetry == Permutations(Clients) \cup Permutations({r1, r2})

\* A structure that is not used starts in one of its initial states.
CommInit == /\ FifoInit /\ RtInit /\ Init
            /\ part \in {"ring", "table", "alone", "user"}
            /\ part # "ring" => InitStaging
            /\ IF part = "alone" THEN Cardinality(Clients \ released) = 1 ELSE released = {}

CommNext ==
    /\ \/ part = "ring" /\ FifoNext /\ UNCHANGED <<rtVars, vars>>
       \/ part \in {"table", "alone"} /\ RtNext /\ UNCHANGED <<fifoVars, vars>>
       \/ part = "user" /\ Next /\ UNCHANGED <<fifoVars, rtVars>>
    /\ UNCHANGED part

CommSpec  == CommInit /\ [][CommNext]_<<part, fifoVars, rtVars, vars>>
TableOnly == CommInit /\ part \in {"table", "alone"} /\ [][CommNext]_<<part, fifoVars, rtVars, vars>>

\* Clients that use the table together add three times, one alone MaxAdds times.
AddsTogether == part = "table" => adds <= 3

\* The type invariants of the three modules.
TypesOK == FifoTypeOK /\ RtTypeOK /\ TypeOK
===============================================================================
