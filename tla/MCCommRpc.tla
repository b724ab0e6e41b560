------------------------------ MODULE MCCommRpc ------------------------------
(* Two calling threads and one or two entries in each pool: four calls without
   timeouts, three whose RETURN may be late, two with every timeout running out at any
   moment, and two that go on together after a bypass of the send semaphore. *)
EXTENDS CommRpc

MCLate    == {[may |-> {"sem", "ack", "ret"}, calls |-> 2]}
MCLateAck == {[may |-> {"ack"}, calls |-> 2]}
MCBypass  == [may |-> {"sem"}, calls |-> 2]
MCCases   == MCLate \cup {[may |-> {}, calls |-> 4], [may |-> {"sem", "ret"}, calls |-> 3],
                          MCBypass}

\* Nothing is claimed once a caller has gone past the send semaphore, so TLC follows it
\* no further than two calls go.
UntilBypass == NoBypass \/ case = MCBypass
==============================================================================
