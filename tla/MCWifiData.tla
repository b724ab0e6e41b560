----------------------------- MODULE MCWifiData -----------------------------
(* The data path of the Wi-Fi driver for TLC: the reordering of received frames,
   and the transmit queues.  A behaviour is one of a single component, as "part"
   says. *)
EXTENDS WifiReorder, WifiTxq

VARIABLE part

MCTids  == <<"vo", "be">>
MCUapsd == {"vo"}
MCHwq   == [q \in {"vo", "be", "mgmt"} |-> IF q = "be" THEN "BE" ELSE "VO"]

\* Three frames of one queue; a delivery-enabled and a legacy queue with a channel
\* switch announcement; management beside data with a channel change and a second
\* station.
MCTxLoads ==
  {[q |-> <<"be", "be", "be">>, cfm |-> {1}, reasons |-> {}, adds |-> 1],
   [q |-> <<"vo", "be">>, cfm |-> {1}, reasons |-> {"CSA"}, adds |-> 1],
   [q |-> <<"be", "mgmt">>, cfm |-> {1}, reasons |-> {"CHAN"}, adds |-> 2]}

\* A component that does not move starts in one of its initial states.
DataInit ==
  /\ part \in {"rx", "tx"}
  /\ ReordInit /\ TxqInit
  /\ part = "tx" => mode = "sta"
  /\ part = "rx" => load.reasons = {}

DataNext ==
  /\ \/ part = "rx" /\ ReordNext /\ UNCHANGED txqVars
     \/ part = "tx" /\ TxqNext /\ UNCHANGED reordVars
  /\ UNCHANGED part

DataSpec == DataInit /\ [][DataNext]_<<part, reordVars, txqVars>>
=============================================================================
