----------------------------- MODULE MCWifiHost -----------------------------
(* The host side of the Wi-Fi driver for TLC: the command manager, and the SDIO
   bus with its power management.  A behaviour is one of a single component, as
   "part" says: the bus takes the commands as its own small load, and the command
   manager sees the bus as a mailbox. *)
EXTENDS WifiCmd, WifiBus, TLC

CONSTANTS c1, c2
VARIABLE part

\* Every call by itself, and three mixes: a wait for a buffer behind a deferred
\* command, a message without confirmation beside one, and three deferred ones.
OneOf(S) == CHOOSE x \in S : TRUE
Traffic  == OneOf(rwnx_send_me_traffic_ind)
Filter   == OneOf(rwnx_send_set_filter)
Roc      == OneOf(rwnx_send_roc)
Cancel   == OneOf(rwnx_send_cancel_roc)
Rate     == OneOf(rwnx_send_me_rc_set_rate)

PlanOf(x, y) == (c1 :> x) @@ (c2 :> y)
MCPlans ==
    {PlanOf(<<c>>, <<>>) : c \in AllCalls} \cup
    {PlanOf(<<Roc, Traffic>>, <<Cancel>>),
     PlanOf(<<Roc>>, <<Filter, Rate>>),
     PlanOf(<<Traffic, Filter>>, <<Traffic>>)}

\* Four packets fit the bus; the third outranks the others.
MCPrio == 1 :> 0 @@ 2 :> 0 @@ 3 :> 1 @@ 4 :> 0
LoadOf(pkts, cmds, irqs, sleeps) ==
    [pkts |-> pkts, cmds |-> cmds, irqs |-> irqs, sleeps |-> sleeps]
MCLoads == {LoadOf(3, 1, 0, 1), LoadOf(1, 1, 1, 1), LoadOf(0, 0, 3, 1)}

\* A component that does not move starts in one of its initial states.
HostInit ==
    /\ part \in {"cmd", "bus"}
    /\ CmdInit /\ BusInit
    /\ part = "bus" => plan = PlanOf(<<Traffic>>, <<>>)
    /\ part = "cmd" => load = LoadOf(0, 0, 3, 1)

HostNext ==
    /\ \/ part = "cmd" /\ CmdNext /\ UNCHANGED busVars
       \/ part = "bus" /\ BusNext /\ UNCHANGED cmdVars
    /\ UNCHANGED part

(* The kernel schedules every runnable task, the work item, the threads of the bus
   and an interrupt handler that has begun, and its timeouts expire.  The firmware
   need not answer and the bus need not stop.  Strong fairness on the credit
   register: it is read until the firmware frees buffers. *)
HostFairness ==
    /\ \A t \in Callers : WF_cmdVars(part = "cmd" /\ CallerNext(t))
    /\ \A a \in Actors : WF_cmdVars(part = "cmd" /\ PushNext(a))
    /\ WF_cmdVars(part = "cmd" /\ cmd_mgr_task_process)
    /\ WF_cmdVars(part = "cmd" /\ aicwf_sdio_tx_msg)
    /\ WF_busVars(part = "bus" /\ TxNext)
    /\ SF_busVars(part = "bus" /\ TxNext /\ data'.avail > DATA_FLOW_CTRL_THRESH)
    /\ WF_busVars(part = "bus" /\ PwrNext)
    /\ WF_busVars(part = "bus" /\ RxNext)
    /\ WF_busVars(part = "bus" /\ IrqNext)

HostSpec == HostInit /\ [][HostNext]_<<part, cmdVars, busVars>> /\ HostFairness
=============================================================================
