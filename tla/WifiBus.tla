------------------------------- MODULE WifiBus -------------------------------
(***************************************************************************)
(* The SDIO bus of the AIC8800 Wi-Fi driver (aicwf_sdio.c, aicwf_txrxif.c):*)
(*   - the transmit thread, which sends a pending command and then packs   *)
(*     data packets into aggregates within the firmware's free buffers;    *)
(*   - the power-control thread, which puts the chip to sleep when idle;   *)
(*   - the interrupt handler and the receive thread with their counter.    *)
(* Packet contents, lengths and alignment are abstracted; a packet is a    *)
(* number and Prio gives its queue.                                        *)
(***************************************************************************)
EXTENDS Integers, Sequences, Functions

CONSTANTS
    MaxPkts, Prio,          \* bound on data packets, their priorities (0 or 1)
    Loads,                  \* bounds of a run: [pkts, cmds, irqs, sleeps] records
    TXQ_MAX,                \* qmax of the transmit queue
    RXQ_MAX,                \* qmax of the receive queue
    MaxCredit,              \* bound: free buffers the firmware reports
    tx_aggr_counter,        \* packets of one aggregate
    DATA_FLOW_CTRL_THRESH   \* buffers of the firmware kept in reserve

Pkts == 1..MaxPkts
Prios == {0, 1}

ASSUME BusAssumption ==
    /\ MaxPkts \in Nat /\ MaxCredit \in Nat /\ DATA_FLOW_CTRL_THRESH \in Nat
    /\ \A p \in Pkts : Prio[p] \in Prios
    /\ \A l \in Loads : l.pkts \in 0..MaxPkts /\ l.irqs \in Nat

VARIABLES
    load,   \* data packets, commands, interrupts and timer expiries of this run
    bus,    \* bus_if->state is BUS_UP_ST
    data,   \* [txq, aggr, avail, cnt, sent, refused, next, flush]
    cmdst,  \* [full, sent]: cmd_txstate, commands sent
    tx,     \* [pc, trgg, now, mark]: the transmit thread
    pwr,    \* [state, asleep, timer, trgg, pc, expired, deaf]: power state and its thread
    rx,     \* [q, cnt, trgg, pc, irq, irqs, leak]: receive side
    dozed   \* sent while the chip slept: packets queued before the pass, 0 a command

busVars == <<load, bus, data, cmdst, tx, pwr, rx, dozed>>

\* aicwf_bus_init, aicwf_tx_init, aicwf_rx_init and a probed device
BusInit ==
    /\ load \in Loads
    /\ bus = TRUE
    /\ data = [txq |-> [p \in Prios |-> <<>>], aggr |-> <<>>, avail |-> 0, cnt |-> 0,
               sent |-> <<>>, refused |-> {}, next |-> 1, flush |-> FALSE]
    /\ cmdst = [full |-> FALSE, sent |-> 0]
    /\ tx = [pc |-> "idle", trgg |-> FALSE, now |-> FALSE, mark |-> 1]
    /\ pwr = [state |-> "ACTIVE", asleep |-> FALSE, timer |-> TRUE, trgg |-> FALSE,
              pc |-> "idle", expired |-> 0, deaf |-> FALSE]
    /\ rx = [q |-> <<>>, cnt |-> 0, trgg |-> FALSE, pc |-> "idle", irq |-> "idle",
             irqs |-> 0, leak |-> FALSE]
    /\ dozed = {}

----------------------------------------------------------------------------
(* Frame queues: one list per priority, the highest first *)

Queued(q) == Len(q[0]) + Len(q[1])
aicwf_is_framequeue_empty(q) == Queued(q) = 0
aicwf_frame_enq(q, p) == [q EXCEPT ![Prio[p]] = Append(@, p)]
HiPrio(q) == IF q[1] # <<>> THEN 1 ELSE 0
aicwf_frame_dequeue(q) == [q EXCEPT ![HiPrio(q)] = Tail(@)]

----------------------------------------------------------------------------
(* Producers *)

\* A data packet from the network stack.  A full queue and a stopped bus drop it.
aicwf_sdio_bus_txdata ==
    LET p == data.next IN
    /\ p <= load.pkts
    /\ IF bus /\ Queued(data.txq) < TXQ_MAX
       THEN /\ data' = [data EXCEPT !.next = p + 1, !.cnt = @ + 1,
                                    !.txq = aicwf_frame_enq(@, p)]
            /\ tx' = [tx EXCEPT !.trgg = TRUE]
       ELSE /\ data' = [data EXCEPT !.next = p + 1, !.refused = @ \cup {p}]
            /\ UNCHANGED tx
    /\ UNCHANGED <<load, bus, cmdst, pwr, rx, dozed>>

\* aicwf_sdio_bus_txmsg: the command manager (WifiCmd) fills the mailbox; it waits
\* for the previous command.
BusTxMsg ==
    /\ ~cmdst.full /\ cmdst.sent < load.cmds
    /\ cmdst' = [cmdst EXCEPT !.full = TRUE]
    /\ tx' = [tx EXCEPT !.trgg = @ \/ bus]
    /\ UNCHANGED <<load, bus, data, pwr, rx, dozed>>

----------------------------------------------------------------------------
(* Power: aicwf_sdio_pwr_stctl under pwrctl_wakeup_sema *)

SemaFree == pwr.pc # "sleeping"

\* Target ACTIVE: wake the chip if needed and restart the timer.  The state
\* becomes ACTIVE even when the chip never acknowledges.
aicwf_sdio_wakeup ==
    IF ~bus THEN UNCHANGED pwr
    ELSE /\ SemaFree
         /\ \E nak \in IF pwr.state = "SLEEP" THEN BOOLEAN ELSE {pwr.asleep} :
              pwr' = [pwr EXCEPT !.state = "ACTIVE", !.asleep = nak, !.deaf = @ \/ nak,
                                 !.timer = TRUE]

\* aicwf_sdio_bus_pwrctl: the timer fires and triggers the thread.
aicwf_sdio_bus_pwrctl ==
    /\ pwr.timer /\ pwr.expired < load.sleeps
    /\ pwr' = [pwr EXCEPT !.timer = FALSE, !.expired = @ + 1, !.trgg = @ \/ bus]
    /\ UNCHANGED <<load, bus, data, cmdst, tx, rx, dozed>>

HostIdle == data.cnt <= 0 /\ ~cmdst.full /\ rx.cnt = 0
ReArmed == [pwr EXCEPT !.timer = bus, !.pc = "idle"]

\* The thread looks at the counters once before it asks for sleep ...
aicwf_sdio_pwrctl_thread ==
    /\ pwr.pc = "idle" /\ pwr.trgg
    /\ pwr' = CASE ~bus -> [pwr EXCEPT !.trgg = FALSE]
                [] bus /\ HostIdle -> [pwr EXCEPT !.trgg = FALSE, !.pc = "allow"]
                [] OTHER -> [ReArmed EXCEPT !.trgg = FALSE]
    /\ UNCHANGED <<load, bus, data, cmdst, tx, rx, dozed>>

\* Mutant: no second look at the counters.
BugSleepUnchecked ==
    /\ pwr.pc = "allow"
    /\ \/ pwr.state = "SLEEP" /\ pwr' = [pwr EXCEPT !.pc = "idle"]
       \/ pwr.state = "ACTIVE" /\ bus /\ pwr' = [pwr EXCEPT !.pc = "sleeping", !.asleep = TRUE]
       \/ pwr.state = "ACTIVE" /\ pwr' = ReArmed
    /\ UNCHANGED <<load, bus, data, cmdst, tx, rx, dozed>>

\* ... and aicwf_sdio_sleep_allow looks again with the semaphore held, then tells
\* the chip to sleep.  A scan or a P2P link forbids it.
SleepAllow ==
    /\ pwr.pc = "allow"
    /\ \/ pwr.state = "SLEEP" /\ pwr' = [pwr EXCEPT !.pc = "idle"]
       \/ pwr.state = "ACTIVE" /\ HostIdle /\ bus
          /\ pwr' = [pwr EXCEPT !.pc = "sleeping", !.asleep = TRUE]
       \/ pwr.state = "ACTIVE" /\ pwr' = ReArmed
    /\ UNCHANGED <<load, bus, data, cmdst, tx, rx, dozed>>

aicwf_sdio_sleep_allow ==
    /\ pwr.pc = "sleeping"
    /\ pwr' = [pwr EXCEPT !.state = "SLEEP", !.timer = FALSE, !.pc = "idle"]
    /\ UNCHANGED <<load, bus, data, cmdst, tx, rx, dozed>>

----------------------------------------------------------------------------
(* The transmit thread: sdio_bustx_thread and aicwf_sdio_tx_process *)

TxGoto(pc) == tx' = [tx EXCEPT !.pc = pc]

\* Mutant: one packet alone is not worth a pass.
BugWaitsForTwo ==
    /\ tx.pc = "idle" /\ tx.trgg
    /\ tx' = [tx EXCEPT !.trgg = FALSE, !.mark = data.next,
                        !.pc = CASE ~bus -> "exit"
                                 [] bus /\ (data.cnt > 1 \/ cmdst.full) -> "power"
                                 [] OTHER -> "idle"]
    /\ UNCHANGED <<load, bus, data, cmdst, pwr, rx, dozed>>

\* Woken, and there is something to send.  mark: the packets before it are queued.
sdio_bustx_thread ==
    /\ tx.pc = "idle" /\ tx.trgg
    /\ tx' = [tx EXCEPT !.trgg = FALSE, !.mark = data.next,
                        !.pc = CASE ~bus -> "exit"
                                 [] bus /\ (data.cnt > 0 \/ cmdst.full) -> "power"
                                 [] OTHER -> "idle"]
    /\ UNCHANGED <<load, bus, data, cmdst, pwr, rx, dozed>>

TxPower ==
    /\ tx.pc = "power"
    /\ IF bus THEN aicwf_sdio_wakeup /\ TxGoto("cmd") ELSE UNCHANGED pwr /\ TxGoto("idle")
    /\ UNCHANGED <<load, bus, data, cmdst, rx, dozed>>

\* aicwf_sdio_tx_msg; with the state not ACTIVE the command stays pending.
TxCmd ==
    /\ tx.pc = "cmd"
    /\ IF cmdst.full /\ pwr.state = "ACTIVE"
       THEN /\ cmdst' = [full |-> FALSE, sent |-> cmdst.sent + 1]
            /\ dozed' = IF pwr.asleep THEN dozed \cup {0} ELSE dozed
       ELSE UNCHANGED <<cmdst, dozed>>
    /\ TxGoto(IF cmdst.full /\ pwr.state # "ACTIVE" THEN "idle" ELSE "data")
    /\ UNCHANGED <<load, bus, data, pwr, rx>>

\* aicwf_sdio_flow_ctrl: the register, once it is above the threshold; otherwise
\* (retries used up, read error) a value not above zero, written 0 here.
aicwf_sdio_flow_ctrl == {0} \cup (DATA_FLOW_CTRL_THRESH + 1)..MaxCredit

TxData ==
    /\ tx.pc = "data"
    /\ IF pwr.state = "ACTIVE" /\ ~aicwf_is_framequeue_empty(data.txq)
       THEN \E v \in aicwf_sdio_flow_ctrl : data' = [data EXCEPT !.avail = v]
       ELSE UNCHANGED data
    /\ TxGoto(IF pwr.state = "ACTIVE" THEN "loop" ELSE "idle")
    /\ UNCHANGED <<load, bus, cmdst, pwr, rx, dozed>>

Room == data.avail - DATA_FLOW_CTRL_THRESH

\* aicwf_sdio_aggr_send: the aggregate goes out and is reset.
aicwf_sdio_aggr_send(d) ==
    [d EXCEPT !.sent = @ \o d.aggr, !.avail = @ - Len(d.aggr), !.aggr = <<>>]
Dozing(d) ==
    dozed' = IF pwr.asleep THEN dozed \cup {p \in Range(d.aggr) : p < tx.mark} ELSE dozed

\* Mutant: only the size of the aggregate counts, not the buffers left.
BugIgnoresRoom(d) == Len(d.aggr) >= tx_aggr_counter

\* The aggregate has no room left before the next packet is taken.
AggrFull(d) == Len(d.aggr) = Room \/ Len(d.aggr) >= tx_aggr_counter

(***************************************************************************)
(* One round of the data loop up to the packing of a packet: stop, ask for *)
(* buffers, send a full aggregate, or dequeue and pack (aicwf_sdio_send,   *)
(* aicwf_sdio_aggr).  A command that came meanwhile ends the loop after    *)
(* this packet (now).                                                      *)
(***************************************************************************)
TxLoop ==
    /\ tx.pc = "loop"
    /\ \/ /\ aicwf_is_framequeue_empty(data.txq) \/ ~bus \/ (Room <= 0 /\ cmdst.full)
          /\ TxGoto("idle") /\ UNCHANGED <<data, dozed>>
       \/ /\ ~aicwf_is_framequeue_empty(data.txq) /\ bus
          /\ \/ /\ Room <= 0 /\ ~cmdst.full
                /\ \E v \in aicwf_sdio_flow_ctrl : data' = [data EXCEPT !.avail = v]
                /\ UNCHANGED <<tx, dozed>>
             \/ /\ Room > 0 /\ AggrFull(data)
                /\ data' = aicwf_sdio_aggr_send(data) /\ Dozing(data)
                /\ TxGoto(IF cmdst.full THEN "idle" ELSE "loop")
             \/ /\ Room > 0 /\ ~AggrFull(data)
                /\ data' = [data EXCEPT !.aggr = Append(@, Head(data.txq[HiPrio(data.txq)])),
                                        !.txq = aicwf_frame_dequeue(@)]
                /\ tx' = [tx EXCEPT !.pc = "packed", !.now = cmdst.full]
                /\ UNCHANGED dozed
    /\ UNCHANGED <<load, bus, cmdst, pwr, rx>>

\* Mutant: a waiting command ends the pass before the aggregate is sent.
BugAggrKept ==
    LET out == data.cnt = 1 \/ AggrFull(data) IN
    /\ tx.pc = "packed"
    /\ data' = [(IF out THEN aicwf_sdio_aggr_send(data) ELSE data) EXCEPT !.cnt = @ - 1]
    /\ IF out THEN Dozing(data) ELSE UNCHANGED dozed
    /\ TxGoto(IF tx.now THEN "idle" ELSE "loop")
    /\ UNCHANGED <<load, bus, cmdst, pwr, rx>>

\* The rest of aicwf_sdio_send: the aggregate goes out with the last packet
\* counted, for a command, or when it is full; then the packet is counted off.
aicwf_sdio_send ==
    LET out == data.cnt = 1 \/ tx.now \/ AggrFull(data) IN
    /\ tx.pc = "packed"
    /\ data' = [(IF out THEN aicwf_sdio_aggr_send(data) ELSE data) EXCEPT !.cnt = @ - 1]
    /\ IF out THEN Dozing(data) ELSE UNCHANGED dozed
    /\ TxGoto(IF tx.now THEN "idle" ELSE "loop")
    /\ UNCHANGED <<load, bus, cmdst, pwr, rx>>

----------------------------------------------------------------------------
(* Receive: aicwf_sdio_hal_irqhandler and sdio_busrx_thread *)

\* An interrupt; with a packet read it is enqueued (dropped when the queue is full).
aicwf_sdio_hal_irqhandler ==
    /\ rx.irq = "idle" /\ rx.irqs < load.irqs /\ bus
    /\ \/ rx' = [rx EXCEPT !.irqs = @ + 1, !.irq = "check"]
       \/ rx' = [rx EXCEPT !.irqs = @ + 1, !.irq = "count", !.q = Append(@, rx.irqs)]
          /\ Len(rx.q) < RXQ_MAX
    /\ UNCHANGED <<load, bus, data, cmdst, tx, pwr, dozed>>

\* atomic_inc(rx_cnt), outside the queue's lock.
aicwf_sdio_enq_rxpkt ==
    /\ rx.irq = "count"
    /\ rx' = [rx EXCEPT !.irq = "check", !.cnt = @ + 1]
    /\ UNCHANGED <<load, bus, data, cmdst, tx, pwr, dozed>>

\* The thread is woken for the first packet only.
IrqWake ==
    /\ rx.irq = "check"
    /\ rx' = [rx EXCEPT !.irq = "idle", !.trgg = @ \/ rx.cnt = 1]
    /\ UNCHANGED <<load, bus, data, cmdst, tx, pwr, dozed>>

sdio_busrx_thread ==
    /\ rx.pc = "idle" /\ rx.trgg
    /\ rx' = [rx EXCEPT !.trgg = FALSE, !.pc = IF bus THEN "loop" ELSE "exit"]
    /\ UNCHANGED <<load, bus, data, cmdst, tx, pwr, dozed>>

\* aicwf_process_rxframes: dequeue until empty, then keep the chip awake.  No
\* memory for a message ends it without counting the packet off.
aicwf_process_rxframes ==
    /\ \/ /\ rx.pc = "loop" /\ rx.q # <<>>
          /\ rx' = [rx EXCEPT !.q = Tail(@), !.pc = "busy"] /\ UNCHANGED pwr
       \/ /\ rx.pc = "loop" /\ rx.q = <<>>
          /\ aicwf_sdio_wakeup
          /\ rx' = [rx EXCEPT !.pc = "idle"]
       \/ /\ rx.pc = "busy"
          /\ \/ rx' = [rx EXCEPT !.pc = "loop", !.cnt = @ - 1]
             \/ rx' = [rx EXCEPT !.pc = "idle", !.leak = TRUE]
          /\ UNCHANGED pwr
    /\ UNCHANGED <<load, bus, data, cmdst, tx, dozed>>

----------------------------------------------------------------------------
\* aicwf_sdio_bus_stop: the bus goes down, later (txctl_sema free) the queue is
\* flushed; aicwf_bus_deinit triggers the threads so that they end.
BusStop ==
    \/ /\ bus
       /\ bus' = FALSE
       /\ pwr' = [pwr EXCEPT !.timer = FALSE]
       /\ UNCHANGED <<load, data, cmdst, tx, rx, dozed>>
    \/ /\ ~bus /\ ~data.flush /\ tx.pc \in {"idle", "power", "exit"}
       /\ data' = [data EXCEPT !.txq = [p \in Prios |-> <<>>], !.flush = TRUE]
       /\ tx' = [tx EXCEPT !.trgg = TRUE] /\ rx' = [rx EXCEPT !.trgg = TRUE]
       /\ UNCHANGED <<load, bus, cmdst, pwr, dozed>>

TxNext == sdio_bustx_thread \/ TxPower \/ TxCmd \/ TxData \/ TxLoop \/ aicwf_sdio_send
PwrNext == aicwf_sdio_pwrctl_thread \/ SleepAllow \/ aicwf_sdio_sleep_allow
RxNext == sdio_busrx_thread \/ aicwf_process_rxframes
IrqNext == aicwf_sdio_enq_rxpkt \/ IrqWake

BusNext ==
    \/ aicwf_sdio_bus_txdata \/ BusTxMsg
    \/ aicwf_sdio_bus_pwrctl \/ PwrNext
    \/ TxNext
    \/ aicwf_sdio_hal_irqhandler \/ IrqNext \/ RxNext
    \/ BusStop

BusSpec == BusInit /\ [][BusNext]_busVars

----------------------------------------------------------------------------
BusTypeOK ==
    /\ bus \in BOOLEAN
    /\ \A p \in Prios : data.txq[p] \in Seq(Pkts)
    /\ data.avail \in 0..MaxCredit /\ data.cnt \in 0..MaxPkts
    /\ tx.pc \in {"idle", "power", "cmd", "data", "loop", "packed", "exit"}
    /\ pwr.state \in {"ACTIVE", "SLEEP"} /\ pwr.pc \in {"idle", "allow", "sleeping"}
    /\ rx.cnt \in -1..load.irqs

\* No aggregate takes the buffers the firmware keeps in reserve, although the
\* loop tests for equality only and the credit is read again between rounds; and
\* the packets of one priority go out in the order they came.
CreditsKept ==
    /\ BusTypeOK
    /\ data.aggr # <<>> => Len(data.aggr) <= Room
    /\ data.avail = 0 \/ data.avail >= DATA_FLOW_CTRL_THRESH
    /\ \A i, j \in 1..Len(data.sent) :
         i < j /\ Prio[data.sent[i]] = Prio[data.sent[j]] => data.sent[i] < data.sent[j]

\* Nothing is left behind when a thread goes to sleep on a running bus: after the
\* transmit thread the aggregate is empty and tx_pktcnt is what is queued, and the
\* receive thread leaves no packet in its queue, although it is woken only when
\* rx_cnt is exactly one and rx_cnt is counted outside the queue's lock (unless a
\* failed allocation has left that counter one too high).
NothingStranded ==
    bus => /\ tx.pc = "idle" => data.aggr = <<>> /\ data.cnt = Queued(data.txq)
           /\ rx.q # <<>> /\ rx.irq = "idle" /\ rx.pc = "idle" /\ ~rx.leak => rx.trgg

\* A command is never sent to a sleeping chip, nor a packet that was queued when
\* the thread woke the chip: the two looks at the counters and the semaphore
\* close the race.  (Data that came during the pass can meet a sleeping chip, and
\* so can everything once a wake-up has gone unacknowledged.)
SentAwake == dozed # {} => pwr.deaf

\* Every packet accepted is sent, or the bus goes down.
DataSent ==
    \A p \in Pkts :
        (data.next > p /\ p \notin data.refused) ~> (p \in Range(data.sent) \/ ~bus)

----------------------------------------------------------------------------
(* The inductive invariant behind CreditsKept, NothingStranded and SentAwake *)

DataType == [txq : [Prios -> Seq(Pkts)], aggr : Seq(Pkts), avail : 0..MaxCredit,
             cnt : Nat, sent : Seq(Pkts), refused : SUBSET Pkts,
             next : 1..(MaxPkts + 1), flush : BOOLEAN]
TxType == [pc : {"idle", "power", "cmd", "data", "loop", "packed", "exit"},
           trgg : BOOLEAN, now : BOOLEAN, mark : Nat]
PwrType == [state : {"ACTIVE", "SLEEP"}, asleep : BOOLEAN, timer : BOOLEAN, trgg : BOOLEAN,
            pc : {"idle", "allow", "sleeping"}, expired : Nat, deaf : BOOLEAN]
RxType == [q : Seq(Nat), cnt : Int, trgg : BOOLEAN, pc : {"idle", "loop", "busy", "exit"},
           irq : {"idle", "count", "check"}, irqs : Nat, leak : BOOLEAN]

BusTypes ==
    /\ load \in Loads /\ bus \in BOOLEAN
    /\ data \in DataType /\ tx \in TxType /\ pwr \in PwrType /\ rx \in RxType
    /\ cmdst \in [full : BOOLEAN, sent : Nat]
    /\ dozed \subseteq Nat

One(b) == IF b THEN 1 ELSE 0

\* tx_pktcnt is what is queued and the packet just packed; an aggregate lives
\* inside one pass and within the credit.
TxBooks(up, pc, cnt, queued, len, avail) ==
    /\ cnt >= queued + One(pc = "packed")
    /\ up => cnt = queued + One(pc = "packed")
    /\ pc \in {"power", "cmd", "data"} \/ (up /\ pc = "idle") => len = 0
    /\ up /\ pc = "loop" /\ len > 0 => cnt > 0
    /\ len > 0 => len <= avail - DATA_FLOW_CTRL_THRESH
    /\ avail = 0 \/ avail >= DATA_FLOW_CTRL_THRESH

Counted ==
    /\ TxBooks(bus, tx.pc, data.cnt, Queued(data.txq), Len(data.aggr), data.avail)
    /\ data.cnt < data.next /\ data.next <= load.pkts + 1

\* The packets in the order they leave and those queued, all before number n.
Ordered(out, q, n) ==
    /\ \A i, j \in 1..Len(out) : i < j /\ Prio[out[i]] = Prio[out[j]] => out[i] < out[j]
    /\ \A i \in 1..Len(out) : out[i] < n
    /\ \A k \in Prios : \A j \in 1..Len(q[k]) :
         /\ Prio[q[k][j]] = k /\ q[k][j] < n
         /\ \A i \in 1..Len(out) : Prio[out[i]] = k => out[i] < q[k][j]
         /\ \A i \in 1..Len(q[k]) : i < j => q[k][i] < q[k][j]

InOrder == Ordered(data.sent \o data.aggr, data.txq, data.next)

\* rx_cnt, but for a leak, and the one packet nobody has woken the thread for yet.
RxBooks(up, pc, irq, trgg, leak, cnt, len, irqs) ==
    /\ cnt >= len + One(pc = "busy") - One(irq = "count")
    /\ ~leak => cnt = len + One(pc = "busy") - One(irq = "count")
    /\ cnt + One(irq = "count") <= irqs
    /\ up /\ ~leak /\ pc = "idle" /\ len > 0 /\ ~trgg => irq # "idle" /\ len = 1

Received ==
    /\ RxBooks(bus, rx.pc, rx.irq, rx.trgg, rx.leak, rx.cnt, Len(rx.q), rx.irqs)
    /\ rx.irqs <= load.irqs

\* No packet before number n.
NoneBefore(n, q, aggr) ==
    /\ \A i \in 1..Len(aggr) : aggr[i] >= n
    /\ \A k \in Prios : \A i \in 1..Len(q[k]) : q[k][i] >= n

\* A pass starts with work and an awake chip; while the chip sleeps the pass has
\* only packets that came after its start.
Awake ==
    /\ tx.pc \in {"power", "cmd"} => data.cnt > 0 \/ cmdst.full
    /\ tx.mark <= data.next
    /\ pwr.asleep /\ ~pwr.deaf =>
         /\ tx.pc # "cmd"
         /\ tx.pc \in {"data", "loop", "packed"} => NoneBefore(tx.mark, data.txq, data.aggr)
    /\ dozed # {} => pwr.deaf

BusIInv == BusTypes /\ Counted /\ InOrder /\ Received /\ Awake
=============================================================================
