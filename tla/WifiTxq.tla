------------------------------- MODULE WifiTxq -------------------------------
(* The software transmit queues of the Wi-Fi driver (rwnx_txq.c, rwnx_tx.c): the
   nine queues of one station of an access point, the hardware-queue lists they
   are scheduled on, the reasons that stop them, power-save service periods and
   the confirmations of the firmware.

   Everything under tx_lock is the record "tx"; its locked sections are single
   steps.  The confirmation handler of the receive thread takes no lock
   (aicwf_sdio_host_tx_cfm_handler), so it is cut at every access to tx. *)
EXTENDS Integers, FiniteSets, SequencesExt

CONSTANTS
  Tids,                       \* data queues in the order of nx_tid_prio
  MGMT,                       \* the queue of management frames (TID 8)
  Uapsd,                      \* the queues delivered under U-APSD
  Hwq,                        \* rwnx_tid2hwq: queue -> hardware queue
  Loads,                      \* what the environment does, one of these: the queues of the
                              \* frames it sends, those the firmware confirms (EAPOL, WAPI,
                              \* some mgmt), the reasons it stops the interface for, how
                              \* often the station is added [q, cfm, reasons, adds]
  MaxRetries,                 \* how often the firmware asks for a retry
  NX_TXQ_INITIAL_CREDITS, CreditMax,    \* credits is an s8: 64 and 127
  RWNX_NDEV_FLOW_CTRL_STOP, RWNX_NDEV_FLOW_CTRL_RESTART,
  HwqSize,                    \* nx_txdesc_cnt
  CntMod                      \* pkt_ready and sp_cnt are u16: 2^16

VARIABLES
  tx,      \* txq table, hardware-queue lists, ps of the station (tx_lock)
  task,    \* is the tasklet rwnx_task scheduled?
  vif,     \* stop reasons of the interface (the status of its BCMC queue)
  sta,     \* "valid", "deinit" (being deleted) or "none"
  xmit,    \* the sending thread: the frame and queue it holds between check and lock
  cfm,     \* the receive thread inside rwnx_txdatacfm
  load,    \* the chosen member of Loads
  fed,     \* frames handed over and stations added so far
  ghost    \* history: see TxqInit

txqVars == <<tx, task, vif, sta, xmit, cfm, load, fed, ghost>>

Txq == ToSet(Tids) \cup {MGMT}
foreach_sta_txq == Append(Reverse(Tids), MGMT)
PsIds == {"LEGACY", "UAPSD"}
ps_id(q) == IF q \in Uapsd THEN "UAPSD" ELSE "LEGACY"
StopReasons == {"FULL", "CSA", "STA_PS", "VIF_PS", "CHAN"}
MaxFrames == Max({Len(l.q) : l \in Loads})
Frames == 1 .. MaxFrames
NoFrame == 0

rwnx_txq_init(status) ==
  [active |-> TRUE, status |-> status, listed |-> FALSE, flow |-> FALSE,
   sk_list |-> <<>>, last_retry_skb |-> NoFrame, nb_retry |-> 0, push_limit |-> 0,
   credits |-> NX_TXQ_INITIAL_CREDITS, pkt_sent |-> 0]

rwnx_hwq_init == [h \in {Hwq[q] : q \in Txq} |-> [list |-> <<>>, need_processing |-> FALSE]]

-----------------------------------------------------------------------------
(* Lists and stop reasons. *)

rwnx_txq_add_to_hw_list(t, q) ==
  IF t.q[q].listed THEN t
  ELSE [t EXCEPT !.q[q].listed = TRUE,
                 !.hw[Hwq[q]] = [list |-> Append(@.list, q), need_processing |-> TRUE]]

rwnx_txq_del_from_hw_list(t, q) ==
  IF ~t.q[q].listed THEN t
  ELSE [t EXCEPT !.q[q].listed = FALSE, !.hw[Hwq[q]].list = Remove(@, q)]

rwnx_txq_is_stopped(x) == x.status # {}
rwnx_txq_skb_ready(x) == x.sk_list # <<>>

rwnx_txq_start(t, q, reason) ==
  LET u == [t EXCEPT !.q[q].status = @ \ {reason}]
  IN IF ~t.q[q].active \/ reason \notin t.q[q].status THEN t
     ELSE IF ~rwnx_txq_is_stopped(u.q[q]) /\ rwnx_txq_skb_ready(u.q[q])
          THEN rwnx_txq_add_to_hw_list(u, q) ELSE u

\* Mutant: a stopped queue stays on its list.
BugStopListed(t, q, reason) ==
  IF ~t.q[q].active THEN t ELSE [t EXCEPT !.q[q].status = @ \cup {reason}]

rwnx_txq_stop(t, q, reason) ==
  IF ~t.q[q].active THEN t
  ELSE rwnx_txq_del_from_hw_list([t EXCEPT !.q[q].status = @ \cup {reason}], q)

rwnx_txq_sta_start(t, reason) ==
  FoldLeft(LAMBDA u, q : rwnx_txq_start(u, q, reason), t, foreach_sta_txq)

rwnx_txq_sta_stop(t, reason) ==
  FoldLeft(LAMBDA u, q : rwnx_txq_stop(u, q, reason), t, foreach_sta_txq)

-----------------------------------------------------------------------------
(* Queueing a frame, and pushing one to the firmware. *)

\* A frame to retry goes behind the last one queued for retry, or to the head.
\* (last_retry_skb outlives a flush: appending behind a freed buffer is taken as the head.)
RetryPos(x) ==
  IF x.last_retry_skb \notin ToSet(x.sk_list) THEN 1
  ELSE 1 + CHOOSE i \in DOMAIN x.sk_list : x.sk_list[i] = x.last_retry_skb

\* set_traffic_status(true) when the first frame is buffered for a sleeping station.
CountReady(ps, q, m) ==
  LET n == m % CntMod IN
  [ps EXCEPT !.pkt_ready[ps_id(q)] = n, !.tim[ps_id(q)] = @ \/ n = 1]

FlowCtrl(x) == [x EXCEPT !.flow = @ \/ Len(x.sk_list) > RWNX_NDEV_FLOW_CTRL_STOP]

InsertSkb(x, q, f, retry) ==
  LET y == IF retry
           THEN [x EXCEPT !.sk_list = InsertAt(@, RetryPos(x), f),
                          !.last_retry_skb = f, !.nb_retry = @ + 1]
           ELSE [x EXCEPT !.sk_list = Append(@, f)]
  IN IF q = MGMT THEN y ELSE FlowCtrl(y)

rwnx_txq_queue_skb(t, q, f) ==
  LET u == [t EXCEPT !.ps = IF @.active THEN CountReady(@, q, @.pkt_ready[ps_id(q)] + 1) ELSE @,
                     !.q[q] = InsertSkb(@, q, f, FALSE)]
  IN IF rwnx_txq_is_stopped(u.q[q]) THEN u ELSE rwnx_txq_add_to_hw_list(u, q)

rwnx_set_more_data_flag(ps, q) ==
  IF ~ps.active THEN ps
  ELSE LET n == (ps.pkt_ready[ps_id(q)] - 1) % CntMod
       IN [ps EXCEPT !.pkt_ready[ps_id(q)] = n, !.sp_cnt[ps_id(q)] = (@ - 1) % CntMod,
                     !.tim[ps_id(q)] = @ /\ n # 0]

rwnx_tx_push(t, q, f) ==
  LET x == t.q[q]
  IN [t EXCEPT
       !.q[q].nb_retry = IF @ > 0 THEN @ - 1 ELSE 0,
       !.q[q].last_retry_skb = IF x.nb_retry = 1 THEN NoFrame ELSE @,
       !.q[q].pkt_sent = IF x.nb_retry > 0 THEN @ ELSE @ + 1,
       !.q[q].push_limit = IF @ > 0 THEN @ - 1 ELSE 0,
       !.ps = rwnx_set_more_data_flag(@, q),
       !.fw = IF f \in load.cfm THEN @ \cup {f} ELSE @]

-----------------------------------------------------------------------------
(* rwnx_hwq_process. *)

rwnx_txq_get_credits(x) ==
  IF x.push_limit > 0 /\ x.credits > x.push_limit THEN x.push_limit ELSE x.credits

\* [push, rest, empty]: the frames to push now, and whether the queue leaves the list.
rwnx_txq_get_skb_to_push(x) ==
  LET credits == rwnx_txq_get_credits(x)
      n == Len(x.sk_list)
  IN IF credits >= n THEN [push |-> x.sk_list, rest |-> <<>>, empty |-> TRUE]
     ELSE [push |-> SubSeq(x.sk_list, 1, credits), rest |-> SubSeq(x.sk_list, credits + 1, n),
           empty |-> x.push_limit > 0 /\ credits = x.push_limit]

\* A legacy service period that could not be completed is given up.
AbortLegacySP(t, q) ==
  IF t.q[q].push_limit = 0 \/ ps_id(q) # "LEGACY" THEN t
  ELSE [t EXCEPT !.ps.sp_cnt["LEGACY"] = (@ - t.q[q].push_limit) % CntMod, !.q[q].push_limit = 0]

WakeNdev(t, q) ==
  [t EXCEPT !.q[q].flow = @ /\ Len(t.q[q].sk_list) >= RWNX_NDEV_FLOW_CTRL_RESTART]

\* A queue that keeps frames and has sent its share lets the head of the list go last.
Rotate(t, q) ==
  IF t.q[q].pkt_sent <= HwqSize THEN t
  ELSE [t EXCEPT !.q[q].pkt_sent = 0, !.hw[Hwq[q]].list = Append(Tail(@), Head(@))]

ServeTxq(t, q) ==
  LET g == rwnx_txq_get_skb_to_push(t.q[q])
      u == FoldLeft(LAMBDA s, f : rwnx_tx_push(s, q, f),
                    [t EXCEPT !.q[q].sk_list = g.rest], g.push)
      v == IF g.empty
           THEN [rwnx_txq_del_from_hw_list(u, q) EXCEPT !.q[q].pkt_sent = 0]
           ELSE Rotate(u, q)
  IN WakeNdev(AbortLegacySP(v, q), q)

\* An inactive queue is taken off the list and emptied.
DropTxq(t, q) == [rwnx_txq_del_from_hw_list(t, q) EXCEPT !.q[q].sk_list = <<>>]

\* One round of list_for_each_entry_safe: "rest" is what lies behind the cursor.
\* A rotation moves the head of the list behind a cursor that has not reached the end.
ProcessOne(acc, h) ==
  IF acc.rest = <<>> THEN acc
  ELSE LET q == Head(acc.rest)
           u == IF acc.t.q[q].active THEN ServeTxq(acc.t, q) ELSE DropTxq(acc.t, q)
           l == u.hw[h].list
           turned == l # <<>> /\ l # SelectSeq(acc.t.hw[h].list, LAMBDA p : u.q[p].listed)
       IN [t |-> u, rest |-> IF turned /\ Len(acc.rest) > 1
                             THEN Append(Tail(acc.rest), Last(l)) ELSE Tail(acc.rest)]

rwnx_hwq_process(t, h) ==
  FoldLeft(LAMBDA acc, i : ProcessOne(acc, h),
           [t |-> [t EXCEPT !.hw[h].need_processing = FALSE], rest |-> t.hw[h].list],
           [i \in 1 .. Cardinality(Txq) + MaxFrames |-> i]).t

rwnx_hwq_process_all(t) ==
  FoldLeft(LAMBDA u, h : IF u.hw[h].need_processing THEN rwnx_hwq_process(u, h) ELSE u,
           t, SetToSeq(DOMAIN t.hw))

-----------------------------------------------------------------------------
(* The sending threads and the tasklet. *)

Processed(g) == [g EXCEPT !.raced = @ \/ cfm.pc # "idle"]

\* rwnx_start_xmit, intf_tx and rwnx_start_mgmt_xmit look at txq->idx before tx_lock.
XmitCheck ==
  /\ xmit.f = NoFrame
  /\ fed.n < Len(load.q)
  /\ LET q == load.q[fed.n + 1]
     IN /\ q # MGMT => ~tx.q[q].flow
        /\ xmit' = IF tx.q[q].active THEN [f |-> fed.n + 1, q |-> q] ELSE xmit
  /\ fed' = [fed EXCEPT !.n = @ + 1]
  /\ UNCHANGED <<tx, task, vif, sta, cfm, ghost>>

rwnx_start_xmit ==
  /\ xmit.f # NoFrame
  /\ LET t == rwnx_txq_queue_skb(tx, xmit.q, xmit.f)
     IN tx' = IF rwnx_txq_is_stopped(t.q[xmit.q]) THEN t ELSE rwnx_hwq_process(t, Hwq[xmit.q])
  /\ xmit' = [f |-> NoFrame, q |-> MGMT]
  /\ ghost' = [Processed(ghost) EXCEPT
                 !.silent = IF rwnx_txq_is_stopped(tx.q[xmit.q]) THEN @ ELSE @ \ {Hwq[xmit.q]}]
  /\ UNCHANGED <<task, vif, sta, cfm, fed>>

rwnx_task ==
  /\ task
  /\ task' = FALSE
  /\ tx' = rwnx_hwq_process_all(tx)
  /\ ghost' = [Processed(ghost) EXCEPT !.silent = {}]
  /\ UNCHANGED <<vif, sta, xmit, cfm, fed>>

-----------------------------------------------------------------------------
(* Indications of the firmware, handled by the receive thread. *)

CfmIdle == cfm.pc = "idle"

\* Mutant: frames buffered before the station fell asleep are not counted.
BugPsFromZero(t) ==
  [rwnx_txq_sta_stop(t, "STA_PS") EXCEPT
     !.ps.active = TRUE, !.ps.sp_cnt = [id \in PsIds |-> 0],
     !.ps.pkt_ready = [id \in PsIds |-> 0]]

PsEnable(t) ==
  LET u == rwnx_txq_sta_stop(t, "STA_PS")
      Ready(id) == MapThenSumSet(LAMBDA q : Len(u.q[q].sk_list), {q \in Txq : ps_id(q) = id})
  IN [u EXCEPT !.ps.active = TRUE, !.ps.sp_cnt = [id \in PsIds |-> 0],
               !.ps.pkt_ready = [id \in PsIds |-> Ready(id)]]

PsDisable(t) ==
  [rwnx_txq_sta_start([t EXCEPT !.q = [q \in Txq |-> [@[q] EXCEPT !.push_limit = 0]]], "STA_PS")
     EXCEPT !.ps.active = FALSE, !.ps.tim["LEGACY"] = @ /\ t.ps.pkt_ready["LEGACY"] = 0]

rwnx_ps_bh_enable(t, enable) == IF enable THEN PsEnable(t) ELSE PsDisable(t)


rwnx_rx_ps_change_ind(on) ==
  /\ CfmIdle
  /\ sta.st = "valid"
  /\ on # tx.ps.active
  /\ tx' = rwnx_ps_bh_enable(tx, on)
  /\ task' = (task \/ ~on)
  /\ ghost' = [ghost EXCEPT !.cut = @ /\ ~on]
  /\ UNCHANGED <<vif, sta, xmit, cfm, fed>>

\* The request is dispatched over the data queues of that kind, by priority.
DispatchOne(acc, q, id) ==
  LET x == acc.t.q[q]
      have == IF Len(x.sk_list) > x.credits THEN x.credits ELSE Len(x.sk_list)
      n == IF have < acc.req THEN have ELSE acc.req
      u == [acc.t EXCEPT !.q[q].push_limit = n, !.ps.sp_cnt[id] = (@ + n) % CntMod]
  IN IF acc.req = 0 \/ ps_id(q) # id \/ have = 0 THEN acc
     ELSE [t |-> rwnx_txq_add_to_hw_list(u, q), req |-> acc.req - n]

rwnx_ps_bh_traffic_req(pkt_req, id) ==
  LET all == tx.ps.pkt_ready[id] - tx.ps.sp_cnt[id]
      req == IF pkt_req = 0 \/ pkt_req > all THEN all ELSE pkt_req
  IN /\ CfmIdle
     /\ tx.ps.active
     /\ tx.ps.sp_cnt[id] = 0
     /\ all > 0
     /\ tx' = FoldLeft(LAMBDA acc, q : DispatchOne(acc, q, id), [t |-> tx, req |-> req], Tids).t
     /\ task' = TRUE
     /\ UNCHANGED <<vif, sta, xmit, cfm, fed, ghost>>

\* PS_SP_INTERRUPTED: counters are cleared, the queues stay on their lists.
InterruptSP ==
  /\ CfmIdle
  /\ tx.ps.active
  /\ tx' = [tx EXCEPT !.ps.sp_cnt["UAPSD"] = 0,
                      !.q = [q \in Txq |-> [@[q] EXCEPT !.push_limit = 0]]]
  /\ ghost' = [ghost EXCEPT !.cut = @ \/ \E q \in Txq : tx.q[q].push_limit > 0]
  /\ UNCHANGED <<task, vif, sta, xmit, cfm, fed>>

\* rwnx_rx_chan_pre_switch_ind, rwnx_rx_p2p_vif_ps_change_ind, rwnx_rx_csa_traffic_ind.
rwnx_txq_vif_stop(reason) ==
  /\ CfmIdle
  /\ reason \notin vif
  /\ vif' = vif \cup {reason}
  /\ tx' = IF sta.st = "valid" THEN rwnx_txq_sta_stop(tx, reason) ELSE tx
  /\ UNCHANGED <<task, sta, xmit, cfm, fed, ghost>>

\* The channel and p2p handlers schedule the tasklet, the CSA handler does not.
rwnx_txq_vif_start(reason) ==
  /\ CfmIdle
  /\ reason \in vif
  /\ vif' = vif \ {reason}
  /\ tx' = IF sta.st = "valid" THEN rwnx_txq_sta_start(tx, reason) ELSE tx
  /\ task' = (task \/ reason # "CSA")
  /\ ghost' = [ghost EXCEPT !.silent = IF reason = "CSA" THEN DOMAIN tx.hw ELSE @]
  /\ UNCHANGED <<sta, xmit, cfm, fed>>

rwnx_txq_credit_update(q) ==
  /\ CfmIdle
  /\ tx.q[q].active
  /\ tx' = IF tx.q[q].credits <= 0 THEN rwnx_txq_stop(tx, q, "FULL") ELSE rwnx_txq_start(tx, q, "FULL")
  /\ UNCHANGED <<task, vif, sta, xmit, cfm, fed, ghost>>

-----------------------------------------------------------------------------
(* rwnx_txdatacfm, without tx_lock. *)

CfmDone == [pc |-> "idle", f |-> NoFrame, q |-> MGMT, ready |-> 0]

rwnx_txdatacfm(f, retry) ==
  LET q == load.q[f]
      x == tx.q[q]
  IN /\ CfmIdle
     /\ f \in tx.fw
     /\ tx' = [tx EXCEPT !.fw = @ \ {f}, !.hw[Hwq[q]].need_processing = TRUE]   \* confirm_any
     /\ \/ /\ retry /\ q # MGMT /\ x.active
           /\ ghost.retries < MaxRetries
           /\ cfm' = [pc |-> "retry", f |-> f, q |-> q, ready |-> 0]
        \/ /\ ~(retry /\ q # MGMT /\ x.active)
           /\ cfm' = IF x.active /\ x.push_limit > 0 /\ "FULL" \notin x.status
                     THEN [pc |-> "add", f |-> f, q |-> q, ready |-> 0] ELSE CfmDone
     /\ ghost' = [ghost EXCEPT !.silent = @ \cup {Hwq[q]}]
     /\ UNCHANGED <<task, vif, sta, xmit, fed>>

\* One more credit, in an s8; the counter of a sleeping station is read ...
rwnx_tx_retry ==
  /\ cfm.pc = "retry"
  /\ LET c == tx.q[cfm.q].credits
         t == [tx EXCEPT !.q[cfm.q].credits = IF c = CreditMax THEN -CreditMax - 1 ELSE c + 1]
     IN tx' = IF t.q[cfm.q].credits > 0 THEN rwnx_txq_start(t, cfm.q, "FULL") ELSE t
  /\ cfm' = [cfm EXCEPT !.pc = "insert", !.ready = IF tx.ps.active
                                                   THEN tx.ps.pkt_ready[ps_id(cfm.q)] + 1 ELSE 0]
  /\ ghost' = [ghost EXCEPT !.retries = @ + 1]
  /\ UNCHANGED <<task, vif, sta, xmit, fed>>

\* ... and written back, and the frame goes into the queue.
RetryQueue ==
  /\ cfm.pc = "insert"
  /\ tx' = [tx EXCEPT !.q[cfm.q] = InsertSkb(@, cfm.q, cfm.f, TRUE),
                      !.ps = IF cfm.ready > 0 THEN CountReady(@, cfm.q, cfm.ready) ELSE @]
  /\ cfm' = IF rwnx_txq_is_stopped(tx.q[cfm.q]) THEN CfmDone ELSE [cfm EXCEPT !.pc = "add"]
  /\ UNCHANGED <<task, vif, sta, xmit, fed, ghost>>

\* The queue joins its list; nobody is told to process it.
CfmAdd ==
  /\ cfm.pc = "add"
  /\ tx' = rwnx_txq_add_to_hw_list(tx, cfm.q)
  /\ cfm' = CfmDone
  /\ UNCHANGED <<task, vif, sta, xmit, fed, ghost>>

-----------------------------------------------------------------------------
(* Adding and deleting the station. *)

rwnx_cfg80211_add_station(pm) ==
  LET t == [tx EXCEPT !.q = [q \in Txq |-> rwnx_txq_init(vif)],
                      !.ps.tim = [id \in PsIds |-> FALSE]]
  IN /\ sta.st = "none"
     /\ fed.adds < load.adds
     /\ fed' = [fed EXCEPT !.adds = @ + 1]
     /\ sta' = [sta EXCEPT !.st = "valid"]
     /\ tx' = rwnx_ps_bh_enable(t, pm)
     /\ task' = (task \/ ~pm)
     /\ ghost' = [Processed(ghost) EXCEPT !.cut = FALSE]
     /\ UNCHANGED <<vif, xmit, cfm>>

rwnx_cfg80211_del_station ==
  /\ sta.st = "valid"
  /\ sta' = [st |-> "deinit", i |-> 1, flush |-> FALSE]
  /\ tx' = [tx EXCEPT !.ps.active = FALSE]
  /\ ghost' = Processed(ghost)
  /\ UNCHANGED <<task, vif, xmit, cfm, fed>>

\* Queue by queue: off the list and inactive under the lock, emptied after it.
rwnx_txq_deinit ==
  LET q == foreach_sta_txq[sta.i]
  IN /\ sta.st = "deinit"
     /\ sta.i <= Len(foreach_sta_txq)
     /\ ~sta.flush
     /\ tx' = [rwnx_txq_del_from_hw_list(tx, q) EXCEPT !.q[q].active = FALSE]
     /\ sta' = [sta EXCEPT !.flush = TRUE]
     /\ ghost' = Processed(ghost)
     /\ UNCHANGED <<task, vif, xmit, cfm, fed>>

rwnx_txq_flush ==
  /\ sta.flush
  /\ tx' = [tx EXCEPT !.q[foreach_sta_txq[sta.i]].sk_list = <<>>]
  /\ sta' = IF sta.i < Len(foreach_sta_txq) THEN [sta EXCEPT !.i = @ + 1, !.flush = FALSE]
            ELSE [st |-> "none", i |-> 1, flush |-> FALSE]
  /\ ghost' = Processed(ghost)
  /\ UNCHANGED <<task, vif, xmit, cfm, fed>>

-----------------------------------------------------------------------------
TxqInit ==
  /\ tx = [q |-> [q \in Txq |-> [rwnx_txq_init({}) EXCEPT !.active = FALSE]],
           hw |-> rwnx_hwq_init, fw |-> {},
           ps |-> [active |-> FALSE, pkt_ready |-> [id \in PsIds |-> 0],
                   sp_cnt |-> [id \in PsIds |-> 0], tim |-> [id \in PsIds |-> FALSE]]]
  /\ task = FALSE
  /\ vif = {}
  /\ sta = [st |-> "none", i |-> 1, flush |-> FALSE]
  /\ xmit = [f |-> NoFrame, q |-> MGMT]
  /\ cfm = CfmDone
  /\ load \in Loads
  /\ fed = [n |-> 0, adds |-> 0]
  /\ ghost = [raced |-> FALSE,    \* a locked section ran inside a confirmation
              cut |-> FALSE,      \* a service period was interrupted
              silent |-> {},      \* hardware queues filled without scheduling the tasklet
              retries |-> 0]

TxqStep ==
  \/ \E q \in Txq : rwnx_txq_credit_update(q)
  \/ XmitCheck \/ rwnx_start_xmit
  \/ rwnx_task
  \/ \E on \in BOOLEAN : rwnx_rx_ps_change_ind(on) \/ rwnx_cfg80211_add_station(on)
  \/ \E n \in {0, 1}, id \in PsIds : rwnx_ps_bh_traffic_req(n, id)
  \/ InterruptSP
  \/ \E r \in load.reasons : rwnx_txq_vif_stop(r) \/ rwnx_txq_vif_start(r)
  \/ \E f \in Frames, retry \in BOOLEAN : rwnx_txdatacfm(f, retry)
  \/ rwnx_tx_retry \/ RetryQueue \/ CfmAdd
  \/ rwnx_cfg80211_del_station \/ rwnx_txq_deinit \/ rwnx_txq_flush

TxqNext == TxqStep /\ UNCHANGED load

-----------------------------------------------------------------------------
TxqTypeOK ==
  /\ \A q \in Txq : /\ tx.q[q].status \subseteq StopReasons
                     /\ tx.q[q].sk_list \in Seq(Frames)
                     /\ tx.q[q].push_limit \in 0 .. MaxFrames
                     /\ tx.q[q].credits \in -CreditMax - 1 .. CreditMax
  /\ \A h \in DOMAIN tx.hw : tx.hw[h].list \in Seq(Txq)
  /\ \A id \in PsIds : tx.ps.pkt_ready[id] \in 0 .. CntMod - 1 /\ tx.ps.sp_cnt[id] \in 0 .. CntMod - 1
  /\ task \in BOOLEAN /\ vif \subseteq StopReasons
  /\ sta.st \in {"none", "valid", "deinit"} /\ cfm.pc \in {"idle", "retry", "insert", "add"}

LenSum(id) == MapThenSumSet(LAMBDA q : Len(tx.q[q].sk_list), {q \in Txq : ps_id(q) = id})
LimitSum(id) == MapThenSumSet(LAMBDA q : tx.q[q].push_limit, {q \in Txq : ps_id(q) = id})

(* While a station sleeps, the driver's two counters are exact: pkt_ready is the
   number of frames buffered for it and sp_cnt what its queues may still push in
   the service period, and no queue owes more than it holds. *)
PsCountsExact ==
  (sta.st = "valid" /\ tx.ps.active /\ ~ghost.raced /\ ~ghost.cut) =>
    \A id \in PsIds : /\ tx.ps.pkt_ready[id] = LenSum(id)
                      /\ tx.ps.sp_cnt[id] = LimitSum(id)
                      /\ \A q \in Txq : tx.q[q].push_limit <= Len(tx.q[q].sk_list)

(* The sanity checks of rwnx_hwq_process hold whenever it may run: a listed queue
   has a frame and credits, is listed once, and if its station sleeps it is owed
   frames of a service period.  An active queue that is not stopped and has frames is listed. *)
HwqListSound ==
  /\ TxqTypeOK
  /\ ~ghost.raced => \A h \in DOMAIN tx.hw :
       LET l == tx.hw[h].list IN
         /\ IsInjective(l)
         /\ \A q \in ToSet(l) :
              /\ tx.q[q].listed /\ rwnx_txq_skb_ready(tx.q[q])
              /\ ghost.retries <= CreditMax - NX_TXQ_INITIAL_CREDITS => tx.q[q].credits > 0
              /\ "STA_PS" \in tx.q[q].status /\ ~ghost.cut => tx.q[q].push_limit > 0
  /\ ~ghost.raced => \A q \in Txq :
       (tx.q[q].active /\ ~rwnx_txq_is_stopped(tx.q[q]) /\ rwnx_txq_skb_ready(tx.q[q])
          /\ ~(cfm.pc = "add" /\ cfm.q = q)) => q \in ToSet(tx.hw[Hwq[q]].list)

=============================================================================
