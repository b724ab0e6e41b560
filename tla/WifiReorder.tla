---------------------------- MODULE WifiReorder ----------------------------
(***************************************************************************)
(* The receive reorder buffer of the AIC8800 driver (rwnx_rx.c), for one   *)
(* peer and one traffic identifier: the rx thread puts every frame of a    *)
(* block-ack session through reord_process_unit, a timer and its work item *)
(* push out what waits too long, a frame outside a session flushes the     *)
(* buffer, and a disconnect frees it.                                      *)
(*                                                                         *)
(* A frame is its unbounded number n; the code only sees n % SnMod.  In    *)
(* station mode the disconnect is handled by the rx thread itself, in AP   *)
(* mode by a cfg80211 call that runs beside it.  Freeing the control block *)
(* while a timer, a work item or the rx thread still uses it is undefined: *)
(* the model stops there (dangling).                                       *)
(***************************************************************************)
EXTENDS Integers, Sequences

CONSTANTS SnMod,                    \* 4096: sequence numbers are 12 bits
          AICWF_REORDER_WINSIZE,    \* 64
          MAX_REORD_RXFRAME,        \* 250 frame descriptors
          FirstFrame,               \* number of the first frame of the run
          MaxArrivals, MaxFlush     \* bounds on what the run receives

ASSUME ReordAssumption ==
    /\ SnMod \in Nat /\ SnMod % 2 = 0
    /\ AICWF_REORDER_WINSIZE \in Nat \ {0} /\ 2 * (AICWF_REORDER_WINSIZE + 2) <= SnMod
    /\ MAX_REORD_RXFRAME \in Nat /\ FirstFrame \in Nat
    /\ MaxArrivals \in Nat /\ MaxFlush \in Nat

VARIABLES mode,       \* "sta" or "ap"
          ctrl,       \* struct reord_ctrl of the peer
          unit,       \* the rx thread inside reord_process_unit or reord_flush_tid
          deinit,     \* the step reord_deinit_sta is at
          freequeue,  \* descriptors on rxframes_freequeue
          dangling,   \* the control block was freed while in use
          air,        \* what the peer may still send
          seen        \* what was delivered, for the properties

reordVars == <<mode, ctrl, unit, deinit, freequeue, dangling, air, seen>>

W == AICWF_REORDER_WINSIZE
NoSn == 16 * SnMod - 1              \* 0xffff
Sn(n) == n % SnMod

SN_LESS(a, b) == (a - b) % SnMod >= SnMod \div 2

NewCtrl ==
    [linked |-> TRUE, enable |-> TRUE, ind_sn |-> NoSn, list |-> <<>>,
     timer |-> FALSE, work |-> FALSE]

\* raced: a teardown ran beside the rx thread.  far: half of the sequence numbers
\* went by without reaching the buffer, and the 12 bits no longer tell old from new.
NewSeen == [out |-> <<>>, hi |-> FirstFrame, lateOk |-> TRUE, leaked |-> 0,
            raced |-> FALSE, far |-> FALSE]

Idle == [pc |-> "idle", n |-> 0]

ReordInit ==
    /\ mode \in {"sta", "ap"}
    /\ ctrl = [NewCtrl EXCEPT !.linked = FALSE, !.enable = FALSE]
    /\ unit = Idle
    /\ deinit = "idle"
    /\ freequeue = MAX_REORD_RXFRAME
    /\ dangling = FALSE
    /\ air = [left |-> MaxArrivals, flush |-> MaxFlush, hi |-> FirstFrame - 1]
    /\ seen = NewSeen

\* The rx thread is free: between two frames, and, in station mode, not
\* inside the disconnect handler it runs itself.
RxIdle == unit.pc = "idle" /\ (mode = "sta" => deinit = "idle") /\ ~dangling

-----------------------------------------------------------------------------
(* The operations on the ordered list. *)

\* Mutant: the descriptors are not put back.
BugDescriptorKept(frames) ==
    /\ seen' = [seen EXCEPT !.out = @ \o frames]
    /\ UNCHANGED freequeue

\* Frames of the list handed up, each descriptor back on the free queue.
reord_single_frame_ind(frames) ==
    /\ freequeue' = freequeue + Len(frames)
    /\ seen' = [seen EXCEPT !.out = @ \o frames]

\* How many frames at the head of the list are before sn.
Before(list, sn) ==
    CHOOSE k \in 0 .. Len(list) :
        /\ \A j \in 1 .. k : SN_LESS(Sn(list[j]), sn)
        /\ k < Len(list) => ~SN_LESS(Sn(list[k + 1]), sn)

\* ind_sn advances over the frames that continue it, up to the first frame that
\* lies ahead of it, if there is one.
Advance(ind, n) == IF ind = Sn(n) THEN Sn(ind + 1) ELSE ind

reord_rxframes_process(ind, list) ==
    LET after[i \in 0 .. Len(list)] ==
            IF i = 0 THEN ind ELSE Advance(after[i - 1], list[i])
        stop == CHOOSE k \in 0 .. Len(list) :
                    /\ \A j \in 1 .. k : ~SN_LESS(after[j - 1], Sn(list[j]))
                    /\ k < Len(list) => SN_LESS(after[k], Sn(list[k + 1]))
    IN  [ind |-> after[stop], left |-> stop < Len(list)]

\* How many frames at the head of the list ind_sn has reached.
reord_rxframes_ind(ind, list) ==
    CHOOSE k \in 0 .. Len(list) :
        /\ \A j \in 1 .. k : ~SN_LESS(ind, Sn(list[j]))
        /\ k < Len(list) => SN_LESS(ind, Sn(list[k + 1]))

\* Mutant: the window is taken to be one frame longer than it is.
BugWideWindow(ind, sn) ==
    LET wend  == Sn(ind + W)
        cur   == IF ind = NoSn THEN sn ELSE ind
        moved == IF sn >= W - 1 THEN sn - (W - 1) ELSE SnMod - W + sn + 1
    IN  [late |-> SN_LESS(sn, cur),
         ind  |-> IF SN_LESS(sn, cur) THEN cur
                  ELSE IF sn = cur THEN Sn(cur + 1)
                  ELSE IF SN_LESS(wend, sn) THEN moved
                  ELSE cur]

\* Sets ind_sn for the frame and says whether it came too late to be ordered.
reord_need_check(ind, sn) ==
    LET wend  == Sn(ind + W - 1)
        cur   == IF ind = NoSn THEN sn ELSE ind
        moved == IF sn >= W - 1 THEN sn - (W - 1) ELSE SnMod - W + sn + 1
    IN  [late |-> SN_LESS(sn, cur),
         ind  |-> IF SN_LESS(sn, cur) THEN cur
                  ELSE IF sn = cur THEN Sn(cur + 1)
                  ELSE IF SN_LESS(wend, sn) THEN moved
                  ELSE cur]

\* The list with frame n in its place, unless the frame there has its number.
reord_rxframe_enqueue(list, n) ==
    LET k == Before(list, Sn(n))
    IN  SubSeq(list, 1, k) \o <<n>> \o SubSeq(list, k + 1, Len(list))

Held(list, n) ==
    LET k == Before(list, Sn(n))
    IN  k < Len(list) /\ Sn(list[k + 1]) = Sn(n)

-----------------------------------------------------------------------------
(* The rx thread. *)

\* What the peer may send: anything within a window of the highest number
\* sent, so retransmissions and gaps included.
Arrives(n) ==
    /\ RxIdle
    /\ air.left > 0
    /\ n \in air.hi - W + 1 .. air.hi + W
    /\ n >= FirstFrame
    /\ air' = [air EXCEPT !.left = @ - 1, !.hi = IF n > @ THEN n ELSE @]

\* reord_process_unit up to the unlock of stas_reord_lock: take a descriptor,
\* find the peer's control block or make one, switch ordering back on.
LookUp(n) ==
    /\ Arrives(n)
    /\ freequeue > 0
    /\ unit' = [pc |-> "unit", n |-> n]
    /\ freequeue' = freequeue - 1
    /\ ctrl' = CASE ~ctrl.linked -> NewCtrl
                 [] ctrl.linked /\ ~ctrl.enable -> [ctrl EXCEPT !.enable = TRUE, !.ind_sn = NoSn]
                 [] OTHER -> ctrl
    /\ seen' = [seen EXCEPT !.out = IF ctrl'.ind_sn = NoSn THEN <<>> ELSE @,
                            !.hi  = IF ctrl'.ind_sn = NoSn THEN n ELSE @,
                            !.lateOk = @ \/ ctrl'.ind_sn = NoSn,
                            !.raced = ctrl.linked /\ (@ \/ deinit # "idle"),
                            !.far = ctrl'.ind_sn # NoSn /\ (@ \/ n > seen.hi + SnMod \div 2 - W)]
    /\ UNCHANGED <<mode, deinit, dangling>>

\* No descriptor left, or an EAPOL frame, which is never ordered: nothing of
\* the buffer changes.
Bypass(n) ==
    /\ Arrives(n)
    /\ UNCHANGED <<mode, ctrl, unit, deinit, freequeue, dangling, seen>>

\* reord_init_sta fails (bus down or out of memory): the frame is freed, its
\* descriptor is not.
InitFails(n) ==
    /\ Arrives(n)
    /\ ~ctrl.linked
    /\ freequeue > 0
    /\ freequeue' = freequeue - 1
    /\ seen' = [seen EXCEPT !.leaked = @ + 1]
    /\ UNCHANGED <<mode, ctrl, unit, deinit, dangling>>

\* reord_process_unit under reord_list_lock.
reord_process_unit ==
    LET n     == unit.n
        check == reord_need_check(ctrl.ind_sn, Sn(n))
        list  == reord_rxframe_enqueue(ctrl.list, n)
        run   == reord_rxframes_process(check.ind, list)
        due   == reord_rxframes_ind(run.ind, list)
    IN  /\ unit.pc = "unit"
        /\ unit' = Idle
        /\ ~dangling
        /\ \/ /\ ~ctrl.enable               \* a teardown switched ordering off
              /\ ctrl' = [ctrl EXCEPT !.ind_sn = Sn(n + 1)]
              /\ freequeue' = freequeue + 1
              /\ seen' = seen
           \/ /\ ctrl.enable
              /\ check.late                 \* handed up at once; RTP is dropped
              /\ ctrl' = [ctrl EXCEPT !.ind_sn = check.ind]
              /\ freequeue' = freequeue + 1
              /\ seen' = [seen EXCEPT !.lateOk =
                            @ /\ (n <= seen.hi - W \/ \E i \in DOMAIN seen.out : n <= seen.out[i])]
           \/ /\ ctrl.enable
              /\ ~check.late
              /\ Held(ctrl.list, n)         \* a duplicate of a waiting frame
              /\ ctrl' = [ctrl EXCEPT !.ind_sn = check.ind]
              /\ freequeue' = freequeue + 1
              /\ seen' = seen
           \/ /\ ctrl.enable
              /\ ~check.late
              /\ ~Held(ctrl.list, n)
              /\ ctrl' = [ctrl EXCEPT !.ind_sn = run.ind,
                                      !.timer  = run.left,
                                      !.list   = SubSeq(list, due + 1, Len(list))]
              /\ freequeue' = freequeue + due
              /\ seen' = [seen EXCEPT !.out = @ \o SubSeq(list, 1, due),
                                      !.hi = IF n > @ THEN n ELSE @]
        /\ UNCHANGED <<mode, deinit, dangling, air>>

\* A frame outside a block-ack session: reord_flush_tid hands up the whole
\* list and switches ordering off, ...
reord_flush_tid ==
    /\ RxIdle
    /\ air.flush > 0
    /\ air' = [air EXCEPT !.flush = @ - 1]
    /\ ctrl.linked
    /\ ctrl.enable
    /\ ctrl' = [ctrl EXCEPT !.list = <<>>, !.enable = FALSE]
    /\ reord_single_frame_ind(ctrl.list)
    /\ unit' = [unit EXCEPT !.pc = "timer"]
    /\ UNCHANGED <<mode, deinit, dangling>>

\* ... then deletes the timer, then waits for the work item.
FlushTimer ==
    /\ unit.pc = "timer"
    /\ ~dangling
    /\ unit' = [unit EXCEPT !.pc = "work"]
    /\ ctrl' = [ctrl EXCEPT !.timer = FALSE]
    /\ UNCHANGED <<mode, deinit, freequeue, dangling, air, seen>>

FlushWork ==
    /\ unit.pc = "work"
    /\ ~dangling
    /\ unit' = Idle
    /\ ctrl' = [ctrl EXCEPT !.work = FALSE]
    /\ UNCHANGED <<mode, deinit, freequeue, dangling, air, seen>>

-----------------------------------------------------------------------------
(* The timer and its work item. *)

reord_timeout_handler ==
    /\ ctrl.timer
    /\ ~dangling
    /\ ctrl' = [ctrl EXCEPT !.timer = FALSE, !.work = TRUE]
    /\ UNCHANGED <<mode, unit, deinit, freequeue, dangling, air, seen>>

\* Mutant: the timer is not armed again for what is left.
BugNotRearmed ==
    LET list == ctrl.list
        run  == reord_rxframes_process(Sn(list[1]), list)
        due  == reord_rxframes_ind(run.ind, list)
    IN  /\ ctrl.work
        /\ ~dangling
        /\ \/ /\ list = <<>>
              /\ ctrl' = [ctrl EXCEPT !.work = FALSE]
              /\ UNCHANGED <<freequeue, seen>>
           \/ /\ list # <<>>
              /\ ctrl' = [ctrl EXCEPT !.work = FALSE, !.ind_sn = run.ind,
                                      !.list = SubSeq(list, due + 1, Len(list))]
              /\ reord_single_frame_ind(SubSeq(list, 1, due))
        /\ UNCHANGED <<mode, unit, deinit, dangling, air>>

\* The forced pass starts at the first frame that waits.
reord_timeout_worker ==
    LET list == ctrl.list
        run  == reord_rxframes_process(Sn(list[1]), list)
        due  == reord_rxframes_ind(run.ind, list)
    IN  /\ ctrl.work
        /\ ~dangling
        /\ \/ /\ list = <<>>
              /\ ctrl' = [ctrl EXCEPT !.work = FALSE]
              /\ UNCHANGED <<freequeue, seen>>
           \/ /\ list # <<>>
              /\ ctrl' = [ctrl EXCEPT !.work = FALSE,
                                      !.ind_sn = run.ind,
                                      !.timer = @ \/ run.left,
                                      !.list = SubSeq(list, due + 1, Len(list))]
              /\ reord_single_frame_ind(SubSeq(list, 1, due))
        /\ UNCHANGED <<mode, unit, deinit, dangling, air>>

-----------------------------------------------------------------------------
(* reord_deinit_sta, step by step. *)

Deinit(from, to) ==
    /\ deinit = from
    /\ deinit' = to
    /\ ~dangling
    /\ UNCHANGED <<mode, unit, air>>

DeinitDisable ==
    /\ ctrl.linked
    /\ mode = "sta" => unit.pc = "idle"
    /\ Deinit("idle", IF ctrl.enable THEN "timer" ELSE "list")
    /\ ctrl' = [ctrl EXCEPT !.enable = FALSE]
    /\ seen' = [seen EXCEPT !.raced = @ \/ unit.pc # "idle"]
    /\ UNCHANGED <<freequeue, dangling>>

DeinitTimer ==
    /\ Deinit("timer", "work")
    /\ ctrl' = [ctrl EXCEPT !.timer = FALSE]
    /\ UNCHANGED <<freequeue, dangling, seen>>

DeinitWork ==
    /\ Deinit("work", "list")
    /\ ctrl' = [ctrl EXCEPT !.work = FALSE]
    /\ UNCHANGED <<freequeue, dangling, seen>>

DeinitList ==
    /\ Deinit("list", "free")
    /\ ctrl' = [ctrl EXCEPT !.list = <<>>]
    /\ freequeue' = freequeue + Len(ctrl.list)
    /\ UNCHANGED <<dangling, seen>>

DeinitFree ==
    /\ Deinit("free", "idle")
    /\ ctrl' = [ctrl EXCEPT !.linked = FALSE]
    /\ dangling' = (ctrl.timer \/ ctrl.work \/ unit.pc # "idle")
    /\ seen' = [seen EXCEPT !.leaked = @ + Len(ctrl.list)]
    /\ UNCHANGED freequeue

reord_deinit_sta == DeinitDisable \/ DeinitTimer \/ DeinitWork \/ DeinitList \/ DeinitFree

ReordNext ==
    \/ \E n \in FirstFrame .. air.hi + W :
          LookUp(n) \/ Bypass(n) \/ InitFails(n)
    \/ reord_process_unit
    \/ reord_flush_tid
    \/ FlushTimer
    \/ FlushWork
    \/ reord_timeout_handler
    \/ reord_timeout_worker
    \/ reord_deinit_sta

-----------------------------------------------------------------------------
(* Properties. *)

ReordTypeOK ==
    /\ mode \in {"sta", "ap"}
    /\ ctrl \in [linked : BOOLEAN, enable : BOOLEAN, ind_sn : 0 .. SnMod - 1 \cup {NoSn},
                 list : Seq(Nat), timer : BOOLEAN, work : BOOLEAN]
    /\ unit \in [pc : {"idle", "unit", "timer", "work"}, n : Nat]
    /\ deinit \in {"idle", "timer", "work", "list", "free"}
    /\ freequeue \in 0 .. MAX_REORD_RXFRAME
    /\ dangling \in BOOLEAN

Increasing(s) == \A i \in 1 .. Len(s) - 1 : s[i] < s[i + 1]

\* Although the code compares 12-bit numbers only, what it delivers from the
\* buffer is in the order the peer numbered it, across the wrap, nothing twice;
\* what still waits comes after all of it and lies inside the window; and a
\* frame is treated as late only if the window or the deliveries have passed
\* it.  A teardown running beside the rx thread voids the promise: it lets
\* reord_process_unit restart the numbering over frames that still wait.  So
\* does a gap of half the sequence numbers (far), which 12 bits cannot tell
\* from an old frame.
DeliveredInOrder ==
    ~seen.raced /\ ~seen.far =>
        /\ Increasing(seen.out \o ctrl.list)
        /\ \A i \in DOMAIN ctrl.list : (ctrl.list[i] - ctrl.ind_sn) % SnMod \in 1 .. W - 1
        /\ seen.lateOk

\* A frame that waits for its predecessors is never forgotten: as long as the
\* buffer is not being torn down the timer is armed or its work is queued.
HeldIsTimed ==
    ctrl.linked /\ ctrl.list # <<>> /\ deinit = "idle" => ctrl.timer \/ ctrl.work

\* Every frame descriptor is on the free queue, in the list, or with the rx
\* thread; the only ones lost are those of a failed reord_init_sta and those
\* queued behind the back of a teardown.
DescriptorsKept ==
    /\ ReordTypeOK
    /\ freequeue + (IF ctrl.linked THEN Len(ctrl.list) ELSE 0)
                 + (IF unit.pc = "unit" THEN 1 ELSE 0) + seen.leaked = MAX_REORD_RXFRAME

-----------------------------------------------------------------------------
(* The inductive invariant of the three properties. *)

ReordSpec == ReordInit /\ [][ReordNext]_reordVars

\* How many numbers b lies ahead of a.
Ahead(a, b) == (b - a) % SnMod

\* Seen from ind the frames of the list lie in the window, in their order.
InWindow(ind, list) ==
    /\ \A i \in 1 .. Len(list) : Ahead(ind, Sn(list[i])) \in 1 .. W - 1
    /\ \A i, j \in 1 .. Len(list) :
          i < j => Ahead(ind, Sn(list[i])) < Ahead(ind, Sn(list[j]))

Sorted(s) == \A i, j \in 1 .. Len(s) : i < j => s[i] < s[j]

\* N is the unbounded number that ind_sn stands for.
Stands(N) ==
    /\ ctrl.ind_sn = Sn(N)
    /\ \A i \in 1 .. Len(ctrl.list) :
          N < ctrl.list[i] /\ ctrl.list[i] < N + W /\ ctrl.list[i] <= seen.hi
    /\ \A i \in 1 .. Len(seen.out) : seen.out[i] < N
    /\ seen.hi < N + W
    /\ N = seen.hi - W + 1 \/ \E i \in 1 .. Len(seen.out) : seen.out[i] = N - 1

SeenTypeOK ==
    /\ seen \in [out : Seq(Nat), hi : Nat, lateOk : BOOLEAN, leaked : Nat,
                 raced : BOOLEAN, far : BOOLEAN]
    /\ air \in [left : Nat, flush : Nat, hi : Int]

\* Who may be where: the rx thread works on a linked block, a block that was
\* freed in order has no timer and no work, a teardown and the rx thread meet only
\* if raced says so.
Places ==
    /\ unit.pc \in {"timer", "work"} => ~ctrl.enable /\ ctrl.list = <<>>
    /\ unit.pc # "idle" /\ ~dangling => ctrl.linked
    /\ ~ctrl.linked /\ ~dangling => ~ctrl.timer /\ ~ctrl.work /\ deinit = "idle"
    /\ ctrl.linked /\ deinit = "idle" => ~seen.raced
    /\ deinit # "idle" /\ ctrl.enable => seen.raced
    /\ unit.pc = "unit" /\ ~ctrl.enable => seen.raced

\* Where nothing can wait.
Empties ==
    ~seen.raced /\ ( \/ ctrl.ind_sn = NoSn \/ ~ctrl.linked \/ deinit = "free"
                    \/ (~ctrl.enable /\ deinit = "idle") ) => ctrl.list = <<>>

\* Before the first frame of a numbering nothing has been delivered.
Fresh ==
    ~seen.raced /\ ctrl.ind_sn = NoSn =>
        seen.out = <<>> /\ (unit.pc = "unit" => seen.hi = unit.n)

\* The frame the rx thread carries is near what the buffer has seen.
CarriedNear ==
    /\ air.hi >= seen.hi \/ seen.hi = FirstFrame
    /\ unit.pc = "unit" => air.hi >= unit.n
    /\ unit.pc = "unit" /\ ~seen.raced /\ ~seen.far =>
          unit.n \in seen.hi - W + 1 .. seen.hi + SnMod \div 2 - W

Numbering ==
    ~seen.raced /\ ~seen.far =>
        /\ Sorted(seen.out)
        /\ seen.lateOk
        /\ ctrl.ind_sn # NoSn /\ (ctrl.enable \/ ctrl.list # <<>>) =>
              \E N \in 0 .. seen.hi + 1 : Stands(N)

ReordIInv ==
    /\ DescriptorsKept /\ SeenTypeOK
    /\ Places /\ Empties /\ Fresh /\ CarriedNear
    /\ HeldIsTimed
    /\ ~seen.raced => InWindow(ctrl.ind_sn, ctrl.list)
    /\ Numbering

=============================================================================
