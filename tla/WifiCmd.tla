------------------------------- MODULE WifiCmd -------------------------------
(***************************************************************************)
(* The command manager of the AIC8800 Wi-Fi driver: how the tasks of the   *)
(* host get requests to the firmware one at a time and how each gets its   *)
(* own confirmation (rwnx_cmds.c, rwnx_send_msg of rwnx_msg_tx.c, and the  *)
(* one-message mailbox of the SDIO bus thread in aicwf_sdio.c).            *)
(*                                                                         *)
(* A task that asks for a confirmation waits for it, unless the command is *)
(* deferred to the work queue: then it returns at once and the worker does *)
(* the waiting.  Tasks and the worker share the steps from filling the     *)
(* mailbox to releasing the command; `actor' holds both.  cmd_mgr_drain    *)
(* (driver removal) is not modelled.                                       *)
(***************************************************************************)
EXTENDS WifiMsg, Naturals, FiniteSets, Functions

CONSTANTS
    Callers,             \* host tasks that send requests
    Plans,               \* the calls the tasks make: sets of [Callers -> Seq(AllCalls)]
    RWNX_CMD_ARRAY_SIZE, \* command slots
    RWNX_CMD_MAX_QUEUED  \* commands the manager queues

WORKER == "cmd_wq"
AlwaysDeferred == {"ME_TRAFFIC_IND", "MM_SET_ARPOFFLOAD"}

NoMsg == Ntf("none")
MessagesOf(p) == UNION {Range(c) : c \in UNION {Range(p[t]) : t \in Callers}}
Message == {NoMsg} \cup UNION {MessagesOf(p) : p \in Plans}

\* A request names the confirmation the firmware answers it with, and a command that
\* is always left to the worker has no buffer.
ASSUME CmdAssumption ==
    /\ WORKER \notin Callers
    /\ RWNX_CMD_ARRAY_SIZE \in Nat /\ RWNX_CMD_MAX_QUEUED \in Nat
    /\ \A p \in Plans : p \in [Callers -> Seq(Seq(Message))]
    /\ \A m \in Message : /\ m.reqcfm => m.reqid = Confirmation(m.id)
                          /\ m.buf => m.id \notin AlwaysDeferred

Actors == Callers \cup {WORKER}
Slots == 1..RWNX_CMD_ARRAY_SIZE
NoSlot == 0

VARIABLES
    cmd_mgr,   \* [state, cmds]: the manager's state and its list of slots
    cmd,       \* the slots of cmd_array: [used, msg, task, push, wait, done, comp]
    actor,     \* [pc, cur, defer] of every task and of the worker
    todo,      \* the messages left in a task's call
    plan,      \* the calls a task has yet to make
    woken,     \* cmdWork is queued on cmd_wq
    mail,      \* [full, buf, trgg]: cmd_txstate, bus->cmd_buf, bustx_trgg
    fw,        \* requests the firmware has not answered
    bus_up,    \* bus_if->state = BUS_UP_ST
    ghost      \* what went wrong so far, see the properties

cmdVars == <<cmd_mgr, cmd, actor, todo, plan, woken, mail, fw, bus_up, ghost>>

NoCmd == [used |-> FALSE, msg |-> NoMsg, task |-> WORKER,
          push |-> FALSE, wait |-> FALSE, done |-> FALSE, comp |-> FALSE]
Empty == [slot |-> NoSlot, msg |-> NoMsg]

\* rwnx_cmd_mgr_init, rwnx_init_cmd_array, aicwf_bus_init
CmdInit ==
    /\ cmd_mgr = [state |-> "INITED", cmds |-> <<>>]
    /\ cmd = [s \in Slots |-> NoCmd]
    /\ actor = [a \in Actors |-> [pc |-> "idle", cur |-> NoSlot, defer |-> FALSE]]
    /\ todo = [t \in Callers |-> <<>>]
    /\ plan \in Plans
    /\ woken = FALSE
    /\ mail = [full |-> FALSE, buf |-> Empty, trgg |-> FALSE]
    /\ fw = {}
    /\ bus_up = TRUE
    /\ ghost = [forced |-> FALSE, dead |-> FALSE, mixed |-> FALSE,
                over |-> FALSE, ntf |-> FALSE]

----------------------------------------------------------------------------
At(a, pc) == actor[a].pc = pc
Goto(a, pc) == actor' = [actor EXCEPT ![a].pc = pc]
CurMsg(a) == cmd[actor[a].cur].msg
Crashed == cmd_mgr.state = "CRASHED"

\* The end of rwnx_send_msg: on to the next message of the call, or return.
SendDone(t) ==
    /\ actor' = [actor EXCEPT ![t] = [pc |-> IF Len(todo[t]) = 1 THEN "idle" ELSE "send",
                                      cur |-> NoSlot, defer |-> FALSE]]
    /\ todo' = [todo EXCEPT ![t] = Tail(@)]

rwnx_cmd_free(s) == cmd' = [cmd EXCEPT ![s] = NoCmd]

\* A task calls one of the rwnx_send_* functions.
Call(t) ==
    /\ At(t, "idle") /\ plan[t] # <<>>
    /\ todo' = [todo EXCEPT ![t] = Head(plan[t])]
    /\ plan' = [plan EXCEPT ![t] = Tail(@)]
    /\ Goto(t, IF Head(plan[t]) = <<>> THEN "idle" ELSE "send")
    /\ UNCHANGED <<cmd_mgr, cmd, woken, mail, fw, bus_up, ghost>>

\* It returns s: the first unused slot, or NULL (NoSlot) when there is none.
rwnx_cmd_malloc(s) ==
    LET unused == {r \in Slots : ~cmd[r].used} IN
    IF unused = {} THEN s = NoSlot ELSE s \in unused /\ \A r \in unused : s <= r

\* Message m of task t in slot s: it is pushed, or waits for an empty list, or is queued.
Filled(t, m, s) ==
    /\ cmd' = [cmd EXCEPT ![s] = [NoCmd EXCEPT !.used = TRUE, !.msg = m, !.task = t]]
    /\ actor' = [actor EXCEPT ![t] =
          [pc |-> CASE ~m.reqcfm -> "fill"
                    [] m.reqcfm /\ m.buf -> "drain"
                    [] m.reqcfm /\ ~m.buf -> "queue",
           cur |-> s, defer |-> FALSE]]

(***************************************************************************)
(* rwnx_send_msg up to the call of cmd_mgr->queue.  With the bus down the  *)
(* message is freed and the call reports success.  A full array returns    *)
(* NULL, which the function dereferences: the task is lost.                *)
(***************************************************************************)
rwnx_send_msg(t) ==
    /\ At(t, "send")
    /\ \/ /\ ~bus_up
          /\ SendDone(t) /\ UNCHANGED cmd
       \/ /\ bus_up /\ rwnx_cmd_malloc(NoSlot)
          /\ Goto(t, "oops") /\ UNCHANGED <<cmd, todo>>
       \/ \E s \in Slots :
          /\ bus_up /\ rwnx_cmd_malloc(s)
          /\ Filled(t, Head(todo[t]), s)
          /\ UNCHANGED todo
    /\ UNCHANGED <<cmd_mgr, plan, woken, mail, fw, bus_up, ghost>>

----------------------------------------------------------------------------
(* cmd_mgr_queue *)

\* Mutant: a command that waits for its confirmation does not count.
BugPushedIsDone ==
    cmd_mgr.cmds # <<>> /\ cmd[cmd_mgr.cmds[Len(cmd_mgr.cmds)]].push

\* The last command of the list still waits to be pushed or confirmed.
LastWaits ==
    /\ cmd_mgr.cmds # <<>>
    /\ LET last == cmd[cmd_mgr.cmds[Len(cmd_mgr.cmds)]] IN last.push \/ last.wait

Full == cmd_mgr.cmds # <<>> /\ Len(cmd_mgr.cmds) = RWNX_CMD_MAX_QUEUED

\* Mutant: the slot of a refused command is not freed.
BugRefusedLeaks(t) ==
    /\ SendDone(t)
    /\ UNCHANGED <<cmd_mgr, cmd, plan, woken, mail, fw, bus_up, ghost>>

\* -EPIPE and -ENOMEM: the slot is freed and rwnx_send_msg returns 0 all the same.
Refuse(t) ==
    /\ rwnx_cmd_free(actor[t].cur)
    /\ SendDone(t)
    /\ UNCHANGED <<cmd_mgr, plan, woken, mail, fw, bus_up, ghost>>

\* list_add_tail, then push at once or leave it to the worker and return.
Append_(t, busy) ==
    LET s == actor[t].cur
        deferred == busy \/ cmd[s].msg.id \in AlwaysDeferred IN
    /\ cmd' = [cmd EXCEPT ![s].push = deferred, ![s].wait = TRUE]
    /\ cmd_mgr' = [cmd_mgr EXCEPT !.cmds = Append(@, s)]
    /\ \/ /\ deferred
          /\ woken' = (woken \/ cmd_mgr.cmds = <<>>)
          /\ SendDone(t)
       \/ /\ ~deferred
          /\ Goto(t, "fill")
          /\ UNCHANGED <<woken, todo>>
    /\ UNCHANGED <<plan, mail, fw, bus_up, ghost>>

\* A caller with a buffer waits for an empty list before it goes on.
MayQueue(t) ==
    \/ At(t, "queue")
    \/ At(t, "drain") /\ (Crashed \/ cmd_mgr.cmds = <<>>)

cmd_mgr_queue(t) ==
    /\ MayQueue(t)
    /\ IF Crashed \/ Full THEN Refuse(t) ELSE Append_(t, LastWaits)

\* The two seconds for the list to drain are over: "forcing", with no lock held.
DrainTimeout(t) ==
    /\ At(t, "drain") /\ ~Crashed /\ cmd_mgr.cmds # <<>>
    /\ Goto(t, "forced")
    /\ ghost' = [ghost EXCEPT !.forced = TRUE]
    /\ UNCHANGED <<cmd_mgr, cmd, todo, plan, woken, mail, fw, bus_up>>

\* Unlocked, the look at the list and the insertion are two steps.
ForcedCheck(t) ==
    /\ At(t, "forced")
    /\ IF Full THEN Refuse(t)
       ELSE /\ actor' = [actor EXCEPT ![t].pc = "insert", ![t].defer = LastWaits]
            /\ UNCHANGED <<cmd_mgr, cmd, todo, plan, woken, mail, fw, bus_up, ghost>>

ForcedInsert(t) ==
    /\ At(t, "insert")
    /\ Append_(t, actor[t].defer)

----------------------------------------------------------------------------
(* Pushing a command: aicwf_set_cmd_tx and aicwf_sdio_bus_txmsg *)

\* Messages that are on their way through the mailbox.
InMail ==
    {CurMsg(a) : a \in {b \in Actors : At(b, "txmsg")}}
    \cup (IF mail.full THEN {mail.buf.msg} ELSE {})

\* The message is written to the shared cmd_buf, whatever it holds.
aicwf_set_cmd_tx(a) ==
    LET unasked == \E m \in InMail \cup {CurMsg(a)} : ~m.reqcfm IN
    /\ At(a, "fill")
    /\ mail' = [mail EXCEPT !.buf = [slot |-> actor[a].cur, msg |-> CurMsg(a)]]
    /\ ghost' = [ghost EXCEPT !.over = @ \/ (InMail # {} /\ ~unasked),
                              !.ntf = @ \/ (InMail # {} /\ unasked)]
    /\ Goto(a, "txmsg")
    /\ UNCHANGED <<cmd_mgr, cmd, todo, plan, woken, fw, bus_up>>

\* cmd_txstate is set; with the bus down its thread is not told.  A message
\* without confirmation is then done with.
aicwf_sdio_bus_txmsg(a) ==
    /\ At(a, "txmsg")
    /\ mail' = [mail EXCEPT !.full = TRUE, !.trgg = @ \/ bus_up]
    /\ IF CurMsg(a).reqcfm
       THEN Goto(a, "wait") /\ UNCHANGED <<cmd, todo>>
       ELSE rwnx_cmd_free(actor[a].cur) /\ SendDone(a)
    /\ UNCHANGED <<cmd_mgr, plan, woken, fw, bus_up, ghost>>

\* sdio_bustx_thread, aicwf_sdio_tx_process and aicwf_sdio_tx_msg: whatever is
\* in cmd_buf goes out; a failed transfer loses it.  The thread ends with the bus.
aicwf_sdio_tx_msg ==
    /\ mail.trgg /\ bus_up
    /\ mail' = [mail EXCEPT !.trgg = FALSE, !.full = FALSE]
    /\ \/ mail.full /\ mail.buf.msg.reqcfm /\ fw' = fw \cup {mail.buf}
       \/ UNCHANGED fw
    /\ UNCHANGED <<cmd_mgr, cmd, actor, todo, plan, woken, bus_up, ghost>>

----------------------------------------------------------------------------
(* Waiting for the confirmation *)

\* q without its i-th entry.
list_del(q, i) == SubSeq(q, 1, i - 1) \o SubSeq(q, i + 1, Len(q))

\* The completion came.
Release(a) ==
    /\ At(a, "wait") /\ cmd[actor[a].cur].comp
    /\ \E i \in DOMAIN cmd_mgr.cmds :
          /\ cmd_mgr.cmds[i] = actor[a].cur
          /\ cmd_mgr' = [cmd_mgr EXCEPT !.cmds = list_del(@, i)]
    /\ Goto(a, "freed")
    /\ UNCHANGED <<cmd, todo, plan, woken, mail, fw, bus_up, ghost>>

\* Mutant: nobody wakes the worker for the commands that are left.
BugNoWake(a) ==
    /\ At(a, "freed")
    /\ rwnx_cmd_free(actor[a].cur)
    /\ IF a = WORKER
       THEN actor' = [actor EXCEPT ![a].pc = "scan", ![a].cur = NoSlot] /\ UNCHANGED todo
       ELSE SendDone(a)
    /\ UNCHANGED <<cmd_mgr, plan, woken, mail, fw, bus_up, ghost>>

\* rwnx_cmd_free.  A task wakes the worker when commands are left; the worker
\* looks itself.
Freed(a) ==
    /\ At(a, "freed")
    /\ rwnx_cmd_free(actor[a].cur)
    /\ IF a = WORKER
       THEN actor' = [actor EXCEPT ![a].pc = "scan", ![a].cur = NoSlot] /\ UNCHANGED <<todo, woken>>
       ELSE SendDone(a) /\ woken' = (woken \/ cmd_mgr.cmds # <<>>)
    /\ UNCHANGED <<cmd_mgr, plan, mail, fw, bus_up, ghost>>

\* wait_for_completion_timeout gives up.
TimesOut(a) ==
    /\ At(a, "wait") /\ ~cmd[actor[a].cur].comp
    /\ Goto(a, "expired")
    /\ UNCHANGED <<cmd_mgr, cmd, todo, plan, woken, mail, fw, bus_up, ghost>>

\* The manager is crashed for good.  The command stays on the list with its
\* WAIT_CFM flag, and its slot stays used.
Expired(a) ==
    /\ At(a, "expired")
    /\ cmd_mgr' = [cmd_mgr EXCEPT !.state = "CRASHED"]
    /\ cmd' = [cmd EXCEPT ![actor[a].cur].done = TRUE]
    /\ IF a = WORKER
       THEN actor' = [actor EXCEPT ![a].pc = "scan", ![a].cur = NoSlot] /\ UNCHANGED todo
       ELSE SendDone(a)
    /\ UNCHANGED <<plan, woken, mail, fw, bus_up, ghost>>

\* cmd_mgr_task_process: only the head of the list is looked at.
cmd_mgr_task_process ==
    /\ \/ At(WORKER, "idle") /\ woken /\ woken' = FALSE
       \/ At(WORKER, "scan") /\ UNCHANGED woken
    /\ IF cmd_mgr.cmds # <<>> /\ cmd[Head(cmd_mgr.cmds)].push
       THEN /\ actor' = [actor EXCEPT ![WORKER] = [@ EXCEPT !.pc = "fill", !.cur = Head(cmd_mgr.cmds)]]
            /\ cmd' = [cmd EXCEPT ![Head(cmd_mgr.cmds)].push = FALSE]
       ELSE Goto(WORKER, "idle") /\ UNCHANGED cmd
    /\ UNCHANGED <<cmd_mgr, todo, plan, mail, fw, bus_up, ghost>>

\* cmd_mgr_msgind for the answer to request e: the first command on the list
\* that waits for this confirmation gets it, its buffer included.
cmd_mgr_msgind(e) ==
    LET hits == {i \in DOMAIN cmd_mgr.cmds :
                    /\ cmd[cmd_mgr.cmds[i]].wait
                    /\ cmd[cmd_mgr.cmds[i]].msg.reqid = Confirmation(e.msg.id)} IN
    /\ fw' = fw \ {e}
    /\ \/ /\ hits = {}
          /\ ghost' = [ghost EXCEPT !.mixed = @ \/ cmd[e.slot].wait]
          /\ UNCHANGED cmd
       \/ \E i \in hits :
          LET s == cmd_mgr.cmds[i] IN
          /\ \A j \in hits : i <= j
          /\ cmd' = [cmd EXCEPT ![s].wait = FALSE, ![s].done = TRUE, ![s].comp = TRUE]
          /\ ghost' = [ghost EXCEPT !.dead = @ \/ (cmd[s].msg.buf /\ actor[cmd[s].task].cur # s),
                                    !.mixed = @ \/ s # e.slot]
    /\ UNCHANGED <<cmd_mgr, actor, todo, plan, woken, mail, bus_up>>

\* aicwf_sdio_bus_stop and aicwf_sdio_release take the bus down.
aicwf_sdio_bus_stop ==
    /\ bus_up
    /\ bus_up' = FALSE
    /\ UNCHANGED <<cmd_mgr, cmd, actor, todo, plan, woken, mail, fw, ghost>>

CallerNext(t) ==
    \/ rwnx_send_msg(t) \/ cmd_mgr_queue(t)
    \/ DrainTimeout(t) \/ ForcedCheck(t) \/ ForcedInsert(t)

PushNext(a) ==
    \/ aicwf_set_cmd_tx(a) \/ aicwf_sdio_bus_txmsg(a)
    \/ Release(a) \/ Freed(a) \/ TimesOut(a) \/ Expired(a)

CmdNext ==
    \/ \E t \in Callers : Call(t) \/ CallerNext(t)
    \/ \E a \in Actors : PushNext(a)
    \/ cmd_mgr_task_process
    \/ aicwf_sdio_tx_msg
    \/ \E e \in fw : cmd_mgr_msgind(e)
    \/ aicwf_sdio_bus_stop

CmdSpec == CmdInit /\ [][CmdNext]_cmdVars

----------------------------------------------------------------------------
CmdTypeOK ==
    /\ cmd_mgr.state \in {"INITED", "CRASHED"}
    /\ cmd_mgr.cmds \in Seq(Slots) /\ Len(cmd_mgr.cmds) <= RWNX_CMD_ARRAY_SIZE
    /\ \A s \in Slots : {cmd[s].used, cmd[s].push, cmd[s].wait, cmd[s].done, cmd[s].comp} \subseteq BOOLEAN
    /\ \A a \in Actors : actor[a].cur \in Slots \cup {NoSlot}
    /\ mail.buf.slot \in Slots \cup {NoSlot}
    /\ {woken, bus_up, mail.full, mail.trgg} \subseteq BOOLEAN

\* Every used slot is on the manager's list or in the hands of one task or the
\* worker, no slot is on the list twice, and nothing on the list is unused:
\* no path of cmd_mgr_queue, refusals and timeouts included, leaks a slot that
\* nobody can find again.
SlotsAccounted ==
    /\ CmdTypeOK
    /\ IsInjective(cmd_mgr.cmds)
    /\ {s \in Slots : cmd[s].used} =
       Range(cmd_mgr.cmds) \cup ({actor[a].cur : a \in Actors} \ {NoSlot})
    /\ \A t, u \in Callers : t # u /\ actor[t].cur = actor[u].cur => actor[t].cur = NoSlot

\* A command that was pushed and is not yet confirmed.
Active(s) == cmd[s].wait /\ ~cmd[s].push

\* While no wait has timed out and no message without confirmation (which takes
\* no turn) has met another one in the mailbox, the firmware has at most one
\* command to confirm, cmd_buf is never rewritten before the bus thread has sent
\* it, and a confirmation completes the command it answers and reaches only a
\* caller that still waits with its buffer.
OneAtATime ==
    ~Crashed /\ ~ghost.forced /\ ~ghost.ntf =>
        /\ \A r, s \in Range(cmd_mgr.cmds) : Active(r) /\ Active(s) => r = s
        /\ ~ghost.over /\ ~ghost.mixed /\ ~ghost.dead

\* The commands left to the worker are all pushed, although a queueing task wakes
\* the worker only for an empty list, unless a timeout crashes the manager first.
DeferredPushed ==
    (\E s \in Slots : cmd[s].push) ~> (\A s \in Slots : ~cmd[s].push) \/ Crashed
----------------------------------------------------------------------------
(* The inductive invariant: who has a command at each step *)

Awaiting == {"wait", "expired"}
Pushing  == {"fill", "txmsg"} \cup Awaiting
Queuing  == {"queue", "drain", "forced", "insert"}
Pcs      == {"idle", "scan", "send", "oops", "freed"} \cup Queuing \cup Pushing

CmdRec   == [used : BOOLEAN, msg : Message, task : Actors, push : BOOLEAN,
             wait : BOOLEAN, done : BOOLEAN, comp : BOOLEAN]
ActorRec == [pc : Pcs, cur : Slots \cup {NoSlot}, defer : BOOLEAN]
MailRec  == [full : BOOLEAN, trgg : BOOLEAN,
             buf : {e \in [slot : Slots \cup {NoSlot}, msg : Message] :
                      e.msg.reqcfm => e.slot \in Slots}]
GhostRec == [forced : BOOLEAN, dead : BOOLEAN, mixed : BOOLEAN, over : BOOLEAN, ntf : BOOLEAN]

CmdTypes ==
    /\ cmd_mgr \in [state : {"INITED", "CRASHED"}, cmds : Seq(Slots)]
    /\ cmd \in [Slots -> CmdRec] /\ actor \in [Actors -> ActorRec]
    /\ todo \in [Callers -> Seq(Message)] /\ plan \in [Callers -> Seq(Seq(Message))]
    /\ mail \in MailRec /\ fw \in SUBSET [slot : Slots, msg : Message] /\ ghost \in GhostRec
    /\ woken \in BOOLEAN /\ bus_up \in BOOLEAN

OnList(s) == s \in Range(cmd_mgr.cmds)

\* What the place of an actor says of the command in its hands.
Place(a) ==
    LET s == actor[a].cur IN
    /\ actor[a].pc \in (IF a = WORKER THEN {"idle", "scan"} ELSE {"idle", "send", "oops"} \cup Queuing)
                      \cup Pushing \cup {"freed"}
    /\ a # WORKER /\ actor[a].pc # "idle" => todo[a] # <<>>
    /\ s # NoSlot <=> actor[a].pc \in Queuing \cup Pushing \cup {"freed"}
    /\ s # NoSlot =>
          /\ cmd[s].used /\ ~cmd[s].push
          /\ IF a = WORKER THEN cmd[s].msg.reqcfm ELSE cmd[s].task = a
          /\ OnList(s) <=> actor[a].pc \in Pushing /\ cmd[s].msg.reqcfm
          /\ actor[a].pc \in Queuing \cup Awaiting => cmd[s].msg.reqcfm
          /\ actor[a].pc \in Queuing => ~cmd[s].comp
          /\ actor[a].pc = "queue" => ~cmd[s].msg.buf

Apart == \A a, b \in Actors : a # b /\ actor[a].cur = actor[b].cur => actor[a].cur = NoSlot

\* What the flags of a command say of where it is.
Kept(s) ==
    /\ OnList(s) => cmd[s].used /\ cmd[s].msg.reqcfm
    /\ cmd[s].push => OnList(s)
    /\ cmd[s].used => OnList(s) \/ \E a \in Actors : actor[a].cur = s
    /\ cmd[s].comp => ~cmd[s].wait

Listed == IsInjective(cmd_mgr.cmds) /\ \A s \in Slots : Kept(s)

\* As long as nothing was forced, crashed or met a message without confirmation.
Orderly == ~Crashed /\ ~ghost.forced /\ ~ghost.ntf

\* Behind a command that waits to be pushed or confirmed all wait to be pushed, ...
Sorted ==
    \A i, j \in DOMAIN cmd_mgr.cmds :
        /\ i < j
        /\ cmd[cmd_mgr.cmds[i]].push \/ cmd[cmd_mgr.cmds[i]].wait
        => cmd[cmd_mgr.cmds[j]].push

\* ... a pushed one is in the hands of an actor, one that is not pushed waits, and no
\* buffer is left to the worker.
InHand(s) ==
    /\ cmd[s].push => cmd[s].wait
    /\ OnList(s) /\ ~cmd[s].push => \E a \in Actors : actor[a].cur = s
    /\ cmd[s].push \/ actor[WORKER].cur = s => ~cmd[s].msg.buf

\* An actor pushes a command that nobody has confirmed.
Pushes(a) ==
    /\ actor[a].pc \in {"fill", "txmsg"} /\ CurMsg(a).reqcfm => Active(actor[a].cur)
    /\ actor[a].pc \notin {"forced", "insert"}

InTurn == Sorted /\ (\A s \in Slots : InHand(s)) /\ (\A a \in Actors : Pushes(a))

\* The request e was sent and its sender waits for the confirmation.
Asked(e) ==
    \E a \in Actors : /\ actor[a].pc \in Awaiting /\ actor[a].cur = e.slot
                      /\ CurMsg(a) = e.msg /\ Active(e.slot)

\* The mailbox has one message, that of the actor that filled it, and a request is
\* in the mailbox or with the firmware.
OneInMail ==
    /\ \A a \in Actors : At(a, "txmsg") =>
          /\ mail.buf = [slot |-> actor[a].cur, msg |-> CurMsg(a)] /\ ~mail.full
          /\ \A b \in Actors : At(b, "txmsg") => a = b
    /\ mail.full /\ mail.buf.msg.reqcfm => Asked(mail.buf) /\ fw = {}
    /\ \A e \in fw : Asked(e)

NothingMixed == ~ghost.over /\ ~ghost.mixed /\ ~ghost.dead

CmdIInv ==
    /\ CmdTypes /\ Listed /\ Apart /\ \A a \in Actors : Place(a)
    /\ Orderly => InTurn /\ OneInMail /\ NothingMixed
=============================================================================
