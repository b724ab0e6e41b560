------------------------------ MODULE CommIncoming ------------------------------
(***************************************************************************)
(* A call from the MIPS to the ARM: the CALL doorbell, command_action      *)
(* (cpu_comm_proto.c), the staging FIFO or the work item it hands the call *)
(* to, comm_CallWorkAction (cpu_comm_rpc.c), and, composed with them, the  *)
(* delivery of each call to the files user space has open (CommUserQueue). *)
(*                                                                         *)
(* Message n is the MIPS's n-th call.  The response of a work item, a      *)
(* SendComm2CPUEx in the return direction, is one step with no effect      *)
(* here: it uses another share sequence and other semaphores, which no     *)
(* module models (CommRpc is the call direction).  Nothing ever reads the  *)
(* staging FIFO, since Comm_GetCallbyChannel has no caller, and nobody     *)
(* waits on the channel semaphore that Comm_Add2NewCallFifo ups, so the    *)
(* channel is left out and a staged slot stays staged.  The MIPS is        *)
(* external, and the slot index it writes to byte 16 is one of its slots.  *)
(***************************************************************************)
EXTENDS Integers, Sequences, FiniteSets

CONSTANTS Files, Readers, File, NonBlock, QueueMax,    \* as in CommUserQueue
          Slots,       \* call slots of the MIPS's share sequence (20)
          NoSlot,      \* 20, what the handler leaves in byte 16
          StageMax,    \* room in the CallCmd FIFO (20)
          Kinds,       \* kinds of call: "staged" (entry_cmd <= 4), "work" (> 4)
          Lookups,     \* FindRoutine in the work item: "here", "elsewhere", "none"
          MaxCalls,    \* bound: calls of the MIPS
          Cases        \* the bounds of a behaviour, one of these: may GFP_ATOMIC
                       \* allocations fail, is there a reader, and how many calls

ASSUME IncomingAssumption ==
    /\ Kinds \subseteq {"staged", "work"} /\ Lookups \subseteq {"here", "elsewhere", "none"}
    /\ Cases \subseteq [NoMem : BOOLEAN, reads : BOOLEAN, calls : 0 .. MaxCalls]
    /\ IsFiniteSet(Slots) /\ Slots # {} /\ NoSlot \notin Slots /\ MaxCalls \in Nat
    /\ StageMax \in Nat /\ Cardinality(Slots) <= StageMax
    /\ File \in [Readers -> Files] /\ QueueMax \in Nat \ {0}

VARIABLES opened, queue, queue_count, dropped, waking, pc, sentTo, taken, lastTaken,
                       \* as in CommUserQueue
          begun,       \* calls the MIPS has made
          calls,       \* kind and notify flag of each
          freeCall,    \* FreeCall FIFO of the MIPS's share sequence
          slotMsg,     \* the call each slot holds
          hdr,         \* byte 16 of the share sequence: the slot of the call
          sent,        \* bit 2 of byte 8
          irq,         \* CALL doorbell
          callWork,    \* work item (MIPS, CALL) scheduled
          rx, rxSlot,  \* where command_action is; its seq_idx
          ackSent,     \* bit 2 of byte 105: CALL_ACK deposited
          waiting,     \* the MIPS waits for the CALL_ACK of its last call
          staged,      \* CallCmd FIFO: slots
          item, copy,  \* per call: where its comm_work_item is; its local_msg
          at,          \* per call: call_entry, the slot its work item points to
          case,        \* the chosen member of Cases
          lost,        \* slots of calls whose work item could not be allocated
          times        \* times[f][n]: copies of call n put into the queue of f since open

userVars == <<opened, queue, queue_count, dropped, waking, pc, sentTo, taken, lastTaken>>
mipsVars == <<begun, calls, freeCall, slotMsg, waiting>>
rxVars   == <<hdr, sent, irq, callWork, rx, rxSlot, ackSent>>
handVars == <<staged, item, copy, at, lost>>
vars     == <<userVars, mipsVars, rxVars, handVars, times, case>>

U == INSTANCE CommUserQueue WITH clock <- begun, MaxMsgs <- MaxCalls

Ids == 1 .. MaxCalls

SetAsSeq(S) == CHOOSE q \in [1 .. Cardinality(S) -> S] : {q[i] : i \in DOMAIN q} = S

Init ==
    /\ U!Init
    /\ calls = << >>
    /\ freeCall = SetAsSeq(Slots)
    /\ slotMsg = [s \in Slots |-> 0]
    /\ hdr = NoSlot /\ waiting = FALSE
    /\ sent = FALSE /\ irq = FALSE /\ callWork = FALSE /\ ackSent = FALSE
    /\ rx = "idle" /\ rxSlot = NoSlot
    /\ staged = << >> /\ lost = {}
    /\ item = [n \in Ids |-> "none"] /\ copy = [n \in Ids |-> 0]
    /\ at = [n \in Ids |-> NoSlot]
    /\ case \in Cases
    /\ times = [f \in Files |-> [n \in Ids |-> 0]]

\* cpu_comm_userspace_deliver(call n), allocations failing or not.  The wake-ups that
\* end it (Wake) touch readers only; the caller may be a step ahead of them here.
DeliverCall(n) ==
    \E no \in IF case.NoMem THEN SUBSET opened ELSE {{}} :
        /\ U!cpu_comm_userspace_deliver(n, no)
        /\ times' = [f \in Files |-> IF f \in opened \ no THEN [times[f] EXCEPT ![n] = @ + 1]
                                     ELSE times[f]]

-----------------------------------------------------------------------------
(* The MIPS (external)                                                     *)

\* One call at a time: it waits for the CALL_ACK before the next.
MipsCall(k, notify) ==
    /\ ~waiting /\ freeCall # << >>
    /\ begun < case.calls /\ begun' = begun + 1
    /\ calls' = Append(calls, [kind |-> k, notify |-> notify])
    /\ slotMsg' = [slotMsg EXCEPT ![Head(freeCall)] = begun + 1]
    /\ hdr' = Head(freeCall) /\ freeCall' = Tail(freeCall)
    /\ sent' = TRUE /\ irq' = TRUE /\ waiting' = TRUE
    /\ UNCHANGED <<userVars, callWork, rx, rxSlot, ackSent, handVars, times, case>>

MipsAcked ==
    /\ ackSent
    /\ ackSent' = FALSE /\ waiting' = FALSE
    /\ UNCHANGED <<userVars, begun, calls, freeCall, slotMsg, hdr, sent, irq, callWork, rx, rxSlot,
                   handVars, times, case>>

-----------------------------------------------------------------------------
(* The interrupt and command_action(MIPS, 0)                               *)

\* cpu_comm_sync_mips_cache consumes the flag; queueAction(0) schedules the work.
cpu_comm_handle_CPU2_call ==
    /\ irq
    /\ irq' = FALSE /\ sent' = FALSE
    /\ callWork' = (callWork \/ sent)
    /\ UNCHANGED <<userVars, mipsVars, hdr, rx, rxSlot, ackSent, handVars, times, case>>

\* The slot index is read and the call in the slot shown to user space, ...
command_action ==
    /\ callWork /\ rx = "idle"
    /\ callWork' = FALSE
    /\ rxSlot' = hdr
    /\ DeliverCall(slotMsg[hdr])
    /\ rx' = "hand"
    /\ UNCHANGED <<mipsVars, hdr, sent, irq, ackSent, handVars, case>>

\* Comm_Add2NewCallFifo: the slot goes to the staging FIFO, if there is room.
Comm_Add2NewCallFifo(s) ==
    /\ staged' = IF Len(staged) < StageMax THEN Append(staged, s) ELSE staged
    /\ UNCHANGED <<item, copy, at, lost>>

\* Comm_Add2Call2WQ: a work item with a pointer to the slot.  Without memory the call
\* is dropped, slot and all.
Comm_Add2Call2WQ(s) ==
    /\ \/ /\ item' = [item EXCEPT ![slotMsg[s]] = "start"]
          /\ at' = [at EXCEPT ![slotMsg[s]] = s]
          /\ UNCHANGED lost
       \/ case.NoMem /\ lost' = lost \cup {s} /\ UNCHANGED <<item, at>>
    /\ UNCHANGED <<staged, copy>>

\* Mutant: a call goes to user space again when it is handed on.
BugDeliverAgain ==
    /\ rx = "hand"
    /\ IF calls[slotMsg[rxSlot]].kind = "staged" THEN Comm_Add2NewCallFifo(rxSlot)
                                                 ELSE Comm_Add2Call2WQ(rxSlot)
    /\ DeliverCall(slotMsg[rxSlot])
    /\ rx' = "ack"
    /\ UNCHANGED <<mipsVars, hdr, sent, irq, callWork, rxSlot, ackSent, case>>

\* ... the call is handed on ...
HandOn ==
    /\ rx = "hand"
    /\ IF calls[slotMsg[rxSlot]].kind = "staged" THEN Comm_Add2NewCallFifo(rxSlot)
                                                 ELSE Comm_Add2Call2WQ(rxSlot)
    /\ rx' = "ack"
    /\ UNCHANGED <<userVars, mipsVars, hdr, sent, irq, callWork, rxSlot, ackSent, times, case>>

\* Mutant: byte 16 is reset, and the CALL_ACK left out.
BugNoAck ==
    /\ rx = "ack"
    /\ hdr' = NoSlot /\ rx' = "idle"
    /\ UNCHANGED <<userVars, mipsVars, sent, irq, callWork, rxSlot, ackSent, handVars, times,
                   case>>

\* Mutant: the slot goes back to the pool with the CALL_ACK.
BugReleaseEarly ==
    /\ rx = "ack"
    /\ hdr' = NoSlot /\ ackSent' = TRUE /\ rx' = "idle"
    /\ freeCall' = Append(freeCall, rxSlot)
    /\ UNCHANGED <<userVars, begun, calls, slotMsg, waiting, sent, irq, callWork, rxSlot, handVars,
                   times, case>>

\* ... byte 16 reset and the CALL_ACK sent (with the flag already set it stays set).
SendAckLow ==
    /\ rx = "ack"
    /\ hdr' = NoSlot /\ ackSent' = TRUE /\ rx' = "idle"
    /\ UNCHANGED <<userVars, mipsVars, sent, irq, callWork, rxSlot, handVars, times, case>>

-----------------------------------------------------------------------------
(* comm_CallWorkAction, for the work item of call n                        *)

\* memcpy(local_msg, call_entry).
CopyMsg(n) ==
    /\ item[n] = "start"
    /\ copy' = [copy EXCEPT ![n] = slotMsg[at[n]]]
    /\ item' = [item EXCEPT ![n] = "release"]
    /\ UNCHANGED <<userVars, mipsVars, rxVars, staged, at, lost, times, case>>

\* Mutant: the slot is kept.
BugSlotKept(n) ==
    /\ item[n] = "release"
    /\ item' = [item EXCEPT ![n] = "find"]
    /\ UNCHANGED <<userVars, mipsVars, rxVars, staged, copy, at, lost, times, case>>

\* Comm_ReleaseFreeCall.
Comm_ReleaseFreeCall(n) ==
    /\ item[n] = "release"
    /\ freeCall' = Append(freeCall, at[n])
    /\ item' = [item EXCEPT ![n] = "find"]
    /\ UNCHANGED <<userVars, begun, calls, slotMsg, waiting, rxVars, staged, copy, at, lost, times,
                   case>>

\* FindRoutine.  No routine, or one of another CPU, ends the work; otherwise the
\* call is shown to user space and answered unless it is a notification.
FindRoutine(n) ==
    /\ item[n] = "find"
    /\ \E o \in Lookups :
         IF o = "here"
         THEN /\ DeliverCall(copy[n])
              /\ item' = [item EXCEPT ![n] = IF calls[copy[n]].notify THEN "done" ELSE "respond"]
         ELSE item' = [item EXCEPT ![n] = "done"] /\ UNCHANGED <<userVars, times>>
    /\ UNCHANGED <<mipsVars, rxVars, staged, copy, at, lost, case>>

\* SendComm2CPUEx(local_msg, 1, 0), whose failure is only logged.
Respond(n) ==
    /\ item[n] = "respond"
    /\ item' = [item EXCEPT ![n] = "done"]
    /\ UNCHANGED <<userVars, mipsVars, rxVars, staged, copy, at, lost, times, case>>

comm_CallWorkAction(n) ==
    CopyMsg(n) \/ Comm_ReleaseFreeCall(n) \/ FindRoutine(n) \/ Respond(n)

-----------------------------------------------------------------------------
(* User space                                                              *)

Open(f) == /\ U!cpu_comm_user_open(f)
           /\ times' = [times EXCEPT ![f] = [n \in Ids |-> 0]]
           /\ UNCHANGED <<mipsVars, rxVars, handVars, case>>

Wake(f) == /\ U!wake_up_interruptible(f)
           /\ UNCHANGED <<mipsVars, rxVars, handVars, times, case>>

UserStep == /\ \/ \E f \in Files : U!cpu_comm_user_release(f)
               \/ case.reads /\ \E r \in Readers : U!Reader(r)
            /\ UNCHANGED <<mipsVars, rxVars, handVars, times, case>>

Next == \/ \E k \in Kinds, b \in BOOLEAN : MipsCall(k, b)
        \/ MipsAcked \/ cpu_comm_handle_CPU2_call \/ command_action \/ HandOn \/ SendAckLow
        \/ \E n \in Ids : comm_CallWorkAction(n)
        \/ \E f \in Files : Open(f) \/ Wake(f)
        \/ UserStep

Spec == Init /\ [][Next]_vars

\* Interrupts are served, work items run, deliver wakes its readers and so gives the
\* list lock back, and the MIPS takes its CALL_ACK.
FairSpec ==
    /\ Spec
    /\ WF_vars(cpu_comm_handle_CPU2_call) /\ WF_vars(command_action)
    /\ WF_vars(HandOn) /\ WF_vars(SendAckLow) /\ WF_vars(MipsAcked)
    /\ \A f \in Files : WF_vars(Wake(f))

-----------------------------------------------------------------------------
(* Properties                                                              *)

\* The parts of the state outside CommUserQueue have their types; slots are slots.
TypeOK ==
    /\ U!TypeOK
    /\ calls \in Seq([kind : Kinds, notify : BOOLEAN]) /\ Len(calls) = begun
    /\ freeCall \in Seq(Slots) /\ slotMsg \in [Slots -> 0 .. MaxCalls]
    /\ hdr \in Slots \cup {NoSlot} /\ rxSlot \in Slots \cup {NoSlot}
    /\ {sent, irq, callWork, ackSent, waiting} \subseteq BOOLEAN
    /\ rx \in {"idle", "hand", "ack"}
    /\ staged \in Seq(Slots) /\ lost \subseteq Slots
    /\ item \in [Ids -> {"none", "start", "release", "find", "respond", "done"}]
    /\ copy \in [Ids -> 0 .. MaxCalls] /\ at \in [Ids -> Slots \cup {NoSlot}]
    /\ case \in Cases /\ times \in [Files -> [Ids -> Nat]]

\* The slots at each place, with the work items that still point to one.
InUse  == {n \in Ids : item[n] \in {"start", "release"}}
Held   == {at[n] : n \in InUse}
Pool   == {freeCall[i] : i \in DOMAIN freeCall}
Staged == {staged[i] : i \in DOMAIN staged}
Once(q) == \A i, j \in DOMAIN q : q[i] = q[j] => i = j
Rung   == (IF (irq /\ sent) \/ callWork THEN {hdr} ELSE {})
          \cup (IF rx = "hand" THEN {rxSlot} ELSE {})

\* A call slot of the MIPS is at one place at a time: in the pool once, rung and
\* not yet handed on, in the staging FIFO, with one work item, or lost.  So the
\* FreeCall FIFO never overflows, which would leave Comm_ReleaseFreeCall's semaphore
\* down.
SlotExclusive ==
    /\ Once(freeCall)
    /\ \A m, n \in InUse : at[m] = at[n] => m = n
    /\ Pool \cap (Rung \cup Staged \cup Held \cup lost) = {}
    /\ Rung \cap (Staged \cup Held \cup lost) = {}
    /\ Staged \cap (Held \cup lost) = {} /\ Held \cap lost = {}

\* Slots are exclusive, and a slot that is at none of these places is that of a call
\* whose work item could not be allocated.  (A staged slot is never released.)
SlotsKept == Pool \cup Rung \cup Staged \cup Held \cup lost = Slots
SlotsConserved == TypeOK /\ SlotExclusive /\ SlotsKept

\* A work item handles the call it was queued for, though its slot is released,
\* and may hold the next call, before the routine is looked up.
DispatchedIntact ==
    \A n \in Ids : item[n] \in {"find", "respond", "done"} => copy[n] = n

\* A file is sent a staged call at most once, and one with a work item at most twice,
\* by command_action and by comm_CallWorkAction: "at most" because an allocation may
\* fail, twice because the driver delivers in both places.
ObservedAtMost ==
    \A f \in opened : \A n \in 1 .. begun :
        times[f][n] <= IF calls[n].kind = "work" THEN 2 ELSE 1

\* The MIPS gets its CALL_ACK, whatever happens to the call: no doorbell is lost
\* because the work was still scheduled, and none is handled twice.
CallAcked == waiting ~> ~waiting

\* The strengthening the proofs need.  One call is on its way at a time, and until
\* it is handed on its slot holds it and it has no work item.
Pending == irq \/ callWork \/ rx = "hand"
OneCall ==
    /\ sent = irq
    /\ waiting <=> (irq \/ callWork \/ rx # "idle" \/ ackSent)
    /\ ~(irq /\ callWork) /\ ~(irq /\ ackSent) /\ ~(callWork /\ ackSent)
    /\ rx # "idle" => ~irq /\ ~callWork /\ ~ackSent
    /\ Pending => begun > 0 /\ item[begun] = "none"
    /\ irq \/ callWork => hdr \in Slots /\ slotMsg[hdr] = begun
    /\ rx = "hand" => rxSlot \in Slots /\ slotMsg[rxSlot] = begun

\* A work item belongs to a call of kind "work", whose slot is untouched until
\* the item releases it.
WorkItem(n) ==
    /\ item[n] # "none" => n <= begun /\ calls[n].kind = "work"
    /\ item[n] \in {"start", "release"} => at[n] \in Slots /\ slotMsg[at[n]] = n
    /\ item[n] \notin {"none", "start"} => copy[n] = n
WorkItems == \A n \in Ids : WorkItem(n)

\* How often an open file has been sent call n, by how far the call has got.
SeenBy(f, n) ==
    /\ n > begun \/ (n = begun /\ (irq \/ callWork)) => times[f][n] = 0
    /\ item[n] \in {"none", "start", "release", "find"} => times[f][n] <= 1
    /\ times[f][n] <= 2
Seen == \A f \in opened : \A n \in Ids : SeenBy(f, n)

IInv == /\ TypeOK /\ begun <= MaxCalls
        /\ U!CountMatchesQueue
        /\ SlotExclusive /\ Once(staged) /\ SlotsKept
        /\ OneCall /\ WorkItems /\ Seen
===============================================================================
