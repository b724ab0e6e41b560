------------------------------- MODULE CommRpc -------------------------------
(***************************************************************************)
(* The synchronous RPC of drivers/cpu_comm from the ARM to the MIPS:       *)
(* CPUComm_CallEx and CPUComm_Notify (cpu_comm_rpc.c) over SendComm2CPUEx  *)
(* (cpu_comm_proto.c), the pools of call slots, return slots and wait      *)
(* entries (cpu_comm_channel.c), and the workers that handle the MIPS's    *)
(* CALL_ACK and RETURN.  The MIPS firmware is external.                    *)
(*                                                                         *)
(* The FIFOs are queues (CommFifo shows they behave as such); reading the  *)
(* head and advancing are two steps, as in the code.  The ReturnCmd FIFO   *)
(* and the ReturnList it is drained into before every lookup are the one   *)
(* set "returns".  The MIPS is up and its application ready throughout.    *)
(* The three timeouts may run out in any wait, as "case" allows; "late"    *)
(* remembers which have.                                                   *)
(*                                                                         *)
(* Not here: the raw IOCTL_SEND_KERN and IOCTL_SEND_USER (no code of the   *)
(* driver collects their return), and with them the copies from and to     *)
(* user space and MSG_FLAG_RETURN_ACK, which no call or notification sets. *)
(***************************************************************************)
EXTENDS Integers, Sequences, FiniteSets

CONSTANTS Callers,     \* ARM threads in an IOCTL_CALL or IOCTL_NOTIFY
          Waits,       \* wait entries (20)
          Calls,       \* call slots of the ARM's share sequence (20)
          Rets,        \* return slots of the MIPS's share sequence (20)
          None,        \* null pointer
          CmdLimit,    \* CallCmd occupancy that fifo_isNearlyFull reports
          Cases        \* the bounds of a behaviour, one of these: the timeouts that may
                       \* run out ("sem": the 100 ms on the send semaphore, "ack": the
                       \* 500 jiffies on the CALL_ACK, "ret": the 500 ms on the RETURN)
                       \* and the number of calls and notifications

ASSUME RpcAssumption == /\ None \notin Waits \cup Calls \cup Rets
                        /\ Cases \subseteq [may : SUBSET {"sem", "ack", "ret"}, calls : Nat]
                        /\ IsFiniteSet(Waits) /\ IsFiniteSet(Calls) /\ IsFiniteSet(Rets)
                        /\ CmdLimit \in Nat

VARIABLES
    \* ARM: seq socket and globals
    sendSem,           \* semaphore sem_ptr, initially 1
    ackSem,            \* semaphore sem_ptr + 16: the CALL_ACK has come
    sid,               \* s_CallSessionId
    freeWait,          \* FreeWait FIFO
    session, waitSem,  \* per wait entry: session_id, semaphore at +8
    waitList,          \* wait entries on the active list
    \* shared memory, ARM to MIPS
    freeCall,          \* FreeCall FIFO
    cmd,               \* items the ARM sees in the CallCmd FIFO
    call,              \* call slots: session_id, wait pointer, notify flag
    hdr, sent,         \* header of the share sequence: slot; MSG_FLAG_SENT
    \* shared memory, MIPS to ARM
    ret, retHdr,       \* return slots: session_id, wait pointer; header: slot
    retSent, ackSent,  \* bit 2 of bytes 8 and 105: RETURN, CALL_ACK deposited
    returns,           \* return slots in the ReturnCmd FIFO or ReturnList
    retAck,            \* bit 2 of byte 105 of the ARM's own: RETURN_ACK deposited
    \* doorbells and ARM workers
    callIrq, ackIrq, retIrq, \* messages in the msgbox; only CALLs can pile up
    ackWork, retWork,  \* work items scheduled
    retBusy,           \* return slot command_action is about to signal
    \* callers
    pc, kind, slot, sess, wait, status, result,
    begun,             \* calls begun
    case,              \* the chosen member of Cases
    late,              \* the timeouts that have run out so far
    \* MIPS
    freeRet,           \* its FreeReturn FIFO
    todo,              \* calls taken, not yet answered
    acks,              \* CALL_ACKs still to be deposited
    unacked,           \* a RETURN of its has not been acknowledged
    taken              \* sessions it has received

sockVars == <<sendSem, ackSem, sid>>
waitVars == <<freeWait, session, waitSem, waitList>>
callVars == <<freeCall, cmd, call, hdr, sent>>
retVars  == <<ret, retHdr, retSent, ackSent, returns, retAck>>
irqVars  == <<callIrq, ackIrq, retIrq, ackWork, retWork, retBusy>>
locals   == <<kind, slot, sess, wait, status, result, begun, case, late>>
mipsVars == <<freeRet, todo, acks, unacked, taken>>
vars     == <<sockVars, waitVars, callVars, retVars, irqVars, pc, locals, mipsVars>>

SetAsSeq(S) == CHOOSE q \in [1 .. Cardinality(S) -> S] : {q[i] : i \in DOMAIN q} = S

\* InitCommSeqMem and InitCommShareSeqMem
Init ==
    /\ sendSem = 1 /\ ackSem = 0 /\ sid = 0
    /\ freeWait = SetAsSeq(Waits)
    /\ session = [w \in Waits |-> 0] /\ waitSem = [w \in Waits |-> 0] /\ waitList = {}
    /\ freeCall = SetAsSeq(Calls) /\ cmd = 0
    /\ call = [s \in Calls |-> [session |-> 0, wait |-> None, notify |-> FALSE]]
    /\ hdr = None /\ sent = FALSE
    /\ ret = [r \in Rets |-> [session |-> 0, wait |-> None]]
    /\ retHdr = None /\ retSent = FALSE /\ ackSent = FALSE /\ returns = {} /\ retAck = FALSE
    /\ callIrq = 0 /\ ackIrq = FALSE /\ retIrq = FALSE
    /\ ackWork = FALSE /\ retWork = FALSE /\ retBusy = None
    /\ pc = [c \in Callers |-> "idle"]
    /\ kind = [c \in Callers |-> "call"]
    /\ slot = [c \in Callers |-> None] /\ wait = [c \in Callers |-> None]
    /\ sess = [c \in Callers |-> 0]
    /\ status = [c \in Callers |-> "none"] /\ result = [c \in Callers |-> 0]
    /\ begun = 0 /\ case \in Cases /\ late = {}
    /\ freeRet = SetAsSeq(Rets) /\ todo = {} /\ acks = 0 /\ unacked = FALSE /\ taken = {}

Goto(c, s) == pc' = [pc EXCEPT ![c] = s]

-----------------------------------------------------------------------------
(* SendComm2CPUEx: from the send semaphore to the ringing of the doorbell  *)

\* CPUComm_CallEx (k = "call") or CPUComm_Notify (k = "notify") is entered.
Begin(c, k) ==
    /\ pc[c] = "idle"
    /\ begun < case.calls /\ begun' = begun + 1
    /\ kind' = [kind EXCEPT ![c] = k]
    /\ sess' = [sess EXCEPT ![c] = 0]
    /\ slot' = [slot EXCEPT ![c] = None] /\ wait' = [wait EXCEPT ![c] = None]
    /\ status' = [status EXCEPT ![c] = "none"] /\ result' = [result EXCEPT ![c] = 0]
    /\ Goto(c, "down")
    /\ UNCHANGED <<sockVars, waitVars, callVars, retVars, irqVars, case, late, mipsVars>>

\* Step 5: down_timeout on the send semaphore ...
AcquireSend(c) ==
    /\ pc[c] = "down"
    /\ sendSem > 0
    /\ sendSem' = sendSem - 1
    /\ Goto(c, "getcall")
    /\ UNCHANGED <<ackSem, sid, waitVars, callVars, retVars, irqVars, locals, mipsVars>>

\* ... or 100 ms go by and the caller goes on without it; it ups it all the same.
BypassSend(c) ==
    /\ pc[c] = "down"
    /\ "sem" \in case.may /\ sendSem = 0
    /\ late' = late \cup {"sem"}
    /\ Goto(c, "getcall")
    /\ UNCHANGED <<sockVars, waitVars, callVars, retVars, irqVars, kind, slot, sess, wait, status,
                   result, begun, case, mipsVars>>

\* Steps 7 and 8 give up after 100 spins: -EBUSY.
SendBusy(c) ==
    /\ pc[c] = "getcall"
    /\ cmd >= CmdLimit \/ freeCall = << >>
    /\ status' = [status EXCEPT ![c] = "busy"]
    /\ Goto(c, "up")
    /\ UNCHANGED <<sockVars, waitVars, callVars, retVars, irqVars, kind, slot, sess, wait,
                   result, begun, case, late, mipsVars>>

\* Comm_GetFreeCall reads the head of the FreeCall FIFO...
Comm_GetFreeCall(c) ==
    /\ pc[c] = "getcall"
    /\ cmd < CmdLimit /\ freeCall # << >>
    /\ slot' = [slot EXCEPT ![c] = Head(freeCall)]
    /\ Goto(c, "session")
    /\ UNCHANGED <<sockVars, waitVars, callVars, retVars, irqVars, kind, sess, wait, status,
                   result, begun, case, late, mipsVars>>

\* ... and advances it; s_CallSessionId + 1 is loaded (step 14) ...
LoadSession(c) ==
    /\ pc[c] = "session"
    /\ freeCall' = IF freeCall = << >> THEN freeCall ELSE Tail(freeCall)
    /\ sess' = [sess EXCEPT ![c] = sid + 1]
    /\ Goto(c, "store")
    /\ UNCHANGED <<sockVars, waitVars, cmd, call, hdr, sent, retVars, irqVars, kind, slot, wait,
                   status, result, begun, case, late, mipsVars>>

\* ... and stored.
StoreSession(c) ==
    /\ pc[c] = "store"
    /\ sid' = sess[c]
    /\ Goto(c, IF kind[c] = "notify" THEN "send" ELSE "getwait")
    /\ UNCHANGED <<sendSem, ackSem, waitVars, callVars, retVars, irqVars, locals, mipsVars>>

\* A call needs a wait entry: GetFreeWaitComm is tried until the FIFO has one.
GetFreeWaitComm(c) ==
    /\ pc[c] = "getwait"
    /\ freeWait # << >>
    /\ wait' = [wait EXCEPT ![c] = Head(freeWait)]
    /\ Goto(c, "addwait")
    /\ UNCHANGED <<sockVars, waitVars, callVars, retVars, irqVars, kind, slot, sess, status,
                   result, begun, case, late, mipsVars>>

\* The FIFO is advanced and the entry, with its session, goes on the active list.
AddtoWaitComm(c) ==
    /\ pc[c] = "addwait"
    /\ freeWait' = IF freeWait = << >> THEN freeWait ELSE Tail(freeWait)
    /\ session' = [session EXCEPT ![wait[c]] = sess[c]]
    /\ waitList' = waitList \cup {wait[c]}
    /\ Goto(c, "send")
    /\ UNCHANGED <<sockVars, waitSem, callVars, retVars, irqVars, locals, mipsVars>>

\* Mutant: the header names the slot at the head of the FreeCall FIFO.
BugTwoSlots(c) ==
    /\ pc[c] = "send"
    /\ call' = [call EXCEPT ![slot[c]] = [session |-> sess[c], wait |-> wait[c],
                                          notify |-> kind[c] = "notify"]]
    /\ hdr' = IF freeCall = << >> THEN slot[c] ELSE Head(freeCall)
    /\ sent' = TRUE
    /\ Goto(c, "ring")
    /\ UNCHANGED <<sockVars, waitVars, freeCall, cmd, retVars, irqVars, locals, mipsVars>>

\* Steps 15 to 18: the slot is filled, SendCommLow writes the header and sets
\* MSG_FLAG_SENT ...
SendCommLow(c) ==
    /\ pc[c] = "send"
    /\ call' = [call EXCEPT ![slot[c]] = [session |-> sess[c], wait |-> wait[c],
                                          notify |-> kind[c] = "notify"]]
    /\ hdr' = slot[c]
    /\ sent' = TRUE
    /\ Goto(c, "ring")
    /\ UNCHANGED <<sockVars, waitVars, freeCall, cmd, retVars, irqVars, locals, mipsVars>>

\* ... spins for as long as the flag it has just set is clear, then rings.
RingMips(c) ==
    /\ pc[c] = "ring"
    /\ sent
    /\ callIrq' = callIrq + 1
    /\ Goto(c, "ackwait")
    /\ UNCHANGED <<sockVars, waitVars, callVars, retVars, ackIrq, retIrq, ackWork, retWork,
                   retBusy, locals, mipsVars>>

-----------------------------------------------------------------------------
(* SendComm2CPUEx: from the ACK on                                         *)

\* Step 19, acknowledged: the ARM advances the read index of the CallCmd FIFO.
AckReceived(c) ==
    /\ pc[c] = "ackwait"
    /\ ackSem > 0
    /\ ackSem' = ackSem - 1
    /\ cmd' = IF cmd > 0 THEN cmd - 1 ELSE 0
    /\ status' = [status EXCEPT ![c] = "ok"]
    /\ Goto(c, "up")
    /\ UNCHANGED <<sendSem, sid, waitVars, freeCall, call, hdr, sent, retVars, irqVars, kind,
                   slot, sess, wait, result, begun, case, late, mipsVars>>

\* Step 19, timed out: MSG_FLAG_SENT is cleared; the call slot is not returned.
AckTimedOut(c) ==
    /\ pc[c] = "ackwait"
    /\ "ack" \in case.may /\ ackSem = 0
    /\ late' = late \cup {"ack"}
    /\ sent' = FALSE
    /\ status' = [status EXCEPT ![c] = "timeout"]
    /\ Goto(c, IF wait[c] = None THEN "up" ELSE "unwait")
    /\ UNCHANGED <<sockVars, waitVars, freeCall, cmd, call, hdr, retVars, irqVars, kind, slot,
                   sess, wait, result, begun, case, mipsVars>>

\* GetWaitbySessionId takes a wait entry of session s off the active list, and
\* ReleaseWaitComm puts one into the FreeWait FIFO.
Unlist(s) == IF \E w \in waitList : session[w] = s
             THEN \E w \in waitList : session[w] = s /\ waitList' = waitList \ {w}
             ELSE UNCHANGED waitList

\* The clean-up of the timeout: the wait entry is released.
ReleaseTimedOut(c) ==
    /\ pc[c] = "unwait"
    /\ Unlist(session[wait[c]])
    /\ freeWait' = Append(freeWait, wait[c])
    /\ Goto(c, "up")
    /\ UNCHANGED <<sockVars, session, waitSem, callVars, retVars, irqVars, locals, mipsVars>>

\* out_up_sem; CPUComm_CallEx goes on when the send was acknowledged.
ReleaseSend(c) ==
    /\ pc[c] = "up"
    /\ sendSem' = sendSem + 1
    /\ Goto(c, IF kind[c] = "call" /\ status[c] = "ok" THEN "retwait" ELSE "idle")
    /\ UNCHANGED <<ackSem, sid, waitVars, callVars, retVars, irqVars, locals, mipsVars>>

-----------------------------------------------------------------------------
(* CPUComm_CallEx: after SendComm2CPUEx                                    *)

\* FindWaitBySessionId, then down_timeout on the semaphore of the entry.
WaitReturn(c) ==
    /\ pc[c] = "retwait"
    /\ \E w \in waitList : /\ session[w] = sess[c]
                           /\ waitSem[w] > 0
                           /\ waitSem' = [waitSem EXCEPT ![w] = @ - 1]
    /\ Goto(c, "getret")
    /\ UNCHANGED <<sockVars, freeWait, session, waitList, callVars, retVars, irqVars, locals,
                   mipsVars>>

\* The 500 ms are over; the result of down_timeout is ignored.
WaitReturnTimedOut(c) ==
    /\ pc[c] = "retwait"
    /\ "ret" \in case.may
    /\ \E w \in waitList : session[w] = sess[c] /\ waitSem[w] = 0
    /\ late' = late \cup {"ret"}
    /\ Goto(c, "getret")
    /\ UNCHANGED <<sockVars, waitVars, callVars, retVars, irqVars, kind, slot, sess, wait, status,
                   result, begun, case, mipsVars>>

\* No entry of this session is listed: there is no wait.
WaitNotListed(c) ==
    /\ pc[c] = "retwait"
    /\ \A w \in waitList : session[w] # sess[c]
    /\ Goto(c, "getret")
    /\ UNCHANGED <<sockVars, waitVars, callVars, retVars, irqVars, locals, mipsVars>>

\* The return of this session is copied out and its slot released, ...
GetReturnbySessionId(c) ==
    /\ pc[c] = "getret"
    /\ \E r \in returns : /\ ret[r].session = sess[c]
                          /\ returns' = returns \ {r}
                          /\ freeRet' = Append(freeRet, r)
                          /\ result' = [result EXCEPT ![c] = ret[r].session]
    /\ Goto(c, "relwait")
    /\ UNCHANGED <<sockVars, waitVars, callVars, ret, retHdr, retSent, ackSent, retAck, irqVars,
                   kind, slot, sess, wait, status, begun, case, late, todo, acks, unacked, taken>>

\* ... or there is none: a warning, and CallEx still returns 0.
NullReturn(c) ==
    /\ pc[c] = "getret"
    /\ \A r \in returns : ret[r].session # sess[c]
    /\ Goto(c, "relwait")
    /\ UNCHANGED <<sockVars, waitVars, callVars, retVars, irqVars, locals, mipsVars>>

\* GetWaitbySessionId + ReleaseWaitComm at the end of CPUComm_CallEx.
ReleaseWaitComm(c) ==
    /\ pc[c] = "relwait"
    /\ IF \E w \in waitList : session[w] = sess[c]
       THEN \E w \in waitList : /\ session[w] = sess[c]
                                /\ waitList' = waitList \ {w}
                                /\ freeWait' = Append(freeWait, w)
       ELSE UNCHANGED <<waitList, freeWait>>
    /\ Goto(c, "idle")
    /\ UNCHANGED <<sockVars, session, waitSem, callVars, retVars, irqVars, locals, mipsVars>>

Caller(c) ==
    \/ \E k \in {"call", "notify"} : Begin(c, k)
    \/ AcquireSend(c) \/ BypassSend(c) \/ SendBusy(c) \/ Comm_GetFreeCall(c)
    \/ LoadSession(c) \/ StoreSession(c) \/ GetFreeWaitComm(c) \/ AddtoWaitComm(c)
    \/ SendCommLow(c) \/ RingMips(c)
    \/ AckReceived(c) \/ AckTimedOut(c) \/ ReleaseTimedOut(c) \/ ReleaseSend(c)
    \/ WaitReturn(c) \/ WaitReturnTimedOut(c) \/ WaitNotListed(c)
    \/ GetReturnbySessionId(c) \/ NullReturn(c) \/ ReleaseWaitComm(c)

-----------------------------------------------------------------------------
(* Interrupts and workers of the ARM                                       *)

\* A CALL_ACK doorbell: queueAction(2) schedules the work unless it is pending.
handle_CPU2_callACK ==
    /\ ackIrq
    /\ ackIrq' = FALSE /\ ackWork' = TRUE
    /\ UNCHANGED <<sockVars, waitVars, callVars, retVars, callIrq, retIrq, retWork, retBusy, pc,
                   locals, mipsVars>>

\* ack_action: consume the deposited ACK, if any, and up the sender's semaphore.
ack_action ==
    /\ ackWork
    /\ ackWork' = FALSE
    /\ ackSent' = FALSE
    /\ ackSem' = IF ackSent THEN ackSem + 1 ELSE ackSem
    /\ UNCHANGED <<sendSem, sid, waitVars, callVars, ret, retHdr, retSent, returns, retAck, callIrq,
                   ackIrq, retIrq, retWork, retBusy, pc, locals, mipsVars>>

\* A RETURN doorbell: cpu_comm_sync_mips_cache is the gate, then queueAction(1).
handle_CPU2_return ==
    /\ retIrq
    /\ retIrq' = FALSE /\ retSent' = FALSE
    /\ retWork' = (retWork \/ retSent)
    /\ UNCHANGED <<sockVars, waitVars, callVars, ret, retHdr, ackSent, returns, retAck, callIrq,
                   ackIrq, ackWork, retBusy, pc, locals, mipsVars>>

\* Mutant: the return is not queued.
BugSignalOnly ==
    /\ retWork /\ retBusy = None
    /\ retWork' = FALSE
    /\ UNCHANGED returns
    /\ retBusy' = retHdr
    /\ UNCHANGED <<sockVars, waitVars, callVars, ret, retHdr, retSent, ackSent, retAck, callIrq,
                   ackIrq, retIrq, ackWork, pc, locals, mipsVars>>

\* command_action(1): the return is queued first...
AddReturn2Fifo ==
    /\ retWork /\ retBusy = None
    /\ retWork' = FALSE
    /\ returns' = returns \cup {retHdr}
    /\ retBusy' = retHdr
    /\ UNCHANGED <<sockVars, waitVars, callVars, ret, retHdr, retSent, ackSent, retAck, callIrq,
                   ackIrq, retIrq, ackWork, pc, locals, mipsVars>>

\* Mutant: the RETURN is not acknowledged.
BugNoReturnAck ==
    LET r == ret[retBusy] IN
    /\ retBusy # None
    /\ retBusy' = None
    /\ IF r.wait # None /\ session[r.wait] = r.session
       THEN waitSem' = [waitSem EXCEPT ![r.wait] = @ + 1] /\ retHdr' = None
       ELSE UNCHANGED <<waitSem, retHdr>>
    /\ UNCHANGED <<sockVars, freeWait, session, waitList, callVars, ret, retSent, ackSent, returns,
                   retAck, callIrq, ackIrq, retIrq, ackWork, retWork, pc, locals, mipsVars>>

\* ... then the wait entry named in it is signalled, byte 16 of the header reset and
\* the RETURN acknowledged (SendAckLow; with the flag already set it stays set).  With
\* another session in that entry the handler stops without any of it.
SignalWait ==
    LET r == ret[retBusy] IN
    /\ retBusy # None
    /\ retBusy' = None
    /\ IF r.wait # None /\ session[r.wait] = r.session
       THEN /\ waitSem' = [waitSem EXCEPT ![r.wait] = @ + 1]
            /\ retHdr' = None /\ retAck' = TRUE
       ELSE UNCHANGED <<waitSem, retHdr, retAck>>
    /\ UNCHANGED <<sockVars, freeWait, session, waitList, callVars, ret, retSent, ackSent, returns,
                   callIrq, ackIrq, retIrq, ackWork, retWork, pc, locals, mipsVars>>

Worker == handle_CPU2_callACK \/ ack_action \/ handle_CPU2_return \/ AddReturn2Fifo \/ SignalWait

-----------------------------------------------------------------------------
(* The MIPS (external): the protocol the driver's comments describe        *)

\* Take the call in the header, if its flag is still set.
MipsTake ==
    /\ callIrq > 0
    /\ callIrq' = callIrq - 1 /\ sent' = FALSE
    /\ IF sent
       THEN /\ todo' = todo \cup {[slot |-> hdr, session |-> call[hdr].session,
                                   wait |-> call[hdr].wait, notify |-> call[hdr].notify]}
            /\ acks' = acks + 1
            /\ cmd' = cmd + 1
            /\ taken' = taken \cup {call[hdr].session}
       ELSE UNCHANGED <<todo, acks, cmd, taken>>
    /\ UNCHANGED <<sockVars, waitVars, freeCall, call, hdr, retVars, ackIrq, retIrq, ackWork,
                   retWork, retBusy, pc, locals, freeRet, unacked>>

\* Deposit a CALL_ACK and ring; it waits while the previous one is not consumed.
MipsAck ==
    /\ acks > 0 /\ ~ackSent
    /\ acks' = acks - 1
    /\ ackSent' = TRUE /\ ackIrq' = TRUE
    /\ UNCHANGED <<sockVars, waitVars, callVars, ret, retHdr, retSent, returns, retAck, callIrq, retIrq,
                   ackWork, retWork, retBusy, pc, locals, freeRet, todo, unacked, taken>>

\* Answer a call: release its slot and send a RETURN, one at a time.
MipsReturn(m) ==
    /\ ~unacked /\ ~m.notify
    /\ freeRet # << >>
    /\ freeRet' = Tail(freeRet)
    /\ freeCall' = Append(freeCall, m.slot)
    /\ ret' = [ret EXCEPT ![Head(freeRet)] = [session |-> m.session, wait |-> m.wait]]
    /\ retHdr' = Head(freeRet)
    /\ retSent' = TRUE /\ retIrq' = TRUE
    /\ unacked' = TRUE
    /\ todo' = todo \ {m}
    /\ UNCHANGED <<sockVars, waitVars, cmd, call, hdr, sent, ackSent, returns, retAck, callIrq,
                   ackIrq, ackWork, retWork, retBusy, pc, locals, acks, taken>>

\* The RETURN_ACK doorbell: the next RETURN may be sent.
MipsRetAcked ==
    /\ retAck
    /\ retAck' = FALSE /\ unacked' = FALSE
    /\ UNCHANGED <<sockVars, waitVars, callVars, ret, retHdr, retSent, ackSent, returns, irqVars, pc,
                   locals, freeRet, todo, acks, taken>>

\* A notification has no answer.
MipsDone(m) ==
    /\ m.notify
    /\ freeCall' = Append(freeCall, m.slot)
    /\ todo' = todo \ {m}
    /\ UNCHANGED <<sockVars, waitVars, cmd, call, hdr, sent, retVars, irqVars, pc, locals,
                   freeRet, acks, unacked, taken>>

Mips == MipsTake \/ MipsAck \/ MipsRetAcked \/ \E m \in todo : MipsReturn(m) \/ MipsDone(m)

Next == (\E c \in Callers : Caller(c)) \/ Worker \/ Mips

Spec == Init /\ [][Next]_vars

\* Every thread, work item and timer runs; a MIPS that is up answers.  Callers
\* need not begin another call.
FairSpec ==
    /\ Spec
    /\ \A c \in Callers : WF_vars(Caller(c) /\ ~\E k \in {"call", "notify"} : Begin(c, k))
    /\ WF_vars(handle_CPU2_callACK) /\ WF_vars(ack_action)
    /\ WF_vars(handle_CPU2_return) /\ WF_vars(AddReturn2Fifo) /\ WF_vars(SignalWait)
    /\ WF_vars(MipsTake) /\ WF_vars(MipsAck) /\ WF_vars(MipsRetAcked)
    /\ WF_vars(\E m \in todo : MipsReturn(m) \/ MipsDone(m))

-----------------------------------------------------------------------------
(* Properties                                                              *)

Sending == {"getcall", "session", "store", "getwait", "addwait", "send", "ring", "ackwait",
            "unwait", "up"}

\* The semaphores never go below zero, the FIFOs hold entries of their own pool
\* and every pointer a handler follows is one of its pool or null.
TypeOK ==
    /\ sendSem \in Nat /\ ackSem \in Nat /\ sid \in Nat /\ cmd \in Nat /\ acks \in Nat
    /\ freeWait \in Seq(Waits) /\ freeCall \in Seq(Calls) /\ freeRet \in Seq(Rets)
    /\ session \in [Waits -> Nat] /\ waitSem \in [Waits -> Nat] /\ waitList \subseteq Waits
    /\ call \in [Calls -> [session : Nat, wait : Waits \cup {None}, notify : BOOLEAN]]
    /\ ret \in [Rets -> [session : Nat, wait : Waits \cup {None}]]
    /\ hdr \in Calls \cup {None} /\ retHdr \in Rets \cup {None}
    /\ callIrq \in Nat
    /\ {sent, retSent, ackSent, retAck, ackIrq, retIrq, ackWork, retWork, unacked} \subseteq BOOLEAN
    /\ returns \subseteq Rets /\ retBusy \in Rets \cup {None} /\ taken \subseteq Nat
    /\ pc \in [Callers -> Sending \cup {"idle", "down", "retwait", "getret", "relwait"}]
    /\ kind \in [Callers -> {"call", "notify"}]
    /\ slot \in [Callers -> Calls \cup {None}] /\ wait \in [Callers -> Waits \cup {None}]
    /\ sess \in [Callers -> Nat] /\ result \in [Callers -> Nat]
    /\ status \in [Callers -> {"none", "ok", "busy", "timeout"}]
    /\ case \in Cases /\ begun \in 0 .. case.calls /\ late \subseteq case.may
    /\ \A m \in todo : m \in [slot : Calls, session : Nat, wait : Waits \cup {None},
                              notify : BOOLEAN]

Distinct(q) == \A i, j \in DOMAIN q : q[i] = q[j] => i = j

\* Every wait entry is free once or on the active list, never both and never lost.
WaitsConserved ==
    /\ Distinct(freeWait)
    /\ {freeWait[i] : i \in DOMAIN freeWait} = Waits \ waitList

\* The call slots a sender holds: taken from the FIFO, not yet from the header.
WithSender == {slot[c] : c \in {d \in Callers : pc[d] \in {"store", "getwait", "addwait", "send"}}}
              \cup (IF sent THEN {hdr} ELSE {})
WithMips   == {m.slot : m \in todo}
FreeCalls  == {freeCall[i] : i \in DOMAIN freeCall}

\* A call slot is never at two places: while a thread fills it or the MIPS works
\* on it, it is not free and not another message's.
SlotExclusive ==
    /\ Distinct(freeCall)
    /\ FreeCalls \cap WithMips = {} /\ FreeCalls \cap WithSender = {}
    /\ WithMips \cap WithSender = {}
    /\ \A m, n \in todo : m.slot = n.slot => m = n

SlotsKept == FreeCalls \cup WithMips \cup WithSender = Calls

NoBypass     == "sem" \notin late             \* nobody has gone past the send semaphore
NoAckTimeout == late \cap {"sem", "ack"} = {} \* ... nor given up on a CALL_ACK
NoTimeout    == late = {}                     \* ... nor on a RETURN

\* Until a caller first goes past the send semaphore (after 100 ms, which a CALL_ACK
\* that is late makes likely) no wait entry is lost or used twice and no call slot
\* used twice, whatever CALL_ACKs and RETURNs are given up; and no call slot is lost
\* until a CALL_ACK is given up.  (That call keeps its slot until the MIPS handles it.)
PoolsConserved ==
    /\ TypeOK
    /\ NoBypass => WaitsConserved /\ SlotExclusive
    /\ NoAckTimeout => SlotsKept

\* A call that returned 0 has its own result: "Returns 0 on success".
CallHasResult ==
    \A c \in Callers :
        pc[c] = "idle" /\ kind[c] = "call" /\ status[c] = "ok" => result[c] = sess[c]

\* A send that returned 0 was received: its own message was acknowledged.
AckIsOwn == \A c \in Callers : status[c] = "ok" => sess[c] \in taken

\* Until a CALL_ACK is given up a send that succeeded was acknowledged itself, late
\* RETURNs or not; until any timeout runs out a call that succeeded has its own result.
CallIsOwn == (NoAckTimeout => AckIsOwn) /\ (NoTimeout => CallHasResult)

\* Every call and every notification returns to its caller.
CallReturns == \A c \in Callers : pc[c] # "idle" ~> pc[c] = "idle"

\* As long as no timeout runs out, every call comes back, and every RETURN the
\* MIPS sends is acknowledged, so that it may send the next one.
CallsComplete == []NoTimeout => CallReturns /\ (unacked ~> ~unacked)
-----------------------------------------------------------------------------
(* The inductive invariant: what holds between the steps of a call         *)

Fills(c) == pc[c] \in {"store", "getwait", "addwait", "send"}   \* a call slot out of the FIFO
AtAck(c) == pc[c] \in {"ring", "ackwait"}                       \* the call is in the header, or was

\* The wait entry of c is on the active list, and c will take it off.
Holding(c) ==
    /\ wait[c] # None
    /\ \/ pc[c] \in {"send", "ring", "ackwait", "unwait", "retwait", "getret", "relwait"}
       \/ pc[c] = "up" /\ status[c] = "ok"

\* The call of c has been sent and has not seen its RETURN; or has not fetched it.
Awaits(c)   == Holding(c) /\ pc[c] \in {"ring", "ackwait", "up", "retwait"}
Collects(c) == Holding(c) /\ pc[c] \in {"ring", "ackwait", "up", "retwait", "getret"}

\* What the place of a thread says of its locals.
Place(c) ==
    /\ kind[c] = "notify" => wait[c] = None
    /\ pc[c] \in {"getwait", "addwait", "retwait", "getret", "relwait"} => kind[c] = "call"
    /\ pc[c] \in {"down", "getcall", "session", "store", "getwait"} => wait[c] = None
    /\ pc[c] \in {"addwait", "unwait"} => wait[c] # None
    /\ kind[c] = "call" /\ pc[c] \in {"send", "ring", "ackwait"} => wait[c] # None
    /\ kind[c] = "call" /\ status[c] = "ok" => wait[c] # None
    /\ Fills(c) \/ AtAck(c) \/ Holding(c) \/ status[c] = "ok" => sess[c] # 0
    /\ pc[c] \in {"retwait", "getret", "relwait"} => status[c] = "ok"
    /\ status[c] = "ok" => pc[c] \in {"up", "retwait", "getret", "relwait", "idle"}
    /\ pc[c] = "session" \/ Fills(c) => slot[c] \in Calls

Places == \A c \in Callers : Place(c)

RetLive == retSent \/ retWork      \* a RETURN is in the header

\* A header that is in use names a slot.
Headers == (sent => hdr \in Calls) /\ (RetLive => retHdr \in Rets)

\* The MIPS sends one RETURN at a time: it is in the header, being handled, or its
\* RETURN_ACK is on the way.
RetOne ==
    /\ retBusy # None => ~RetLive
    /\ ~(retSent /\ retWork)
    /\ RetLive \/ retBusy # None => unacked /\ ~retAck
    /\ retAck => unacked

\* The send semaphore is down while a thread sends, and only one does.
SemDown ==
    /\ sendSem <= 1
    /\ \A c \in Callers : pc[c] \in Sending => sendSem = 0
    /\ \A c, d \in Callers : pc[c] \in Sending /\ pc[d] \in Sending => c = d

\* A session number belongs to one thread: the next one is not yet in use.
Numbers ==
    /\ \A c \in Callers : IF pc[c] = "store" THEN sess[c] = sid + 1 ELSE sess[c] <= sid
    /\ \A c, d \in Callers : sess[c] = sess[d] /\ sess[c] # 0 => c = d

\* An entry on the active list is that of one call, and has its session.
WaitsHeld ==
    /\ \A c \in Callers : Holding(c) => wait[c] \in waitList /\ session[wait[c]] = sess[c]
    /\ \A w \in waitList : \E c \in Callers : Holding(c) /\ wait[c] = w
    /\ \A c \in Callers : pc[c] = "addwait" => freeWait # << >> /\ wait[c] = Head(freeWait)

\* A sender's slot is the head of the FreeCall FIFO until it takes it, and not
\* the one in the header until it has filled it.
SlotsHeld ==
    /\ \A c \in Callers : pc[c] = "session" => freeCall # << >> /\ slot[c] = Head(freeCall)
    /\ \A c \in Callers : Fills(c) /\ sent => slot[c] # hdr

One(b) == IF b THEN 1 ELSE 0
InFlight == One(sent) + acks + One(ackSent) + ackSem

\* While a sender waits for its CALL_ACK, the call is in the header or the ACK of it
\* is on its way; otherwise there is neither.  Nobody cleans up after a timeout.
AckPending ==
    /\ \A c \in Callers : AtAck(c) => InFlight = 1
    /\ (\A c \in Callers : ~AtAck(c)) => InFlight = 0
    /\ \A c \in Callers : pc[c] # "unwait"
    /\ \A c \in Callers : AtAck(c) =>
          IF sent THEN hdr = slot[c] /\ call[hdr] = [session |-> sess[c], wait |-> wait[c],
                                                     notify |-> kind[c] = "notify"]
                  ELSE sess[c] \in taken

FreeRets    == {freeRet[i] : i \in DOMAIN freeRet}
Returned(s) == \E r \in returns : ret[r].session = s
Asked(s)    == \E m \in todo : ~m.notify /\ m.session = s

\* A RETURN is in a return slot that is not free.
RetSlots ==
    /\ Distinct(freeRet) /\ FreeRets \cap returns = {}
    /\ RetLive => retHdr \notin FreeRets \cup returns
    /\ retBusy # None => retBusy \in returns

\* The answer to a call is at one place, and the call waits for it: the MIPS works on
\* it, ...
AskedOnce ==
    /\ \A m \in todo : ~m.notify =>
          /\ \E c \in Callers : Awaits(c) /\ sess[c] = m.session /\ wait[c] = m.wait
          /\ ~Returned(m.session)
    /\ \A m, n \in todo : ~m.notify /\ ~n.notify /\ m.session = n.session => m = n

\* ... the RETURN is in the header, ...
ArrivesOnce ==
    RetLive =>
          /\ \E c \in Callers : /\ Awaits(c)
                                /\ sess[c] = ret[retHdr].session /\ wait[c] = ret[retHdr].wait
          /\ ~Returned(ret[retHdr].session) /\ ~Asked(ret[retHdr].session)

\* ... or queued, ...
ReturnedOnce ==
    /\ \A r \in returns :
          \E c \in Callers : Collects(c) /\ sess[c] = ret[r].session /\ wait[c] = ret[r].wait
    /\ \A r, s \in returns : ret[r].session = ret[s].session => r = s

\* ... and nowhere before the MIPS has the call.
NoAnswer(s) == ~Returned(s) /\ ~Asked(s) /\ (RetLive => ret[retHdr].session # s)
NotYetAsked == \A c \in Callers : sent /\ AtAck(c) => NoAnswer(sess[c])

AnswerOnce == AskedOnce /\ ArrivesOnce /\ ReturnedOnce /\ NotYetAsked

\* The RETURN of this session is queued and its call has been signalled.
Ready(s) == \E r \in returns \ {retBusy} : ret[r].session = s

\* A wait entry is signalled once, for a call whose RETURN is there.
Signals ==
    /\ \A w \in Waits : waitSem[w] # 0 =>
          waitSem[w] = 1 /\ \E c \in Callers : Awaits(c) /\ wait[c] = w /\ Ready(sess[c])
    /\ \A c \in Callers : pc[c] = "getret" => Ready(sess[c])
    /\ \A c \in Callers : pc[c] = "relwait" => result[c] = sess[c]

Shared == SemDown /\ Numbers /\ WaitsHeld /\ WaitsConserved /\ SlotsHeld /\ SlotExclusive
Acked  == AckPending /\ AckIsOwn /\ SlotsKept
Exact  == RetSlots /\ AnswerOnce /\ Signals /\ CallHasResult

RpcIInv ==
    /\ TypeOK /\ Places /\ Headers /\ RetOne
    /\ (NoBypass => Shared) /\ (NoAckTimeout => Acked) /\ (NoTimeout => Exact)
==============================================================================
