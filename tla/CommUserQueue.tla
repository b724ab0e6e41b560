----------------------------- MODULE CommUserQueue -----------------------------
(***************************************************************************)
(* The delivery of MIPS calls to user space, drivers/cpu_comm/             *)
(* cpu_comm_user.c: a bounded queue and a wait queue for every open file   *)
(* of /dev/cpu_comm, filled by cpu_comm_userspace_deliver and emptied by   *)
(* read().  A step of a reader is what it does under ctx->lock, or between *)
(* two such sections.  Deliver puts a message into every queue and then,   *)
(* the locks of the queues released, wakes the readers file by file; it    *)
(* holds the list lock until the last is woken, so that files are opened   *)
(* and closed, and the next message delivered, before or after.            *)
(***************************************************************************)
EXTENDS Integers, Sequences

CONSTANTS Files,       \* struct file objects of /dev/cpu_comm
          Readers,     \* user threads
          File,        \* the file each thread reads: [Readers -> Files]
          NonBlock,    \* files opened with O_NONBLOCK
          QueueMax,    \* USER_QUEUE_MAX, 32 in the driver
          MaxMsgs      \* bound: messages delivered

ASSUME UserAssumption == /\ File \in [Readers -> Files]
                         /\ NonBlock \subseteq Files
                         /\ QueueMax \in Nat \ {0} /\ MaxMsgs \in Nat

VARIABLES opened,      \* contexts on the list cpu_comm_user_ctxs
          queue,       \* ctx->queue
          queue_count, \* ctx->queue_count
          dropped,     \* ctx->dropped
          waking,      \* contexts whose wake_up_interruptible is still to come
          pc,          \* where each thread is
          clock,       \* messages delivered so far; message n is the n-th
          sentTo,      \* per file: deliveries since open
          taken,       \* per file: messages read() has taken since open
          lastTaken    \* per file: the message it took last

ctxVars == <<opened, queue, queue_count, dropped>>
ghosts  == <<sentTo, taken, lastTaken>>
vars    == <<ctxVars, waking, pc, clock, ghosts>>

Init == /\ opened = {}
        /\ queue = [f \in Files |-> << >>]
        /\ queue_count = [f \in Files |-> 0] /\ dropped = [f \in Files |-> 0]
        /\ waking = {} /\ pc = [r \in Readers |-> "idle"]
        /\ clock = 0
        /\ sentTo = [f \in Files |-> 0] /\ taken = [f \in Files |-> 0]
        /\ lastTaken = [f \in Files |-> 0]

Goto(r, s) == pc' = [pc EXCEPT ![r] = s]

\* kzalloc clears the context.
cpu_comm_user_open(f) ==
    /\ f \notin opened /\ waking = {}
    /\ opened' = opened \cup {f}
    /\ queue' = [queue EXCEPT ![f] = << >>]
    /\ queue_count' = [queue_count EXCEPT ![f] = 0]
    /\ dropped' = [dropped EXCEPT ![f] = 0]
    /\ sentTo' = [sentTo EXCEPT ![f] = 0] /\ taken' = [taken EXCEPT ![f] = 0]
    /\ lastTaken' = [lastTaken EXCEPT ![f] = 0]
    /\ UNCHANGED <<waking, pc, clock>>

\* The last reference to the file is gone: no thread is inside read().
cpu_comm_user_release(f) ==
    /\ f \in opened /\ waking = {}
    /\ \A r \in Readers : File[r] = f => pc[r] \in {"idle", "polled"}
    /\ opened' = opened \ {f}
    /\ queue' = [queue EXCEPT ![f] = << >>]
    /\ queue_count' = [queue_count EXCEPT ![f] = 0]
    /\ pc' = [r \in Readers |-> IF File[r] = f THEN "idle" ELSE pc[r]]
    /\ UNCHANGED <<waking, dropped, clock, ghosts>>

-----------------------------------------------------------------------------
(* cpu_comm_userspace_deliver                                              *)

Full(f) == queue_count[f] >= QueueMax

\* The queue of f after its oldest entry made room and m was added at the tail.
Pushed(f, m) == Append(IF Full(f) THEN Tail(queue[f]) ELSE queue[f], m)

\* Mutant: a failed allocation is not counted.
BugSilentDrop(m, noMem) ==
    LET to == opened \ noMem IN
    /\ waking = {} /\ waking' = to
    /\ queue' = [f \in Files |-> IF f \in to THEN Pushed(f, m) ELSE queue[f]]
    /\ queue_count' = [f \in Files |-> IF f \in to /\ ~Full(f) THEN queue_count[f] + 1
                                       ELSE queue_count[f]]
    /\ dropped' = [f \in Files |-> IF f \in to /\ Full(f) THEN dropped[f] + 1 ELSE dropped[f]]
    /\ sentTo' = [f \in Files |-> IF f \in opened THEN sentTo[f] + 1 ELSE sentTo[f]]
    /\ UNCHANGED <<opened, pc, taken, lastTaken>>

\* A copy of m to every context; kmalloc fails for those in noMem.
cpu_comm_userspace_deliver(m, noMem) ==
    LET to == opened \ noMem IN
    /\ waking = {} /\ waking' = to
    /\ queue' = [f \in Files |-> IF f \in to THEN Pushed(f, m) ELSE queue[f]]
    /\ queue_count' = [f \in Files |-> IF f \in to /\ ~Full(f) THEN queue_count[f] + 1
                                       ELSE queue_count[f]]
    /\ dropped' = [f \in Files |-> IF f \in opened /\ (f \in noMem \/ Full(f))
                                   THEN dropped[f] + 1 ELSE dropped[f]]
    /\ sentTo' = [f \in Files |-> IF f \in opened THEN sentTo[f] + 1 ELSE sentTo[f]]
    /\ UNCHANGED <<opened, pc, taken, lastTaken>>

\* Every thread on the wait queue of f tests the queue again.
wake_up_interruptible(f) ==
    /\ f \in waking
    /\ waking' = waking \ {f}
    /\ pc' = [r \in Readers |-> IF pc[r] \in {"onqueue", "sleep"} /\ File[r] = f THEN "wait"
                                ELSE pc[r]]
    /\ UNCHANGED <<ctxVars, clock, ghosts>>

Deliver == /\ clock < MaxMsgs
           /\ clock' = clock + 1
           /\ \E noMem \in SUBSET opened : cpu_comm_userspace_deliver(clock + 1, noMem)

-----------------------------------------------------------------------------
(* cpu_comm_user_poll and cpu_comm_user_read                               *)

\* POLLIN: the thread will call read().  (Without POLLIN nothing changes.)
cpu_comm_user_poll(r) ==
    /\ pc[r] = "idle"
    /\ File[r] \in opened
    /\ queue[File[r]] # << >>
    /\ Goto(r, "polled")
    /\ UNCHANGED <<ctxVars, waking, clock, ghosts>>

cpu_comm_user_read(r) ==
    /\ pc[r] \in {"idle", "polled"}
    /\ File[r] \in opened
    /\ Goto(r, "try")
    /\ UNCHANGED <<ctxVars, waking, clock, ghosts>>

\* Mutant: the newest message is taken.
BugTakeNewest(r) ==
    LET f == File[r] IN
    /\ pc[r] = "try"
    /\ IF queue[f] # << >>
       THEN /\ queue' = [queue EXCEPT ![f] = SubSeq(@, 1, Len(@) - 1)]
            /\ queue_count' = [queue_count EXCEPT ![f] = @ - 1]
            /\ taken' = [taken EXCEPT ![f] = @ + 1]
            /\ lastTaken' = [lastTaken EXCEPT ![f] = queue[f][Len(queue[f])]]
            /\ Goto(r, "copy")
       ELSE /\ Goto(r, IF f \in NonBlock THEN "idle" ELSE "wait")
            /\ UNCHANGED <<queue, queue_count, taken, lastTaken>>
    /\ UNCHANGED <<opened, waking, dropped, clock, sentTo>>

\* The oldest message leaves the queue; copy_to_user follows, which may fault
\* and lose it.  An empty queue is -EAGAIN or a wait.
Take(r) ==
    LET f == File[r] IN
    /\ pc[r] = "try"
    /\ IF queue[f] # << >>
       THEN /\ queue' = [queue EXCEPT ![f] = Tail(@)]
            /\ queue_count' = [queue_count EXCEPT ![f] = @ - 1]
            /\ taken' = [taken EXCEPT ![f] = @ + 1]
            /\ lastTaken' = [lastTaken EXCEPT ![f] = Head(queue[f])]
            /\ Goto(r, "copy")
       ELSE /\ Goto(r, IF f \in NonBlock THEN "idle" ELSE "wait")
            /\ UNCHANGED <<queue, queue_count, taken, lastTaken>>
    /\ UNCHANGED <<opened, waking, dropped, clock, sentTo>>

\* Mutant: the condition was tested before the thread went on the wait queue.
BugTestFirst(r) ==
    /\ pc[r] = "wait"
    /\ Goto(r, "sleep")
    /\ UNCHANGED <<ctxVars, waking, clock, ghosts>>

\* wait_event_interruptible: on the wait queue first, ...
PrepareToWait(r) ==
    /\ pc[r] = "wait"
    /\ Goto(r, "onqueue")
    /\ UNCHANGED <<ctxVars, waking, clock, ghosts>>

\* ... then the condition, without ctx->lock, and to sleep if it is false.
WaitEvent(r) ==
    /\ pc[r] = "onqueue"
    /\ Goto(r, IF queue[File[r]] # << >> THEN "try" ELSE "sleep")
    /\ UNCHANGED <<ctxVars, waking, clock, ghosts>>

\* A signal ends the wait; the message in hand is copied out or faults.
ReadReturns(r) ==
    /\ \/ pc[r] = "copy"
       \/ pc[r] \in {"onqueue", "sleep"} /\ queue[File[r]] = << >>
    /\ Goto(r, "idle")
    /\ UNCHANGED <<ctxVars, waking, clock, ghosts>>

Reader(r) == \/ cpu_comm_user_poll(r) \/ cpu_comm_user_read(r) \/ Take(r)
             \/ PrepareToWait(r) \/ WaitEvent(r) \/ ReadReturns(r)

Next == \/ \E f \in Files : cpu_comm_user_open(f) \/ cpu_comm_user_release(f)
        \/ Deliver \/ \E f \in Files : wake_up_interruptible(f)
        \/ \E r \in Readers : Reader(r)

Spec == Init /\ [][Next]_vars

-----------------------------------------------------------------------------
(* Properties                                                              *)

\* A context's counters are never negative and its queue holds messages.
TypeOK == /\ opened \subseteq Files
          /\ queue \in [Files -> Seq(Nat)]
          /\ queue_count \in [Files -> Nat] /\ dropped \in [Files -> Nat]
          /\ waking \subseteq Files
          /\ pc \in [Readers -> {"idle", "polled", "try", "copy", "wait", "onqueue", "sleep"}]
          /\ clock \in Nat
          /\ sentTo \in [Files -> Nat] /\ taken \in [Files -> Nat]
          /\ lastTaken \in [Files -> Nat]

\* queue_count, which decides when the oldest message is dropped, is the length
\* of the list, and neither passes USER_QUEUE_MAX.
CountMatchesQueue ==
    \A f \in Files : queue_count[f] = Len(queue[f]) /\ queue_count[f] <= QueueMax

\* Every message delivered to a file since open() is in its queue, was taken by
\* a read() or is counted in ctx->dropped: overflow and a failed kmalloc
\* included, none vanishes and none is counted twice.
EveryMessageAccounted ==
    \A f \in opened : sentTo[f] = taken[f] + Len(queue[f]) + dropped[f]

\* read() takes messages off the queue in the order of their delivery, with several
\* threads reading one file too; an overflow only leaves out the oldest.  (Each copies
\* its message out after the unlock: two threads may return in either order.)
DeliveryOrder ==
    \A f \in Files :
        /\ \A i \in 1 .. Len(queue[f]) : lastTaken[f] < queue[f][i] /\ queue[f][i] <= clock
        /\ \A i, j \in 1 .. Len(queue[f]) : i < j => queue[f][i] < queue[f][j]

\* No wake-up is lost: a thread asleep in read() has nothing to read, unless the
\* wake-up for it is on its way.
SleeperHasNothing ==
    \A r \in Readers : pc[r] = "sleep" => queue[File[r]] = << >> \/ File[r] \in waking

\* POLLIN is a promise to the only reader of a file: the read() that follows it
\* neither blocks nor returns -EAGAIN, overflow in between or not.
PollKept ==
    \A r \in Readers :
        pc[r] = "polled" /\ (\A s \in Readers : File[s] = File[r] => s = r)
            => queue[File[r]] # << >>

\* A message reaches the thread that waits for it, by sleeping or by polling: going
\* on the wait queue before the test closes the gap between the test and the sleep.
ReaderNotMissed == SleeperHasNothing /\ PollKept

\* The strengthening the proofs need: a thread past open() has its file open, and
\* the next message is newer than any that was taken.
BusyIsOpen  == \A r \in Readers : pc[r] # "idle" => File[r] \in opened
TakenBefore == \A f \in Files : lastTaken[f] <= clock

IInv == /\ TypeOK
        /\ CountMatchesQueue
        /\ EveryMessageAccounted
        /\ DeliveryOrder
        /\ SleeperHasNothing
        /\ PollKept
        /\ BusyIsOpen
        /\ TakenBefore
===============================================================================
