--------------------------- MODULE KeystoneMotor ---------------------------
(***************************************************************************)
(* The keystone motor: patches/0009-misc-add-hy310-keystone-motor.patch.   *)
(* Writers of the sysfs file motor_ctrl queue single steps; a work item    *)
(* runs them.  The board has one limit switch, at the upper end.           *)
(***************************************************************************)
EXTENDS Integers, Sequences, FiniteSets

CONSTANTS
  Writers,        \* open files of motor_ctrl
  QUEUE_MAX_LEN,  \* 64
  RateLimit,      \* 3, the queue length at which full_limit slows a writer
  BackStep,       \* m->back_step, DEFAULT_BACK_STEP is 5
  BackFree,       \* 3, the reverse steps that do not look at the switch
  Lim,            \* the position at which the switch closes
  HOMING_UP_MAX,  \* 100
  MaxSteps,       \* largest step count of a write (bound)
  MaxWrites       \* writes in a behaviour (bound)

ASSUME MotorAssumption ==
  /\ IsFiniteSet(Writers) /\ Writers # {}
  /\ QUEUE_MAX_LEN \in Nat \ {0} /\ RateLimit \in Nat /\ BackStep \in Nat /\ BackFree \in Nat
  /\ Lim \in Nat \ {0} /\ HOMING_UP_MAX \in Nat /\ MaxSteps \in Nat /\ MaxWrites \in Nat

VARIABLES
  pos,            \* where the mechanism stands, 0 .. Lim
  edge,           \* edge_up and edge_dn: [{"up", "dn"} -> BOOLEAN]
  no_limit,
  cmd_queue,      \* queued directions
  work_running,
  worker,         \* where the work item is; again: queued while running
  wr,             \* [Writers -> [at, dir, n]]
  writes,
  reversed,       \* reverse steps of the current back-off
  late            \* the queue was not empty when work_running was cleared

MotorVars == <<pos, edge, no_limit, cmd_queue, work_running, worker, wr, writes, reversed, late>>

Dir == {"up", "dn"}
Opp(d) == IF d = "up" THEN "dn" ELSE "up"

\* motor_run_up_mstep and motor_run_dn_mstep: the mechanism stops at its ends.
Moved(p, d) == IF d = "up" THEN (IF p < Lim THEN p + 1 ELSE p)
               ELSE (IF p > 0 THEN p - 1 ELSE p)
motor_limiter_status(p) == p >= Lim

---------------------------------------------------------------------------
(* motor_ctrl_store.                                                       *)

WriterAt(w, s) == wr' = [wr EXCEPT ![w].at = s]

\* motor_run_up_dn up to its loop.
motor_run_up_dn(w, d, steps, full) ==
  /\ wr[w].at = "idle" /\ writes < MaxWrites
  /\ writes' = writes + 1
  /\ wr' = IF edge[d] \/ (full /\ Len(cmd_queue) > RateLimit) THEN wr
           ELSE [wr EXCEPT ![w] =
                  [at |-> "test", dir |-> d,
                   n |-> IF full /\ Len(cmd_queue) = RateLimit THEN 1 ELSE steps]]
  /\ UNCHANGED <<pos, edge, no_limit, cmd_queue, work_running, worker, reversed, late>>

\* motor_enqueue looks at queue_len before it takes the lock.
EnqueueTest(w) ==
  /\ wr[w].at = "test"
  /\ WriterAt(w, IF wr[w].n = 0 \/ Len(cmd_queue) >= QUEUE_MAX_LEN
                 THEN "start" ELSE "add")
  /\ UNCHANGED <<pos, edge, no_limit, cmd_queue, work_running, worker, writes, reversed, late>>

motor_enqueue(w) ==
  /\ wr[w].at = "add"
  /\ cmd_queue' = Append(cmd_queue, wr[w].dir)
  /\ wr' = [wr EXCEPT ![w].at = "test", ![w].n = @ - 1]
  /\ UNCHANGED <<pos, edge, no_limit, work_running, worker, writes, reversed, late>>

\* The work is queued unless work_running is set.
Requeued(k) == [k EXCEPT !.again = @ \/ k.at # "idle",
                         !.at = IF @ = "idle" THEN "pending" ELSE @]
StartWork(w) ==
  /\ wr[w].at = "start"
  /\ WriterAt(w, "idle")
  /\ worker' = IF work_running THEN worker ELSE Requeued(worker)
  /\ work_running' = TRUE
  /\ UNCHANGED <<pos, edge, no_limit, cmd_queue, writes, reversed, late>>

\* Command 3, and the writes of motor_limit and motor_ctrl_no_limit.
motor_flush_queue ==
  /\ writes < MaxWrites /\ writes' = writes + 1
  /\ cmd_queue' = <<>>
  /\ UNCHANGED <<pos, edge, no_limit, work_running, worker, wr, reversed, late>>

motor_limit_store ==
  /\ writes < MaxWrites /\ writes' = writes + 1
  /\ edge' = [d \in Dir |-> FALSE]
  /\ UNCHANGED <<pos, no_limit, cmd_queue, work_running, worker, wr, reversed, late>>

motor_ctrl_no_limit_store ==
  /\ writes < MaxWrites /\ writes' = writes + 1
  /\ no_limit' = ~no_limit
  /\ UNCHANGED <<pos, edge, cmd_queue, work_running, worker, wr, reversed, late>>

---------------------------------------------------------------------------
(* motor_work_handler.                                                     *)

WorkStarts ==
  /\ worker.at = "pending"
  /\ worker' = [worker EXCEPT !.at = "loop", !.again = FALSE]
  /\ UNCHANGED <<pos, edge, no_limit, cmd_queue, work_running, wr, writes, reversed, late>>

\* motor_dequeue, and the edge check of motor_run_up_control.
motor_dequeue ==
  /\ worker.at = "loop"
  /\ IF cmd_queue = <<>>
     THEN /\ worker' = [worker EXCEPT !.at = "clear"]
          /\ UNCHANGED cmd_queue
     ELSE /\ worker' = [worker EXCEPT !.dir = Head(cmd_queue), !.i = 0,
                          !.at = IF edge[Head(cmd_queue)] /\ ~no_limit
                                 THEN "loop" ELSE "move"]
          /\ cmd_queue' = Tail(cmd_queue)
  /\ UNCHANGED <<pos, edge, no_limit, work_running, wr, writes, reversed, late>>

\* The end of motor_run_up_control.
Finish(e, d) == [e EXCEPT ![Opp(d)] = FALSE]

motor_run_control ==
  /\ worker.at = "move"
  /\ LET d == worker.dir
         p == Moved(pos, d)
         hit == ~no_limit /\ motor_limiter_status(p)
     IN /\ pos' = p
        /\ reversed' = 0
        /\ IF hit /\ BackStep > 0
           THEN worker' = [worker EXCEPT !.at = "back"] /\ UNCHANGED edge
           ELSE /\ worker' = [worker EXCEPT !.at = "loop"]
                /\ edge' = Finish([edge EXCEPT ![d] = @ \/ hit], d)
  /\ UNCHANGED <<no_limit, cmd_queue, work_running, wr, writes, late>>

\* One turn of the back-off loop: a reverse step, and off the switch with
\* i > 3 the turn is not counted.
NextTurn(p, i) == IF ~motor_limiter_status(p) /\ i > BackFree THEN i ELSE i + 1
ReverseBackOff ==
  /\ worker.at = "back"
  /\ LET d == worker.dir
         p == Moved(pos, Opp(d))
         i == NextTurn(p, worker.i)
     IN /\ pos' = p
        /\ reversed' = IF reversed > BackStep THEN reversed ELSE reversed + 1
        /\ IF i < BackStep
           THEN worker' = [worker EXCEPT !.i = i] /\ UNCHANGED edge
           ELSE /\ worker' = [worker EXCEPT !.at = "loop"]
                /\ edge' = Finish([edge EXCEPT ![d] = TRUE], d)
  /\ UNCHANGED <<no_limit, cmd_queue, work_running, wr, writes, late>>

\* Mutant: work_running is never cleared.
BugStaysRunning ==
  /\ worker.at = "clear"
  /\ worker' = [worker EXCEPT !.at = IF worker.again THEN "pending" ELSE "idle"]
  /\ late' = (cmd_queue # <<>>)
  /\ UNCHANGED <<pos, edge, no_limit, cmd_queue, work_running, wr, writes, reversed>>

WorkEnds ==
  /\ worker.at = "clear"
  /\ work_running' = FALSE
  /\ worker' = [worker EXCEPT !.at = IF worker.again THEN "pending" ELSE "idle"]
  /\ late' = (cmd_queue # <<>>)
  /\ UNCHANGED <<pos, edge, no_limit, cmd_queue, wr, writes, reversed>>

\* motor_initial_homing runs once, on the same single-threaded work queue:
\* up to the switch, or HOMING_UP_MAX steps up and then all the way down.
motor_initial_homing ==
  /\ worker.at = "homing"
  /\ pos' = IF Lim - pos <= HOMING_UP_MAX THEN Lim ELSE 0
  /\ edge' = [edge EXCEPT !["dn"] = @ \/ (pos < Lim /\ pos' = Lim)]
  /\ worker' = [worker EXCEPT !.at = IF worker.again THEN "pending" ELSE "idle"]
  /\ UNCHANGED <<no_limit, cmd_queue, work_running, wr, writes, reversed, late>>

MotorInit ==
  /\ pos \in 0 .. Lim /\ edge = [d \in Dir |-> FALSE] /\ no_limit = FALSE
  /\ cmd_queue = <<>> /\ work_running = FALSE /\ writes = 0 /\ reversed = 0
  /\ late = FALSE
  /\ worker = [at |-> "homing", dir |-> "up", i |-> 0, again |-> FALSE]
  /\ wr = [w \in Writers |-> [at |-> "idle", dir |-> "up", n |-> 0]]

MotorNext ==
  \/ \E w \in Writers :
       \/ \E d \in Dir, n \in 1 .. MaxSteps, full \in BOOLEAN : motor_run_up_dn(w, d, n, full)
       \/ EnqueueTest(w) \/ motor_enqueue(w) \/ StartWork(w)
  \/ motor_flush_queue \/ motor_limit_store \/ motor_ctrl_no_limit_store
  \/ WorkStarts \/ motor_dequeue \/ motor_run_control \/ ReverseBackOff \/ WorkEnds
  \/ motor_initial_homing

MotorSpec == MotorInit /\ [][MotorNext]_MotorVars

---------------------------------------------------------------------------
MotorTypeOK ==
  /\ pos \in 0 .. Lim /\ edge \in [Dir -> BOOLEAN] /\ cmd_queue \in Seq(Dir)
  /\ work_running \in BOOLEAN /\ writes \in 0 .. MaxWrites
  /\ worker.at \in {"homing", "idle", "pending", "loop", "move", "back", "clear"}

\* Steps are queued, nothing will run them, and no writer is about to.
Stranded ==
  /\ cmd_queue # <<>> /\ worker.at = "idle"
  /\ \A w \in Writers : wr[w].at = "idle"

(***************************************************************************)
(* motor_enqueue tests queue_len outside the lock, so the queue may grow   *)
(* past QUEUE_MAX_LEN, but by no more than the other writers; and a step   *)
(* that is queued is run, or flushed: the one way to leave it behind is to *)
(* queue it after the work item found the queue empty and before it cleared *)
(* work_running.                                                           *)
(***************************************************************************)
MotorQueueSound ==
  /\ MotorTypeOK
  /\ Len(cmd_queue) <= QUEUE_MAX_LEN + Cardinality(Writers) - 1
  /\ Stranded => late

\* The strengthening the proof needs.  A writer between its test and its insertion
\* has room kept for it; a command in the queue of a worker that will not run has a
\* writer that has yet to start it; and work_running is clear when the worker is idle.
Adding == {w \in Writers : wr[w].at = "add"}
Quiet == worker.at = "idle" \/ (worker.at = "homing" /\ ~worker.again)

ActorsOK ==
  /\ wr \in [Writers -> [at : {"idle", "test", "add", "start"}, dir : Dir, n : Int]]
  /\ worker \in [at : {"homing", "idle", "pending", "loop", "move", "back", "clear"},
                  dir : Dir, i : Int, again : BOOLEAN]
  /\ no_limit \in BOOLEAN /\ late \in BOOLEAN
RoomKept == Len(cmd_queue) + Cardinality(Adding) <= QUEUE_MAX_LEN + Cardinality(Writers) - 1
RunningTrue == Quiet => ~work_running
QueueServed == cmd_queue # <<>> /\ Quiet => late \/ \E w \in Writers : wr[w].at # "idle"

MotorIInv == MotorTypeOK /\ ActorsOK /\ RoomKept /\ RunningTrue /\ QueueServed

(***************************************************************************)
(* After a limit contact the motor is driven back by back_step steps, "steps *)
(* to reverse after limit" (the field's comment).                          *)
(***************************************************************************)
BackOffBounded == reversed <= BackStep
=============================================================================
