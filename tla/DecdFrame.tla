----------------------------- MODULE DecdFrame -----------------------------
(***************************************************************************)
(* The display side of the decoder driver: drivers/decd.  A client submits *)
(* frames with an ioctl; every vsync interrupt writes the queued frame to  *)
(* the hardware; a tasklet picks the next one; a work item releases what   *)
(* the hardware has left behind.  The records fmgr and q are the structs   *)
(* dec_frame_manager and dec_frame_queue.                                  *)
(*                                                                         *)
(* Frames carry no split fields, so q->interlace stays 0 and the branches  *)
(* of the tasklet for it, and the states 4 and 5, are left out.            *)
(***************************************************************************)
EXTENDS Integers, Sequences, FiniteSets

CONSTANTS
  MaxFrames,   \* frames created in a behaviour
  MaxRepeat,   \* largest repeat count of a submission
  MaxPairs,    \* interlace set-ups in a behaviour
  MaxEnables,  \* times the device is enabled
  MaxRefs,     \* references of a field of the pair (see RefreshPair)
  InfoPages    \* pages of the video info pool

ASSUME DecdAssumption == MaxFrames \in Nat /\ MaxRepeat \in Nat /\ InfoPages \in Nat

VARIABLES
  fmgr,        \* the frame manager, or NoMgr while the device is disabled
  q,           \* the frame queue
  last_frame,  \* the global of decd_core.c
  heap,        \* frames, items, fences and info pages
  scan,        \* the frames in the address registers of the display
  ioctl,       \* the ioctl that holds dec->lock, and the frames it has detached
  work,        \* the release work: idle, pending, or where it is
  stuck,       \* a CPU waits for the queue lock it holds itself
  stray,       \* the work ran on a freed queue
  used         \* pairs and enables used up, frames abandoned

DecdVars == <<fmgr, q, last_frame, heap, scan, ioctl, work, stuck, stray, used>>

Frame == 1 .. MaxFrames
None == 0
NoMgr == [state |-> 0, type |-> 0, force_interlace |-> 0, ready_list |-> <<>>,
          pair |-> <<None, None>>, recycle_fifo |-> <<>>,
          refresh_scheduled |-> FALSE, on |-> FALSE]
dec_frame_manager_init == [NoMgr EXCEPT !.on = TRUE]
EmptyQueue == [dirty |-> FALSE, slots |-> [i \in 0 .. 3 |-> None],
               toggle |-> 0, soft_repeat_count |-> 0,
               last_released |-> None, release_fifo |-> <<>>]
Idle == [op |-> "none", item |-> None, left |-> 0, detached |-> <<>>]

(***************************************************************************)
(* Reference counts.  heap.ref counts the references to a frame, payload   *)
(* names its item; an item has its own count, a fence and an info page.    *)
(* An item is named by the number of its first frame.                      *)
(***************************************************************************)
refcount_inc(h, f) == [h EXCEPT !.ref[f] = @ + 1]

frame_item_release(h, i) ==
  IF h.itemref[i] # 1
  THEN [h EXCEPT !.itemref[i] = @ - 1]
  ELSE [h EXCEPT !.itemref[i] = 0, !.signaled = @ \cup {i}, !.page[i] = None,
                 !.free = IF h.page[i] = None THEN @ ELSE Append(@, h.page[i])]

video_frame_put(h, f) ==
  IF f = None THEN h
  ELSE IF h.ref[f] # 1 THEN [h EXCEPT !.ref[f] = @ - 1]
  ELSE frame_item_release([h EXCEPT !.ref[f] = 0], h.payload[f])

(***************************************************************************)
(* alloc_video_info_page takes the first page of the free list; without    *)
(* one the item has no info page.                                          *)
(***************************************************************************)
frame_item_create(h, i) ==
  IF h.free = <<>> THEN [h EXCEPT !.itemref[i] = 1]
  ELSE [h EXCEPT !.itemref[i] = 1, !.page[i] = Head(h.free), !.free = Tail(@)]

dec_create_video_frame(h, f, i) ==
  [h EXCEPT !.ref[f] = 1, !.payload[f] = i, !.next = f + 1]

dec_frame_defer_release(Q, f) ==
  [Q EXCEPT !.release_fifo = IF Q.last_released = None THEN @
                             ELSE Append(@, Q.last_released),
            !.last_released = f]

\* All four slots show f.  The caller has seen dirty clear.
AllSlots(Q, f) == [Q EXCEPT !.slots = [i \in 0 .. 3 |-> f]]

dec_frame_queue_enqueue(Q, f) ==
  [AllSlots(dec_frame_defer_release(Q, Q.slots[3]), f) EXCEPT
     !.soft_repeat_count = 0, !.dirty = TRUE]

\* The slots move up by one: slot 0 stays and is shared once more.
dec_frame_queue_repeat(Q) ==
  LET R == dec_frame_defer_release(Q, Q.slots[3])
  IN [R EXCEPT !.slots[3] = Q.slots[2], !.slots[2] = Q.slots[1],
               !.dirty = TRUE, !.soft_repeat_count = (@ + 1) % 2]

\* The frame dec_frame_pop returns.
PopPair(m) == m.type = 1 /\ m.pair[2] # None
dec_frame_pop(m, Q) ==
  IF PopPair(m) THEN m.pair[Q.soft_repeat_count + 1]
  ELSE IF m.ready_list # <<>> THEN Head(m.ready_list)
  ELSE None
PopMgr(m) ==
  IF PopPair(m) \/ m.ready_list = <<>> THEN m
  ELSE [m EXCEPT !.ready_list = Tail(@)]
PopHeap(h, m, f) == IF PopPair(m) THEN refcount_inc(h, f) ELSE h

---------------------------------------------------------------------------
(***************************************************************************)
(* The client.  dec->lock is held from the first to the last step of a     *)
(* submission, an interlace set-up or a stop.                              *)
(***************************************************************************)
dec_frame_submit(repeat) ==
  /\ fmgr.on /\ ioctl = Idle /\ heap.next + repeat - 1 <= MaxFrames
  /\ heap' = frame_item_create(heap, heap.next)
  /\ ioctl' = [Idle EXCEPT !.op = "submit", !.item = heap.next, !.left = repeat]
  /\ UNCHANGED <<fmgr, q, last_frame, scan, work, stuck, stray, used>>

\* dec_frame_manager_enqueue_frame up to the unlock of ready_lock.
dec_frame_manager_enqueue_frame ==
  /\ ioctl.op = "submit" /\ ioctl.left > 0
  /\ LET h == [heap EXCEPT !.itemref[ioctl.item] = @ + 1]
     IN heap' = dec_create_video_frame(h, heap.next, ioctl.item)
  /\ fmgr' = [fmgr EXCEPT !.ready_list = Append(@, heap.next)]
  /\ ioctl' = [ioctl EXCEPT !.op = "resume", !.left = @ - 1]
  /\ UNCHANGED <<q, last_frame, scan, work, stuck, stray, used>>

(***************************************************************************)
(* The first frame after the queue was idle is shown at once.              *)
(***************************************************************************)
ResumeFirst ==
  LET h1 == video_frame_put(heap, last_frame)
      f  == dec_frame_pop(fmgr, q)
      h2 == refcount_inc(PopHeap(h1, fmgr, f), f)
      m  == PopMgr(fmgr)
  IN /\ last_frame' = None
     /\ IF f = None
        THEN /\ heap' = h1
             /\ UNCHANGED <<fmgr, q>>
        ELSE /\ heap' = video_frame_put(h2, f)
             /\ fmgr' = [m EXCEPT !.type = m.force_interlace, !.state = 1]
             /\ q' = [AllSlots(q, f) EXCEPT !.toggle = 0, !.dirty = TRUE,
                                            !.soft_repeat_count = 0]

dec_frame_queue_resume ==
  /\ ioctl.op = "resume" /\ ~stuck
  /\ \/ /\ fmgr.state # 0
        /\ fmgr' = [fmgr EXCEPT !.state = IF @ = 2 THEN 1 ELSE @]
        /\ UNCHANGED <<q, heap, last_frame>>
     \/ /\ fmgr.state = 0
        /\ IF q.dirty THEN UNCHANGED <<fmgr, q, heap, last_frame>> ELSE ResumeFirst
  /\ ioctl' = [ioctl EXCEPT !.op = "submit"]
  /\ UNCHANGED <<scan, work, stuck, stray, used>>

\* Mutant: the submission keeps its reference to the item.
BugItemKept ==
  /\ ioctl.op = "submit" /\ ioctl.left = 0
  /\ ioctl' = Idle
  /\ UNCHANGED <<fmgr, q, last_frame, heap, scan, work, stuck, stray, used>>

\* dec_frame_submit drops its own reference to the item.
SubmitDone ==
  /\ ioctl.op = "submit" /\ ioctl.left = 0
  /\ heap' = IF ioctl.item = None THEN heap
             ELSE frame_item_release(heap, ioctl.item)
  /\ ioctl' = Idle
  /\ UNCHANGED <<fmgr, q, last_frame, scan, work, stuck, stray, used>>

\* queue_work_on does nothing while the work is pending.
Queued == IF work = "idle" THEN "pending"
          ELSE IF work = "drain" THEN "drain+"
          ELSE IF work = "last" THEN "last+" ELSE work

(***************************************************************************)
(* dec_interlace_setup: two items, two frames, and the old pair is left to *)
(* the recycle FIFO.  dec_frame_queue_resume follows.  When an item cannot  *)
(* be created only the stream type has changed.                            *)
(***************************************************************************)
InterlaceSetupFails ==
  /\ fmgr.on /\ ioctl = Idle
  /\ fmgr' = [fmgr EXCEPT !.type = 1]
  /\ UNCHANGED <<q, last_frame, heap, scan, ioctl, work, stuck, stray, used>>

Recycled(fifo, f) == IF f = None THEN fifo ELSE Append(fifo, f)

dec_interlace_setup ==
  /\ fmgr.on /\ ioctl = Idle
  /\ used.pairs < MaxPairs /\ heap.next + 1 <= MaxFrames
  /\ LET t == heap.next
         h == frame_item_create(frame_item_create(heap, t), t + 1)
     IN heap' = dec_create_video_frame(dec_create_video_frame(h, t, t), t + 1, t + 1)
  /\ fmgr' = [fmgr EXCEPT
       !.type = 1, !.force_interlace = 1,
       !.recycle_fifo = Recycled(Recycled(@, fmgr.pair[1]), fmgr.pair[2]),
       !.pair = <<heap.next, heap.next + 1>>]
  /\ work' = Queued
  /\ used' = [used EXCEPT !.pairs = @ + 1]
  /\ ioctl' = [Idle EXCEPT !.op = "resume"]
  /\ UNCHANGED <<q, last_frame, scan, stuck, stray>>

(***************************************************************************)
(* dec_frame_manager_stop asks for state 3 and waits for state 0, which    *)
(* only the branches for split fields come back to: the wait runs out and  *)
(* nothing is freed.                                                       *)
(***************************************************************************)
StopRequest(m) ==
  [m EXCEPT !.state = IF @ \in {1, 2} THEN 3 ELSE @]

dec_stop_video_stream ==
  /\ fmgr.on /\ ioctl = Idle
  /\ fmgr' = StopRequest(fmgr)
  /\ ioctl' = [Idle EXCEPT !.op = IF fmgr.state = 0 THEN "none" ELSE "stop"]
  /\ UNCHANGED <<q, last_frame, heap, scan, work, stuck, stray, used>>

StopWaited ==
  /\ ioctl.op = "stop"
  /\ ioctl' = Idle
  /\ UNCHANGED <<fmgr, q, last_frame, heap, scan, work, stuck, stray, used>>

---------------------------------------------------------------------------
(***************************************************************************)
(* The vsync interrupt, in one section under the queue lock.               *)
(* dec_frame_recycle is called inside it and takes the same lock for every *)
(* frame of the recycle FIFO.                                              *)
(***************************************************************************)
\* Mutant: the queue stays dirty.
BugStaysDirty(Q) == Q

dec_frame_queue_sync(Q) == [Q EXCEPT !.dirty = FALSE]

Scheduled(m) ==
  IF m.state \in {0, 2} THEN m ELSE [m EXCEPT !.refresh_scheduled = TRUE]

dec_vsync_process ==
  /\ fmgr.on /\ ~stuck
  /\ IF q.dirty
     THEN /\ q' = dec_frame_queue_sync(q)
          /\ scan' = {q.slots[i] : i \in 0 .. 3} \ {None}
          /\ stuck' = (fmgr.recycle_fifo # <<>>)
          /\ work' = IF stuck' THEN work ELSE Queued
          /\ fmgr' = IF stuck' THEN fmgr ELSE Scheduled(fmgr)
     ELSE /\ fmgr' = Scheduled(fmgr)
          /\ UNCHANGED <<q, scan, stuck, work>>
  /\ UNCHANGED <<last_frame, heap, ioctl, stray, used>>

(***************************************************************************)
(* The tasklet.  In state 1 it takes the next frame of the ready list,     *)
(* repeats the current one when there is none, or alternates the pair.     *)
(***************************************************************************)
RefreshOther ==
  /\ fmgr' = [fmgr EXCEPT !.refresh_scheduled = FALSE,
                          !.state = IF @ = 3 /\ ~q.dirty THEN 2 ELSE @]
  /\ UNCHANGED <<q, heap>>

\* Mutant: the queue takes no reference of its own.
BugNoReference ==
  LET f == dec_frame_pop(fmgr, q)
  IN IF f # None
     THEN /\ q' = dec_frame_queue_enqueue(q, f)
          /\ heap' = video_frame_put(PopHeap(heap, fmgr, f), f)
          /\ fmgr' = [PopMgr(fmgr) EXCEPT !.refresh_scheduled = FALSE]
     ELSE RefreshOther

RefreshNext ==
  LET f == dec_frame_pop(fmgr, q)
      h == refcount_inc(PopHeap(heap, fmgr, f), f)
  IN IF f # None
     THEN /\ q' = dec_frame_queue_enqueue(q, f)
          /\ heap' = video_frame_put(h, f)
          /\ fmgr' = [PopMgr(fmgr) EXCEPT !.refresh_scheduled = FALSE]
     ELSE /\ q' = dec_frame_queue_repeat(q)
          /\ heap' = refcount_inc(heap, q.slots[0])
          /\ fmgr' = [fmgr EXCEPT !.force_interlace = 1,
                                  !.refresh_scheduled = FALSE]

\* MaxRefs bounds it: a field gains a reference each time it is shown, and
\* loses one each time last_frame is overwritten with it.
RefreshPair ==
  LET t == 1 - q.toggle
      f == fmgr.pair[t + 1]
  IN /\ heap.ref[f] < MaxRefs
     /\ q' = dec_frame_queue_enqueue([q EXCEPT !.toggle = t], f)
     /\ heap' = refcount_inc(heap, f)
     /\ fmgr' = [fmgr EXCEPT !.refresh_scheduled = FALSE]

dec_frame_queue_refresh ==
  /\ fmgr.on /\ fmgr.refresh_scheduled /\ ~stuck
  /\ IF fmgr.state = 1 /\ ~q.dirty /\ fmgr.force_interlace = 0 THEN RefreshNext
     ELSE IF fmgr.state = 1 /\ ~q.dirty /\ fmgr.pair[1] # None THEN RefreshPair
     ELSE RefreshOther
  /\ UNCHANGED <<last_frame, scan, ioctl, work, stuck, stray, used>>

---------------------------------------------------------------------------
(***************************************************************************)
(* The release work.  A queue_work while it runs makes it run again.       *)
(***************************************************************************)
Again(w) == w \in {"drain+", "last+"}

WorkStart ==
  /\ work = "pending" /\ fmgr.on
  /\ work' = "drain"
  /\ UNCHANGED <<fmgr, q, last_frame, heap, scan, ioctl, stuck, stray, used>>

\* One turn of the loop, or the test of dirty that follows it.
dec_frame_release_process ==
  /\ work \in {"drain", "drain+"} /\ fmgr.on /\ ~stuck
  /\ IF Len(q.release_fifo) > 1
     THEN /\ heap' = video_frame_put(heap, Head(q.release_fifo))
          /\ q' = [q EXCEPT !.release_fifo = Tail(@)]
          /\ UNCHANGED work
     ELSE /\ work' = IF ~q.dirty THEN (IF Again(work) THEN "last+" ELSE "last")
                     ELSE (IF Again(work) THEN "pending" ELSE "idle")
          /\ UNCHANGED <<heap, q>>
  /\ UNCHANGED <<fmgr, last_frame, scan, ioctl, stuck, stray, used>>

\* The last frame of the FIFO replaces last_frame, which is not released.
ReleaseLast ==
  /\ work \in {"last", "last+"} /\ fmgr.on /\ ~stuck
  /\ IF q.release_fifo = <<>>
     THEN UNCHANGED <<q, last_frame, used>>
     ELSE /\ last_frame' = Head(q.release_fifo)
          /\ q' = [q EXCEPT !.release_fifo = Tail(@)]
          /\ used' = IF last_frame = None THEN used
                     ELSE [used EXCEPT !.lost[last_frame] = @ + 1]
  /\ work' = IF Again(work) THEN "pending" ELSE "idle"
  /\ UNCHANGED <<fmgr, heap, scan, ioctl, stuck, stray>>

---------------------------------------------------------------------------
dec_enable ==
  /\ ~fmgr.on /\ ioctl = Idle /\ used.enables < MaxEnables
  /\ fmgr' = dec_frame_manager_init
  /\ q' = EmptyQueue
  /\ used' = [used EXCEPT !.enables = @ + 1]
  /\ UNCHANGED <<last_frame, heap, scan, ioctl, work, stuck, stray>>

\* How often the queue refers to f, slots counting once.
Times(s, f) == Cardinality({i \in DOMAIN s : s[i] = f})
Is(x, f) == IF x = f THEN 1 ELSE 0
InQueue(f) == Times(q.release_fifo, f) + Is(q.last_released, f) + Is(q.slots[0], f)

(***************************************************************************)
(* dec_disable: stop, then the interrupt is disabled, the tasklet killed   *)
(* (it has run) and the manager freed.  dec_frame_manager_exit flushes     *)
(* fmgr->release_work, but the work that is queued is q->release_work; what *)
(* the queue refers to is not released.  The display is switched off last. *)
(***************************************************************************)
DisableStop ==
  /\ fmgr.on /\ ioctl = Idle
  /\ fmgr' = StopRequest(fmgr)
  /\ ioctl' = [Idle EXCEPT !.op = "disable"]
  /\ UNCHANGED <<q, last_frame, heap, scan, work, stuck, stray, used>>

\* The ready list and the pair, taken off the manager under ready_lock.
Detached(m) == Append(Append(m.ready_list, m.pair[1]), m.pair[2])

dec_frame_manager_exit ==
  /\ ioctl.op = "disable" /\ ~fmgr.refresh_scheduled /\ ~stuck
  /\ used' = [used EXCEPT !.lost =
                [f \in Frame |-> @[f] + InQueue(f) + Times(fmgr.recycle_fifo, f)]]
  /\ ioctl' = [Idle EXCEPT !.op = "exit", !.detached = Detached(fmgr)]
  /\ fmgr' = NoMgr
  /\ q' = EmptyQueue
  /\ UNCHANGED <<last_frame, heap, scan, work, stuck, stray>>

\* dec_frame_manager_free puts the detached frames one by one, without the lock.
dec_frame_manager_free ==
  /\ ioctl.op = "exit" /\ ioctl.detached # <<>>
  /\ heap' = video_frame_put(heap, Head(ioctl.detached))
  /\ ioctl' = [ioctl EXCEPT !.detached = Tail(@)]
  /\ UNCHANGED <<fmgr, q, last_frame, scan, work, stuck, stray, used>>

DisableDone ==
  /\ ioctl.op = "exit" /\ ioctl.detached = <<>>
  /\ scan' = {}
  /\ ioctl' = Idle
  /\ UNCHANGED <<fmgr, q, last_frame, heap, work, stuck, stray, used>>

\* The work that was left behind runs on freed memory.
StrayWork ==
  /\ ~fmgr.on /\ work # "idle"
  /\ stray' = TRUE /\ work' = "idle"
  /\ UNCHANGED <<fmgr, q, last_frame, heap, scan, ioctl, stuck, used>>

DecdInit ==
  /\ fmgr = NoMgr /\ q = EmptyQueue /\ last_frame = None /\ scan = {}
  /\ heap = [ref |-> [f \in Frame |-> 0], payload |-> [f \in Frame |-> None],
             itemref |-> [f \in Frame |-> 0], page |-> [f \in Frame |-> None],
             signaled |-> {}, next |-> 1,
             free |-> [k \in 1 .. InfoPages |-> k]]
  /\ ioctl = Idle /\ work = "idle" /\ stuck = FALSE /\ stray = FALSE
  /\ used = [pairs |-> 0, enables |-> 0, lost |-> [f \in Frame |-> 0]]

DecdNext ==
  \/ \E r \in 1 .. MaxRepeat : dec_frame_submit(r)
  \/ dec_frame_manager_enqueue_frame \/ dec_frame_queue_resume \/ SubmitDone
  \/ dec_interlace_setup \/ InterlaceSetupFails \/ dec_stop_video_stream \/ StopWaited
  \/ dec_vsync_process \/ dec_frame_queue_refresh
  \/ WorkStart \/ dec_frame_release_process \/ ReleaseLast
  \/ dec_enable \/ DisableStop \/ dec_frame_manager_exit
  \/ dec_frame_manager_free \/ DisableDone \/ StrayWork

DecdSpec == DecdInit /\ [][DecdNext]_DecdVars

---------------------------------------------------------------------------
DecdTypeOK ==
  /\ fmgr.state \in 0 .. 3 /\ fmgr.type \in {0, 1} /\ fmgr.force_interlace \in {0, 1}
  /\ fmgr.ready_list \in Seq(Frame) /\ fmgr.recycle_fifo \in Seq(Frame)
  /\ q.release_fifo \in Seq(Frame) /\ q.dirty \in BOOLEAN
  /\ last_frame \in Frame \cup {None} /\ scan \subseteq Frame
  /\ \A f \in Frame : heap.ref[f] >= 0 /\ heap.itemref[f] >= 0
  /\ work \in {"idle", "pending", "drain", "drain+", "last", "last+"}

(***************************************************************************)
(* What the display reads is alive: the frame in its address registers has *)
(* a reference, its item's release fence has not been signalled, and its   *)
(* info page belongs to it alone.  The client reuses a buffer once its     *)
(* fence is signalled, so an early release tears the picture.              *)
(***************************************************************************)
ScanAlive ==
  \A f \in scan : LET i == heap.payload[f] IN
    /\ heap.ref[f] > 0 /\ heap.itemref[i] > 0 /\ i \notin heap.signaled
    /\ heap.page[i] # None => \A j \in Frame \ {i} : heap.page[j] # heap.page[i]

FrameRefs(f) ==
  Times(fmgr.ready_list, f) + Times(fmgr.pair, f) + Times(fmgr.recycle_fifo, f)
    + Times(ioctl.detached, f) + InQueue(f) + Is(last_frame, f) + used.lost[f]
FramesCounted == \A f \in Frame : heap.ref[f] = FrameRefs(f)

(***************************************************************************)
(* The count of a frame is the number of places that refer to it: the      *)
(* ready list, the pair, what was detached from both, the four slots       *)
(* together, last_released, the two FIFOs and last_frame, and what was     *)
(* abandoned when last_frame was overwritten or the queue was freed.  An   *)
(* item is referred to by its frames and by the submission that is         *)
(* creating it.                                                            *)
(***************************************************************************)
RefExact ==
  /\ DecdTypeOK
  /\ FramesCounted
  /\ \A i \in Frame :
       heap.itemref[i] =
         Cardinality({f \in Frame : heap.payload[f] = i /\ heap.ref[f] > 0})
         + Is(ioctl.item, i)

(***************************************************************************)
(* A frame of the ready list is taken, as long as the list has not run dry *)
(* once: dec_frame_queue_refresh then sets force_interlace, and nothing    *)
(* but dec_frame_manager_init clears it again.                             *)
(***************************************************************************)
Held == fmgr.force_interlace = 1 \/ fmgr.state \in {2, 3} \/ ~fmgr.on \/ PopPair(fmgr)
ReadyTaken ==
  \A f \in Frame : (\E i \in DOMAIN fmgr.ready_list : fmgr.ready_list[i] = f)
    ~> (Held \/ ~\E i \in DOMAIN fmgr.ready_list : fmgr.ready_list[i] = f)

(***************************************************************************)
(* No CPU waits for a lock it holds: dec_frame_recycle takes the queue     *)
(* lock, and its comment says that its caller does not hold it.            *)
(***************************************************************************)
NoSelfDeadlock == ~stuck

---------------------------------------------------------------------------
(* The inductive invariant *)

FrameOrNone == Frame \cup {None}

Heaps == [ref : [Frame -> Nat], payload : [Frame -> FrameOrNone], itemref : [Frame -> Nat],
          page : [Frame -> 0 .. InfoPages], signaled : SUBSET Frame,
          next : 1 .. MaxFrames + 1, free : Seq(1 .. InfoPages)]

Managers == [state : 0 .. 3, type : {0, 1}, force_interlace : {0, 1},
             ready_list : Seq(Frame), pair : FrameOrNone \X FrameOrNone,
             recycle_fifo : Seq(Frame), refresh_scheduled : BOOLEAN, on : BOOLEAN]
Queues == [dirty : BOOLEAN, slots : [0 .. 3 -> FrameOrNone], toggle : {0, 1},
           soft_repeat_count : {0, 1}, last_released : FrameOrNone, release_fifo : Seq(Frame)]
Ioctls == [op : {"none", "submit", "resume", "stop", "disable", "exit"},
           item : FrameOrNone, left : Nat, detached : Seq(FrameOrNone)]

DecdTypes ==
  /\ fmgr \in Managers /\ q \in Queues /\ ioctl \in Ioctls
  /\ last_frame \in FrameOrNone /\ scan \subseteq Frame
  /\ work \in {"idle", "pending", "drain", "drain+", "last", "last+"}
  /\ used \in [pairs : Nat, enables : Nat, lost : [Frame -> Nat]]

\* An info page belongs to one item or is free.
PagesApart(h) ==
  /\ \A j, k \in DOMAIN h.free : j # k => h.free[j] # h.free[k]
  /\ \A i \in Frame : h.page[i] # None =>
       /\ \A k \in DOMAIN h.free : h.free[k] # h.page[i]
       /\ \A j \in Frame \ {i} : h.page[j] # h.page[i]

\* The frames alive that show item i.
Showing(h, i) == {f \in Frame : h.payload[f] = i /\ h.ref[f] > 0}

\* The heap while item i is referred to e[i] times from elsewhere: an item is named after
\* its first frame, so a name is used once and what was signalled is not used again.
HeapSound(h, e) ==
  /\ h \in Heaps
  /\ \A f \in Frame : /\ f >= h.next => h.ref[f] = 0
                      /\ h.ref[f] > 0 => h.payload[f] \in 1 .. f
  /\ \A i \in Frame : h.itemref[i] = Cardinality(Showing(h, i)) + e[i]
  /\ \A i \in h.signaled : i < h.next /\ h.itemref[i] = 0
  /\ PagesApart(h)

Submitting == [i \in Frame |-> Is(ioctl.item, i)]

\* What the ioctl in progress has reserved and what it may rely on.
IoctlSound ==
  /\ ioctl.op = "none" => ioctl = Idle
  /\ ioctl.op # "none" => (fmgr.on <=> ioctl.op # "exit")
  /\ ioctl.op # "exit" => ioctl.detached = <<>>
  /\ ioctl.item # None => /\ ioctl.op \in {"submit", "resume"}
                          /\ heap.next + ioctl.left <= MaxFrames + 1
                          /\ \/ ioctl.item < heap.next
                             \/ ioctl.op = "submit" /\ ioctl.item = heap.next /\ ioctl.left > 0
  /\ ioctl.left > 0 => ioctl.item # None

\* The display scans what the queue still refers to: slot 0, or last_released once the
\* slots have been rewritten; after dec_frame_manager_exit, what was abandoned.
Scanned ==
  /\ ~fmgr.on => /\ fmgr = NoMgr /\ q = EmptyQueue
                 /\ \A f \in scan : used.lost[f] > 0
                 /\ ioctl.op = "none" => scan = {}
  /\ fmgr.on => \A f \in scan : f = IF q.dirty THEN q.last_released ELSE q.slots[0]
  /\ \A i \in 0 .. 3 : q.slots[i] = q.slots[0]
  /\ fmgr.state = 0 <=> q.slots[0] = None
  /\ fmgr.pair[1] = None <=> fmgr.pair[2] = None

DecdIInv ==
  /\ DecdTypes /\ HeapSound(heap, Submitting) /\ IoctlSound /\ Scanned
  /\ FramesCounted
=============================================================================
