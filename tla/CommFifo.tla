------------------------------- MODULE CommFifo -------------------------------
(***************************************************************************)
(* The shared-memory ring buffer of drivers/cpu_comm/cpu_comm_fifo.c, used *)
(* by one producer and one consumer that run concurrently (two CPUs, or a  *)
(* work item and a caller).  A step is one access to the shared header     *)
(* f[0..3] or to a ring slot, in the order the code makes them:            *)
(*    write pattern  ptr = getItemWr(); write(ptr); requestItemWr();       *)
(*    read pattern   ptr = getItemRd(); read(ptr);  ItemRdNext();          *)
(***************************************************************************)
EXTENDS Naturals, Sequences

CONSTANTS Cap,      \* f[4], FIFO_DEFAULT_CAP = 21 in the driver
          Items,    \* the pointers the ring carries
          NoItem    \* a zeroed slot / nothing read yet

ASSUME CapAssumption  == Cap \in Nat /\ Cap >= 2
ASSUME ItemAssumption == NoItem \notin Items

VARIABLES rd,       \* f[0]
          wr,       \* f[1]
          mark,     \* f[2], the high or low watermark
          track,    \* f[3], 1: the producer keeps a peak, 0: the consumer a minimum
          slot,     \* the ring at f[6]
          ppc,      \* the producer's next access
          pval,     \* the item it is writing
          cpc,      \* the consumer's next access
          cwr,      \* the consumer's snapshot of wr inside fifo_ItemRdNext
          cbuf,     \* the item it has read from the slot
          last      \* the item it consumed last

ringVars == <<rd, wr, mark, slot>>
prodVars == <<ppc, pval>>
consVars == <<cpc, cwr, cbuf, last>>
fifoVars == <<rd, wr, mark, track, slot, ppc, pval, cpc, cwr, cbuf, last>>

Index == 0 .. Cap - 1

BugNoWrap(i) == i + 1           \* mutant of Next1: the index never wraps

Next1(i) == (i + 1) % Cap

BugNeverFull == FALSE           \* mutant of IsFull: no slot is kept free

IsFull  == rd = Next1(wr)
IsEmpty == rd = wr

fifo_getCount(r, w) == IF w >= r THEN w - r ELSE Cap - r + w

(***************************************************************************)
(* A FIFO starts life in one of two ways.  The CallCmd and ReturnCmd       *)
(* staging FIFOs start empty and keep a peak; the FreeCall, FreeReturn and *)
(* FreeWait pools are filled to capacity while f[3] = 1 and then switched  *)
(* to f[3] = 0.                                                            *)
(***************************************************************************)
InitStaging == /\ wr = 0 /\ mark = 0 /\ track = 1
               /\ slot = [i \in Index |-> NoItem]

InitPool == /\ wr = Cap - 1 /\ mark = Cap - 1 /\ track = 0
            /\ slot \in [Index -> Items \cup {NoItem}]
            /\ \A i \in Index : slot[i] = NoItem <=> i = Cap - 1

FifoInit == /\ rd = 0
            /\ InitStaging \/ InitPool
            /\ ppc = "idle" /\ pval = NoItem
            /\ cpc = "idle" /\ cwr = 0 /\ cbuf = NoItem /\ last = NoItem

\* Mutant of fifo_getItemWr: the full test is dropped.
BugGetUnchecked(v) ==
    /\ ppc = "idle"
    /\ ppc' = "write" /\ pval' = v
    /\ UNCHANGED <<ringVars, track, consVars>>

\* fifo_getItemWr: the address of slot wr.  A full FIFO returns 0 and the
\* caller gives up, which changes nothing.
fifo_getItemWr(v) ==
    /\ ppc = "idle"
    /\ ~IsFull
    /\ ppc' = "write" /\ pval' = v
    /\ UNCHANGED <<ringVars, track, consVars>>

\* *ptr = item, between the two calls.
WriteItem ==
    /\ ppc = "write"
    /\ slot' = [slot EXCEPT ![wr] = pval]
    /\ ppc' = "request"
    /\ UNCHANGED <<rd, wr, mark, track, pval, consVars>>

\* fifo_requestItemWr, the full test.
fifo_requestItemWr ==
    /\ ppc = "request"
    /\ ppc' = IF IsFull THEN "idle" ELSE "advance"
    /\ UNCHANGED <<ringVars, track, pval, consVars>>

\* fifo_requestItemWr, f[1] = next_wr.
AdvanceWr ==
    /\ ppc = "advance"
    /\ wr' = Next1(wr)
    /\ ppc' = IF track = 1 THEN "track" ELSE "idle"
    /\ UNCHANGED <<rd, mark, track, slot, pval, consVars>>

\* Mutant of TrackPeak: the comparison of fifo_ItemRdNext.
BugPeakReversed ==
    /\ ppc = "track"
    /\ mark' = IF fifo_getCount(rd, wr) < mark THEN fifo_getCount(rd, wr) ELSE mark
    /\ ppc' = "idle"
    /\ UNCHANGED <<rd, wr, track, slot, pval, consVars>>

\* fifo_requestItemWr, the peak occupancy.
TrackPeak ==
    /\ ppc = "track"
    /\ mark' = IF fifo_getCount(rd, wr) > mark THEN fifo_getCount(rd, wr) ELSE mark
    /\ ppc' = "idle"
    /\ UNCHANGED <<rd, wr, track, slot, pval, consVars>>

\* fifo_getItemRd: the address of slot rd; an empty FIFO returns 0.
fifo_getItemRd ==
    /\ cpc = "idle"
    /\ ~IsEmpty
    /\ cpc' = "read"
    /\ UNCHANGED <<ringVars, track, prodVars, cwr, cbuf, last>>

\* Mutant of ReadItem: the slot after the one handed out is read.
BugReadAhead ==
    /\ cpc = "read"
    /\ cbuf' = slot[Next1(rd)]
    /\ cpc' = "next"
    /\ UNCHANGED <<ringVars, track, prodVars, cwr, last>>

\* item = *ptr, between the two calls.
ReadItem ==
    /\ cpc = "read"
    /\ cbuf' = slot[rd]
    /\ cpc' = "next"
    /\ UNCHANGED <<ringVars, track, prodVars, cwr, last>>

\* fifo_ItemRdNext, the empty test; wr is read once, here.
fifo_ItemRdNext ==
    /\ cpc = "next"
    /\ cwr' = wr
    /\ cpc' = IF IsEmpty THEN "idle" ELSE "advance"
    /\ UNCHANGED <<ringVars, track, prodVars, cbuf, last>>

\* What the consumer does with fifo_ItemRdNext's result: nothing
\* (GetFreeWaitComm), or, when it is the address of a further item, read that
\* item without another fifo_getItemRd (returnPipeLine).
AfterRdNext == {"idle"} \cup (IF cwr = rd' THEN {} ELSE {"read"})

\* fifo_ItemRdNext, f[0] = next_rd.
AdvanceRd ==
    /\ cpc = "advance"
    /\ rd' = Next1(rd)
    /\ last' = cbuf
    /\ IF track = 0 THEN cpc' = "track" ELSE cpc' \in AfterRdNext
    /\ UNCHANGED <<wr, mark, track, slot, prodVars, cwr, cbuf>>

\* fifo_ItemRdNext, the minimum occupancy.
TrackMin ==
    /\ cpc = "track"
    /\ mark' = IF fifo_getCount(rd, wr) < mark THEN fifo_getCount(rd, wr) ELSE mark
    /\ rd' = rd
    /\ cpc' \in AfterRdNext
    /\ UNCHANGED <<wr, track, slot, prodVars, cwr, cbuf, last>>

Producer == \/ \E v \in Items : fifo_getItemWr(v)
            \/ WriteItem \/ fifo_requestItemWr \/ AdvanceWr \/ TrackPeak

Consumer == \/ fifo_getItemRd \/ ReadItem \/ fifo_ItemRdNext
            \/ AdvanceRd \/ TrackMin

FifoNext == Producer \/ Consumer

FifoSpec == FifoInit /\ [][FifoNext]_fifoVars

-----------------------------------------------------------------------------
(* Properties                                                              *)

\* The indices stay inside the ring and the watermark below f[4], so the address
\* f[6] + f[5] * index that the four calls return is always that of a slot.
FifoTypeOK == /\ rd \in Index /\ wr \in Index /\ cwr \in Index
              /\ mark \in Index /\ track \in {0, 1}
              /\ slot \in [Index -> Items \cup {NoItem}]
              /\ ppc \in {"idle", "write", "request", "advance", "track"}
              /\ cpc \in {"idle", "read", "next", "advance", "track"}
              /\ pval \in Items \cup {NoItem}
              /\ cbuf \in Items \cup {NoItem}
              /\ last \in Items \cup {NoItem}

count == fifo_getCount(rd, wr)

\* The i-th oldest position of the ring.
Pos(r, i) == IF r + i >= Cap THEN r + i - Cap ELSE r + i

Contents == [i \in 1 .. count |-> slot[Pos(rd, i - 1)]]

\* The item a reader copied out of a slot is still the one in the slot when it
\* gives the slot back with fifo_ItemRdNext: the producer, however fast, never
\* writes a slot between fifo_getItemRd and fifo_ItemRdNext.
ReadNotOverwritten ==
    /\ cpc \in {"next", "advance"} => ~IsEmpty /\ cbuf = slot[rd]
    /\ cpc = "read" => ~IsEmpty

\* fifo_requestItemWr's full test never fails for a producer that was given a
\* slot by fifo_getItemWr, so no item written is silently dropped.
CommitNeverRefused ==
    ppc \in {"write", "request", "advance"} => ~IsFull

\* Outside its own bookkeeping step, the watermark brackets the occupancy: the
\* peak of a staging FIFO is never below it, the minimum of a pool never above
\* it, although the other side moves its index between the advance and the count.
WatermarkBrackets ==
    /\ track = 1 /\ ppc # "track" => mark >= count
    /\ track = 0 /\ cpc # "track" => mark <= count

\* No slot inside the occupied part of the ring is empty: fifo_getItemRd never
\* hands out a slot the producer has not written yet.
OccupiedWritten == \A i \in 1 .. count : Contents[i] \in Items

\* The ring is a bounded FIFO queue.
Q == INSTANCE CommQueue WITH Size <- Cap - 1, q <- Contents
Refines == Q!QSpec

(***************************************************************************)
(* The strengthening that makes the invariants above inductive.  A         *)
(* producer past fifo_getItemWr holds a real item, which is in slot wr     *)
(* from WriteItem on.  The consumer's snapshot cwr of wr lies between rd   *)
(* and wr on the ring, so "not empty by the snapshot" implies not empty.   *)
(***************************************************************************)
InFlight ==
    /\ ppc \in {"write", "request", "advance"} => pval \in Items
    /\ ppc \in {"request", "advance"} => slot[wr] = pval
    /\ cpc \in {"advance", "track"} => fifo_getCount(rd, cwr) <= count
    /\ cpc = "advance" => cwr # rd
    /\ cpc = "track" => track = 0
    /\ ppc = "track" => track = 1

FifoIInv == /\ FifoTypeOK
            /\ ReadNotOverwritten
            /\ CommitNeverRefused
            /\ WatermarkBrackets
            /\ OccupiedWritten
            /\ InFlight
==============================================================================
