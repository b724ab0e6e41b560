---------------------------- MODULE Queues_proof ----------------------------
(***************************************************************************)
(* The queues of the drivers: the ring buffer of cpu_comm for every        *)
(* capacity and every set of items, its per-file queues for any number of  *)
(* files and threads and any queue length, and the SDIO bus of the Wi-Fi   *)
(* driver for any number of packets, buffers and interrupts.               *)
(*                                                                         *)
(* In each an inductive invariant says what a thread may rely on between   *)
(* two of its steps.  BusIInv has one conjunct for each of the counters    *)
(* the bus threads trust: tx_pktcnt with the aggregate and the credit,     *)
(* rx_cnt, the order of the packets and the power state against the        *)
(* transmit pass.                                                          *)
(***************************************************************************)
EXTENDS CommFifo, CommUserQueue, WifiBus, TLAPS

\* Advancing an index wraps to 0 exactly at the end of the ring.
LEMMA Next1Value ==
    ASSUME NEW i \in Index
    PROVE  Next1(i) = IF i = Cap - 1 THEN 0 ELSE i + 1
<1>1. CASE i = Cap - 1
  BY <1>1, CapAssumption DEF Index, Next1
<1>2. CASE i # Cap - 1
  <2>1. i + 1 \in 0 .. Cap - 1
    BY <1>2, CapAssumption DEF Index
  <2>2. (i + 1) % Cap = i + 1
    BY <2>1, CapAssumption
  <2> QED
    BY <1>2, <2>2, Zenon DEF Next1
<1> QED
  BY <1>1, <1>2, Zenon

\* fifo_getCount is 0 exactly on an empty ring and Cap - 1 exactly on a full one.
LEMMA CountRange ==
    ASSUME NEW r \in Index, NEW w \in Index
    PROVE  /\ fifo_getCount(r, w) \in 0 .. Cap - 1
           /\ fifo_getCount(r, w) = 0 <=> r = w
           /\ fifo_getCount(r, w) = Cap - 1 <=> r = Next1(w)
<1>1. Next1(w) = IF w = Cap - 1 THEN 0 ELSE w + 1
  BY Next1Value, Zenon
<1> QED
  BY <1>1, CapAssumption DEF Index, fifo_getCount

\* Advancing wr on a ring that is not full adds one item, advancing rd on a
\* ring that is not empty removes one.
LEMMA CountAdvance ==
    ASSUME NEW r \in Index, NEW w \in Index
    PROVE  /\ Next1(w) \in Index
           /\ r # Next1(w) => fifo_getCount(r, Next1(w)) = fifo_getCount(r, w) + 1
           /\ r # w => fifo_getCount(Next1(r), w) = fifo_getCount(r, w) - 1
<1>1. Next1(w) = IF w = Cap - 1 THEN 0 ELSE w + 1
  BY Next1Value, Zenon
<1>2. Next1(r) = IF r = Cap - 1 THEN 0 ELSE r + 1
  BY Next1Value, Zenon
<1> QED
  BY <1>1, <1>2, CapAssumption DEF Index, fifo_getCount

\* The positions of the ring counted from rd: the write slot is at distance
\* count and nowhere nearer, and advancing rd renumbers them by one.
LEMMA PosFacts ==
    ASSUME NEW r \in Index, NEW w \in Index, NEW i \in Index
    PROVE  /\ Pos(r, i) \in Index
           /\ Pos(r, 0) = r
           /\ Pos(r, i) = w <=> i = fifo_getCount(r, w)
           /\ i + 1 < Cap => Pos(Next1(r), i) = Pos(r, i + 1)
<1>1. Next1(r) = IF r = Cap - 1 THEN 0 ELSE r + 1
  BY Next1Value, Zenon
<1> QED
  BY <1>1, CapAssumption DEF Index, Pos, fifo_getCount

-----------------------------------------------------------------------------
(* The inductive invariant                                                 *)

\* The empty staging FIFO and the pre-filled pool both satisfy the invariant.
LEMMA InitInv == FifoInit => FifoIInv
<1> SUFFICES ASSUME FifoInit PROVE FifoIInv
  BY Zenon
<1>1. FifoTypeOK
  BY CapAssumption DEF FifoInit, InitStaging, InitPool, FifoTypeOK, Index
<1>2. CASE InitStaging
  <2>1. count = 0
    BY <1>2, CapAssumption DEF FifoInit, InitStaging, count, fifo_getCount
  <2> QED
    BY <1>1, <1>2, <2>1 DEF FifoInit, InitStaging, FifoIInv, FifoTypeOK, ReadNotOverwritten,
       CommitNeverRefused, WatermarkBrackets, OccupiedWritten, Contents, InFlight
<1>3. CASE InitPool
  <2>1. count = Cap - 1
    BY <1>3, CapAssumption DEF FifoInit, InitPool, count, fifo_getCount
  <2>2. OccupiedWritten
    <3> SUFFICES ASSUME NEW i \in 1 .. count
                 PROVE  Contents[i] \in Items
      BY Zenon DEF OccupiedWritten
    <3>1. Pos(rd, i - 1) = i - 1 /\ i - 1 \in Index /\ i - 1 # Cap - 1
      BY <2>1, CapAssumption DEF FifoInit, Pos, Index
    <3>2. Contents[i] = slot[i - 1]
      BY <3>1, Zenon DEF Contents
    <3> QED
      BY <1>3, <3>1, <3>2, Zenon DEF InitPool
  <2> QED
    BY <1>1, <1>3, <2>1, <2>2 DEF FifoInit, InitPool, FifoIInv, FifoTypeOK, ReadNotOverwritten,
       CommitNeverRefused, WatermarkBrackets, InFlight
<1> QED
  BY <1>2, <1>3, Zenon DEF FifoInit

\* A step that leaves the ring, the indices and the watermark alone preserves
\* what the invariant says about them.
LEMMA RingUnchanged ==
    ASSUME FifoIInv, UNCHANGED <<rd, wr, slot>>
    PROVE  /\ count' = count /\ OccupiedWritten'
           /\ IsFull' = IsFull /\ IsEmpty' = IsEmpty
<1>1. count' = count /\ Contents' = Contents
  BY Zenon DEF count, Contents
<1> QED
  BY <1>1, Zenon DEF FifoIInv, OccupiedWritten, IsFull, IsEmpty

\* Every step of the producer preserves the invariant.
LEMMA ProducerInv == FifoIInv /\ Producer => FifoIInv'
<1> SUFFICES ASSUME FifoIInv, Producer PROVE FifoIInv'
  BY Zenon
<1>0. rd \in Index /\ wr \in Index /\ cwr \in Index
  BY Zenon DEF FifoIInv, FifoTypeOK
<1>1. ASSUME NEW v \in Items, fifo_getItemWr(v) PROVE FifoIInv'
  <2>1. count' = count /\ OccupiedWritten' /\ IsFull' = IsFull /\ IsEmpty' = IsEmpty
    BY <1>1, RingUnchanged, Zenon DEF fifo_getItemWr, ringVars
  <2> QED
    BY <1>1, <2>1, Zenon
       DEF fifo_getItemWr, ringVars, consVars, FifoIInv, FifoTypeOK, ReadNotOverwritten, CommitNeverRefused,
       WatermarkBrackets, InFlight
<1>2. CASE WriteItem
  <2>1. UNCHANGED <<rd, wr, cwr>> /\ ~IsFull /\ count' = count
    BY <1>2, Zenon DEF WriteItem, consVars, count, FifoIInv, CommitNeverRefused
  <2>2. count < Cap - 1 /\ count \in Nat
    BY <1>0, <2>1, CountRange, CapAssumption DEF count, IsFull
  <2>3. \A i \in 1 .. count : Pos(rd, i - 1) \in Index /\ Pos(rd, i - 1) # wr
    <3> SUFFICES ASSUME NEW i \in 1 .. count
                 PROVE  Pos(rd, i - 1) \in Index /\ Pos(rd, i - 1) # wr
      BY Zenon
    <3>1. i - 1 \in Index /\ i - 1 # count
      BY <2>2, CapAssumption DEF Index
    <3> QED
      BY <1>0, <3>1, PosFacts DEF count
  <2>4. Contents' = Contents
    <3>1. \A i \in 1 .. count : slot'[Pos(rd, i - 1)] = slot[Pos(rd, i - 1)]
      BY <1>0, <1>2, <2>3, Zenon DEF WriteItem, FifoIInv, FifoTypeOK
    <3> QED
      BY <2>1, <3>1, Zenon DEF Contents, Pos
  <2>5. OccupiedWritten'
    BY <2>1, <2>4, Zenon DEF OccupiedWritten, FifoIInv
  <2>6. ReadNotOverwritten'
    <3>1. IsEmpty' = IsEmpty
      BY <2>1, Zenon DEF IsEmpty
    <3>2. ~IsEmpty => slot'[rd] = slot[rd]
      BY <1>0, <1>2, Zenon DEF IsEmpty, WriteItem, FifoIInv, FifoTypeOK
    <3> QED
      BY <1>2, <2>1, <3>1, <3>2, Zenon DEF WriteItem, consVars, FifoIInv, ReadNotOverwritten
  <2>7. FifoTypeOK'
    BY <1>0, <1>2, Zenon DEF WriteItem, consVars, FifoIInv, FifoTypeOK
  <2>8. CommitNeverRefused' /\ WatermarkBrackets'
    BY <1>2, <2>1, Zenon DEF WriteItem, consVars, FifoIInv, CommitNeverRefused, WatermarkBrackets,
       IsFull
  <2>9. InFlight'
    BY <1>0, <1>2, <2>1, Zenon DEF WriteItem, consVars, FifoIInv, FifoTypeOK, InFlight
  <2> QED
    BY <2>5, <2>6, <2>7, <2>8, <2>9, Zenon DEF FifoIInv
<1>3. CASE fifo_requestItemWr
  <2>1. count' = count /\ OccupiedWritten' /\ IsFull' = IsFull /\ IsEmpty' = IsEmpty
    BY <1>3, RingUnchanged, Zenon DEF fifo_requestItemWr, ringVars
  <2> QED
    BY <1>3, <2>1, Zenon DEF fifo_requestItemWr, ringVars, prodVars, consVars,
       FifoIInv, FifoTypeOK, ReadNotOverwritten, CommitNeverRefused,
       WatermarkBrackets, InFlight
<1>4. CASE AdvanceWr
  <2>1. UNCHANGED <<rd, slot, mark, track, cwr, cpc, cbuf>> /\ wr' = Next1(wr) /\ rd # Next1(wr)
    BY <1>4, Zenon DEF AdvanceWr, consVars, FifoIInv, CommitNeverRefused, IsFull
  <2>2. wr' \in Index /\ count' = count + 1 /\ count \in Nat /\ count' \in 0 .. Cap - 1
    BY <1>0, <2>1, CountAdvance, CountRange, CapAssumption DEF count
  <2>3. OccupiedWritten'
    <3> SUFFICES ASSUME NEW i \in 1 .. count'
                 PROVE  Contents'[i] \in Items
      BY Zenon DEF OccupiedWritten
    <3>1. Contents'[i] = slot[Pos(rd, i - 1)]
      BY <2>1, Zenon DEF Contents, Pos
    <3>2. CASE i = count + 1
      <4>1. Pos(rd, i - 1) = wr
        BY <1>0, <2>2, <3>2, PosFacts, CountRange, CapAssumption DEF count, Index
      <4> QED
        BY <1>4, <3>1, <4>1, Zenon DEF AdvanceWr, FifoIInv, InFlight
    <3>3. CASE i # count + 1
      <4>1. i \in 1 .. count
        BY <2>2, <3>3
      <4> QED
        BY <3>1, <4>1, Zenon DEF FifoIInv, OccupiedWritten, Contents
    <3> QED
      BY <3>2, <3>3, Zenon
  <2>4. ReadNotOverwritten'
    <3>1. ~IsEmpty'
      BY <1>0, <2>1, <2>2, CountRange, Zenon DEF IsEmpty, count
    <3> QED
      BY <2>1, <3>1, Zenon DEF FifoIInv, ReadNotOverwritten
  <2>5. FifoTypeOK'
    BY <1>4, <2>1, <2>2, Zenon DEF AdvanceWr, consVars, FifoIInv, FifoTypeOK
  <2>6. CommitNeverRefused'
    BY <1>4, Zenon DEF AdvanceWr, CommitNeverRefused
  <2>7. WatermarkBrackets'
    BY <1>4, <2>1, <2>2, CapAssumption DEF AdvanceWr, FifoIInv, FifoTypeOK, WatermarkBrackets, Index
  <2>8. InFlight'
    <3>1. fifo_getCount(rd, cwr) \in Nat
      BY <1>0, CountRange, CapAssumption
    <3> QED
      BY <1>4, <2>1, <2>2, <3>1 DEF AdvanceWr, FifoIInv, FifoTypeOK, InFlight
  <2> QED
    BY <2>3, <2>4, <2>5, <2>6, <2>7, <2>8, Zenon DEF FifoIInv
<1>5. CASE TrackPeak
  <2>1. count' = count /\ OccupiedWritten' /\ IsFull' = IsFull /\ IsEmpty' = IsEmpty
    BY <1>5, RingUnchanged, Zenon DEF TrackPeak
  <2>2. count \in Index
    BY <1>0, CountRange, Zenon DEF count, Index
  <2>3. mark' = IF count > mark THEN count ELSE mark
    BY <1>5, Zenon DEF TrackPeak, count
  <2>4. mark' \in Index /\ mark' >= count'
    BY <2>1, <2>2, <2>3, CapAssumption DEF FifoIInv, FifoTypeOK, Index
  <2> QED
    BY <1>5, <2>1, <2>4 DEF TrackPeak, consVars, FifoIInv, FifoTypeOK, ReadNotOverwritten, CommitNeverRefused,
       WatermarkBrackets, InFlight
<1> QED
  BY <1>1, <1>2, <1>3, <1>4, <1>5, Zenon DEF Producer

\* Every step of the consumer preserves the invariant.
LEMMA ConsumerInv == FifoIInv /\ Consumer => FifoIInv'
<1> SUFFICES ASSUME FifoIInv, Consumer PROVE FifoIInv'
  BY Zenon
<1>0. rd \in Index /\ wr \in Index /\ cwr \in Index
  BY Zenon DEF FifoIInv, FifoTypeOK
<1>1. CASE fifo_getItemRd
  <2>1. count' = count /\ OccupiedWritten' /\ IsFull' = IsFull /\ IsEmpty' = IsEmpty
    BY <1>1, RingUnchanged, Zenon DEF fifo_getItemRd, ringVars
  <2> QED
    BY <1>1, <2>1, Zenon
       DEF fifo_getItemRd, ringVars, prodVars, FifoIInv, FifoTypeOK, ReadNotOverwritten, CommitNeverRefused,
       WatermarkBrackets, InFlight
<1>2. CASE ReadItem
  <2>1. count' = count /\ OccupiedWritten' /\ IsFull' = IsFull /\ IsEmpty' = IsEmpty
    BY <1>2, RingUnchanged, Zenon DEF ReadItem, ringVars
  <2> QED
    BY <1>0, <1>2, <2>1, Zenon
       DEF ReadItem, ringVars, prodVars, FifoIInv, FifoTypeOK, ReadNotOverwritten, CommitNeverRefused,
       WatermarkBrackets, InFlight
<1>3. CASE fifo_ItemRdNext
  <2>1. count' = count /\ OccupiedWritten' /\ IsFull' = IsFull /\ IsEmpty' = IsEmpty
    BY <1>3, RingUnchanged, Zenon DEF fifo_ItemRdNext, ringVars
  <2>2. fifo_getCount(rd, cwr)' = count' /\ (cpc' = "advance" => cwr' # rd')
    BY <1>3, Zenon DEF fifo_ItemRdNext, ringVars, count, fifo_getCount, IsEmpty
  <2>3. count' \in Nat
    BY <1>0, <2>1, CountRange, CapAssumption DEF count
  <2> QED
    BY <1>0, <1>3, <2>1, <2>2, <2>3
       DEF fifo_ItemRdNext, ringVars, prodVars, FifoIInv, FifoTypeOK, ReadNotOverwritten, CommitNeverRefused,
       WatermarkBrackets, InFlight
<1>4. CASE AdvanceRd
  <2>1. /\ UNCHANGED <<wr, slot, mark, track, cwr, cbuf, ppc, pval>>
        /\ rd' = Next1(rd) /\ rd # wr /\ rd # cwr
    BY <1>4, Zenon DEF AdvanceRd, prodVars, FifoIInv, ReadNotOverwritten, IsEmpty, InFlight
  <2>2. rd' \in Index /\ count' = count - 1 /\ count \in 1 .. Cap - 1
    BY <1>0, <2>1, CountAdvance, CountRange, CapAssumption DEF count
  <2>3. OccupiedWritten'
    <3> SUFFICES ASSUME NEW i \in 1 .. count'
                 PROVE  Contents'[i] \in Items
      BY Zenon DEF OccupiedWritten
    <3>1. i + 1 \in 1 .. count /\ i - 1 \in Index /\ (i - 1) + 1 < Cap
      BY <2>2, CapAssumption DEF Index
    <3>2. Pos(rd', i - 1) = Pos(rd, i)
      BY <1>0, <2>1, <3>1, PosFacts
    <3>3. Contents'[i] = slot[Pos(rd, i)]
      BY <2>1, <3>2, Zenon DEF Contents, Pos
    <3>4. Contents[i + 1] = slot[Pos(rd, i)]
      BY <3>1 DEF Contents
    <3> QED
      BY <3>1, <3>3, <3>4, Zenon DEF FifoIInv, OccupiedWritten
  <2>4. /\ fifo_getCount(rd', cwr) = fifo_getCount(rd, cwr) - 1
        /\ fifo_getCount(rd, cwr) \in Nat
        /\ fifo_getCount(rd', cwr) <= count'
        /\ cwr # rd' => wr # rd'
    <3>1. /\ fifo_getCount(rd', cwr) = fifo_getCount(rd, cwr) - 1
          /\ fifo_getCount(rd, cwr) \in Nat
      BY <1>0, <2>1, CountAdvance, CountRange, CapAssumption
    <3>2. fifo_getCount(rd', cwr) <= count'
      BY <1>4, <2>2, <3>1 DEF AdvanceRd, FifoIInv, InFlight
    <3>3. /\ fifo_getCount(rd', cwr) \in 0 .. Cap - 1
          /\ fifo_getCount(rd', cwr) = 0 <=> rd' = cwr
          /\ count' = 0 <=> rd' = wr
      BY <1>0, <2>1, <2>2, CountRange, Zenon DEF count
    <3> QED
      BY <2>2, <3>1, <3>2, <3>3, CapAssumption
  <2>5. cpc' \in {"idle", "read", "track"} /\ (cpc' = "track" => track = 0)
                                          /\ (track = 0 => cpc' = "track")
                                          /\ (cpc' = "read" => cwr # rd')
    BY <1>4, Zenon DEF AdvanceRd, AfterRdNext, FifoIInv, FifoTypeOK
  <2>6. ReadNotOverwritten'
    BY <2>1, <2>4, <2>5, Zenon DEF ReadNotOverwritten, IsEmpty
  <2>7. FifoTypeOK'
    BY <1>4, <2>1, <2>2, <2>5, Zenon DEF AdvanceRd, FifoIInv, FifoTypeOK
  <2>8. CommitNeverRefused'
    <3>1. ~IsFull'
      BY <1>0, <2>1, <2>2, CountRange, CapAssumption DEF IsFull, count
    <3> QED
      BY <3>1, Zenon DEF CommitNeverRefused
  <2>9. WatermarkBrackets' /\ InFlight'
    BY <2>1, <2>2, <2>4, <2>5, CapAssumption DEF FifoIInv, FifoTypeOK, WatermarkBrackets, InFlight,
       Index
  <2> QED
    BY <2>3, <2>6, <2>7, <2>8, <2>9, Zenon DEF FifoIInv
<1>5. CASE TrackMin
  <2>1. count' = count /\ OccupiedWritten' /\ IsFull' = IsFull /\ IsEmpty' = IsEmpty
    BY <1>5, RingUnchanged, Zenon DEF TrackMin
  <2>2. count \in Index
    BY <1>0, CountRange, Zenon DEF count, Index
  <2>3. mark' = IF count < mark THEN count ELSE mark
    BY <1>5, Zenon DEF TrackMin, count
  <2>4. mark' \in Index /\ mark' <= count'
    BY <2>1, <2>2, <2>3, CapAssumption DEF FifoIInv, FifoTypeOK, Index
  <2>5. cpc' \in {"idle", "read"} /\ (cpc' = "read" => cwr # rd)
    BY <1>5, Zenon DEF TrackMin, AfterRdNext
  <2>6. cwr # rd => ~IsEmpty
    <3>1. fifo_getCount(rd, cwr) <= count
      BY <1>5, Zenon DEF TrackMin, FifoIInv, InFlight
    <3>2. fifo_getCount(rd, cwr) \in 0 .. Cap - 1 /\ (fifo_getCount(rd, cwr) = 0 <=> rd = cwr)
      BY <1>0, CountRange, Zenon
    <3>3. count = 0 <=> rd = wr
      BY <1>0, CountRange, Zenon DEF count
    <3> QED
      BY <2>2, <3>1, <3>2, <3>3, CapAssumption DEF IsEmpty, Index
  <2> QED
    BY <1>5, <2>1, <2>4, <2>5, <2>6
       DEF TrackMin, prodVars, FifoIInv, FifoTypeOK, ReadNotOverwritten, CommitNeverRefused,
       WatermarkBrackets, InFlight
<1> QED
  BY <1>1, <1>2, <1>3, <1>4, <1>5, Zenon DEF Consumer

\* The invariant is inductive: it holds initially and every step of producer
\* or consumer, in any interleaving, preserves it.
THEOREM FifoInvariant == FifoSpec => []FifoIInv
<1>1. FifoIInv /\ [FifoNext]_fifoVars => FifoIInv'
  <2> SUFFICES ASSUME FifoIInv, [FifoNext]_fifoVars PROVE FifoIInv'
    BY Zenon
  <2>1. CASE Producer
    BY <2>1, ProducerInv, Zenon
  <2>2. CASE Consumer
    BY <2>2, ConsumerInv, Zenon
  <2>3. CASE UNCHANGED fifoVars
    <3>1. count' = count /\ OccupiedWritten' /\ IsFull' = IsFull /\ IsEmpty' = IsEmpty
      BY <2>3, RingUnchanged, Zenon DEF fifoVars
    <3> QED
      BY <2>3, <3>1 DEF fifoVars, FifoIInv, FifoTypeOK, ReadNotOverwritten, CommitNeverRefused,
       WatermarkBrackets, InFlight
  <2> QED
    BY <2>1, <2>2, <2>3, Zenon DEF FifoNext
<1> QED
  BY InitInv, <1>1, PTL DEF FifoSpec

\* For every capacity, an item being read is never overwritten by the producer.
THEOREM NeverOverwritten == FifoSpec => []ReadNotOverwritten
BY FifoInvariant, PTL DEF FifoIInv

\* For every capacity, a slot granted by fifo_getItemWr can always be committed.
THEOREM NeverRefused == FifoSpec => []CommitNeverRefused
BY FifoInvariant, PTL DEF FifoIInv

\* For every capacity, the watermark f[2] brackets the occupancy.
THEOREM Watermark == FifoSpec => []WatermarkBrackets
BY FifoInvariant, PTL DEF FifoIInv

-----------------------------------------------------------------------------
(* The ring implements the abstract queue                                  *)

\* The occupied part of the ring, oldest first, is a sequence of items.
LEMMA ContentsSeq ==
    FifoIInv => /\ Contents \in Seq(Items)
            /\ Len(Contents) = count
            /\ count \in 0 .. Cap - 1
<1> SUFFICES ASSUME FifoIInv
             PROVE  /\ Contents \in Seq(Items)
                    /\ Len(Contents) = count
                    /\ count \in 0 .. Cap - 1
  BY Zenon
<1>1. count \in 0 .. Cap - 1
  BY CountRange, Zenon DEF FifoIInv, FifoTypeOK, count
<1>2. Contents \in [1 .. count -> Items]
  BY Zenon DEF Contents, FifoIInv, OccupiedWritten
<1> QED
  BY <1>1, <1>2, CapAssumption

\* The whole specification implements the bounded FIFO queue CommQueue: an
\* item enters at the store of f[1] and leaves, oldest first, at the store of
\* f[0]; every other step is invisible.
THEOREM FifoRefinesQueue == FifoSpec => Refines
<1>1. FifoInit => Q!QInit
  <2> SUFFICES ASSUME FifoInit PROVE Q!QInit
    BY Zenon
  <2>1. FifoIInv
    BY InitInv, Zenon
  <2>2. count \in {0, Cap - 1}
    BY CapAssumption DEF FifoInit, InitStaging, InitPool, count, fifo_getCount
  <2> QED
    BY <2>1, <2>2, ContentsSeq, Zenon DEF Q!QInit
<1>2. FifoIInv /\ FifoIInv' /\ [FifoNext]_fifoVars => [Q!QNext]_<<Contents, last>>
  <2> SUFFICES ASSUME FifoIInv, FifoIInv', [FifoNext]_fifoVars
               PROVE  [Q!QNext]_<<Contents, last>>
    BY Zenon
  <2>0. /\ rd \in Index /\ wr \in Index
        /\ Contents \in Seq(Items) /\ Len(Contents) = count /\ count \in 0 .. Cap - 1
        /\ Contents' \in Seq(Items) /\ Len(Contents') = count'
    <3>1. (Contents \in Seq(Items) /\ Len(Contents) = count)'
      BY ContentsSeq, PTL
    <3> QED
      BY <3>1, ContentsSeq, Zenon DEF FifoIInv, FifoTypeOK
  <2>1. CASE AdvanceWr
    <3>1. UNCHANGED <<rd, slot, last>> /\ wr' = Next1(wr) /\ rd # Next1(wr)
          /\ pval \in Items /\ slot[wr] = pval
      BY <2>1, Zenon DEF AdvanceWr, consVars, FifoIInv, CommitNeverRefused, IsFull, InFlight
    <3>2. count' = count + 1 /\ count < Cap - 1
      BY <2>0, <3>1, CountAdvance, CountRange, CapAssumption DEF count
    <3>3. Pos(rd, count) = wr
      BY <2>0, PosFacts, CapAssumption DEF count, Index
    <3>4. Contents' = [i \in 1 .. count + 1 |-> slot[Pos(rd, i - 1)]]
      BY <3>1, <3>2, Zenon DEF Contents, Pos
    <3>5. Contents' = Append(Contents, pval)
      <4>1. \A i \in 1 .. count + 1 :
               Contents'[i] = IF i = count + 1 THEN pval ELSE Contents[i]
        <5> SUFFICES ASSUME NEW i \in 1 .. count + 1
                     PROVE  Contents'[i] = IF i = count + 1 THEN pval ELSE Contents[i]
          BY Zenon
        <5>1. CASE i = count + 1
          <6>1. i - 1 = count
            BY <2>0, <5>1
          <6> QED
            BY <3>1, <3>3, <3>4, <5>1, <6>1, Zenon
        <5>2. CASE i # count + 1
          <6>1. i \in 1 .. count
            BY <2>0, <5>2
          <6> QED
            BY <3>4, <5>2, <6>1, Zenon DEF Contents
        <5> QED
          BY <5>1, <5>2, Zenon
      <4>2. /\ Append(Contents, pval) \in Seq(Items)
            /\ Len(Append(Contents, pval)) = count + 1
            /\ \A i \in 1 .. count + 1 :
                  Append(Contents, pval)[i] = IF i = count + 1 THEN pval ELSE Contents[i]
        BY <2>0, <3>1, CapAssumption
      <4> QED
        BY <2>0, <3>2, <4>1, <4>2
    <3> QED
      BY <2>0, <3>1, <3>2, <3>5, Zenon DEF Q!QNext, Q!Put
  <2>2. CASE AdvanceRd
    <3>1. UNCHANGED <<wr, slot>> /\ rd' = Next1(rd) /\ rd # wr
          /\ last' = slot[rd]
      BY <2>2, Zenon DEF AdvanceRd, FifoIInv, ReadNotOverwritten, IsEmpty
    <3>2. count' = count - 1 /\ count \in 1 .. Cap - 1
      BY <2>0, <3>1, CountAdvance, CountRange, CapAssumption DEF count
    <3>3. Contents[1] = slot[rd] /\ Contents # <<>>
      <4>1. Pos(rd, 0) = rd
        BY <2>0, PosFacts, CapAssumption, Zenon DEF Index
      <4>2. 1 \in 1 .. count /\ 1 - 1 = 0
        BY <3>2
      <4>3. Contents[1] = slot[Pos(rd, 1 - 1)]
        BY <4>2, Zenon DEF Contents
      <4> QED
        BY <2>0, <3>2, <4>1, <4>2, <4>3
    <3>4. Contents' = Tail(Contents)
      <4>1. \A i \in 1 .. count - 1 : Contents'[i] = Contents[i + 1]
        <5> SUFFICES ASSUME NEW i \in 1 .. count - 1
                     PROVE  Contents'[i] = Contents[i + 1]
          BY Zenon
        <5>1. i + 1 \in 1 .. count /\ i - 1 \in Index /\ (i - 1) + 1 < Cap
          BY <3>2, CapAssumption DEF Index
        <5>2. Pos(rd', i - 1) = Pos(rd, i)
          BY <2>0, <3>1, <5>1, PosFacts
        <5>3. Contents'[i] = slot[Pos(rd, i)]
          BY <3>1, <3>2, <5>2, Zenon DEF Contents, Pos
        <5> QED
          BY <5>1, <5>3 DEF Contents
      <4>2. /\ Tail(Contents) \in Seq(Items)
            /\ Len(Tail(Contents)) = count - 1
            /\ \A i \in 1 .. count - 1 : Tail(Contents)[i] = Contents[i + 1]
        BY <2>0, <3>2, <3>3, CapAssumption
      <4> QED
        BY <2>0, <3>2, <4>1, <4>2
    <3> QED
      BY <2>0, <3>1, <3>3, <3>4 DEF Q!QNext, Q!Get
  <2>3. CASE WriteItem
    <3>1. UNCHANGED <<rd, wr, last>> /\ ~IsFull /\ count' = count
      BY <2>3, Zenon DEF WriteItem, consVars, count, FifoIInv, CommitNeverRefused
    <3>2. \A i \in 1 .. count : Pos(rd, i - 1) \in Index /\ Pos(rd, i - 1) # wr
      <4> SUFFICES ASSUME NEW i \in 1 .. count
                   PROVE  Pos(rd, i - 1) \in Index /\ Pos(rd, i - 1) # wr
        BY Zenon
      <4>1. i - 1 \in Index /\ i - 1 # count
        BY <2>0, CapAssumption DEF Index
      <4> QED
        BY <2>0, <4>1, PosFacts DEF count
    <3>3. \A i \in 1 .. count : slot'[Pos(rd, i - 1)] = slot[Pos(rd, i - 1)]
      BY <2>0, <2>3, <3>2, Zenon DEF WriteItem, FifoIInv, FifoTypeOK
    <3>4. Contents' = Contents
      BY <3>1, <3>3, Zenon DEF Contents, Pos
    <3> QED
      BY <3>1, <3>4, Zenon
  <2>4. CASE \/ \E v \in Items : fifo_getItemWr(v)
             \/ fifo_requestItemWr \/ TrackPeak
             \/ fifo_getItemRd \/ ReadItem \/ fifo_ItemRdNext \/ TrackMin
             \/ UNCHANGED fifoVars
    <3>1. UNCHANGED <<rd, wr, slot, last>>
      BY <2>4, Zenon DEF fifo_getItemWr, fifo_requestItemWr, TrackPeak, fifo_getItemRd, ReadItem,
         fifo_ItemRdNext, TrackMin, fifoVars, ringVars, consVars
    <3> QED
      BY <3>1, Zenon DEF Contents, count
  <2> QED
    BY <2>1, <2>2, <2>3, <2>4, Zenon DEF FifoNext, Producer, Consumer
<1> QED
  BY <1>1, <1>2, FifoInvariant, PTL DEF FifoSpec, Refines, Q!QSpec

-----------------------------------------------------------------------------

(* Sequences.                                                              *)

\* Only the empty sequence has length 0.
LEMMA EmptySeq == ASSUME NEW S, NEW s \in Seq(S) PROVE s = << >> <=> Len(s) = 0
  OBVIOUS

\* The domain and the entries of a sequence.
LEMMA SeqEntries ==
    ASSUME NEW S, NEW s \in Seq(S)
    PROVE  Len(s) \in Nat /\ DOMAIN s = 1 .. Len(s) /\ \A i \in 1 .. Len(s) : s[i] \in S
  OBVIOUS

\* The head and the rest.
LEMMA HeadAndTail ==
    ASSUME NEW S, NEW s \in Seq(S), s # << >>
    PROVE  /\ Head(s) \in S /\ Head(s) = s[1]
           /\ Tail(s) \in Seq(S) /\ Len(Tail(s)) = Len(s) - 1
           /\ \A i \in 1 .. Len(Tail(s)) : Tail(s)[i] = s[i + 1]
  OBVIOUS

\* One entry more at the end.
LEMMA OneAppended ==
    ASSUME NEW S, NEW s \in Seq(S), NEW e \in S
    PROVE  /\ Append(s, e) \in Seq(S) /\ Len(Append(s, e)) = Len(s) + 1
           /\ \A i \in 1 .. Len(s) : Append(s, e)[i] = s[i]
           /\ Append(s, e)[Len(s) + 1] = e
  OBVIOUS

\* s is increasing, above lo and not above hi.
Sorted(s, lo, hi) == /\ \A i \in 1 .. Len(s) : lo < s[i] /\ s[i] <= hi
                     /\ \A i, j \in 1 .. Len(s) : i < j => s[i] < s[j]

\* What the rest of a sorted queue is after its head has been taken or dropped.
LEMMA SortedTail ==
    ASSUME NEW s \in Seq(Nat), s # << >>, NEW lo \in Nat, NEW hi \in Nat, Sorted(s, lo, hi)
    PROVE  /\ Head(s) \in Nat /\ Head(s) <= hi
           /\ Tail(s) \in Seq(Nat) /\ Len(Tail(s)) = Len(s) - 1
           /\ Sorted(Tail(s), lo, hi)
           /\ Sorted(Tail(s), Head(s), hi)
<1>1. /\ Head(s) \in Nat /\ Tail(s) \in Seq(Nat)
      /\ Len(Tail(s)) = Len(s) - 1
      /\ \A i \in 1 .. Len(Tail(s)) : Tail(s)[i] = s[i+1]
  BY HeadAndTail, Zenon
<1>2. Len(s) \in Nat /\ Len(s) # 0 /\ Head(s) = s[1]
  BY EmptySeq, SeqEntries
<1>3. \A i \in 1 .. Len(s) : s[i] \in Nat
  BY SeqEntries, Zenon
<1>. QED  BY <1>1, <1>2, <1>3 DEF Sorted

\* A new newest message keeps a queue sorted.
LEMMA SortedAppend ==
    ASSUME NEW s \in Seq(Nat), NEW lo \in Nat, NEW hi \in Nat, lo <= hi, Sorted(s, lo, hi)
    PROVE  /\ Append(s, hi + 1) \in Seq(Nat) /\ Append(s, hi + 1) # << >>
           /\ Len(Append(s, hi + 1)) = Len(s) + 1
           /\ Sorted(Append(s, hi + 1), lo, hi + 1)
<1>1. /\ Append(s, hi + 1) \in Seq(Nat) /\ Append(s, hi + 1) # << >>
      /\ Len(Append(s, hi + 1)) = Len(s) + 1
      /\ \A i \in 1 .. Len(s) : Append(s, hi + 1)[i] = s[i]
      /\ Append(s, hi + 1)[Len(s) + 1] = hi + 1
  <2>1. PICK e \in Nat : e = hi + 1
    OBVIOUS
  <2>2. /\ Append(s, e) \in Seq(Nat) /\ Len(Append(s, e)) = Len(s) + 1
        /\ \A i \in 1 .. Len(s) : Append(s, e)[i] = s[i]
        /\ Append(s, e)[Len(s) + 1] = e
    BY OneAppended, Zenon
  <2>3. Append(s, e) # << >>
    OBVIOUS
  <2>. QED  BY <2>1, <2>2, <2>3, Zenon
<1>2. /\ Len(s) \in Nat
      /\ \A i \in 1 .. Len(s) : s[i] \in Nat /\ lo < s[i] /\ s[i] <= hi
      /\ \A i, j \in 1 .. Len(s) : i < j => s[i] < s[j]
  BY SeqEntries, Zenon DEF Sorted
<1>. DEFINE a == Append(s, hi + 1)
            n == Len(s)
<1>3. n \in Nat /\ Len(a) = n + 1 /\ a[n + 1] = hi + 1
  BY <1>1, <1>2, Zenon
<1>4. \A i \in 1 .. n : a[i] \in Nat /\ lo < a[i] /\ a[i] <= hi
  BY <1>1, <1>2, Zenon
<1>5. \A i, j \in 1 .. n : i < j => a[i] < a[j]
  BY <1>1, <1>2, Zenon
<1>. HIDE DEF a, n
<1>6. ASSUME NEW i \in 1 .. n + 1
      PROVE  lo < a[i] /\ a[i] <= hi + 1
  <2>1. CASE i \in 1 .. n
    <3>1. a[i] \in Nat /\ lo < a[i] /\ a[i] <= hi
      BY <1>4, <2>1, Zenon
    <3>. QED  BY <3>1
  <2>2. CASE i = n + 1
    BY <1>3, <2>2
  <2>. QED  BY <1>3, <2>1, <2>2
<1>7. ASSUME NEW i \in 1 .. n + 1, NEW j \in 1 .. n + 1, i < j
      PROVE  a[i] < a[j]
  <2>1. i \in 1 .. n
    BY <1>3, <1>7
  <2>2. CASE j \in 1 .. n
    BY <1>5, <1>7, <2>1, <2>2, Zenon
  <2>3. CASE j = n + 1
    <3>1. a[i] \in Nat /\ a[i] <= hi /\ a[j] = hi + 1
      BY <1>3, <1>4, <2>1, <2>3, Zenon
    <3>. QED  BY <3>1
  <2>. QED  BY <1>3, <2>2, <2>3
<1>8. Sorted(a, lo, hi + 1)
  BY <1>3, <1>6, <1>7, Zenon DEF Sorted
<1>. QED  BY <1>1, <1>8, Zenon DEF a

\* cpu_comm_userspace_deliver on one context: the queue stays sorted, is not
\* empty, and grows by one unless it was full.
LEMMA PushedProperties ==
    ASSUME IInv, NEW f \in Files
    PROVE  /\ Pushed(f, clock + 1) \in Seq(Nat) /\ Pushed(f, clock + 1) # << >>
           /\ Len(Pushed(f, clock + 1)) = IF Full(f) THEN queue_count[f] ELSE queue_count[f] + 1
           /\ Sorted(Pushed(f, clock + 1), lastTaken[f], clock + 1)
<1>. DEFINE s == IF Full(f) THEN Tail(queue[f]) ELSE queue[f]
<1>1. /\ queue[f] \in Seq(Nat) /\ lastTaken[f] \in Nat /\ clock \in Nat
      /\ lastTaken[f] <= clock /\ Sorted(queue[f], lastTaken[f], clock)
      /\ queue_count[f] = Len(queue[f]) /\ queue_count[f] \in Nat
  BY Zenon DEF IInv, TypeOK, DeliveryOrder, Sorted, TakenBefore, CountMatchesQueue
<1>2. /\ s \in Seq(Nat) /\ Sorted(s, lastTaken[f], clock)
      /\ Len(s) = IF Full(f) THEN queue_count[f] - 1 ELSE queue_count[f]
  <2>1. CASE Full(f)
    <3>1. queue[f] # << >>
      BY <1>1, <2>1, EmptySeq, UserAssumption DEF Full
    <3>. QED  BY <1>1, <2>1, <3>1, SortedTail, Zenon
  <2>2. CASE ~Full(f)
    BY <1>1, <2>2, Zenon
  <2>. QED  BY <2>1, <2>2, Zenon
<1>. HIDE DEF s
<1>3. /\ Append(s, clock + 1) \in Seq(Nat) /\ Append(s, clock + 1) # << >>
      /\ Len(Append(s, clock + 1)) = Len(s) + 1
      /\ Sorted(Append(s, clock + 1), lastTaken[f], clock + 1)
  BY <1>1, <1>2, SortedAppend, Zenon
<1>4. Pushed(f, clock + 1) = Append(s, clock + 1)
  BY Zenon DEF Pushed, s
<1>5. Len(s) + 1 = IF Full(f) THEN queue_count[f] ELSE queue_count[f] + 1
  BY <1>1, <1>2
<1>. QED  BY <1>3, <1>4, <1>5, Zenon

\* The invariant holds before any file is open.
LEMMA InitIInv == Init => IInv
<1>. SUFFICES ASSUME Init PROVE IInv
  BY Zenon
<1>1. \A f \in Files : queue[f] = << >> /\ Len(queue[f]) = 0
  BY Zenon DEF Init
<1>2. TypeOK
  BY DEF Init, TypeOK
<1>. QED  BY <1>1, <1>2, UserAssumption DEF Init, IInv, TypeOK, CountMatchesQueue,
            EveryMessageAccounted, DeliveryOrder, SleeperHasNothing, PollKept, BusyIsOpen,
            TakenBefore

\* open() adds an empty context, which disturbs no other file.
LEMMA OpenIInv == ASSUME IInv, NEW f \in Files, cpu_comm_user_open(f) PROVE IInv'
<1>1. TypeOK'
  BY DEF IInv, TypeOK, cpu_comm_user_open
<1>2. /\ queue'[f] = << >> /\ Len(queue'[f]) = 0 /\ queue_count'[f] = 0 /\ dropped'[f] = 0
      /\ sentTo'[f] = 0 /\ taken'[f] = 0 /\ lastTaken'[f] = 0
      /\ opened' = opened \cup {f} /\ f \notin opened /\ opened \subseteq Files
      /\ pc' = pc /\ clock' = clock /\ waking' = waking
  BY Zenon DEF IInv, TypeOK, cpu_comm_user_open
<1>3. \A g \in Files : g # f =>
         /\ queue'[g] = queue[g] /\ queue_count'[g] = queue_count[g] /\ dropped'[g] = dropped[g]
         /\ sentTo'[g] = sentTo[g] /\ taken'[g] = taken[g] /\ lastTaken'[g] = lastTaken[g]
  BY Zenon DEF IInv, TypeOK, cpu_comm_user_open
<1>4. CountMatchesQueue'
  BY <1>2, <1>3, UserAssumption DEF IInv, CountMatchesQueue
<1>5. EveryMessageAccounted'
  <2>1. sentTo'[f] = taken'[f] + Len(queue'[f]) + dropped'[f]
    BY <1>2
  <2>2. ASSUME NEW g \in opened, g # f PROVE sentTo'[g] = taken'[g] + Len(queue'[g]) + dropped'[g]
    <3>1. sentTo[g] = taken[g] + Len(queue[g]) + dropped[g]
      BY Zenon DEF IInv, EveryMessageAccounted
    <3>. QED  BY <1>2, <1>3, <2>2, <3>1, Zenon
  <2>. QED  BY <1>2, <2>1, <2>2, Zenon DEF EveryMessageAccounted
<1>6. DeliveryOrder'
  <2>1. \A i \in 1 .. 0 : FALSE
    OBVIOUS
  <2>2. \A i \in 1 .. Len(queue'[f]) : FALSE
    BY <1>2, <2>1, Zenon
  <2>. QED  BY <1>2, <1>3, <2>2, Zenon DEF IInv, DeliveryOrder
<1>7. TakenBefore'
  <2>1. clock \in Nat /\ lastTaken'[f] <= clock'
    BY <1>2 DEF IInv, TypeOK
  <2>2. \A g \in Files : lastTaken[g] <= clock
    BY Zenon DEF IInv, TakenBefore
  <2>. QED  BY <1>2, <1>3, <2>1, <2>2, Zenon DEF TakenBefore
<1>8. ASSUME NEW r \in Readers, pc'[r] # "idle" PROVE File[r] \in Files /\ File[r] # f /\ File[r] \in opened
  BY <1>2, <1>8, UserAssumption, Zenon DEF IInv, BusyIsOpen
<1>9. SleeperHasNothing' /\ PollKept' /\ BusyIsOpen'
  BY <1>2, <1>3, <1>8 DEF IInv, SleeperHasNothing, PollKept, BusyIsOpen
<1>. QED  BY <1>1, <1>4, <1>5, <1>6, <1>7, <1>9, Zenon DEF IInv

\* release() empties a context that no thread is reading.
LEMMA ReleaseIInv == ASSUME IInv, NEW f \in Files, cpu_comm_user_release(f) PROVE IInv'
<1>1. TypeOK'
  BY DEF IInv, TypeOK, cpu_comm_user_release, ghosts
<1>2. /\ queue'[f] = << >> /\ Len(queue'[f]) = 0 /\ queue_count'[f] = 0
      /\ opened' = opened \ {f} /\ opened \subseteq Files
      /\ dropped' = dropped /\ clock' = clock /\ waking' = waking
      /\ sentTo' = sentTo /\ taken' = taken /\ lastTaken' = lastTaken
  BY Zenon DEF IInv, TypeOK, cpu_comm_user_release, ghosts
<1>3. \A g \in Files : g # f => queue'[g] = queue[g] /\ queue_count'[g] = queue_count[g]
  BY Zenon DEF IInv, TypeOK, cpu_comm_user_release
<1>4. CountMatchesQueue'
  BY <1>2, <1>3, UserAssumption DEF IInv, CountMatchesQueue
<1>5. EveryMessageAccounted'
  BY <1>2, <1>3, Zenon DEF IInv, EveryMessageAccounted
<1>6. DeliveryOrder'
  BY <1>2, <1>3 DEF IInv, DeliveryOrder
<1>7. TakenBefore'
  BY <1>2, Zenon DEF IInv, TakenBefore
<1>8. ASSUME NEW r \in Readers, pc'[r] # "idle"
      PROVE  File[r] \in Files /\ File[r] # f /\ File[r] \in opened /\ pc'[r] = pc[r]
  BY <1>8, UserAssumption, Zenon DEF IInv, BusyIsOpen, cpu_comm_user_release
<1>9. SleeperHasNothing' /\ PollKept' /\ BusyIsOpen'
  BY <1>2, <1>3, <1>8, Zenon DEF IInv, SleeperHasNothing, PollKept, BusyIsOpen
<1>. QED  BY <1>1, <1>4, <1>5, <1>6, <1>7, <1>9, Zenon DEF IInv

\* A delivery keeps the invariant: every open file's account, order and sleepers.
LEMMA DeliverIInv == ASSUME IInv, Deliver PROVE IInv'
<1>. PICK noMem \in SUBSET opened : cpu_comm_userspace_deliver(clock + 1, noMem)
  BY Zenon DEF Deliver
<1>. DEFINE to == opened \ noMem
<1>1. /\ clock \in Nat /\ clock' = clock + 1
      /\ opened' = opened /\ taken' = taken /\ lastTaken' = lastTaken
      /\ opened \subseteq Files /\ waking = {} /\ waking' = to
  BY Zenon DEF Deliver, cpu_comm_userspace_deliver, IInv, TypeOK
<1>2. ASSUME NEW f \in Files, f \in to
      PROVE  /\ queue'[f] = Pushed(f, clock + 1)
             /\ queue_count'[f] = IF Full(f) THEN queue_count[f] ELSE queue_count[f] + 1
             /\ dropped'[f] = IF Full(f) THEN dropped[f] + 1 ELSE dropped[f]
             /\ sentTo'[f] = sentTo[f] + 1
  BY <1>1, <1>2, Zenon DEF cpu_comm_userspace_deliver
<1>3. ASSUME NEW f \in Files, f \notin to
      PROVE  /\ queue'[f] = queue[f] /\ queue_count'[f] = queue_count[f]
             /\ f \in opened => dropped'[f] = dropped[f] + 1 /\ sentTo'[f] = sentTo[f] + 1
             /\ f \notin opened => dropped'[f] = dropped[f] /\ sentTo'[f] = sentTo[f]
  BY <1>1, <1>3, Zenon DEF cpu_comm_userspace_deliver
<1>4. pc' = pc /\ to \subseteq Files
  BY <1>1, Zenon DEF cpu_comm_userspace_deliver
<1>5. \A f \in Files : /\ queue[f] \in Seq(Nat) /\ Len(queue[f]) \in Nat
                       /\ queue_count[f] \in Nat /\ dropped[f] \in Nat
                       /\ sentTo[f] \in Nat /\ taken[f] \in Nat /\ lastTaken[f] \in Nat
                       /\ queue_count[f] = Len(queue[f]) /\ queue_count[f] <= QueueMax
  BY SeqEntries, Zenon DEF IInv, TypeOK, CountMatchesQueue
<1>. HIDE DEF to
<1>6. TypeOK'
  <2>1. queue' \in [Files -> Seq(Nat)]
    <3>1. \A f \in Files : queue'[f] \in Seq(Nat)
      BY <1>2, <1>3, <1>5, PushedProperties, Zenon
    <3>2. queue' = [f \in Files |-> queue'[f]]
      BY Zenon DEF cpu_comm_userspace_deliver
    <3>. QED  BY <3>1, <3>2, Zenon
  <2>2. queue_count' \in [Files -> Nat] /\ dropped' \in [Files -> Nat] /\ sentTo' \in [Files -> Nat]
    <3>1. \A n \in Nat : n + 1 \in Nat
      OBVIOUS
    <3>2. /\ queue_count' = [f \in Files |-> queue_count'[f]]
          /\ dropped' = [f \in Files |-> dropped'[f]] /\ sentTo' = [f \in Files |-> sentTo'[f]]
      BY Zenon DEF cpu_comm_userspace_deliver
    <3>3. ASSUME NEW f \in Files PROVE queue_count'[f] \in Nat /\ dropped'[f] \in Nat /\ sentTo'[f] \in Nat
      BY <1>2, <1>3, <1>5, <3>1, Zenon
    <3>. QED  BY <3>2, <3>3, Zenon
  <2>3. pc' \in [Readers -> {"idle", "polled", "try", "copy", "wait", "onqueue", "sleep"}]
    BY <1>4, Zenon DEF IInv, TypeOK
  <2>. QED  BY <1>1, <1>4, <2>1, <2>2, <2>3 DEF IInv, TypeOK
<1>7. CountMatchesQueue'
  <2>1. ASSUME NEW f \in Files PROVE queue_count'[f] = Len(queue'[f]) /\ queue_count'[f] <= QueueMax
    <3>1. CASE f \in to
      <4>1. queue_count'[f] = Len(queue'[f])
        BY <1>2, <3>1, PushedProperties, Zenon
      <4>2. \A n, max \in Nat : ~(n >= max) => n + 1 <= max
        OBVIOUS
      <4>3. queue_count[f] \in Nat /\ queue_count[f] <= QueueMax /\ QueueMax \in Nat
        BY <1>5, UserAssumption, Zenon
      <4>. QED  BY <1>2, <3>1, <4>1, <4>2, <4>3, Zenon DEF Full
    <3>2. CASE f \notin to
      BY <1>3, <1>5, <3>2, Zenon
    <3>. QED  BY <3>1, <3>2, Zenon
  <2>. QED  BY <2>1, Zenon DEF CountMatchesQueue
<1>8. EveryMessageAccounted'
  <2>1. ASSUME NEW f \in opened PROVE sentTo'[f] = taken'[f] + Len(queue'[f]) + dropped'[f]
    <3>0. f \in Files /\ sentTo[f] = taken[f] + queue_count[f] + dropped[f]
      BY <1>1, <1>5, Zenon DEF IInv, EveryMessageAccounted
    <3>a. /\ queue_count[f] \in Nat /\ dropped[f] \in Nat /\ sentTo[f] \in Nat /\ taken[f] \in Nat
          /\ queue_count'[f] = Len(queue'[f]) /\ taken'[f] = taken[f]
      BY <1>1, <1>5, <1>7, <3>0, Zenon DEF CountMatchesQueue
    <3>n. PICK a \in Nat, b \in Nat, c \in Nat : a = taken[f] /\ b = queue_count[f] /\ c = dropped[f]
      BY <3>a, Zenon
    <3>b. (a + b + c) + 1 = a + (b + 1) + c /\ (a + b + c) + 1 = a + b + (c + 1)
      OBVIOUS
    <3>1. CASE f \in to
      <4>1. /\ queue_count'[f] = IF Full(f) THEN queue_count[f] ELSE queue_count[f] + 1
            /\ dropped'[f] = IF Full(f) THEN dropped[f] + 1 ELSE dropped[f]
            /\ sentTo'[f] = sentTo[f] + 1
        BY <1>2, <3>0, <3>1, Zenon
      <4>2. sentTo'[f] = taken[f] + queue_count'[f] + dropped'[f]
        <5>1. sentTo'[f] = (a + b + c) + 1
          BY <3>0, <3>n, <4>1, Zenon
        <5>2. \/ queue_count'[f] = b /\ dropped'[f] = c + 1
              \/ queue_count'[f] = b + 1 /\ dropped'[f] = c
          BY <3>n, <4>1, Zenon
        <5>. QED  BY <3>n, <3>b, <5>1, <5>2, Zenon
      <4>. QED  BY <3>a, <4>2, Zenon
    <3>2. CASE f \notin to
      <4>1. sentTo'[f] = taken[f] + queue_count'[f] + dropped'[f]
        <5>1. sentTo'[f] = sentTo[f] + 1 /\ queue_count'[f] = b /\ dropped'[f] = c + 1
          BY <1>3, <3>0, <3>n, <3>2, Zenon
        <5>2. sentTo'[f] = (a + b + c) + 1
          BY <3>0, <3>n, <5>1, Zenon
        <5>. QED  BY <3>n, <3>b, <5>1, <5>2, Zenon
      <4>. QED  BY <3>a, <4>1, Zenon
    <3>. QED  BY <3>1, <3>2, Zenon
  <2>. QED  BY <1>1, <2>1, Zenon DEF EveryMessageAccounted
<1>9. DeliveryOrder'
  <2>1. ASSUME NEW f \in Files PROVE Sorted(queue'[f], lastTaken'[f], clock')
    <3>1. CASE f \in to
      BY <1>1, <1>2, <3>1, PushedProperties, Zenon
    <3>2. CASE f \notin to
      <4>1. Sorted(queue[f], lastTaken[f], clock) /\ \A i \in 1 .. Len(queue[f]) : queue[f][i] \in Nat
        BY <1>5, SeqEntries, Zenon DEF IInv, DeliveryOrder, Sorted
      <4>2. queue'[f] = queue[f] /\ lastTaken'[f] = lastTaken[f] /\ clock' = clock + 1
        BY <1>1, <1>3, <3>2, Zenon
      <4>3. \A n \in Nat : n <= clock => n <= clock + 1
        BY ONLY <1>1
      <4>. QED  BY <4>1, <4>2, <4>3, Zenon DEF Sorted
    <3>. QED  BY <3>1, <3>2, Zenon
  <2>. QED  BY <2>1, Zenon DEF DeliveryOrder, Sorted
<1>10. SleeperHasNothing'
  <2>1. ASSUME NEW r \in Readers, pc'[r] = "sleep"
        PROVE  queue'[File[r]] = << >> \/ File[r] \in waking'
    <3>1. pc[r] = "sleep" /\ File[r] \in Files /\ queue[File[r]] = << >>
      BY <1>1, <1>4, <2>1, UserAssumption, Zenon DEF IInv, SleeperHasNothing
    <3>. QED  BY <1>1, <1>3, <3>1, Zenon
  <2>. QED  BY <2>1, Zenon DEF SleeperHasNothing
<1>11. PollKept'
  <2>1. ASSUME NEW r \in Readers, pc'[r] = "polled", \A s \in Readers : File[s] = File[r] => s = r
        PROVE  queue'[File[r]] # << >>
    <3>1. pc[r] = "polled" /\ File[r] \in Files
      BY <1>4, <2>1, UserAssumption, Zenon
    <3>2. queue[File[r]] # << >>
      BY <2>1, <3>1, Zenon DEF IInv, PollKept
    <3>3. CASE File[r] \in to
      BY <1>2, <3>1, <3>3, PushedProperties, Zenon
    <3>4. CASE File[r] \notin to
      BY <1>3, <3>1, <3>2, <3>4, Zenon
    <3>. QED  BY <3>3, <3>4, Zenon
  <2>. QED  BY <2>1, Zenon DEF PollKept
<1>12. BusyIsOpen' /\ TakenBefore'
  <2>1. \A r \in Readers : pc'[r] # "idle" => pc[r] # "idle"
    BY <1>4, Zenon
  <2>2. BusyIsOpen'
    BY <1>1, <2>1, Zenon DEF IInv, BusyIsOpen
  <2>3. \A f \in Files : lastTaken[f] \in Nat /\ lastTaken[f] <= clock
    BY <1>5, Zenon DEF IInv, TakenBefore
  <2>4. \A f \in Files : lastTaken[f] <= clock + 1
    BY ONLY <1>1, <2>3
  <2>5. TakenBefore'
    BY <1>1, <2>4, Zenon DEF TakenBefore
  <2>. QED  BY <2>2, <2>5, Zenon
<1>. QED  BY <1>6, <1>7, <1>8, <1>9, <1>10, <1>11, <1>12, Zenon DEF IInv

\* A step of a reader that touches no context and keeps what its new place asks for.
LEMMA QuietIInv ==
    ASSUME IInv, NEW r \in Readers, NEW s \in {"idle", "polled", "try", "wait", "onqueue", "sleep"},
           UNCHANGED <<ctxVars, waking, clock, ghosts>>,
           pc' = [pc EXCEPT ![r] = s],
           s # "idle" => File[r] \in opened,
           s = "polled" => queue[File[r]] # << >>,
           s = "sleep" => queue[File[r]] = << >>
    PROVE  IInv'
<1>1. /\ opened' = opened /\ queue' = queue /\ queue_count' = queue_count /\ dropped' = dropped
      /\ clock' = clock /\ sentTo' = sentTo /\ taken' = taken /\ lastTaken' = lastTaken
      /\ waking' = waking
  BY Zenon DEF ctxVars, ghosts
<1>2. pc \in [Readers -> {"idle", "polled", "try", "copy", "wait", "onqueue", "sleep"}]
  BY Zenon DEF IInv, TypeOK
<1>3. /\ pc' \in [Readers -> {"idle", "polled", "try", "copy", "wait", "onqueue", "sleep"}]
      /\ pc'[r] = s
      /\ \A q \in Readers : q # r => pc'[q] = pc[q]
  BY <1>2, Zenon
<1>4. TypeOK'
  BY <1>1, <1>3, Zenon DEF IInv, TypeOK
<1>5. CountMatchesQueue' /\ EveryMessageAccounted'
  BY <1>1, Zenon DEF IInv, CountMatchesQueue, EveryMessageAccounted
<1>6. DeliveryOrder'
  BY <1>1, Zenon DEF IInv, DeliveryOrder
<1>7. TakenBefore'
  BY <1>1, Zenon DEF IInv, TakenBefore
<1>8. SleeperHasNothing'
  BY <1>1, <1>3, Zenon DEF IInv, SleeperHasNothing
<1>9. PollKept'
  BY <1>1, <1>3, Zenon DEF IInv, PollKept
<1>10. BusyIsOpen'
  BY <1>1, <1>3, Zenon DEF IInv, BusyIsOpen
<1>. QED  BY <1>4, <1>5, <1>6, <1>7, <1>8, <1>9, <1>10, Zenon DEF IInv

\* read()'s section under ctx->lock: the head leaves the queue, or the thread waits.
LEMMA TakeIInv == ASSUME IInv, NEW r \in Readers, Take(r) PROVE IInv'
<1>. DEFINE f == File[r]
<1>0. f \in Files /\ pc[r] = "try" /\ pc \in [Readers -> {"idle", "polled", "try", "copy", "wait", "onqueue", "sleep"}]
  BY UserAssumption, Zenon DEF Take, IInv, TypeOK
<1>1. /\ queue[f] \in Seq(Nat) /\ lastTaken[f] \in Nat /\ clock \in Nat
      /\ Sorted(queue[f], lastTaken[f], clock)
      /\ queue_count[f] = Len(queue[f]) /\ queue_count[f] \in Nat /\ queue_count[f] <= QueueMax
  BY <1>0, Zenon DEF IInv, TypeOK, DeliveryOrder, Sorted, CountMatchesQueue
<1>2. CASE queue[f] = << >>
  <2>1. UNCHANGED <<ctxVars, waking, clock, ghosts>>
    BY <1>2, Zenon DEF Take, ctxVars, ghosts
  <2>2. PICK s \in {"idle", "wait"} : pc' = [pc EXCEPT ![r] = s]
    BY <1>2, Zenon DEF Take, Goto
  <2>3. File[r] \in opened
    BY <1>0, Zenon DEF IInv, BusyIsOpen
  <2>. QED  BY <2>1, <2>2, <2>3, QuietIInv, Zenon
<1>3. CASE queue[f] # << >>
  <2>1. /\ Head(queue[f]) \in Nat /\ Head(queue[f]) <= clock
        /\ Tail(queue[f]) \in Seq(Nat) /\ Len(Tail(queue[f])) = Len(queue[f]) - 1
        /\ Sorted(Tail(queue[f]), Head(queue[f]), clock)
    BY <1>1, <1>3, SortedTail, Zenon
  <2>2. /\ queue' = [queue EXCEPT ![f] = Tail(@)]
        /\ queue_count' = [queue_count EXCEPT ![f] = @ - 1]
        /\ taken' = [taken EXCEPT ![f] = @ + 1]
        /\ lastTaken' = [lastTaken EXCEPT ![f] = Head(queue[f])]
        /\ pc' = [pc EXCEPT ![r] = "copy"]
        /\ UNCHANGED <<opened, waking, dropped, clock, sentTo>>
    BY <1>3, Zenon DEF Take, Goto
  <2>3. /\ queue'[f] = Tail(queue[f]) /\ queue_count'[f] = queue_count[f] - 1
        /\ taken'[f] = taken[f] + 1 /\ lastTaken'[f] = Head(queue[f])
        /\ \A g \in Files : g # f => /\ queue'[g] = queue[g] /\ queue_count'[g] = queue_count[g]
                                     /\ taken'[g] = taken[g] /\ lastTaken'[g] = lastTaken[g]
    BY <1>0, <2>2, Zenon DEF IInv, TypeOK
  <2>. HIDE DEF f
  <2>4. queue_count[f] - 1 \in Nat
    BY <1>1, <2>1, SeqEntries, Zenon
  <2>5. TypeOK'
    <3>1. queue' \in [Files -> Seq(Nat)]
      BY <1>0, <2>1, <2>2, Zenon DEF IInv, TypeOK
    <3>2. /\ queue_count \in [Files -> Nat] /\ taken \in [Files -> Nat] /\ lastTaken \in [Files -> Nat]
      BY Zenon DEF IInv, TypeOK
    <3>3. queue_count' \in [Files -> Nat]
      BY <1>0, <2>2, <2>4, <3>2, Zenon
    <3>4. taken' \in [Files -> Nat]
      BY <1>0, <2>2, <3>2
    <3>5. lastTaken' \in [Files -> Nat]
      BY <1>0, <2>1, <2>2, <3>2, Zenon
    <3>6. pc' \in [Readers -> {"idle", "polled", "try", "copy", "wait", "onqueue", "sleep"}]
      BY <1>0, <2>2, Zenon
    <3>. QED  BY <2>2, <3>1, <3>3, <3>4, <3>5, <3>6, Zenon DEF IInv, TypeOK
  <2>6. CountMatchesQueue'
    <3>1. \A g \in Files : queue_count[g] = Len(queue[g]) /\ queue_count[g] <= QueueMax
      BY Zenon DEF IInv, CountMatchesQueue
    <3>2. queue_count'[f] = Len(queue'[f]) /\ queue_count'[f] <= QueueMax
      <4>1. PICK n \in Nat : n = queue_count[f]
        BY <1>1, Zenon
      <4>2. n <= QueueMax /\ queue_count'[f] = n - 1 /\ Len(queue'[f]) = n - 1
        BY <1>1, <2>1, <2>3, <4>1, Zenon
      <4>3. \A m, max \in Nat : m <= max => m - 1 <= max
        OBVIOUS
      <4>. QED  BY <4>2, <4>3, UserAssumption, Zenon
    <3>. QED  BY <2>3, <3>1, <3>2, Zenon DEF CountMatchesQueue
  <2>7. EveryMessageAccounted'
    <3>1. \A g \in opened : g \in Files /\ sentTo[g] \in Nat /\ taken[g] \in Nat /\ dropped[g] \in Nat
      BY Zenon DEF IInv, TypeOK
    <3>2. ASSUME NEW g \in opened PROVE sentTo'[g] = taken'[g] + Len(queue'[g]) + dropped'[g]
      <4>1. /\ g \in Files /\ sentTo[g] = taken[g] + queue_count[g] + dropped[g]
            /\ queue_count[g] \in Nat /\ Len(queue'[g]) = queue_count'[g]
            /\ sentTo'[g] = sentTo[g] /\ dropped'[g] = dropped[g]
        BY <2>2, <2>6, <3>1, Zenon DEF IInv, TypeOK, EveryMessageAccounted, CountMatchesQueue
      <4>2. taken'[g] + queue_count'[g] = taken[g] + queue_count[g]
        <5>1. CASE g = f
          <6>1. taken'[g] = taken[g] + 1 /\ queue_count'[g] = queue_count[g] - 1
            BY <2>3, <5>1, Zenon
          <6>2. taken[g] \in Nat /\ queue_count[g] \in Nat
            BY <3>1, <4>1, Zenon
          <6>. QED  BY <6>1, <6>2
        <5>2. CASE g # f
          BY <2>3, <4>1, <5>2, Zenon
        <5>. QED  BY <5>1, <5>2, Zenon
      <4>. QED  BY <3>1, <4>1, <4>2, Zenon
    <3>. QED  BY <2>2, <3>2, Zenon DEF EveryMessageAccounted
  <2>8. DeliveryOrder' /\ TakenBefore'
    <3>1. \A g \in Files : Sorted(queue[g], lastTaken[g], clock)
      BY Zenon DEF IInv, DeliveryOrder, Sorted
    <3>2. \A g \in Files : Sorted(queue'[g], lastTaken'[g], clock')
      BY <2>1, <2>2, <2>3, <3>1, Zenon
    <3>3. DeliveryOrder'
      BY <3>2, Zenon DEF DeliveryOrder, Sorted
    <3>4. TakenBefore'
      BY <2>1, <2>2, <2>3, Zenon DEF IInv, TakenBefore
    <3>. QED  BY <3>3, <3>4, Zenon
  <2>9. SleeperHasNothing'
    <3>1. ASSUME NEW q \in Readers, pc'[q] = "sleep"
          PROVE  queue'[File[q]] = << >> \/ File[q] \in waking'
      <4>1. pc[q] = "sleep" /\ File[q] \in Files /\ (queue[File[q]] = << >> \/ File[q] \in waking)
        BY <1>0, <2>2, <3>1, UserAssumption, Zenon DEF IInv, SleeperHasNothing
      <4>. QED  BY <1>3, <2>2, <2>3, <4>1, Zenon
    <3>. QED  BY <3>1, Zenon DEF SleeperHasNothing
  <2>10. PollKept'
    <3>1. ASSUME NEW q \in Readers, pc'[q] = "polled", \A s \in Readers : File[s] = File[q] => s = q
          PROVE  queue'[File[q]] # << >>
      <4>1. pc[q] = "polled" /\ q # r /\ File[q] \in Files /\ File[q] # f
        BY <1>0, <2>2, <3>1, UserAssumption, Zenon DEF f
      <4>. QED  BY <2>3, <3>1, <4>1, Zenon DEF IInv, PollKept
    <3>. QED  BY <3>1, Zenon DEF PollKept
  <2>11. BusyIsOpen'
    BY <1>0, <2>2, Zenon DEF IInv, BusyIsOpen
  <2>. QED  BY <2>5, <2>6, <2>7, <2>8, <2>9, <2>10, <2>11, Zenon DEF IInv
<1>. QED  BY <1>2, <1>3, Zenon

\* The steps of a reader that touch no context.
LEMMA ReaderIInv ==
    ASSUME IInv, NEW r \in Readers,
           \/ cpu_comm_user_poll(r) \/ cpu_comm_user_read(r)
           \/ PrepareToWait(r) \/ WaitEvent(r) \/ ReadReturns(r)
    PROVE  IInv'
<1>1. UNCHANGED <<ctxVars, waking, clock, ghosts>>
  BY Zenon DEF cpu_comm_user_poll, cpu_comm_user_read, PrepareToWait, WaitEvent, ReadReturns
<1>2. PICK s \in {"idle", "polled", "try", "onqueue", "sleep"} :
         /\ pc' = [pc EXCEPT ![r] = s]
         /\ s # "idle" => File[r] \in opened
         /\ s = "polled" => queue[File[r]] # << >>
         /\ s = "sleep" => queue[File[r]] = << >>
  BY Zenon DEF cpu_comm_user_poll, cpu_comm_user_read, PrepareToWait, WaitEvent, ReadReturns, Goto,
     IInv, BusyIsOpen
<1>. QED  BY <1>1, <1>2, QuietIInv, Zenon

\* The wake-up of a file leaves no thread asleep on it.
LEMMA WakeIInv == ASSUME IInv, NEW f \in Files, wake_up_interruptible(f) PROVE IInv'
<1>1. /\ opened' = opened /\ queue' = queue /\ queue_count' = queue_count /\ dropped' = dropped
      /\ clock' = clock /\ sentTo' = sentTo /\ taken' = taken /\ lastTaken' = lastTaken
      /\ waking' = waking \ {f}
  BY Zenon DEF wake_up_interruptible, ctxVars, ghosts
<1>2. /\ pc' = [r \in Readers |-> pc'[r]]
      /\ \A r \in Readers :
            pc'[r] = IF pc[r] \in {"onqueue", "sleep"} /\ File[r] = f THEN "wait" ELSE pc[r]
  BY Zenon DEF wake_up_interruptible
<1>3. pc' \in [Readers -> {"idle", "polled", "try", "copy", "wait", "onqueue", "sleep"}]
  BY <1>2, Zenon DEF IInv, TypeOK
<1>4. TypeOK'
  BY <1>1, <1>3, Zenon DEF IInv, TypeOK
<1>5. CountMatchesQueue' /\ EveryMessageAccounted'
  BY <1>1, Zenon DEF IInv, CountMatchesQueue, EveryMessageAccounted
<1>6. DeliveryOrder'
  BY <1>1, Zenon DEF IInv, DeliveryOrder
<1>7. TakenBefore'
  BY <1>1, Zenon DEF IInv, TakenBefore
<1>8. SleeperHasNothing'
  BY <1>1, <1>2, Zenon DEF IInv, SleeperHasNothing
<1>9. PollKept'
  BY <1>1, <1>2, Zenon DEF IInv, PollKept
<1>10. BusyIsOpen'
  BY <1>1, <1>2, Zenon DEF IInv, BusyIsOpen
<1>. QED  BY <1>4, <1>5, <1>6, <1>7, <1>8, <1>9, <1>10, Zenon DEF IInv

\* The invariant holds in every reachable state, for any files, threads and
\* USER_QUEUE_MAX.
THEOREM UserQueueInvariant == Spec => []IInv
<1>1. IInv /\ [Next]_vars => IInv'
  <2>. SUFFICES ASSUME IInv, [Next]_vars PROVE IInv'
    BY Zenon
  <2>1. ASSUME NEW f \in Files, cpu_comm_user_open(f) PROVE IInv'
    BY <2>1, OpenIInv, Zenon
  <2>2. ASSUME NEW f \in Files, cpu_comm_user_release(f) PROVE IInv'
    BY <2>2, ReleaseIInv, Zenon
  <2>3. CASE Deliver
    BY <2>3, DeliverIInv, Zenon
  <2>4. ASSUME NEW r \in Readers, Reader(r) PROVE IInv'
    BY <2>4, TakeIInv, ReaderIInv, Zenon DEF Reader
  <2>w. ASSUME NEW f \in Files, wake_up_interruptible(f) PROVE IInv'
    BY <2>w, WakeIInv, Zenon
  <2>5. CASE UNCHANGED vars
    BY <2>5, Zenon DEF vars, ctxVars, ghosts, IInv, TypeOK, CountMatchesQueue, EveryMessageAccounted,
       DeliveryOrder, SleeperHasNothing, PollKept, BusyIsOpen, TakenBefore
  <2>. QED  BY <2>1, <2>2, <2>3, <2>4, <2>w, <2>5, Zenon DEF Next
<1>. QED  BY InitIInv, <1>1, PTL DEF Spec

\* Overflow, failed allocations and concurrent readers lose no message without
\* a trace: deliveries = taken + queued + dropped, on every open file.
THEOREM NoMessageLost == Spec => []EveryMessageAccounted
<1>1. IInv => EveryMessageAccounted
  BY Zenon DEF IInv
<1>. QED  BY UserQueueInvariant, <1>1, PTL

\* read() takes messages in the order of their delivery.
THEOREM ReadInOrder == Spec => []DeliveryOrder
<1>1. IInv => DeliveryOrder
  BY Zenon DEF IInv
<1>. QED  BY UserQueueInvariant, <1>1, PTL

\* cpu_comm_userspace_deliver loses no wake-up, and a read() that follows POLLIN
\* does not block the only reader of the file.
THEOREM ReadersNotMissed == Spec => []ReaderNotMissed
<1>1. IInv => ReaderNotMissed
  BY Zenon DEF IInv, ReaderNotMissed
<1>. QED  BY UserQueueInvariant, <1>1, PTL

-----------------------------------------------------------------------------
(* The SDIO bus *)

-----------------------------------------------------------------------------
(* The queues and the sequences *)

\* The number of queued packets after one of the two lists is replaced.
LEMMA QueuedReplaced ==
    ASSUME NEW q \in [Prios -> Seq(Pkts)], NEW k \in Prios, NEW r \in Seq(Pkts)
    PROVE  Queued([q EXCEPT ![k] = r]) = Queued(q) - Len(q[k]) + Len(r)
<1>. DEFINE z == [q EXCEPT ![k] = r]
<1>1. z \in [Prios -> Seq(Pkts)] /\ z[k] = r /\ \A j \in Prios : j # k => z[j] = q[j]
  BY Zenon
<1>2. PICK a \in Nat, b \in Nat, c \in Nat : a = Len(q[0]) /\ b = Len(q[1]) /\ c = Len(r)
  BY DEF Prios
<1>3. CASE k = 0
  <2>1. Len(z[0]) = c /\ Len(z[1]) = b
    BY <1>1, <1>2, <1>3 DEF Prios
  <2>2. Queued(z) = c + b /\ Queued(q) = a + b
    BY <2>1, <1>2, Zenon DEF Queued
  <2>. QED  BY <1>2, <1>3, <2>2
<1>4. CASE k = 1
  <2>1. Len(z[0]) = a /\ Len(z[1]) = c
    BY <1>1, <1>2, <1>4 DEF Prios
  <2>2. Queued(z) = a + c /\ Queued(q) = a + b
    BY <2>1, <1>2, Zenon DEF Queued
  <2>. QED  BY <1>2, <1>4, <2>2
<1>. QED  BY <1>3, <1>4, Zenon DEF Prios

\* How many packets are queued: a number, one more with a packet enqueued, one
\* less with a packet dequeued.
LEMMA QueuedFacts ==
    ASSUME NEW q \in [Prios -> Seq(Pkts)]
    PROVE  /\ Queued(q) \in Nat
           /\ Queued(q) = 0 => \A k \in Prios : q[k] = <<>>
           /\ \A p \in Pkts : Prio[p] \in Prios =>
                /\ aicwf_frame_enq(q, p) \in [Prios -> Seq(Pkts)]
                /\ Queued(aicwf_frame_enq(q, p)) = Queued(q) + 1
           /\ Queued(q) # 0 => /\ HiPrio(q) \in Prios /\ q[HiPrio(q)] # <<>>
                               /\ Head(q[HiPrio(q)]) \in Pkts
                               /\ aicwf_frame_dequeue(q) \in [Prios -> Seq(Pkts)]
                               /\ Queued(aicwf_frame_dequeue(q)) = Queued(q) - 1
<1>1. Queued(q) \in Nat
  BY DEF Queued, Prios
<1>2. Queued(q) = 0 => \A k \in Prios : q[k] = <<>>
  BY DEF Queued, Prios
<1>3. ASSUME NEW p \in Pkts, Prio[p] \in Prios
      PROVE  /\ aicwf_frame_enq(q, p) \in [Prios -> Seq(Pkts)]
             /\ Queued(aicwf_frame_enq(q, p)) = Queued(q) + 1
  <2>1. PICK k \in Prios : k = Prio[p]
    BY <1>3, Zenon
  <2>2. aicwf_frame_enq(q, p) = [q EXCEPT ![k] = Append(@, p)]
    BY <2>1, Zenon DEF aicwf_frame_enq
  <2>3. [q EXCEPT ![k] = Append(@, p)] \in [Prios -> Seq(Pkts)]
    OBVIOUS
  <2>4. Queued([q EXCEPT ![k] = Append(@, p)]) = Queued(q) + 1
    <3>1. Len(Append(q[k], p)) = Len(q[k]) + 1
      OBVIOUS
    <3>2. Append(q[k], p) \in Seq(Pkts)
      OBVIOUS
    <3>3. PICK n \in Nat : n = Len(q[k])
      OBVIOUS
    <3>4. Queued([q EXCEPT ![k] = Append(@, p)]) = Queued(q) - n + (n + 1)
      BY <3>1, <3>2, <3>3, QueuedReplaced, Zenon
    <3>. QED  BY <1>1, <3>4
  <2>. QED  BY <2>2, <2>3, <2>4, Zenon
<1>4. ASSUME Queued(q) # 0
      PROVE  /\ HiPrio(q) \in Prios /\ q[HiPrio(q)] # <<>>
             /\ Head(q[HiPrio(q)]) \in Pkts
             /\ aicwf_frame_dequeue(q) \in [Prios -> Seq(Pkts)]
             /\ Queued(aicwf_frame_dequeue(q)) = Queued(q) - 1
  <2>1. PICK k \in Prios : k = HiPrio(q)
    BY Zenon DEF HiPrio, Prios
  <2>2. q[k] # <<>>
    BY <1>4, <2>1 DEF HiPrio, Queued, Prios
  <2>3. Head(q[k]) \in Pkts
    BY <2>2
  <2>4. [q EXCEPT ![k] = Tail(@)] \in [Prios -> Seq(Pkts)]
    BY <2>2
  <2>5. Queued([q EXCEPT ![k] = Tail(@)]) = Queued(q) - 1
    <3>1. Len(Tail(q[k])) = Len(q[k]) - 1
      BY <2>2
    <3>2. Tail(q[k]) \in Seq(Pkts)
      BY <2>2
    <3>3. PICK n \in Nat : n = Len(q[k])
      OBVIOUS
    <3>4. Queued([q EXCEPT ![k] = Tail(@)]) = Queued(q) - n + (n - 1)
      BY <3>1, <3>2, <3>3, QueuedReplaced, Zenon
    <3>. QED  BY <1>1, <3>4
  <2>. QED  BY <2>1, <2>2, <2>3, <2>4, <2>5, Zenon DEF aicwf_frame_dequeue
<1>. QED  BY <1>1, <1>2, <1>3, <1>4, Zenon

\* Packets are numbers, in a sequence as well.
LEMMA PacketNumbers ==
    /\ \A p \in Pkts : p \in Nat
    /\ \A s \in Seq(Pkts) : Len(s) \in Nat /\ \A i \in 1..Len(s) : s[i] \in Nat
<1>1. \A p \in Pkts : p \in Nat
  BY BusAssumption DEF Pkts
<1>2. ASSUME NEW s \in Seq(Pkts)
      PROVE  Len(s) \in Nat /\ \A i \in 1..Len(s) : s[i] \in Nat
  BY <1>1
<1>. QED  BY <1>1, <1>2, Zenon

\* A new packet has the highest number, so it may join its queue.
LEMMA OrderEnq ==
    ASSUME NEW out \in Seq(Pkts), NEW q \in [Prios -> Seq(Pkts)], NEW n \in Pkts,
           Prio[n] \in Prios, Ordered(out, q, n)
    PROVE  Ordered(out, aicwf_frame_enq(q, n), n + 1)
<1>1. PICK h \in Prios : h = Prio[n]
  BY Zenon
<1>. DEFINE z == [q EXCEPT ![h] = Append(@, n)]
<1>2. aicwf_frame_enq(q, n) = z
  BY <1>1, Zenon DEF aicwf_frame_enq
<1>3. n \in Nat /\ \A i \in 1..Len(out) : out[i] \in Nat
  BY PacketNumbers, Zenon
<1>4. ASSUME NEW k \in Prios, NEW j \in 1..Len(z[k])
      PROVE  /\ Prio[z[k][j]] = k /\ z[k][j] < n + 1
             /\ \A i \in 1..Len(out) : Prio[out[i]] = k => out[i] < z[k][j]
             /\ \A i \in 1..Len(z[k]) : i < j => z[k][i] < z[k][j]
  <2>0. /\ q[k] \in Seq(Pkts) /\ Len(q[k]) \in Nat
        /\ \A i \in 1..Len(q[k]) : q[k][i] \in Nat /\ q[k][i] < n
    <3>1. q[k] \in Seq(Pkts)
      BY Zenon
    <3>. QED  BY <3>1, PacketNumbers, Zenon DEF Ordered
  <2>1. CASE k # h
    <3>1. z[k] = q[k]
      BY <2>1, Zenon
    <3>2. z[k][j] \in Nat /\ z[k][j] < n
      BY <3>1, <2>0, Zenon
    <3>3. z[k][j] < n + 1
      BY <3>2, <1>3
    <3>. QED  BY <3>1, <3>3, Zenon DEF Ordered
  <2>2. CASE k = h
    <3>1. z[k] = Append(q[k], n) /\ Len(z[k]) = Len(q[k]) + 1
      BY <2>2
    <3>2. \A i \in 1..Len(q[k]) : z[k][i] = q[k][i]
      BY <3>1, <2>0
    <3>3. z[k][Len(q[k]) + 1] = n
      BY <3>1, <2>0
    <3>4. CASE j = Len(q[k]) + 1
      <4>1. \A i \in 1..Len(z[k]) : i < j => i \in 1..Len(q[k])
        BY <3>1, <3>4, <2>0
      <4>2. z[k][j] = n /\ n < n + 1
        BY <3>3, <3>4, <1>3
      <4>. QED  BY <1>1, <2>0, <2>2, <3>2, <4>1, <4>2 DEF Ordered
    <3>5. CASE j # Len(q[k]) + 1
      <4>1. j \in 1..Len(q[k])
        BY <3>1, <3>5, <2>0
      <4>2. \A i \in 1..Len(z[k]) : i < j => i \in 1..Len(q[k])
        BY <3>1, <4>1, <2>0
      <4>3. z[k][j] = q[k][j] /\ q[k][j] < n + 1
        BY <3>2, <4>1, <2>0, <1>3
      <4>. QED  BY <3>2, <4>1, <4>2, <4>3 DEF Ordered
    <3>. QED  BY <3>4, <3>5, Zenon
  <2>. QED  BY <2>1, <2>2, Zenon
<1>5. \A i \in 1..Len(out) : out[i] < n + 1
  BY <1>3 DEF Ordered
<1>. QED  BY <1>2, <1>4, <1>5, Zenon DEF Ordered

\* The head of a queue may leave after everything that left before.
LEMMA OrderDeq ==
    ASSUME NEW out \in Seq(Pkts), NEW q \in [Prios -> Seq(Pkts)], NEW n \in Nat,
           Queued(q) # 0, Ordered(out, q, n)
    PROVE  Ordered(Append(out, Head(q[HiPrio(q)])), aicwf_frame_dequeue(q), n)
<1>1. PICK h \in Prios : h = HiPrio(q) /\ q[h] # <<>>
  BY QueuedFacts, Zenon
<1>. DEFINE z == [q EXCEPT ![h] = Tail(@)]
            p == Head(q[h])
            o == Append(out, p)
<1>2. aicwf_frame_dequeue(q) = z /\ Head(q[HiPrio(q)]) = p
  BY <1>1, Zenon DEF aicwf_frame_dequeue
<1>3. /\ p = q[h][1] /\ 1 \in 1..Len(q[h])
      /\ o \in Seq(Pkts) /\ Len(o) = Len(out) + 1 /\ o[Len(out) + 1] = p
      /\ \A i \in 1..Len(out) : o[i] = out[i]
  <2>1. q[h] \in Seq(Pkts)
    BY Zenon
  <2>2. p \in Pkts /\ p = q[h][1]
    BY <1>1, <2>1, HeadAndTail, Zenon
  <2>3. Len(q[h]) \in Nat /\ Len(q[h]) # 0
    BY <1>1, <2>1, EmptySeq, SeqEntries, Zenon
  <2>4. \A n0 \in Nat : n0 # 0 => 1 \in 1..n0
    OBVIOUS
  <2>5. /\ o \in Seq(Pkts) /\ Len(o) = Len(out) + 1 /\ o[Len(out) + 1] = p
        /\ \A i \in 1..Len(out) : o[i] = out[i]
    <3>1. PICK e \in Pkts : e = p
      BY <2>2, Zenon
    <3>2. /\ Append(out, e) \in Seq(Pkts) /\ Len(Append(out, e)) = Len(out) + 1
          /\ \A i \in 1..Len(out) : Append(out, e)[i] = out[i]
          /\ Append(out, e)[Len(out) + 1] = e
      BY OneAppended, ZenonT(30)
    <3>. QED  BY <3>1, <3>2, Zenon
  <2>. QED  BY <2>2, <2>3, <2>4, <2>5, Zenon
<1>4. Prio[p] = h /\ p < n /\ \A i \in 1..Len(out) : Prio[out[i]] = h => out[i] < p
  BY <1>3 DEF Ordered
<1>5. Len(out) \in Nat /\ \A i \in 1..Len(o) : i \in 1..Len(out) \/ i = Len(out) + 1
  BY <1>3
<1>6. \A i \in 1..Len(o) : o[i] < n
  BY <1>3, <1>4, <1>5, Zenon DEF Ordered
<1>7. ASSUME NEW i \in 1..Len(o), NEW j \in 1..Len(o), i < j, Prio[o[i]] = Prio[o[j]]
      PROVE  o[i] < o[j]
  <2>1. i \in 1..Len(out)
    BY <1>3, <1>5, <1>7
  <2>2. CASE j \in 1..Len(out)
    BY <1>3, <1>7, <2>1, <2>2, Zenon DEF Ordered
  <2>3. CASE j = Len(out) + 1
    BY <1>3, <1>4, <1>7, <2>1, <2>3, Zenon
  <2>. QED  BY <1>5, <2>2, <2>3, Zenon
<1>8. ASSUME NEW k \in Prios, NEW j \in 1..Len(z[k])
      PROVE  /\ Prio[z[k][j]] = k /\ z[k][j] < n
             /\ \A i \in 1..Len(o) : Prio[o[i]] = k => o[i] < z[k][j]
             /\ \A i \in 1..Len(z[k]) : i < j => z[k][i] < z[k][j]
  <2>1. CASE k # h
    <3>1. z[k] = q[k]
      BY <2>1, Zenon
    <3>2. \A i \in 1..Len(o) : Prio[o[i]] = k => i \in 1..Len(out)
      BY <1>3, <1>4, <1>5, <2>1, Zenon
    <3>. QED  BY <1>3, <3>1, <3>2 DEF Ordered
  <2>2. CASE k = h
    <3>1. z[k] = Tail(q[k]) /\ Len(q[k]) \in Nat
      BY <2>2
    <3>2. \A i \in 1..Len(z[k]) : z[k][i] = q[k][i + 1] /\ i + 1 \in 1..Len(q[k]) /\ 1 < i + 1
      BY <3>1, <1>1, <2>2
    <3>3. p < z[k][j]
      BY <1>3, <2>2, <3>2 DEF Ordered
    <3>4. \A i \in 1..Len(z[k]) : i < j => z[k][i] < z[k][j]
      <4>1. \A i \in 1..Len(z[k]) : i < j => i + 1 < j + 1
        BY <3>1
      <4>. QED  BY <3>2, <4>1 DEF Ordered
    <3>5. ASSUME NEW i \in 1..Len(o), Prio[o[i]] = k PROVE o[i] < z[k][j]
      <4>1. CASE i \in 1..Len(out)
        BY <1>3, <3>2, <3>5, <4>1 DEF Ordered
      <4>2. CASE i = Len(out) + 1
        BY <1>3, <3>3, <4>2, Zenon
      <4>. QED  BY <1>5, <4>1, <4>2, Zenon
    <3>6. Prio[z[k][j]] = k /\ z[k][j] < n
      BY <3>2 DEF Ordered
    <3>. QED  BY <3>4, <3>5, <3>6, Zenon
  <2>. QED  BY <2>1, <2>2, Zenon
<1>. QED  BY <1>2, <1>6, <1>7, <1>8, ZenonT(30) DEF Ordered

\* A packet number that is given up keeps the order, and so does a flushed queue.
LEMMA OrderOther ==
    ASSUME NEW out \in Seq(Pkts), NEW q \in [Prios -> Seq(Pkts)], NEW n \in Nat,
           Ordered(out, q, n)
    PROVE  Ordered(out, q, n + 1) /\ Ordered(out, [p \in Prios |-> <<>>], n)
<1>1. Ordered(out, q, n + 1)
  <2>1. \A i \in 1..Len(out) : out[i] < n + 1
    <3>1. \A i \in 1..Len(out) : out[i] \in Nat /\ out[i] < n
      BY PacketNumbers, Zenon DEF Ordered
    <3>. QED  BY <3>1
  <2>2. ASSUME NEW k \in Prios, NEW j \in 1..Len(q[k]) PROVE q[k][j] < n + 1
    <3>1. q[k][j] \in Nat /\ q[k][j] < n
      BY PacketNumbers, Zenon DEF Ordered
    <3>. QED  BY <3>1
  <2>. QED  BY <2>1, <2>2, Zenon DEF Ordered
<1>2. Ordered(out, [p \in Prios |-> <<>>], n)
  BY DEF Ordered
<1>. QED  BY <1>1, <1>2, Zenon

\* No packet before m: kept by a packet that comes later, by packing and by sending.
LEMMA LatePackets ==
    ASSUME NEW q \in [Prios -> Seq(Pkts)], NEW aggr \in Seq(Pkts), NEW m \in Nat,
           NoneBefore(m, q, aggr)
    PROVE  /\ NoneBefore(m, q, <<>>)
           /\ \A n \in Pkts : Prio[n] \in Prios /\ m <= n =>
                NoneBefore(m, aicwf_frame_enq(q, n), aggr)
           /\ Queued(q) # 0 =>
                NoneBefore(m, aicwf_frame_dequeue(q), Append(aggr, Head(q[HiPrio(q)])))
<1>1. NoneBefore(m, q, <<>>)
  BY DEF NoneBefore
<1>2. ASSUME NEW n \in Pkts, Prio[n] \in Prios, m <= n
      PROVE  NoneBefore(m, aicwf_frame_enq(q, n), aggr)
  <2>1. PICK h \in Prios : h = Prio[n]
    BY <1>2, Zenon
  <2>. DEFINE z == [q EXCEPT ![h] = Append(@, n)]
  <2>2. aicwf_frame_enq(q, n) = z
    BY <2>1, Zenon DEF aicwf_frame_enq
  <2>3. ASSUME NEW k \in Prios, NEW i \in 1..Len(z[k]) PROVE z[k][i] >= m
    <3>1. CASE k # h
      BY <3>1, Zenon DEF NoneBefore
    <3>2. CASE k = h
      <4>1. z[k] = Append(q[k], n) /\ Len(q[k]) \in Nat
        BY <3>2
      <4>2. z[k][i] = n \/ (i \in 1..Len(q[k]) /\ z[k][i] = q[k][i])
        BY <4>1
      <4>3. n >= m
        BY <1>2, PacketNumbers, Zenon
      <4>. QED  BY <4>2, <4>3, Zenon DEF NoneBefore
    <3>. QED  BY <3>1, <3>2, Zenon
  <2>. QED  BY <2>2, <2>3, Zenon DEF NoneBefore
<1>3. ASSUME Queued(q) # 0
      PROVE  NoneBefore(m, aicwf_frame_dequeue(q), Append(aggr, Head(q[HiPrio(q)])))
  <2>1. PICK h \in Prios : h = HiPrio(q) /\ q[h] # <<>>
    BY <1>3, QueuedFacts, Zenon
  <2>. DEFINE z == [q EXCEPT ![h] = Tail(@)]
              a == Append(aggr, Head(q[h]))
  <2>2. aicwf_frame_dequeue(q) = z /\ Append(aggr, Head(q[HiPrio(q)])) = a
    BY <2>1, Zenon DEF aicwf_frame_dequeue
  <2>3. ASSUME NEW k \in Prios, NEW i \in 1..Len(z[k]) PROVE z[k][i] >= m
    <3>1. CASE k # h
      BY <3>1, Zenon DEF NoneBefore
    <3>2. CASE k = h
      <4>1. z[k][i] = q[k][i + 1] /\ i + 1 \in 1..Len(q[k])
        BY <2>1, <3>2
      <4>. QED  BY <4>1, Zenon DEF NoneBefore
    <3>. QED  BY <3>1, <3>2, Zenon
  <2>4. Head(q[h]) >= m
    <3>1. Head(q[h]) = q[h][1] /\ 1 \in 1..Len(q[h])
      BY <2>1
    <3>. QED  BY <3>1, Zenon DEF NoneBefore
  <2>5. ASSUME NEW i \in 1..Len(a) PROVE a[i] >= m
    <3>1. Head(q[h]) \in Pkts
      BY <2>1
    <3>2. a[i] = Head(q[h]) \/ (i \in 1..Len(aggr) /\ a[i] = aggr[i])
      BY <3>1
    <3>. QED  BY <2>4, <3>2, Zenon DEF NoneBefore
  <2>. QED  BY <2>2, <2>3, <2>5, Zenon DEF NoneBefore
<1>. QED  BY <1>1, <1>2, <1>3, Zenon

-----------------------------------------------------------------------------
(* The initial state *)

\* aicwf_bus_init, aicwf_tx_init and aicwf_rx_init.
LEMMA BusInitInv == BusInit => BusIInv
<1>. SUFFICES ASSUME BusInit PROVE BusIInv
  BY Zenon
<1>1. BusTypes
  <2>1. load \in Loads /\ bus \in BOOLEAN /\ dozed \subseteq Nat
    BY Zenon DEF BusInit
  <2>2. data \in DataType
    <3>1. \A n \in Nat : 0 \in 0..n /\ 1 \in 1..(n + 1)
      OBVIOUS
    <3>2. 0 \in Nat /\ <<>> \in Seq(Pkts)
      OBVIOUS
    <3>3. [p \in Prios |-> <<>>] \in [Prios -> Seq(Pkts)]
      BY <3>2, Zenon
    <3>4. 0 \in 0..MaxCredit /\ 1 \in 1..(MaxPkts + 1)
      BY <3>1, BusAssumption, Zenon
    <3>. QED  BY <3>2, <3>3, <3>4, Zenon DEF BusInit, DataType
  <2>3. cmdst \in [full : BOOLEAN, sent : Nat]
    BY Zenon DEF BusInit
  <2>4. tx \in TxType
    BY Zenon DEF BusInit, TxType
  <2>5. pwr \in PwrType
    BY Zenon DEF BusInit, PwrType
  <2>6. rx \in RxType
    <3>1. 0 \in Nat /\ 0 \in Int /\ <<>> \in Seq(Nat)
      OBVIOUS
    <3>. QED  BY <3>1, Zenon DEF BusInit, RxType
  <2>. QED  BY <2>1, <2>2, <2>3, <2>4, <2>5, <2>6, Zenon DEF BusTypes
<1>2. load.pkts \in Nat /\ load.irqs \in Nat
  <2>1. \A n \in Nat : \A i \in 0..n : i \in Nat
    OBVIOUS
  <2>. QED  BY <2>1, BusAssumption, Zenon DEF BusInit
<1>3. Counted
  <2>1. data.cnt = 0 /\ data.next = 1 /\ data.avail = 0 /\ data.aggr = <<>>
    BY Zenon DEF BusInit
  <2>2. Queued(data.txq) = 0
    <3>1. Len(data.txq[0]) = 0 /\ Len(data.txq[1]) = 0
      BY Zenon DEF BusInit, Prios
    <3>2. 0 + 0 = 0
      OBVIOUS
    <3>. QED  BY <3>1, <3>2, Zenon DEF Queued
  <2>3. tx.pc = "idle" /\ Len(data.aggr) = 0
    BY <2>1, Zenon DEF BusInit
  <2>. QED  BY <1>2, <2>1, <2>2, <2>3 DEF Counted, TxBooks, One
<1>4. InOrder
  <2>1. Len(data.sent \o data.aggr) = 0
    <3>1. data.sent = <<>> /\ data.aggr = <<>>
      BY Zenon DEF BusInit
    <3>2. <<>> \o <<>> = <<>> /\ Len(<<>>) = 0
      OBVIOUS
    <3>. QED  BY <3>1, <3>2, Zenon
  <2>2. \A k \in Prios : Len(data.txq[k]) = 0
    BY Zenon DEF BusInit
  <2>. QED  BY <2>1, <2>2 DEF InOrder, Ordered
<1>5. Received
  <2>1. rx.cnt = 0 /\ rx.irqs = 0 /\ rx.irq = "idle" /\ rx.pc = "idle" /\ Len(rx.q) = 0
    BY Zenon DEF BusInit
  <2>. QED  BY <1>2, <2>1 DEF Received, RxBooks, One
<1>6. Awake
  <2>1. tx.pc = "idle" /\ tx.mark = 1 /\ data.next = 1 /\ ~pwr.asleep /\ dozed = {}
    BY Zenon DEF BusInit
  <2>2. 1 <= 1
    OBVIOUS
  <2>. QED  BY <2>1, <2>2, Zenon DEF Awake
<1>. QED  BY <1>1, <1>3, <1>4, <1>5, <1>6, Zenon DEF BusIInv

-----------------------------------------------------------------------------
(* What a step leaves alone *)

\* The fields the invariant speaks of.
LEMMA Fields ==
    ASSUME BusTypes
    PROVE  /\ data.txq \in [Prios -> Seq(Pkts)] /\ Queued(data.txq) \in Nat
           /\ data.aggr \in Seq(Pkts) /\ Len(data.aggr) \in Nat
           /\ data.sent \o data.aggr \in Seq(Pkts)
           /\ data.cnt \in Nat /\ data.avail \in Nat /\ data.avail <= MaxCredit
           /\ data.next \in Nat /\ tx.mark \in Nat
           /\ load.pkts \in 0..MaxPkts /\ load.irqs \in Nat
           /\ rx.cnt \in Int /\ rx.irqs \in Nat /\ Len(rx.q) \in Nat
<1>1. data.txq \in [Prios -> Seq(Pkts)] /\ data.aggr \in Seq(Pkts) /\ data.sent \in Seq(Pkts)
  BY Zenon DEF BusTypes, DataType
<1>2. data.cnt \in Nat /\ data.avail \in 0..MaxCredit /\ data.next \in 1..(MaxPkts + 1)
  BY Zenon DEF BusTypes, DataType
<1>3. data.avail \in Nat /\ data.avail <= MaxCredit /\ data.next \in Nat
  BY <1>2, BusAssumption
<1>4. tx.mark \in Nat
  BY Zenon DEF BusTypes, TxType
<1>5. rx.cnt \in Int /\ rx.irqs \in Nat /\ rx.q \in Seq(Nat)
  BY Zenon DEF BusTypes, RxType
<1>6. load.pkts \in 0..MaxPkts /\ load.irqs \in Nat
  BY BusAssumption, Zenon DEF BusTypes
<1>7. Queued(data.txq) \in Nat
  BY <1>1, QueuedFacts, Zenon
<1>8. data.sent \o data.aggr \in Seq(Pkts) /\ Len(data.aggr) \in Nat
  BY <1>1
<1>9. Len(rx.q) \in Nat
  BY <1>5
<1>. QED  BY <1>1, <1>2, <1>3, <1>4, <1>5, <1>6, <1>7, <1>8, <1>9, Zenon

\* Those of them that are numbers.
LEMMA Counts ==
    ASSUME BusTypes
    PROVE  /\ Queued(data.txq) \in Nat /\ Len(data.aggr) \in Nat
           /\ data.cnt \in Nat /\ data.avail \in Nat /\ data.avail <= MaxCredit
           /\ data.next \in Nat /\ tx.mark \in Nat
           /\ load.pkts \in 0..MaxPkts /\ load.irqs \in Nat
           /\ rx.cnt \in Int /\ rx.irqs \in Nat /\ Len(rx.q) \in Nat
  BY Fields, Zenon

\* The books of the transmit side with one more packet queued and counted.
LEMMA TxBooksQueued ==
    ASSUME NEW up, NEW at, NEW cnt \in Nat, NEW queued \in Nat, NEW len, NEW avail,
           TxBooks(up, at, cnt, queued, len, avail)
    PROVE  TxBooks(up, at, cnt + 1, queued + 1, len, avail)
<1>1. PICK k \in {0, 1} : k = One(at = "packed")
  BY Zenon DEF One
<1>2. /\ cnt >= queued + k => cnt + 1 >= (queued + 1) + k
      /\ cnt = queued + k => cnt + 1 = (queued + 1) + k
      /\ cnt + 1 > 0
  BY ONLY cnt \in Nat, queued \in Nat, k \in {0, 1}
<1>. QED  BY <1>1, <1>2, Zenon DEF TxBooks

\* The books of the transmit side without an aggregate and without a packet that
\* is packed and not counted off.
LEMMA TxBooksFlat ==
    ASSUME NEW up, NEW at, at # "packed", NEW cnt, NEW queued \in Nat, NEW v,
           cnt >= queued, up => cnt = queued, v = 0 \/ v >= DATA_FLOW_CTRL_THRESH
    PROVE  TxBooks(up, at, cnt, queued, 0, v)
<1>1. One(at = "packed") = 0
  BY Zenon DEF One
<1>2. ~(0 > 0) /\ queued + 0 = queued
  OBVIOUS
<1>. QED  BY <1>1, <1>2, Zenon DEF TxBooks

\* The books of the transmit side once the aggregate is sent, or without one at
\* the end of the data part's start.
LEMMA TxBooksSent ==
    ASSUME NEW up, NEW from \in {"data", "loop"}, NEW at \in {"idle", "loop"},
           NEW cnt, NEW queued \in Nat, NEW len, NEW avail, NEW v,
           TxBooks(up, from, cnt, queued, len, avail),
           v = 0 \/ v >= DATA_FLOW_CTRL_THRESH
    PROVE  TxBooks(up, at, cnt, queued, 0, v)
<1>1. One(from = "packed") = 0
  BY Zenon DEF One
<1>2. queued + 0 = queued
  OBVIOUS
<1>3. cnt >= queued /\ (up => cnt = queued)
  BY <1>1, <1>2, Zenon DEF TxBooks
<1>4. at # "packed"
  BY Zenon
<1>. QED  BY <1>3, <1>4, TxBooksFlat, Zenon

\* The books of the transmit side with one packet moved from the queue to the
\* aggregate, for which there is credit.
LEMMA TxBooksPacked ==
    ASSUME NEW up, NEW cnt \in Nat, NEW queued \in Nat, NEW len, NEW avail,
           TxBooks(up, "loop", cnt, queued, len, avail),
           len + 1 <= avail - DATA_FLOW_CTRL_THRESH
    PROVE  TxBooks(up, "packed", cnt, queued - 1, len + 1, avail)
<1>1. One("loop" = "packed") = 0 /\ One("packed" = "packed") = 1
  BY Zenon DEF One
<1>2. /\ cnt >= queued + 0 => cnt >= (queued - 1) + 1
      /\ cnt = queued + 0 => cnt = (queued - 1) + 1
  BY ONLY cnt \in Nat, queued \in Nat
<1>. QED  BY <1>1, <1>2, Zenon DEF TxBooks

\* An aggregate is empty or within the credit.
LEMMA AggrFits ==
    ASSUME BusTypes, Counted
    PROVE  Len(data.aggr) = 0 \/ (Len(data.aggr) > 0 /\ Len(data.aggr) <= Room)
<1>1. \A n \in Nat : n = 0 \/ n > 0
  OBVIOUS
<1>. QED  BY <1>1, Counts, Zenon DEF Counted, TxBooks, Room

\* The receive side sees its own counter and the state of the bus.
LEMMA ReceivedKept ==
    ASSUME Received, rx' = rx, load' = load, bus' => bus
    PROVE  Received'
BY Zenon DEF Received, RxBooks

\* The order sees the packets only.
LEMMA OrderKept ==
    ASSUME InOrder, data'.sent = data.sent, data'.aggr = data.aggr, data'.txq = data.txq,
           data'.next = data.next
    PROVE  InOrder'
BY Zenon DEF InOrder

\* The transmit counters see their fields, the place of the thread and the bus.
LEMMA CountedKept ==
    ASSUME BusTypes, Counted, load' = load, bus' => bus, tx'.pc = tx.pc, data'.cnt = data.cnt,
           data'.txq = data.txq, data'.aggr = data.aggr, data'.avail = data.avail,
           data'.next = data.next
    PROVE  Counted'
BY Fields, Zenon DEF Counted, TxBooks

\* The power side: nothing falls asleep and no command is taken.
LEMMA AwakeKept ==
    ASSUME Awake, tx'.pc = tx.pc, tx'.mark = tx.mark, data'.cnt = data.cnt,
           data'.txq = data.txq, data'.aggr = data.aggr, data'.next = data.next,
           cmdst.full => cmdst'.full, dozed' = dozed, pwr.deaf => pwr'.deaf,
           pwr'.asleep /\ ~pwr'.deaf => pwr.asleep /\ ~pwr.deaf
    PROVE  Awake'
BY Zenon DEF Awake

\* All four, for a step about power, a new command or the state of the bus.
LEMMA QuietInv ==
    ASSUME BusIInv, BusTypes', data' = data, rx' = rx, load' = load, bus' => bus,
           tx'.pc = tx.pc, tx'.mark = tx.mark, cmdst.full => cmdst'.full, dozed' = dozed,
           pwr.deaf => pwr'.deaf, pwr'.asleep /\ ~pwr'.deaf => pwr.asleep /\ ~pwr.deaf
    PROVE  BusIInv'
<1>1. Counted'
  BY CountedKept, Zenon DEF BusIInv
<1>2. InOrder'
  BY OrderKept, Zenon DEF BusIInv
<1>3. Received'
  BY ReceivedKept, Zenon DEF BusIInv
<1>4. Awake'
  BY AwakeKept, Zenon DEF BusIInv
<1>. QED  BY <1>1, <1>2, <1>3, <1>4, Zenon DEF BusIInv

-----------------------------------------------------------------------------
(* Producers *)

\* A packet that is queued comes after all the others of its priority; one that is
\* refused uses up its number.
LEMMA TxDataInv == ASSUME BusIInv, aicwf_sdio_bus_txdata PROVE BusIInv'
<1>. USE DEF BusIInv
<1>. DEFINE p == data.next
<1>0. p \in Pkts /\ Prio[p] \in Prios /\ p <= load.pkts /\ p + 1 \in 1..(MaxPkts + 1)
  <2>1. p <= load.pkts /\ load.pkts \in 0..MaxPkts /\ p \in 1..(MaxPkts + 1)
    BY Fields, Zenon DEF aicwf_sdio_bus_txdata, BusTypes, DataType
  <2>. QED  BY <2>1, BusAssumption DEF Pkts
<1>1. UNCHANGED <<load, bus, cmdst, pwr, rx, dozed>>
  BY Zenon DEF aicwf_sdio_bus_txdata
<1>2. Received'
  BY <1>1, ReceivedKept, Zenon
<1>3. CASE bus /\ Queued(data.txq) < TXQ_MAX
  <2>1. /\ data' = [data EXCEPT !.next = p + 1, !.cnt = @ + 1, !.txq = aicwf_frame_enq(@, p)]
        /\ tx' = [tx EXCEPT !.trgg = TRUE]
    BY <1>3, Zenon DEF aicwf_sdio_bus_txdata
  <2>2. data'.next = p + 1 /\ data'.cnt = data.cnt + 1
    BY <2>1, Zenon DEF BusTypes, DataType
  <2>3. data'.txq = aicwf_frame_enq(data.txq, p)
    BY <2>1, Zenon DEF BusTypes, DataType
  <2>4. data'.aggr = data.aggr /\ data'.sent = data.sent /\ data'.avail = data.avail
    BY <2>1, Zenon DEF BusTypes, DataType
  <2>5. tx'.pc = tx.pc /\ tx'.mark = tx.mark
    BY <2>1, Zenon DEF BusTypes, TxType
  <2>6. /\ aicwf_frame_enq(data.txq, p) \in [Prios -> Seq(Pkts)]
        /\ Queued(aicwf_frame_enq(data.txq, p)) = Queued(data.txq) + 1
    BY <1>0, Fields, QueuedFacts, Zenon
  <2>7. BusTypes'
    <3>1. data' \in DataType
      <4>1. data.cnt + 1 \in Nat
        BY Counts
      <4>. QED  BY <1>0, <2>1, <2>6, <4>1, Zenon DEF BusTypes, DataType
    <3>2. tx' \in TxType
      BY <2>1, Zenon DEF BusTypes, TxType
    <3>. QED  BY <1>1, <3>1, <3>2, Zenon DEF BusTypes
  <2>8. Counted'
    <3>1. /\ data.cnt \in Nat /\ Queued(data.txq) \in Nat /\ Len(data.aggr) \in Nat
          /\ data.avail \in Nat /\ p \in Nat /\ load.pkts \in Nat /\ p <= load.pkts
      BY <1>0, Counts
    <3>2. Queued(data'.txq) = Queued(data.txq) + 1
      BY <2>3, <2>6, Zenon
    <3>3. TxBooks(bus', tx'.pc, data'.cnt, Queued(data'.txq), Len(data'.aggr), data'.avail)
      <4>1. TxBooks(bus, tx.pc, data.cnt, Queued(data.txq), Len(data.aggr), data.avail)
        BY Zenon DEF Counted
      <4>2. TxBooks(bus, tx.pc, data.cnt + 1, Queued(data.txq) + 1, Len(data.aggr), data.avail)
        BY <3>1, <4>1, TxBooksQueued, Zenon
      <4>. QED  BY <1>1, <2>2, <2>4, <2>5, <3>2, <4>2, Zenon
    <3>4. data'.cnt < data'.next /\ data'.next <= load.pkts + 1
      BY <2>2, <3>1 DEF Counted
    <3>. QED  BY <1>1, <3>3, <3>4, Zenon DEF Counted
  <2>9. InOrder'
    BY <1>0, <2>2, <2>3, <2>4, Fields, OrderEnq, Zenon DEF InOrder
  <2>10. Awake'
    <3>1. NoneBefore(tx.mark, data.txq, data.aggr) /\ tx.mark <= p =>
            NoneBefore(tx.mark, aicwf_frame_enq(data.txq, p), data.aggr)
      BY <1>0, Fields, LatePackets, Zenon
    <3>2. tx.mark <= data'.next /\ (data.cnt > 0 => data'.cnt > 0)
      <4>1. data.cnt \in Nat /\ data.next \in Nat /\ tx.mark \in Nat
        BY Fields, Zenon
      <4>. QED  BY <2>2, <4>1 DEF Awake
    <3>. QED  BY <1>1, <2>3, <2>4, <2>5, <3>1, <3>2, Zenon DEF Awake
  <2>. QED  BY <1>2, <2>7, <2>8, <2>9, <2>10, Zenon
<1>4. CASE ~(bus /\ Queued(data.txq) < TXQ_MAX)
  <2>1. data' = [data EXCEPT !.next = p + 1, !.refused = @ \cup {p}] /\ tx' = tx
    BY <1>4, Zenon DEF aicwf_sdio_bus_txdata
  <2>2. data'.next = p + 1 /\ data'.cnt = data.cnt /\ data'.avail = data.avail
    BY <2>1, Zenon DEF BusTypes, DataType
  <2>3. data'.txq = data.txq /\ data'.aggr = data.aggr /\ data'.sent = data.sent
    BY <2>1, Zenon DEF BusTypes, DataType
  <2>4. BusTypes'
    <3>1. data' \in DataType
      BY <1>0, <2>1, Zenon DEF BusTypes, DataType
    <3>. QED  BY <1>1, <2>1, <3>1, Zenon DEF BusTypes
  <2>5. Counted'
    <3>1. data.cnt \in Nat /\ p \in Nat /\ load.pkts \in Nat /\ p <= load.pkts
      BY <1>0, Counts
    <3>2. data'.cnt < data'.next /\ data'.next <= load.pkts + 1
      BY <2>2, <3>1 DEF Counted
    <3>. QED  BY <1>1, <2>1, <2>2, <2>3, <3>2, Zenon DEF Counted
  <2>6. InOrder'
    BY <2>2, <2>3, Fields, OrderOther, Zenon DEF InOrder
  <2>7. Awake'
    <3>1. tx.mark <= data'.next
      BY <2>2, Counts DEF Awake
    <3>. QED  BY <1>1, <2>1, <2>2, <2>3, <3>1, Zenon DEF Awake
  <2>. QED  BY <1>2, <2>4, <2>5, <2>6, <2>7, Zenon
<1>. QED  BY <1>3, <1>4, Zenon

\* The command manager fills the mailbox.
LEMMA TxMsgInv == ASSUME BusIInv, BusTxMsg PROVE BusIInv'
<1>1. /\ cmdst' = [cmdst EXCEPT !.full = TRUE] /\ tx' = [tx EXCEPT !.trgg = @ \/ bus]
      /\ UNCHANGED <<load, bus, data, pwr, rx, dozed>>
  BY Zenon DEF BusTxMsg
<1>2. tx' \in TxType /\ tx'.pc = tx.pc /\ tx'.mark = tx.mark
  BY <1>1, Zenon DEF BusIInv, BusTypes, TxType
<1>3. cmdst' \in [full : BOOLEAN, sent : Nat] /\ cmdst'.full
  BY <1>1, Zenon DEF BusIInv, BusTypes
<1>4. BusTypes'
  BY <1>1, <1>2, <1>3, Zenon DEF BusIInv, BusTypes
<1>. QED  BY <1>1, <1>2, <1>3, <1>4, QuietInv, Zenon

-----------------------------------------------------------------------------
(* Power *)

\* The timer and the first look of the power thread, and the end of a sleep.
LEMMA PowerInv ==
    ASSUME BusIInv,
           aicwf_sdio_bus_pwrctl \/ aicwf_sdio_pwrctl_thread \/ aicwf_sdio_sleep_allow
    PROVE  BusIInv'
<1>. USE DEF BusIInv
<1>1. UNCHANGED <<load, bus, data, cmdst, tx, rx, dozed>>
  BY Zenon DEF aicwf_sdio_bus_pwrctl, aicwf_sdio_pwrctl_thread, aicwf_sdio_sleep_allow
<1>2. pwr' \in PwrType /\ pwr'.asleep = pwr.asleep /\ pwr'.deaf = pwr.deaf
  <2>1. CASE aicwf_sdio_bus_pwrctl
    <3>1. pwr.expired + 1 \in Nat
      BY DEF BusTypes, PwrType
    <3>2. pwr' = [pwr EXCEPT !.timer = FALSE, !.expired = pwr.expired + 1, !.trgg = @ \/ bus]
      BY <2>1, Zenon DEF aicwf_sdio_bus_pwrctl, BusTypes, PwrType
    <3>. QED  BY <3>1, <3>2, Zenon DEF BusTypes, PwrType
  <2>2. CASE aicwf_sdio_pwrctl_thread
    <3>1. \/ pwr' = [pwr EXCEPT !.trgg = FALSE]
          \/ pwr' = [pwr EXCEPT !.trgg = FALSE, !.pc = "allow"]
          \/ pwr' = [[pwr EXCEPT !.timer = bus, !.pc = "idle"] EXCEPT !.trgg = FALSE]
      BY <2>2, Zenon DEF aicwf_sdio_pwrctl_thread, ReArmed
    <3>. QED  BY <3>1, ZenonT(30) DEF BusTypes, PwrType
  <2>3. CASE aicwf_sdio_sleep_allow
    BY <2>3, Zenon DEF aicwf_sdio_sleep_allow, BusTypes, PwrType
  <2>. QED  BY <2>1, <2>2, <2>3, Zenon
<1>3. BusTypes'
  BY <1>1, <1>2, Zenon DEF BusTypes
<1>. QED  BY <1>1, <1>2, <1>3, QuietInv, Zenon

\* The second look, with the semaphore held: a pass that has work keeps the chip
\* awake, and without work there is no packet it could send to a sleeping chip.
LEMMA SleepInv == ASSUME BusIInv, SleepAllow PROVE BusIInv'
<1>. USE DEF BusIInv
<1>1. UNCHANGED <<load, bus, data, cmdst, tx, rx, dozed>>
  BY Zenon DEF SleepAllow
<1>2. pwr' \in PwrType /\ pwr'.deaf = pwr.deaf
  <2>1. \/ pwr' = [pwr EXCEPT !.pc = "idle"]
        \/ pwr' = [pwr EXCEPT !.pc = "sleeping", !.asleep = TRUE]
        \/ pwr' = [pwr EXCEPT !.timer = bus, !.pc = "idle"]
    BY Zenon DEF SleepAllow, ReArmed
  <2>. QED  BY <2>1, ZenonT(30) DEF BusTypes, PwrType
<1>3. BusTypes'
  BY <1>1, <1>2, Zenon DEF BusTypes
<1>4. CASE pwr'.asleep = pwr.asleep
  BY <1>1, <1>2, <1>3, <1>4, QuietInv, Zenon
<1>5. CASE pwr'.asleep # pwr.asleep
  <2>1. bus /\ data.cnt <= 0 /\ ~cmdst.full
    <3>1. pwr' = [pwr EXCEPT !.pc = "idle"] => pwr'.asleep = pwr.asleep
      BY Zenon DEF BusTypes, PwrType
    <3>2. pwr' = ReArmed => pwr'.asleep = pwr.asleep
      BY Zenon DEF BusTypes, PwrType, ReArmed
    <3>. QED  BY <1>5, <3>1, <3>2, Zenon DEF SleepAllow, HostIdle
  <2>2. data.cnt = 0
    BY <2>1, Counts
  <2>3. tx.pc # "power" /\ tx.pc # "cmd"
    BY <2>1, <2>2 DEF Awake
  <2>4. Queued(data.txq) = 0 /\ tx.pc # "packed"
    <3>1. data.cnt = Queued(data.txq) + One(tx.pc = "packed")
      BY <2>1, Zenon DEF Counted, TxBooks
    <3>. QED  BY <2>2, <3>1, Counts DEF One
  <2>5. tx.pc \in {"data", "loop"} => Len(data.aggr) = 0
    <3>1. data.cnt = 0 => ~(data.cnt > 0)
      BY <2>2
    <3>2. Len(data.aggr) = 0 \/ Len(data.aggr) > 0
      BY Counts
    <3>. QED  BY <2>1, <2>2, <3>1, <3>2, Zenon DEF Counted, TxBooks
  <2>6. \A k \in Prios : Len(data.txq[k]) = 0
    <3>1. \A k \in Prios : data.txq[k] = <<>>
      BY <2>4, Fields, QueuedFacts, Zenon
    <3>2. Len(<<>>) = 0
      BY Zenon
    <3>. QED  BY <3>1, <3>2, Zenon
  <2>7. tx.pc \in {"data", "loop", "packed"} => NoneBefore(tx.mark, data.txq, data.aggr)
    BY <2>4, <2>5, <2>6 DEF NoneBefore
  <2>8. Awake'
    BY <1>1, <1>2, <2>3, <2>7, Zenon DEF Awake
  <2>. QED  BY <1>1, <1>3, <2>8, CountedKept, OrderKept, ReceivedKept, Zenon
<1>. QED  BY <1>4, <1>5, Zenon

\* What aicwf_sdio_wakeup leaves: an awake chip, or the fact that it is deaf.
LEMMA WakeupEffect ==
    ASSUME BusTypes, aicwf_sdio_wakeup
    PROVE  /\ pwr' \in PwrType /\ (pwr.deaf => pwr'.deaf)
           /\ bus => ~(pwr'.asleep /\ ~pwr'.deaf)
           /\ ~bus => pwr' = pwr
<1>1. CASE ~bus
  BY <1>1, Zenon DEF aicwf_sdio_wakeup, BusTypes
<1>2. CASE bus
  <2>1. PICK nak \in BOOLEAN :
          pwr' = [pwr EXCEPT !.state = "ACTIVE", !.asleep = nak, !.deaf = @ \/ nak, !.timer = TRUE]
    <3>1. pwr.asleep \in BOOLEAN
      BY Zenon DEF BusTypes, PwrType
    <3>2. (IF pwr.state = "SLEEP" THEN BOOLEAN ELSE {pwr.asleep}) \subseteq BOOLEAN
      BY <3>1, Zenon
    <3>3. \E nak \in IF pwr.state = "SLEEP" THEN BOOLEAN ELSE {pwr.asleep} :
            pwr' = [pwr EXCEPT !.state = "ACTIVE", !.asleep = nak, !.deaf = @ \/ nak, !.timer = TRUE]
      BY <1>2, Zenon DEF aicwf_sdio_wakeup
    <3>. QED  BY <3>2, <3>3, Zenon
  <2>2. pwr'.asleep = nak /\ pwr'.deaf = (pwr.deaf \/ nak)
    BY <2>1, Zenon DEF BusTypes, PwrType
  <2>3. pwr' \in PwrType
    BY <2>1, Zenon DEF BusTypes, PwrType
  <2>. QED  BY <1>2, <2>2, <2>3, Zenon
<1>. QED  BY <1>1, <1>2, Zenon

-----------------------------------------------------------------------------
(* The transmit thread *)

\* A step that moves the thread and leaves the data alone keeps the order, and the
\* books if they close at the new place.
LEMMA MoveInv ==
    ASSUME BusIInv, BusTypes', UNCHANGED <<load, bus, data, rx>>, Awake',
           TxBooks(bus, tx'.pc, data.cnt, Queued(data.txq), Len(data.aggr), data.avail)
    PROVE  BusIInv'
<1>1. Counted'
  BY Zenon DEF BusIInv, Counted
<1>. QED  BY <1>1, OrderKept, ReceivedKept, Zenon DEF BusIInv

\* The thread is woken: the aggregate of the last pass is gone.
LEMMA TxThreadInv == ASSUME BusIInv, sdio_bustx_thread PROVE BusIInv'
<1>. USE DEF BusIInv
<1>1. /\ tx.pc = "idle" /\ UNCHANGED <<load, bus, data, cmdst, pwr, rx, dozed>>
      /\ \/ ~bus /\ tx' = [tx EXCEPT !.trgg = FALSE, !.mark = data.next, !.pc = "exit"]
         \/ /\ bus /\ (data.cnt > 0 \/ cmdst.full)
            /\ tx' = [tx EXCEPT !.trgg = FALSE, !.mark = data.next, !.pc = "power"]
         \/ tx' = [tx EXCEPT !.trgg = FALSE, !.mark = data.next, !.pc = "idle"]
  BY Zenon DEF sdio_bustx_thread
<1>2. /\ tx' \in TxType /\ tx'.mark = data.next
      /\ \/ ~bus /\ tx'.pc = "exit"
         \/ bus /\ (data.cnt > 0 \/ cmdst.full) /\ tx'.pc = "power"
         \/ tx'.pc = "idle"
  BY <1>1, Fields, ZenonT(30) DEF BusTypes, TxType
<1>3. BusTypes'
  BY <1>1, <1>2, Zenon DEF BusTypes
<1>4. TxBooks(bus, tx'.pc, data.cnt, Queued(data.txq), Len(data.aggr), data.avail)
  BY <1>1, <1>2, Fields, Zenon DEF Counted, TxBooks, One
<1>5. Awake'
  BY <1>1, <1>2, Counts DEF Awake
<1>. QED  BY <1>1, <1>3, <1>4, <1>5, MoveInv, Zenon

\* The chip is woken before anything is sent.
LEMMA TxPowerInv == ASSUME BusIInv, TxPower PROVE BusIInv'
<1>. USE DEF BusIInv
<1>1. tx.pc = "power" /\ UNCHANGED <<load, bus, data, cmdst, rx, dozed>>
  BY Zenon DEF TxPower
<1>2. /\ tx' \in TxType /\ tx'.mark = tx.mark
      /\ tx'.pc = IF bus THEN "cmd" ELSE "idle"
  BY DEF TxPower, TxGoto, BusTypes, TxType
<1>3. /\ pwr' \in PwrType /\ (pwr.deaf => pwr'.deaf)
      /\ bus => ~(pwr'.asleep /\ ~pwr'.deaf)
      /\ ~bus => pwr' = pwr
  <2>1. CASE bus
    BY <2>1, WakeupEffect, Zenon DEF TxPower
  <2>2. CASE ~bus
    BY <2>2, Zenon DEF TxPower, BusTypes
  <2>. QED  BY <2>1, <2>2, Zenon
<1>4. BusTypes'
  BY <1>1, <1>2, <1>3, Zenon DEF BusTypes
<1>5. TxBooks(bus, tx'.pc, data.cnt, Queued(data.txq), Len(data.aggr), data.avail)
  BY <1>1, <1>2, Fields, Zenon DEF Counted, TxBooks, One
<1>6. Awake'
  BY <1>1, <1>2, <1>3, Zenon DEF Awake
<1>. QED  BY <1>1, <1>4, <1>5, <1>6, MoveInv, Zenon

\* The chip is awake when a command goes out.
LEMMA TxCmdInv == ASSUME BusIInv, TxCmd PROVE BusIInv'
<1>. USE DEF BusIInv
<1>1. tx.pc = "cmd" /\ UNCHANGED <<load, bus, data, pwr, rx>>
  BY Zenon DEF TxCmd
<1>2. tx' \in TxType /\ tx'.mark = tx.mark /\ tx'.pc \in {"idle", "data"}
  BY Zenon DEF TxCmd, TxGoto, BusTypes, TxType
<1>3. cmdst' \in [full : BOOLEAN, sent : Nat]
  <2>1. PICK n \in Nat : n = cmdst.sent + 1
    BY DEF BusTypes
  <2>2. cmdst' = cmdst \/ cmdst' = [full |-> FALSE, sent |-> n]
    BY <2>1, Zenon DEF TxCmd
  <2>3. [full |-> FALSE, sent |-> n] \in [full : BOOLEAN, sent : Nat]
    BY Zenon
  <2>4. cmdst \in [full : BOOLEAN, sent : Nat]
    BY Zenon DEF BusTypes
  <2>. QED  BY <2>2, <2>3, <2>4, Zenon
<1>4. dozed' \subseteq Nat /\ (dozed' # dozed => pwr.asleep)
  <2>1. dozed' = dozed \/ (pwr.asleep /\ dozed' = dozed \cup {0})
    BY Zenon DEF TxCmd
  <2>2. dozed \subseteq Nat
    BY Zenon DEF BusTypes
  <2>3. dozed \cup {0} \subseteq Nat
    BY <2>2
  <2>. QED  BY <2>1, <2>2, <2>3, Zenon
<1>5. BusTypes'
  BY <1>1, <1>2, <1>3, <1>4, Zenon DEF BusTypes
<1>6. TxBooks(bus, tx'.pc, data.cnt, Queued(data.txq), Len(data.aggr), data.avail)
  BY <1>1, <1>2, Fields, Zenon DEF Counted, TxBooks, One
<1>7. Awake'
  BY <1>1, <1>2, <1>4, Zenon DEF Awake
<1>. QED  BY <1>1, <1>5, <1>6, <1>7, MoveInv, Zenon

\* The value read from the register is 0 or above the threshold.
LEMMA Credit ==
    \A v \in aicwf_sdio_flow_ctrl : /\ v \in 0..MaxCredit
                                    /\ v = 0 \/ v >= DATA_FLOW_CTRL_THRESH
BY BusAssumption DEF aicwf_sdio_flow_ctrl

\* The credit is read with an empty aggregate.
LEMMA CreditInv ==
    ASSUME BusIInv, NEW v \in aicwf_sdio_flow_ctrl, data' = [data EXCEPT !.avail = v],
           Len(data.aggr) = 0, tx' \in TxType, tx'.mark = tx.mark,
           \/ tx'.pc = tx.pc
           \/ tx.pc = "data" /\ tx'.pc \in {"loop", "idle"},
           UNCHANGED <<load, bus, cmdst, pwr, rx, dozed>>
    PROVE  BusIInv'
<1>. USE DEF BusIInv
<1>1. data'.avail = v /\ data'.cnt = data.cnt /\ data'.next = data.next
  BY Zenon DEF BusTypes, DataType
<1>2. data'.txq = data.txq /\ data'.aggr = data.aggr /\ data'.sent = data.sent
  BY Zenon DEF BusTypes, DataType
<1>3. BusTypes'
  <2>1. data' \in DataType
    BY Credit, Zenon DEF BusTypes, DataType
  <2>. QED  BY <2>1, Zenon DEF BusTypes
<1>4. Counted'
  <2>1. v \in Nat /\ (v = 0 \/ v >= DATA_FLOW_CTRL_THRESH)
    BY Credit
  <2>2. TxBooks(bus, tx'.pc, data.cnt, Queued(data.txq), Len(data.aggr), v)
    <3>1. ~(0 > 0)
      OBVIOUS
    <3>2. CASE tx'.pc = tx.pc
      BY <2>1, <3>1, <3>2, Zenon DEF Counted, TxBooks
    <3>3. CASE tx.pc = "data" /\ tx'.pc \in {"loop", "idle"}
      <4>1. TxBooks(bus, "data", data.cnt, Queued(data.txq), Len(data.aggr), data.avail)
        BY <3>3, Zenon DEF Counted
      <4>2. "data" \in {"data", "loop"} /\ tx'.pc \in {"idle", "loop"} /\ Queued(data.txq) \in Nat
        BY <3>3, Counts, Zenon
      <4>3. TxBooks(bus, tx'.pc, data.cnt, Queued(data.txq), 0, v)
        BY <2>1, <4>1, <4>2, TxBooksSent, Zenon
      <4>. QED  BY <4>3, Zenon
    <3>. QED  BY <3>2, <3>3, Zenon
  <2>. QED  BY <1>1, <1>2, <2>2, Zenon DEF Counted
<1>5. Awake'
  BY <1>1, <1>2, Zenon DEF Awake
<1>. QED  BY <1>1, <1>2, <1>3, <1>4, <1>5, OrderKept, ReceivedKept, Zenon

\* The start of the data part.
LEMMA TxDataStepInv == ASSUME BusIInv, TxData PROVE BusIInv'
<1>. USE DEF BusIInv
<1>1. tx.pc = "data" /\ UNCHANGED <<load, bus, cmdst, pwr, rx, dozed>>
  BY Zenon DEF TxData
<1>2. tx' \in TxType /\ tx'.mark = tx.mark /\ tx'.pc \in {"idle", "loop"}
  BY Zenon DEF TxData, TxGoto, BusTypes, TxType
<1>3. Len(data.aggr) = 0
  BY <1>1, Zenon DEF Counted, TxBooks
<1>4. CASE data' = data
  <2>1. BusTypes'
    BY <1>1, <1>2, <1>4, Zenon DEF BusTypes
  <2>2. TxBooks(bus, tx'.pc, data.cnt, Queued(data.txq), Len(data.aggr), data.avail)
    <3>1. data.avail = 0 \/ data.avail >= DATA_FLOW_CTRL_THRESH
      BY Zenon DEF Counted, TxBooks
    <3>2. TxBooks(bus, "data", data.cnt, Queued(data.txq), Len(data.aggr), data.avail)
      BY <1>1, Zenon DEF Counted
    <3>3. "data" \in {"data", "loop"} /\ tx'.pc \in {"idle", "loop"} /\ Queued(data.txq) \in Nat
      BY <1>2, Counts, Zenon
    <3>4. TxBooks(bus, tx'.pc, data.cnt, Queued(data.txq), 0, data.avail)
      BY <3>1, <3>2, <3>3, TxBooksSent, Zenon
    <3>. QED  BY <1>3, <3>4, Zenon
  <2>3. Awake'
    BY <1>1, <1>2, <1>4, Zenon DEF Awake
  <2>. QED  BY <1>1, <1>4, <2>1, <2>2, <2>3, MoveInv, Zenon
<1>5. CASE \E v \in aicwf_sdio_flow_ctrl : data' = [data EXCEPT !.avail = v]
  BY <1>1, <1>2, <1>3, <1>5, CreditInv, Zenon
<1>. QED  BY <1>4, <1>5, Zenon DEF TxData

\* A packet at the end of the aggregate is at the end of what leaves.
LEMMA AppendLast ==
    ASSUME NEW s \in Seq(Pkts), NEW a \in Seq(Pkts), NEW p \in Pkts
    PROVE  /\ Append(a, p) \in Seq(Pkts) /\ Len(Append(a, p)) = Len(a) + 1
           /\ s \o Append(a, p) = Append(s \o a, p)
<1>1. /\ s \o a \in Seq(Pkts) /\ Len(s) \in Nat /\ Len(a) \in Nat
      /\ Len(s \o a) = Len(s) + Len(a)
  OBVIOUS
<1>2. Append(a, p) \in Seq(Pkts) /\ Len(Append(a, p)) = Len(a) + 1
  OBVIOUS
<1>. DEFINE x == s \o Append(a, p)
            y == Append(s \o a, p)
<1>3. x \in Seq(Pkts) /\ Len(x) = Len(s) + Len(a) + 1
  BY <1>1, <1>2
<1>4. y \in Seq(Pkts) /\ Len(y) = Len(s) + Len(a) + 1
  BY <1>1
<1>5. ASSUME NEW i \in 1..(Len(s) + Len(a) + 1)  PROVE x[i] = y[i]
  BY <1>1, <1>2
<1>6. x = y
  <2>. HIDE DEF x, y
  <2>. QED  BY <1>1, <1>3, <1>4, <1>5
<1>. QED  BY <1>2, <1>6, Zenon

\* An aggregate of packets that is sent: the order does not change, the credit pays
\* for it, and with a sleeping chip it has only packets that came during the pass.
LEMMA SendFacts ==
    ASSUME BusIInv, tx.pc \in {"loop", "packed"}
    PROVE  LET d == aicwf_sdio_aggr_send(data) IN
           /\ d \in DataType
           /\ d.avail \in Nat /\ (d.avail = 0 \/ d.avail >= DATA_FLOW_CTRL_THRESH)
           /\ d.aggr = <<>> /\ d.txq = data.txq /\ d.cnt = data.cnt /\ d.next = data.next
           /\ d.sent \o d.aggr = data.sent \o data.aggr
           /\ Dozing(data) => dozed' \subseteq Nat /\ (dozed' # {} => pwr.deaf)
<1>. USE DEF BusIInv
<1>. DEFINE d == aicwf_sdio_aggr_send(data)
<1>1. /\ data.aggr \in Seq(Pkts) /\ data.sent \in Seq(Pkts)
      /\ data.sent \o data.aggr \in Seq(Pkts) /\ <<>> \in Seq(Pkts)
  BY DEF BusTypes, DataType
<1>2. PICK a \in 0..MaxCredit : /\ a = data.avail - Len(data.aggr)
                                /\ a = 0 \/ a >= DATA_FLOW_CTRL_THRESH
  <2>1. Len(data.aggr) = 0 \/ (Len(data.aggr) > 0 /\ Len(data.aggr) <= data.avail - DATA_FLOW_CTRL_THRESH)
    BY AggrFits, Zenon DEF Room
  <2>2. data.avail = 0 \/ data.avail >= DATA_FLOW_CTRL_THRESH
    BY Zenon DEF Counted, TxBooks
  <2>3. /\ data.avail \in Nat /\ data.avail <= MaxCredit /\ Len(data.aggr) \in Nat
        /\ MaxCredit \in Nat /\ DATA_FLOW_CTRL_THRESH \in Nat
    BY Fields, BusAssumption, Zenon
  <2>4. /\ data.avail - Len(data.aggr) \in 0..MaxCredit
        /\ data.avail - Len(data.aggr) = 0 \/ data.avail - Len(data.aggr) >= DATA_FLOW_CTRL_THRESH
    BY <2>1, <2>2, <2>3
  <2>. QED  BY <2>4, Zenon
<1>3. d = [data EXCEPT !.sent = data.sent \o data.aggr, !.avail = a, !.aggr = <<>>]
  BY <1>2, Zenon DEF aicwf_sdio_aggr_send, BusTypes, DataType
<1>4. d \in DataType
  BY <1>1, <1>3, Zenon DEF BusTypes, DataType
<1>5. d.avail = a /\ d.cnt = data.cnt /\ d.next = data.next
  BY <1>3, Zenon DEF BusTypes, DataType
<1>6. d.aggr = <<>> /\ d.txq = data.txq /\ d.sent = data.sent \o data.aggr
  BY <1>3, Zenon DEF BusTypes, DataType
<1>7. d.sent \o d.aggr = data.sent \o data.aggr
  BY <1>1, <1>6
<1>8. ASSUME Dozing(data) PROVE dozed' \subseteq Nat /\ (dozed' # {} => pwr.deaf)
  <2>1. \A p \in Range(data.aggr) : p \in Nat
    BY <1>1, PacketNumbers DEF Range
  <2>2. CASE ~pwr.asleep \/ pwr.deaf
    BY <1>8, <2>1, <2>2, Zenon DEF Dozing, BusTypes, Awake
  <2>3. CASE pwr.asleep /\ ~pwr.deaf
    <3>1. \A i \in 1..Len(data.aggr) : data.aggr[i] >= tx.mark
      BY <2>3, Zenon DEF Awake, NoneBefore
    <3>2. ASSUME NEW p \in Range(data.aggr) PROVE ~(p < tx.mark)
      <4>1. PICK i \in 1..Len(data.aggr) : p = data.aggr[i]
        BY <1>1 DEF Range
      <4>2. p >= tx.mark /\ p \in Nat /\ tx.mark \in Nat
        BY <2>1, <3>1, <4>1, Fields, Zenon
      <4>. QED  BY <4>2
    <3>3. {p \in Range(data.aggr) : p < tx.mark} = {}
      BY <3>2, Zenon
    <3>. QED  BY <1>8, <2>3, <3>3, Zenon DEF Dozing, BusTypes, Awake
  <2>. QED  BY <2>2, <2>3, Zenon
<1>9. a \in Nat
  BY <1>2, BusAssumption
<1>. QED  BY <1>2, <1>4, <1>5, <1>6, <1>7, <1>8, <1>9, Zenon

\* The end of the loop, with nothing in the aggregate unless the bus is down.
LEMMA LoopEndInv ==
    ASSUME BusIInv, tx.pc = "loop", TxGoto("idle"),
           UNCHANGED <<load, bus, data, cmdst, pwr, rx, dozed>>,
           aicwf_is_framequeue_empty(data.txq) \/ ~bus \/ Room <= 0
    PROVE  BusIInv'
<1>. USE DEF BusIInv
<1>1. tx' \in TxType /\ tx'.mark = tx.mark /\ tx'.pc = "idle"
  BY Zenon DEF TxGoto, BusTypes, TxType
<1>2. BusTypes'
  BY <1>1, Zenon DEF BusTypes
<1>3. bus => Len(data.aggr) = 0
  <2>1. Len(data.aggr) = 0 \/ (Len(data.aggr) > 0 /\ Len(data.aggr) <= Room)
    BY AggrFits, Zenon
  <2>2. Room \in Int
    BY Counts, BusAssumption DEF Room
  <2>3. Room <= 0 => Len(data.aggr) = 0
    BY <2>1, <2>2, Counts
  <2>4. bus /\ aicwf_is_framequeue_empty(data.txq) => data.cnt = 0
    <3>1. One(tx.pc = "packed") = 0
      BY Zenon DEF One
    <3>2. 0 + 0 = 0
      OBVIOUS
    <3>. QED  BY <3>1, <3>2, Zenon DEF aicwf_is_framequeue_empty, Counted, TxBooks
  <2>5. bus /\ data.cnt = 0 => ~(Len(data.aggr) > 0)
    <3>1. ~(0 > 0)
      OBVIOUS
    <3>. QED  BY <3>1, Zenon DEF Counted, TxBooks
  <2>. QED  BY <2>1, <2>3, <2>4, <2>5, Zenon
<1>4. TxBooks(bus, tx'.pc, data.cnt, Queued(data.txq), Len(data.aggr), data.avail)
  BY <1>1, <1>3, Fields, Zenon DEF Counted, TxBooks, One
<1>5. Awake'
  BY <1>1, Zenon DEF Awake
<1>. QED  BY <1>2, <1>4, <1>5, MoveInv, Zenon

\* One round of the data loop.
LEMMA TxLoopInv == ASSUME BusIInv, TxLoop PROVE BusIInv'
<1>. USE DEF BusIInv
<1>1. tx.pc = "loop" /\ UNCHANGED <<load, bus, cmdst, pwr, rx>>
  BY Zenon DEF TxLoop
<1>2. CASE /\ aicwf_is_framequeue_empty(data.txq) \/ ~bus \/ (Room <= 0 /\ cmdst.full)
           /\ TxGoto("idle") /\ UNCHANGED <<data, dozed>>
  BY <1>1, <1>2, LoopEndInv, Zenon
<1>3. CASE /\ Room <= 0 /\ UNCHANGED <<tx, dozed>>
           /\ \E v \in aicwf_sdio_flow_ctrl : data' = [data EXCEPT !.avail = v]
  <2>1. Len(data.aggr) = 0
    <3>1. Len(data.aggr) = 0 \/ (Len(data.aggr) > 0 /\ Len(data.aggr) <= Room)
      BY AggrFits, Zenon
    <3>2. Room \in Int
      BY Counts, BusAssumption DEF Room
    <3>. QED  BY <1>3, <3>1, <3>2, Counts
  <2>. QED  BY <1>1, <1>3, <2>1, CreditInv, Zenon DEF BusTypes
<1>4. CASE /\ data' = aicwf_sdio_aggr_send(data) /\ Dozing(data)
           /\ TxGoto(IF cmdst.full THEN "idle" ELSE "loop")
  <2>1. tx' \in TxType /\ tx'.mark = tx.mark /\ tx'.pc \in {"idle", "loop"}
    BY <1>4, Zenon DEF TxGoto, BusTypes, TxType
  <2>2. /\ data' \in DataType
        /\ data'.avail \in Nat /\ (data'.avail = 0 \/ data'.avail >= DATA_FLOW_CTRL_THRESH)
        /\ data'.aggr = <<>> /\ data'.txq = data.txq /\ data'.cnt = data.cnt /\ data'.next = data.next
        /\ data'.sent \o data'.aggr = data.sent \o data.aggr
        /\ dozed' \subseteq Nat /\ (dozed' # {} => pwr.deaf)
    BY <1>1, <1>4, SendFacts, Zenon
  <2>3. BusTypes'
    BY <1>1, <2>1, <2>2, Zenon DEF BusTypes
  <2>4. Counted'
    <3>1. Len(data'.aggr) = 0
      BY <2>2
    <3>2. TxBooks(bus, tx'.pc, data.cnt, Queued(data.txq), 0, data'.avail)
      <4>1. TxBooks(bus, "loop", data.cnt, Queued(data.txq), Len(data.aggr), data.avail)
        BY <1>1, Zenon DEF Counted
      <4>2. "loop" \in {"data", "loop"} /\ tx'.pc \in {"idle", "loop"} /\ Queued(data.txq) \in Nat
        BY <2>1, Counts, Zenon
      <4>3. data'.avail = 0 \/ data'.avail >= DATA_FLOW_CTRL_THRESH
        BY <2>2, Zenon
      <4>. QED  BY <4>1, <4>2, <4>3, TxBooksSent, Zenon
    <3>. QED  BY <1>1, <2>2, <3>1, <3>2, Zenon DEF Counted
  <2>5. InOrder'
    BY <2>2, Zenon DEF InOrder
  <2>6. Awake'
    <3>1. NoneBefore(tx.mark, data.txq, data.aggr) => NoneBefore(tx.mark, data.txq, <<>>)
      BY Fields, LatePackets, Zenon
    <3>. QED  BY <1>1, <2>1, <2>2, <3>1, Zenon DEF Awake
  <2>. QED  BY <1>1, <2>3, <2>4, <2>5, <2>6, ReceivedKept, Zenon
<1>5. CASE /\ ~aicwf_is_framequeue_empty(data.txq) /\ Room > 0 /\ ~AggrFull(data)
           /\ data' = [data EXCEPT !.aggr = Append(@, Head(data.txq[HiPrio(data.txq)])),
                                   !.txq = aicwf_frame_dequeue(@)]
           /\ tx' = [tx EXCEPT !.pc = "packed", !.now = cmdst.full]
           /\ UNCHANGED dozed
  <2>. DEFINE p == Head(data.txq[HiPrio(data.txq)])
  <2>0. Queued(data.txq) # 0
    BY <1>5, Zenon DEF aicwf_is_framequeue_empty
  <2>1. /\ p \in Pkts /\ aicwf_frame_dequeue(data.txq) \in [Prios -> Seq(Pkts)]
        /\ Queued(aicwf_frame_dequeue(data.txq)) = Queued(data.txq) - 1
    BY <2>0, Fields, QueuedFacts, Zenon
  <2>2. /\ Append(data.aggr, p) \in Seq(Pkts)
        /\ Len(Append(data.aggr, p)) = Len(data.aggr) + 1
        /\ data.sent \o Append(data.aggr, p) = Append(data.sent \o data.aggr, p)
    <3>1. data.aggr \in Seq(Pkts) /\ data.sent \in Seq(Pkts)
      BY Zenon DEF BusTypes, DataType
    <3>. QED  BY <2>1, <3>1, AppendLast, Zenon
  <2>3. data'.aggr = Append(data.aggr, p) /\ data'.txq = aicwf_frame_dequeue(data.txq)
    BY <1>5, Zenon DEF BusTypes, DataType
  <2>4. data'.sent = data.sent /\ data'.avail = data.avail /\ data'.cnt = data.cnt /\ data'.next = data.next
    BY <1>5, Zenon DEF BusTypes, DataType
  <2>5. tx' \in TxType /\ tx'.pc = "packed" /\ tx'.mark = tx.mark
    <3>1. cmdst.full \in BOOLEAN
      BY Zenon DEF BusTypes
    <3>. QED  BY <1>5, <3>1, Zenon DEF BusTypes, TxType
  <2>6. BusTypes'
    <3>1. data' \in DataType
      BY <1>5, <2>1, <2>2, Zenon DEF BusTypes, DataType
    <3>. QED  BY <1>1, <1>5, <2>5, <3>1, Zenon DEF BusTypes
  <2>7. Counted'
    <3>1. Len(data.aggr) + 1 <= Room
      <4>1. Len(data.aggr) = 0 \/ (Len(data.aggr) > 0 /\ Len(data.aggr) <= Room)
        BY AggrFits, Zenon
      <4>2. Room \in Int /\ Len(data.aggr) # Room
        BY <1>5, Counts, BusAssumption DEF Room, AggrFull
      <4>. QED  BY <1>5, <4>1, <4>2, Counts
    <3>2. TxBooks(bus, "packed", data.cnt, Queued(data.txq) - 1, Len(data.aggr) + 1, data.avail)
      <4>1. TxBooks(bus, "loop", data.cnt, Queued(data.txq), Len(data.aggr), data.avail)
        BY <1>1, Zenon DEF Counted
      <4>. QED  BY <3>1, <4>1, Counts, TxBooksPacked, Zenon DEF Room
    <3>. QED  BY <1>1, <2>1, <2>2, <2>3, <2>4, <2>5, <3>2, Zenon DEF Counted
  <2>8. InOrder'
    BY <2>0, <2>2, <2>3, <2>4, Fields, OrderDeq, Zenon DEF InOrder
  <2>9. Awake'
    <3>1. NoneBefore(tx.mark, data.txq, data.aggr) =>
            NoneBefore(tx.mark, aicwf_frame_dequeue(data.txq), Append(data.aggr, p))
      BY <2>0, Fields, LatePackets, Zenon
    <3>. QED  BY <1>1, <1>5, <2>3, <2>4, <2>5, <3>1, Zenon DEF Awake
  <2>. QED  BY <1>1, <2>6, <2>7, <2>8, <2>9, ReceivedKept, Zenon
<1>. QED  BY <1>2, <1>3, <1>4, <1>5, Zenon DEF TxLoop

\* The rest of aicwf_sdio_send counts the packet off.
LEMMA TxSendInv == ASSUME BusIInv, aicwf_sdio_send PROVE BusIInv'
<1>. USE DEF BusIInv
<1>1. tx.pc = "packed" /\ UNCHANGED <<load, bus, cmdst, pwr, rx>>
  BY Zenon DEF aicwf_sdio_send
<1>2. /\ tx' \in TxType /\ tx'.mark = tx.mark
      /\ (tx.now /\ tx'.pc = "idle") \/ (~tx.now /\ tx'.pc = "loop")
  BY Zenon DEF aicwf_sdio_send, TxGoto, BusTypes, TxType
<1>3. PICK c \in Nat : /\ c = data.cnt - 1 /\ c >= Queued(data.txq)
                       /\ bus => c = Queued(data.txq)
                       /\ c < data.next /\ data.cnt < data.next
  <2>1. data.cnt >= Queued(data.txq) + 1 /\ (bus => data.cnt = Queued(data.txq) + 1)
    BY <1>1, Zenon DEF Counted, TxBooks, One
  <2>2. data.cnt < data.next
    BY Zenon DEF Counted
  <2>3. data.cnt \in Nat /\ Queued(data.txq) \in Nat /\ data.next \in Nat
    BY Fields, Zenon
  <2>4. data.cnt - 1 \in Nat /\ data.cnt - 1 >= Queued(data.txq) /\ data.cnt - 1 < data.next
    BY <2>1, <2>2, <2>3
  <2>5. bus => data.cnt - 1 = Queued(data.txq)
    BY <2>1, <2>3
  <2>. QED  BY <2>2, <2>4, <2>5, Zenon
<1>4. CASE /\ data' = [aicwf_sdio_aggr_send(data) EXCEPT !.cnt = @ - 1] /\ Dozing(data)
  <2>. DEFINE d == aicwf_sdio_aggr_send(data)
  <2>1. /\ d \in DataType
        /\ d.avail \in Nat /\ (d.avail = 0 \/ d.avail >= DATA_FLOW_CTRL_THRESH)
        /\ d.aggr = <<>> /\ d.txq = data.txq /\ d.cnt = data.cnt /\ d.next = data.next
        /\ d.sent \o d.aggr = data.sent \o data.aggr
        /\ dozed' \subseteq Nat /\ (dozed' # {} => pwr.deaf)
    BY <1>1, <1>4, SendFacts, Zenon
  <2>. HIDE DEF d
  <2>2. data' = [d EXCEPT !.cnt = c]
    BY <1>3, <1>4, <2>1, Zenon DEF d, DataType
  <2>3. data' \in DataType /\ data'.cnt = c /\ data'.avail = d.avail /\ data'.next = d.next
    BY <2>1, <2>2, Zenon DEF DataType
  <2>4. data'.aggr = d.aggr /\ data'.txq = d.txq /\ data'.sent = d.sent
    BY <2>1, <2>2, Zenon DEF DataType
  <2>5. BusTypes'
    BY <1>1, <1>2, <2>1, <2>3, Zenon DEF BusTypes
  <2>6. Counted'
    <3>1. Len(data'.aggr) = 0
      BY <2>1, <2>4
    <3>2. TxBooks(bus, tx'.pc, c, Queued(data.txq), 0, d.avail)
      <4>1. tx'.pc # "packed"
        BY <1>2, Zenon
      <4>. QED  BY <1>3, <2>1, <4>1, Counts, TxBooksFlat, Zenon
    <3>. QED  BY <1>1, <1>3, <2>1, <2>3, <2>4, <3>1, <3>2, ZenonT(30) DEF Counted
  <2>7. InOrder'
    BY <2>1, <2>3, <2>4, Zenon DEF InOrder
  <2>8. Awake'
    <3>1. NoneBefore(tx.mark, data.txq, data.aggr) => NoneBefore(tx.mark, data.txq, <<>>)
      BY Fields, LatePackets, Zenon
    <3>2. tx'.mark <= data'.next
      BY <1>2, <2>1, <2>3, Zenon DEF Awake
    <3>. QED  BY <1>1, <1>2, <2>1, <2>4, <3>1, <3>2, Zenon DEF Awake
  <2>. QED  BY <1>1, <2>5, <2>6, <2>7, <2>8, ReceivedKept, Zenon
<1>5. CASE /\ data.cnt # 1 /\ ~tx.now /\ data' = [data EXCEPT !.cnt = @ - 1] /\ UNCHANGED dozed
  <2>1. data' = [data EXCEPT !.cnt = c]
    BY <1>3, <1>5, Zenon DEF BusTypes, DataType
  <2>2. data' \in DataType /\ data'.cnt = c /\ data'.avail = data.avail /\ data'.next = data.next
    BY <2>1, Zenon DEF BusTypes, DataType
  <2>3. data'.aggr = data.aggr /\ data'.txq = data.txq /\ data'.sent = data.sent
    BY <2>1, Zenon DEF BusTypes, DataType
  <2>4. BusTypes'
    BY <1>1, <1>2, <1>5, <2>2, Zenon DEF BusTypes
  <2>5. Counted'
    <3>1. c > 0
      BY <1>3, <1>5, Counts
    <3>2. TxBooks(bus, tx'.pc, c, Queued(data.txq), Len(data.aggr), data.avail)
      <4>1. /\ Queued(data.txq) \in Nat /\ tx'.pc = "loop"
            /\ Len(data.aggr) > 0 => Len(data.aggr) <= data.avail - DATA_FLOW_CTRL_THRESH
            /\ data.avail = 0 \/ data.avail >= DATA_FLOW_CTRL_THRESH
        BY <1>2, <1>5, Fields, Zenon DEF Counted, TxBooks
      <4>2. One("loop" = "packed") = 0
        BY Zenon DEF One
      <4>3. \A n \in Nat : n + 0 = n
        OBVIOUS
      <4>. QED  BY <1>3, <3>1, <4>1, <4>2, <4>3, Zenon DEF TxBooks
    <3>. QED  BY <1>1, <1>3, <2>2, <2>3, <3>2, Zenon DEF Counted
  <2>6. Awake'
    BY <1>1, <1>2, <1>5, <2>2, <2>3, Zenon DEF Awake
  <2>. QED  BY <1>1, <2>2, <2>3, <2>4, <2>5, <2>6, OrderKept, ReceivedKept, Zenon
<1>. QED  BY <1>4, <1>5, Zenon DEF aicwf_sdio_send

-----------------------------------------------------------------------------
(* Receive *)

\* The books of the receive side through an interrupt: read (without and with a
\* packet) and counted.
LEMMA RxBooksIrq ==
    ASSUME NEW up \in BOOLEAN, NEW at \in {"idle", "loop", "busy", "exit"},
           NEW trgg \in BOOLEAN, NEW leak \in BOOLEAN, NEW cnt \in Int, NEW len \in Nat,
           NEW irqs \in Nat
    PROVE  /\ RxBooks(up, at, "idle", trgg, leak, cnt, len, irqs) =>
                /\ RxBooks(up, at, "check", trgg, leak, cnt, len, irqs + 1)
                /\ RxBooks(up, at, "count", trgg, leak, cnt, len + 1, irqs + 1)
           /\ RxBooks(up, at, "count", trgg, leak, cnt, len, irqs) =>
                RxBooks(up, at, "check", trgg, leak, cnt + 1, len, irqs)
<1>1. PICK b \in {0, 1} : b = One(at = "busy") /\ (at = "idle" => b = 0)
  BY Zenon DEF One
<1>2. One("idle" = "count") = 0 /\ One("check" = "count") = 0 /\ One("count" = "count") = 1
  BY Zenon DEF One
<1>3. RxBooks(up, at, "idle", trgg, leak, cnt, len, irqs) =>
        RxBooks(up, at, "check", trgg, leak, cnt, len, irqs + 1)
  <2>1. cnt + 0 <= irqs => cnt + 0 <= irqs + 1
    BY ONLY cnt \in Int, irqs \in Nat
  <2>. QED  BY <1>2, <2>1, Zenon DEF RxBooks
<1>4. RxBooks(up, at, "idle", trgg, leak, cnt, len, irqs) =>
        RxBooks(up, at, "count", trgg, leak, cnt, len + 1, irqs + 1)
  <2>1. /\ cnt >= len + b - 0 => cnt >= (len + 1) + b - 1
        /\ cnt = len + b - 0 => cnt = (len + 1) + b - 1
        /\ cnt + 0 <= irqs => cnt + 1 <= irqs + 1
        /\ len > 0 \/ len + 1 = 1
    BY ONLY cnt \in Int, len \in Nat, irqs \in Nat, b \in {0, 1}
  <2>. QED  BY <1>1, <1>2, <2>1, Zenon DEF RxBooks
<1>5. RxBooks(up, at, "count", trgg, leak, cnt, len, irqs) =>
        RxBooks(up, at, "check", trgg, leak, cnt + 1, len, irqs)
  <2>1. /\ cnt >= len + b - 1 => cnt + 1 >= len + b - 0
        /\ cnt = len + b - 1 => cnt + 1 = len + b - 0
        /\ cnt + 1 <= irqs => (cnt + 1) + 0 <= irqs
    BY ONLY cnt \in Int, len \in Nat, irqs \in Nat, b \in {0, 1}
  <2>. QED  BY <1>1, <1>2, <2>1, Zenon DEF RxBooks
<1>. QED  BY <1>3, <1>4, <1>5, Zenon

\* The books of the receive side once the thread is told of the first packet.
LEMMA RxBooksTold ==
    ASSUME NEW up, NEW at, NEW trgg, NEW leak, NEW cnt \in Int, NEW len \in Nat, NEW irqs,
           RxBooks(up, at, "check", trgg, leak, cnt, len, irqs),
           NEW w, w <=> trgg \/ cnt = 1
    PROVE  RxBooks(up, at, "idle", w, leak, cnt, len, irqs)
<1>1. One("idle" = "count") = 0 /\ One("check" = "count") = 0
  BY Zenon DEF One
<1>2. PICK b \in {0, 1} : b = One(at = "busy") /\ (at = "idle" => b = 0)
  BY Zenon DEF One
<1>3. len = 1 /\ b = 0 /\ cnt = len + b - 0 => cnt = 1
  BY ONLY cnt \in Int, len \in Nat, b \in {0, 1}
<1>. QED  BY <1>1, <1>2, <1>3, Zenon DEF RxBooks

\* A step of the receive side that keeps its books.
LEMMA RxStepInv ==
    ASSUME BusIInv, UNCHANGED <<load, bus, data, cmdst, tx, dozed>>, rx' \in RxType,
           pwr' \in PwrType, pwr.deaf => pwr'.deaf,
           pwr'.asleep /\ ~pwr'.deaf => pwr.asleep /\ ~pwr.deaf,
           RxBooks(bus, rx'.pc, rx'.irq, rx'.trgg, rx'.leak, rx'.cnt, Len(rx'.q), rx'.irqs),
           rx'.irqs <= load.irqs
    PROVE  BusIInv'
<1>. USE DEF BusIInv
<1>1. BusTypes'
  BY Zenon DEF BusTypes
<1>2. Received'
  BY Zenon DEF Received
<1>. QED  BY <1>1, <1>2, CountedKept, OrderKept, AwakeKept, Zenon

\* The fields of the receive side.
LEMMA RxFields ==
    ASSUME BusTypes
    PROVE  /\ rx.cnt \in Int /\ rx.irqs \in Nat /\ rx.q \in Seq(Nat) /\ Len(rx.q) \in Nat
           /\ rx.pc \in {"idle", "loop", "busy", "exit"}
           /\ bus \in BOOLEAN /\ rx.trgg \in BOOLEAN /\ rx.leak \in BOOLEAN
           /\ rx.q # <<>> <=> Len(rx.q) > 0
           /\ pwr \in PwrType /\ load.irqs \in Nat
<1>1. rx.q \in Seq(Nat)
  BY Zenon DEF BusTypes, RxType
<1>2. Len(rx.q) \in Nat /\ (rx.q # <<>> <=> Len(rx.q) > 0)
  BY <1>1
<1>3. /\ rx.pc \in {"idle", "loop", "busy", "exit"}
      /\ bus \in BOOLEAN /\ rx.trgg \in BOOLEAN /\ rx.leak \in BOOLEAN
  BY Zenon DEF BusTypes, RxType
<1>. QED  BY <1>1, <1>2, <1>3, Fields, Zenon DEF BusTypes

\* The interrupt handler: a packet is in the queue before it is counted, and the
\* thread is told when the count is one.
LEMMA IrqInv ==
    ASSUME BusIInv, aicwf_sdio_hal_irqhandler \/ aicwf_sdio_enq_rxpkt \/ IrqWake
    PROVE  BusIInv'
<1>. USE DEF BusIInv
<1>0. UNCHANGED <<load, bus, data, cmdst, tx, pwr, dozed>>
  BY Zenon DEF aicwf_sdio_hal_irqhandler, aicwf_sdio_enq_rxpkt, IrqWake
<1>b. PICK t \in BOOLEAN, l \in BOOLEAN : t = rx.trgg /\ l = rx.leak
  BY RxFields, Zenon
<1>n. PICK c \in Int, k \in Nat, n \in Nat : c = rx.cnt /\ k = Len(rx.q) /\ n = rx.irqs
  BY RxFields, Zenon
<1>p. PICK at \in {"idle", "loop", "busy", "exit"} : at = rx.pc
  BY RxFields, Zenon
<1>r. RxBooks(bus, at, rx.irq, t, l, c, k, n) /\ n <= load.irqs
  BY <1>b, <1>n, <1>p, Zenon DEF Received
<1>u. bus \in BOOLEAN
  BY Zenon DEF BusTypes
<1>1. CASE aicwf_sdio_hal_irqhandler
  <2>0. rx.irq = "idle" /\ n + 1 <= load.irqs /\ n + 1 \in Nat
    BY <1>1, <1>n, RxFields DEF aicwf_sdio_hal_irqhandler
  <2>1. /\ RxBooks(bus, at, "check", t, l, c, k, n + 1)
        /\ RxBooks(bus, at, "count", t, l, c, k + 1, n + 1)
    <3>1. RxBooks(bus, at, "idle", t, l, c, k, n)
      BY <1>r, <2>0, Zenon
    <3>. QED  BY <1>u, <3>1, RxBooksIrq, ZenonT(30)
  <2>2. CASE rx' = [rx EXCEPT !.irqs = @ + 1, !.irq = "check"]
    <3>1. rx' = [rx EXCEPT !.irqs = n + 1, !.irq = "check"]
      BY <1>n, <2>2, Zenon DEF BusTypes, RxType
    <3>2. /\ rx' \in RxType /\ rx'.pc = rx.pc /\ rx'.irq = "check" /\ rx'.trgg = rx.trgg
          /\ rx'.leak = rx.leak /\ rx'.cnt = rx.cnt /\ rx'.q = rx.q /\ rx'.irqs = n + 1
      BY <2>0, <3>1, Zenon DEF BusTypes, RxType
    <3>. QED  BY <1>0, <1>b, <1>n, <1>p, <2>0, <2>1, <3>2, RxFields, RxStepInv, Zenon
  <2>3. CASE rx' = [rx EXCEPT !.irqs = @ + 1, !.irq = "count", !.q = Append(@, rx.irqs)]
    <3>1. rx' = [rx EXCEPT !.irqs = n + 1, !.irq = "count", !.q = Append(rx.q, rx.irqs)]
      BY <1>n, <2>3, Zenon DEF BusTypes, RxType
    <3>2. Append(rx.q, rx.irqs) \in Seq(Nat) /\ Len(Append(rx.q, rx.irqs)) = Len(rx.q) + 1
      BY RxFields
    <3>3. /\ rx' \in RxType /\ rx'.pc = rx.pc /\ rx'.irq = "count" /\ rx'.trgg = rx.trgg
          /\ rx'.leak = rx.leak /\ rx'.cnt = rx.cnt /\ rx'.irqs = n + 1
      BY <2>0, <3>1, <3>2, Zenon DEF BusTypes, RxType
    <3>4. Len(rx'.q) = k + 1
      BY <1>n, <3>1, <3>2, Zenon DEF BusTypes, RxType
    <3>. QED  BY <1>0, <1>b, <1>n, <1>p, <2>0, <2>1, <3>3, <3>4, RxFields, RxStepInv, Zenon
  <2>. QED  BY <1>1, <2>2, <2>3, Zenon DEF aicwf_sdio_hal_irqhandler
<1>2. CASE aicwf_sdio_enq_rxpkt
  <2>0. rx.irq = "count" /\ c + 1 \in Int
    BY <1>2 DEF aicwf_sdio_enq_rxpkt
  <2>1. RxBooks(bus, at, "check", t, l, c + 1, k, n)
    <3>1. RxBooks(bus, at, "count", t, l, c, k, n)
      BY <1>r, <2>0, Zenon
    <3>. QED  BY <1>u, <3>1, RxBooksIrq, ZenonT(30)
  <2>2. rx' = [rx EXCEPT !.irq = "check", !.cnt = c + 1]
    BY <1>2, <1>n, Zenon DEF aicwf_sdio_enq_rxpkt, BusTypes, RxType
  <2>3. /\ rx' \in RxType /\ rx'.pc = rx.pc /\ rx'.irq = "check" /\ rx'.trgg = rx.trgg
        /\ rx'.leak = rx.leak /\ rx'.cnt = c + 1 /\ rx'.q = rx.q /\ rx'.irqs = rx.irqs
    BY <2>0, <2>2, Zenon DEF BusTypes, RxType
  <2>. QED  BY <1>0, <1>b, <1>n, <1>p, <1>r, <2>1, <2>3, RxFields, RxStepInv, Zenon
<1>3. CASE IrqWake
  <2>0. rx.irq = "check"
    BY <1>3, Zenon DEF IrqWake
  <2>1. PICK w \in BOOLEAN : w = (t \/ c = 1) /\ (w <=> t \/ c = 1)
    BY Zenon
  <2>2. RxBooks(bus, at, "idle", w, l, c, k, n)
    <3>1. RxBooks(bus, at, "check", t, l, c, k, n)
      BY <1>r, <2>0, Zenon
    <3>. QED  BY <2>1, <3>1, RxBooksTold, Zenon
  <2>3. rx' = [rx EXCEPT !.irq = "idle", !.trgg = w]
    BY <1>3, <1>b, <1>n, <2>1, Zenon DEF IrqWake, BusTypes, RxType
  <2>4. /\ rx' \in RxType /\ rx'.pc = rx.pc /\ rx'.irq = "idle" /\ rx'.trgg = w
        /\ rx'.leak = rx.leak /\ rx'.cnt = rx.cnt /\ rx'.q = rx.q /\ rx'.irqs = rx.irqs
    BY <2>3, Zenon DEF BusTypes, RxType
  <2>. QED  BY <1>0, <1>b, <1>n, <1>p, <1>r, <2>2, <2>4, RxFields, RxStepInv, Zenon
<1>. QED  BY <1>1, <1>2, <1>3, Zenon

\* The books of the receive side through a pass of the thread.
LEMMA RxBooksThread ==
    ASSUME NEW up \in BOOLEAN, NEW irq \in {"idle", "count", "check"},
           NEW trgg \in BOOLEAN, NEW leak \in BOOLEAN, NEW cnt \in Int, NEW len \in Nat,
           NEW irqs \in Nat
    PROVE  /\ RxBooks(up, "idle", irq, trgg, leak, cnt, len, irqs) =>
                /\ RxBooks(up, "loop", irq, FALSE, leak, cnt, len, irqs)
                /\ RxBooks(up, "exit", irq, FALSE, leak, cnt, len, irqs)
           /\ RxBooks(up, "loop", irq, trgg, leak, cnt, len, irqs) =>
                /\ len > 0 => RxBooks(up, "busy", irq, trgg, leak, cnt, len - 1, irqs)
                /\ len = 0 => RxBooks(up, "idle", irq, trgg, leak, cnt, len, irqs)
           /\ RxBooks(up, "busy", irq, trgg, leak, cnt, len, irqs) =>
                /\ RxBooks(up, "loop", irq, trgg, leak, cnt - 1, len, irqs)
                /\ RxBooks(up, "idle", irq, trgg, TRUE, cnt, len, irqs)
<1>1. PICK k \in {0, 1} : k = One(irq = "count")
  BY Zenon DEF One
<1>2. One("idle" = "busy") = 0 /\ One("loop" = "busy") = 0 /\ One("busy" = "busy") = 1
      /\ One("exit" = "busy") = 0
  BY Zenon DEF One
<1>3. RxBooks(up, "idle", irq, trgg, leak, cnt, len, irqs) =>
        /\ RxBooks(up, "loop", irq, FALSE, leak, cnt, len, irqs)
        /\ RxBooks(up, "exit", irq, FALSE, leak, cnt, len, irqs)
  BY <1>2, Zenon DEF RxBooks
<1>4. RxBooks(up, "loop", irq, trgg, leak, cnt, len, irqs) =>
        (len > 0 => RxBooks(up, "busy", irq, trgg, leak, cnt, len - 1, irqs))
  <2>1. /\ cnt >= len + 0 - k => cnt >= (len - 1) + 1 - k
        /\ cnt = len + 0 - k => cnt = (len - 1) + 1 - k
    BY ONLY cnt \in Int, len \in Nat, k \in {0, 1}
  <2>. QED  BY <1>1, <1>2, <2>1, Zenon DEF RxBooks
<1>5. RxBooks(up, "loop", irq, trgg, leak, cnt, len, irqs) =>
        (len = 0 => RxBooks(up, "idle", irq, trgg, leak, cnt, len, irqs))
  <2>1. ~(0 > 0)
    OBVIOUS
  <2>. QED  BY <1>2, <2>1, Zenon DEF RxBooks
<1>6. RxBooks(up, "busy", irq, trgg, leak, cnt, len, irqs) =>
        /\ RxBooks(up, "loop", irq, trgg, leak, cnt - 1, len, irqs)
        /\ RxBooks(up, "idle", irq, trgg, TRUE, cnt, len, irqs)
  <2>1. /\ cnt >= len + 1 - k => (cnt - 1) >= len + 0 - k /\ cnt >= len + 0 - k
        /\ cnt = len + 1 - k => (cnt - 1) = len + 0 - k
        /\ cnt + k <= irqs => (cnt - 1) + k <= irqs
    BY ONLY cnt \in Int, len \in Nat, irqs \in Nat, k \in {0, 1}
  <2>. QED  BY <1>1, <1>2, <2>1, Zenon DEF RxBooks
<1>. QED  BY <1>3, <1>4, <1>5, <1>6, Zenon

\* The receive thread; at its end it wakes the chip.
LEMMA RxThreadInv ==
    ASSUME BusIInv, sdio_busrx_thread \/ aicwf_process_rxframes
    PROVE  BusIInv'
<1>. USE DEF BusIInv
<1>0. UNCHANGED <<load, bus, data, cmdst, tx, dozed>>
  BY Zenon DEF sdio_busrx_thread, aicwf_process_rxframes
<1>b. PICK t \in BOOLEAN, l \in BOOLEAN : t = rx.trgg /\ l = rx.leak
  BY RxFields, Zenon
<1>n. PICK c \in Int, k \in Nat, n \in Nat : c = rx.cnt /\ k = Len(rx.q) /\ n = rx.irqs
  BY RxFields, Zenon
<1>p. PICK irq \in {"idle", "count", "check"} : irq = rx.irq
  BY Zenon DEF BusTypes, RxType
<1>r. RxBooks(bus, rx.pc, irq, t, l, c, k, n) /\ n <= load.irqs
  BY <1>b, <1>n, <1>p, Zenon DEF Received
<1>u. bus \in BOOLEAN
  BY Zenon DEF BusTypes
<1>1. CASE sdio_busrx_thread
  <2>1. PICK at \in {"loop", "exit"} :
          rx.pc = "idle" /\ rx' = [rx EXCEPT !.trgg = FALSE, !.pc = at] /\ pwr' = pwr
    BY <1>1, Zenon DEF sdio_busrx_thread
  <2>2. RxBooks(bus, at, irq, FALSE, l, c, k, n)
    <3>1. RxBooks(bus, "idle", irq, t, l, c, k, n)
      BY <1>r, <2>1, Zenon
    <3>2. /\ RxBooks(bus, "loop", irq, FALSE, l, c, k, n)
          /\ RxBooks(bus, "exit", irq, FALSE, l, c, k, n)
      BY <1>u, <3>1, RxBooksThread, ZenonT(30)
    <3>. QED  BY <3>2, Zenon
  <2>3. /\ rx' \in RxType /\ rx'.pc = at /\ rx'.irq = rx.irq /\ rx'.trgg = FALSE
        /\ rx'.leak = rx.leak /\ rx'.cnt = rx.cnt /\ rx'.q = rx.q /\ rx'.irqs = rx.irqs
    BY <2>1, Zenon DEF BusTypes, RxType
  <2>. QED  BY <1>0, <1>b, <1>n, <1>p, <1>r, <2>1, <2>2, <2>3, RxFields, RxStepInv, Zenon
<1>2. CASE rx.pc = "loop" /\ rx.q # <<>> /\ rx' = [rx EXCEPT !.q = Tail(@), !.pc = "busy"] /\ UNCHANGED pwr
  <2>1. Tail(rx.q) \in Seq(Nat) /\ Len(Tail(rx.q)) = Len(rx.q) - 1 /\ Len(rx.q) > 0
    <3>1. rx.q \in Seq(Nat)
      BY RxFields, Zenon
    <3>. QED  BY <1>2, <3>1
  <2>2. RxBooks(bus, "busy", irq, t, l, c, k - 1, n)
    <3>1. RxBooks(bus, "loop", irq, t, l, c, k, n)
      BY <1>r, <1>2, Zenon
    <3>2. k > 0
      BY <1>n, <2>1, Zenon
    <3>. QED  BY <1>u, <3>1, <3>2, RxBooksThread, ZenonT(30)
  <2>3. /\ rx' \in RxType /\ rx'.pc = "busy" /\ rx'.irq = rx.irq /\ rx'.trgg = rx.trgg
        /\ rx'.leak = rx.leak /\ rx'.cnt = rx.cnt /\ rx'.irqs = rx.irqs
    BY <1>2, <2>1, Zenon DEF BusTypes, RxType
  <2>4. Len(rx'.q) = k - 1
    BY <1>n, <1>2, <2>1, Zenon DEF BusTypes, RxType
  <2>. QED  BY <1>0, <1>b, <1>n, <1>p, <1>r, <1>2, <2>2, <2>3, <2>4, RxFields, RxStepInv, Zenon
<1>3. CASE rx.pc = "loop" /\ rx.q = <<>> /\ aicwf_sdio_wakeup /\ rx' = [rx EXCEPT !.pc = "idle"]
  <2>1. k = 0
    BY <1>n, <1>3, Zenon
  <2>2. RxBooks(bus, "idle", irq, t, l, c, k, n)
    <3>1. RxBooks(bus, "loop", irq, t, l, c, k, n)
      BY <1>r, <1>3, Zenon
    <3>. QED  BY <1>u, <3>1, <2>1, RxBooksThread, ZenonT(30)
  <2>3. /\ rx' \in RxType /\ rx'.pc = "idle" /\ rx'.irq = rx.irq /\ rx'.trgg = rx.trgg
        /\ rx'.leak = rx.leak /\ rx'.cnt = rx.cnt /\ rx'.q = rx.q /\ rx'.irqs = rx.irqs
    BY <1>3, Zenon DEF BusTypes, RxType
  <2>4. /\ pwr' \in PwrType /\ (pwr.deaf => pwr'.deaf)
        /\ pwr'.asleep /\ ~pwr'.deaf => pwr.asleep /\ ~pwr.deaf
    BY <1>3, WakeupEffect, Zenon
  <2>. QED  BY <1>0, <1>b, <1>n, <1>p, <1>r, <2>2, <2>3, <2>4, RxStepInv, Zenon
<1>4. CASE rx.pc = "busy" /\ rx' = [rx EXCEPT !.pc = "loop", !.cnt = @ - 1] /\ UNCHANGED pwr
  <2>1. c - 1 \in Int /\ rx' = [rx EXCEPT !.pc = "loop", !.cnt = c - 1]
    BY <1>n, <1>4 DEF BusTypes, RxType
  <2>2. RxBooks(bus, "loop", irq, t, l, c - 1, k, n)
    <3>1. RxBooks(bus, "busy", irq, t, l, c, k, n)
      BY <1>r, <1>4, Zenon
    <3>. QED  BY <1>u, <3>1, RxBooksThread, ZenonT(30)
  <2>3. /\ rx' \in RxType /\ rx'.pc = "loop" /\ rx'.irq = rx.irq /\ rx'.trgg = rx.trgg
        /\ rx'.leak = rx.leak /\ rx'.cnt = c - 1 /\ rx'.q = rx.q /\ rx'.irqs = rx.irqs
    BY <2>1, Zenon DEF BusTypes, RxType
  <2>. QED  BY <1>0, <1>b, <1>n, <1>p, <1>r, <1>4, <2>2, <2>3, RxFields, RxStepInv, Zenon
<1>5. CASE rx.pc = "busy" /\ rx' = [rx EXCEPT !.pc = "idle", !.leak = TRUE] /\ UNCHANGED pwr
  <2>1. RxBooks(bus, "idle", irq, t, TRUE, c, k, n)
    <3>1. RxBooks(bus, "busy", irq, t, l, c, k, n)
      BY <1>r, <1>5, Zenon
    <3>. QED  BY <1>u, <3>1, RxBooksThread, ZenonT(30)
  <2>2. /\ rx' \in RxType /\ rx'.pc = "idle" /\ rx'.irq = rx.irq /\ rx'.trgg = rx.trgg
        /\ rx'.leak = TRUE /\ rx'.cnt = rx.cnt /\ rx'.q = rx.q /\ rx'.irqs = rx.irqs
    BY <1>5, Zenon DEF BusTypes, RxType
  <2>. QED  BY <1>0, <1>b, <1>n, <1>p, <1>r, <1>5, <2>1, <2>2, RxFields, RxStepInv, Zenon
<1>. QED  BY <1>1, <1>2, <1>3, <1>4, <1>5, Zenon DEF aicwf_process_rxframes

-----------------------------------------------------------------------------
(* The end of the bus *)

\* The bus goes down; later its queue is flushed between two passes.
LEMMA StopInv == ASSUME BusIInv, BusStop PROVE BusIInv'
<1>. USE DEF BusIInv
<1>1. CASE /\ bus /\ bus' = FALSE /\ pwr' = [pwr EXCEPT !.timer = FALSE]
           /\ UNCHANGED <<load, data, cmdst, tx, rx, dozed>>
  <2>1. pwr' \in PwrType /\ pwr'.asleep = pwr.asleep /\ pwr'.deaf = pwr.deaf
    BY <1>1, Zenon DEF BusTypes, PwrType
  <2>2. BusTypes'
    BY <1>1, <2>1, Zenon DEF BusTypes
  <2>. QED  BY <1>1, <2>1, <2>2, QuietInv, Zenon
<1>2. CASE /\ ~bus /\ tx.pc \in {"idle", "power", "exit"}
           /\ data' = [data EXCEPT !.txq = [p \in Prios |-> <<>>], !.flush = TRUE]
           /\ tx' = [tx EXCEPT !.trgg = TRUE] /\ rx' = [rx EXCEPT !.trgg = TRUE]
           /\ UNCHANGED <<load, bus, cmdst, pwr, dozed>>
  <2>1. tx' \in TxType /\ tx'.pc = tx.pc /\ tx'.mark = tx.mark
    BY <1>2, Zenon DEF BusTypes, TxType
  <2>2. /\ rx' \in RxType /\ rx'.pc = rx.pc /\ rx'.irq = rx.irq
        /\ rx'.leak = rx.leak /\ rx'.cnt = rx.cnt /\ rx'.q = rx.q /\ rx'.irqs = rx.irqs
    BY <1>2, Zenon DEF BusTypes, RxType
  <2>3. [p \in Prios |-> <<>>] \in [Prios -> Seq(Pkts)] /\ Queued([p \in Prios |-> <<>>]) = 0
    BY DEF Queued, Prios
  <2>4. /\ data' \in DataType /\ data'.txq = [p \in Prios |-> <<>>]
    BY <1>2, <2>3, Zenon DEF BusTypes, DataType
  <2>5. data'.aggr = data.aggr /\ data'.sent = data.sent
    BY <1>2, Zenon DEF BusTypes, DataType
  <2>6. data'.cnt = data.cnt /\ data'.avail = data.avail /\ data'.next = data.next
    BY <1>2, Zenon DEF BusTypes, DataType
  <2>7. BusTypes'
    BY <1>2, <2>1, <2>2, <2>4, Zenon DEF BusTypes
  <2>8. Counted'
    <3>1. TxBooks(bus, tx.pc, data.cnt, 0, Len(data.aggr), data.avail)
      <4>1. PICK k \in {0, 1} : k = One(tx.pc = "packed")
        BY Zenon DEF One
      <4>2. \A c, q \in Nat : c >= q + k => c >= 0 + k
        BY <4>1
      <4>. QED  BY <1>2, <4>1, <4>2, Counts, Zenon DEF Counted, TxBooks
    <3>. QED  BY <1>2, <2>1, <2>3, <2>4, <2>5, <2>6, <3>1, Zenon DEF Counted
  <2>9. InOrder'
    BY <2>4, <2>5, <2>6, Fields, OrderOther, Zenon DEF InOrder
  <2>10. Received'
    BY <1>2, <2>2, Zenon DEF Received, RxBooks
  <2>11. Awake'
    BY <1>2, <2>1, <2>5, <2>6, Zenon DEF Awake
  <2>. QED  BY <2>7, <2>8, <2>9, <2>10, <2>11, Zenon
<1>. QED  BY <1>1, <1>2, Zenon DEF BusStop

-----------------------------------------------------------------------------
(* The theorems *)

\* What was sent is the beginning of what leaves.
LEMMA PrefixOf ==
    ASSUME NEW s \in Seq(Pkts), NEW a \in Seq(Pkts), NEW i \in 1..Len(s)
    PROVE  i \in 1..Len(s \o a) /\ (s \o a)[i] = s[i]
OBVIOUS

\* BusIInv holds in every state of the bus.
THEOREM BusInvariant == BusSpec => []BusIInv
<1>1. BusIInv /\ [BusNext]_busVars => BusIInv'
  <2>. SUFFICES ASSUME BusIInv, [BusNext]_busVars PROVE BusIInv'
    BY Zenon
  <2>1. CASE TxNext
    BY <2>1, TxThreadInv, TxPowerInv, TxCmdInv, TxDataStepInv, TxLoopInv, TxSendInv, Zenon DEF TxNext
  <2>2. CASE PwrNext \/ aicwf_sdio_bus_pwrctl
    BY <2>2, PowerInv, SleepInv, Zenon DEF PwrNext
  <2>3. CASE RxNext \/ IrqNext \/ aicwf_sdio_hal_irqhandler
    BY <2>3, RxThreadInv, IrqInv, Zenon DEF RxNext, IrqNext
  <2>4. CASE aicwf_sdio_bus_txdata \/ BusTxMsg \/ BusStop
    BY <2>4, TxDataInv, TxMsgInv, StopInv, Zenon
  <2>5. CASE UNCHANGED busVars
    <3>1. UNCHANGED <<load, bus, data, cmdst, tx, pwr, rx, dozed>>
      BY <2>5, Zenon DEF busVars
    <3>2. BusTypes'
      BY <3>1, Zenon DEF BusIInv, BusTypes
    <3>. QED  BY <3>1, <3>2, QuietInv, Zenon
  <2>. QED  BY <2>1, <2>2, <2>3, <2>4, <2>5, Zenon DEF BusNext
<1>. QED  BY BusInitInv, <1>1, PTL DEF BusSpec

\* The packing loop of aicwf_sdio_tx_process keeps the firmware's reserve and the
\* order of the packets, for any threshold, credit and aggregate size.
THEOREM CreditsAreKept == BusSpec => []CreditsKept
<1>1. BusIInv => CreditsKept
  <2>. SUFFICES ASSUME BusIInv PROVE CreditsKept
    BY Zenon
  <2>. USE DEF BusIInv
  <2>1. BusTypeOK
    <3>1. bus \in BOOLEAN /\ tx.pc \in {"idle", "power", "cmd", "data", "loop", "packed", "exit"}
      BY Zenon DEF BusTypes, TxType
    <3>2. pwr.state \in {"ACTIVE", "SLEEP"} /\ pwr.pc \in {"idle", "allow", "sleeping"}
      BY Zenon DEF BusTypes, PwrType
    <3>3. \A p \in Prios : data.txq[p] \in Seq(Pkts)
      BY Fields, Zenon
    <3>4. data.avail \in 0..MaxCredit
      BY Zenon DEF BusTypes, DataType
    <3>5. data.cnt \in 0..MaxPkts
      <4>1. data.cnt < data.next /\ data.next <= load.pkts + 1
        BY Zenon DEF Counted
      <4>2. data.cnt \in Nat /\ data.next \in Nat /\ load.pkts \in 0..MaxPkts /\ MaxPkts \in Nat
        BY Fields, BusAssumption, Zenon
      <4>. QED  BY <4>1, <4>2
    <3>6. rx.cnt \in -1..load.irqs
      <4>1. /\ rx.cnt >= Len(rx.q) + One(rx.pc = "busy") - One(rx.irq = "count")
            /\ rx.cnt + One(rx.irq = "count") <= rx.irqs /\ rx.irqs <= load.irqs
        BY Zenon DEF Received, RxBooks
      <4>2. One(rx.pc = "busy") \in {0, 1} /\ One(rx.irq = "count") \in {0, 1}
        BY Zenon DEF One
      <4>3. rx.cnt \in Int /\ rx.irqs \in Nat /\ Len(rx.q) \in Nat /\ load.irqs \in Nat
        BY Fields, Zenon
      <4>. QED  BY <4>1, <4>2, <4>3
    <3>. QED  BY <3>1, <3>2, <3>3, <3>4, <3>5, <3>6, Zenon DEF BusTypeOK
  <2>2. data.aggr # <<>> => Len(data.aggr) <= Room
    <3>1. data.aggr # <<>> => Len(data.aggr) > 0
      BY Fields
    <3>. QED  BY <3>1, Zenon DEF Counted, TxBooks, Room
  <2>3. data.avail = 0 \/ data.avail >= DATA_FLOW_CTRL_THRESH
    BY Zenon DEF Counted, TxBooks
  <2>4. ASSUME NEW i \in 1..Len(data.sent), NEW j \in 1..Len(data.sent), i < j,
               Prio[data.sent[i]] = Prio[data.sent[j]]
        PROVE  data.sent[i] < data.sent[j]
    <3>. DEFINE o == data.sent \o data.aggr
    <3>1. data.sent \in Seq(Pkts) /\ data.aggr \in Seq(Pkts)
      BY Zenon DEF BusTypes, DataType
    <3>2. i \in 1..Len(o) /\ j \in 1..Len(o) /\ o[i] = data.sent[i] /\ o[j] = data.sent[j]
      BY <3>1, PrefixOf, Zenon
    <3>3. \A a, b \in 1..Len(o) : a < b /\ Prio[o[a]] = Prio[o[b]] => o[a] < o[b]
      BY Zenon DEF InOrder, Ordered
    <3>. QED  BY <2>4, <3>2, <3>3, Zenon
  <2>. QED  BY <2>1, <2>2, <2>3, <2>4, Zenon DEF CreditsKept
<1>. QED  BY BusInvariant, <1>1, PTL

\* A thread that sleeps on a running bus leaves nothing behind, for any number of
\* packets and interrupts and any interleaving of the threads.
THEOREM NothingIsStranded == BusSpec => []NothingStranded
<1>1. BusIInv => NothingStranded
  <2>. SUFFICES ASSUME BusIInv, bus
                PROVE  /\ tx.pc = "idle" => data.aggr = <<>> /\ data.cnt = Queued(data.txq)
                       /\ rx.q # <<>> /\ rx.irq = "idle" /\ rx.pc = "idle" /\ ~rx.leak => rx.trgg
    BY Zenon DEF NothingStranded
  <2>. USE DEF BusIInv
  <2>1. ASSUME tx.pc = "idle" PROVE data.aggr = <<>> /\ data.cnt = Queued(data.txq)
    <3>1. Len(data.aggr) = 0 /\ data.cnt = Queued(data.txq) + One(tx.pc = "packed")
      BY <2>1, Zenon DEF Counted, TxBooks
    <3>2. One(tx.pc = "packed") = 0
      BY <2>1, Zenon DEF One
    <3>3. data.aggr = <<>>
      BY <3>1, Fields
    <3>. QED  BY <3>1, <3>2, <3>3, Fields
  <2>2. ASSUME rx.q # <<>>, rx.irq = "idle", rx.pc = "idle", ~rx.leak PROVE rx.trgg
    BY <2>2, RxFields, Zenon DEF Received, RxBooks
  <2>. QED  BY <2>1, <2>2, Zenon
<1>. QED  BY BusInvariant, <1>1, PTL

\* No command, and no packet of before the pass, is sent to a chip that sleeps.
THEOREM SentToAwakeChip == BusSpec => []SentAwake
<1>1. BusIInv => SentAwake
  BY Zenon DEF BusIInv, Awake, SentAwake
<1>. QED  BY BusInvariant, <1>1, PTL
=============================================================================
