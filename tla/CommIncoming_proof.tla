------------------------- MODULE CommIncoming_proof -------------------------
(***************************************************************************)
(* Proofs about CommIncoming for any number of slots, files, readers and   *)
(* calls: IInv is inductive, and the properties follow from it.  The types *)
(* of the variables of CommUserQueue come first, then those of the rest,   *)
(* then the slots, the one call under way, the work items and what the     *)
(* files have been sent; after the steps that deliver nothing come those   *)
(* that deliver a call or are user space's own, and the theorems.          *)
(***************************************************************************)
EXTENDS CommIncoming, FiniteSetTheorems, TLAPS

(***************************************************************************)
(* Sequences.                                                              *)
(***************************************************************************)
\* Only the empty sequence has length 0.
LEMMA EmptySeq == ASSUME NEW S, NEW s \in Seq(S) PROVE s = << >> <=> Len(s) = 0
  OBVIOUS

\* The domain and the entries of a sequence.
LEMMA SeqEntries ==
    ASSUME NEW S, NEW s \in Seq(S)
    PROVE  Len(s) \in Nat /\ DOMAIN s = 1 .. Len(s) /\ \A i \in 1 .. Len(s) : s[i] \in S
  OBVIOUS

\* The head and the rest.
LEMMA HeadAndTail ==
    ASSUME NEW S, NEW s \in Seq(S), s # << >>
    PROVE  /\ Head(s) \in S /\ Head(s) = s[1]
           /\ Tail(s) \in Seq(S) /\ Len(Tail(s)) = Len(s) - 1
           /\ \A i \in 1 .. Len(Tail(s)) : Tail(s)[i] = s[i + 1]
  OBVIOUS

\* One entry more at the end.
LEMMA OneAppended ==
    ASSUME NEW S, NEW s \in Seq(S), NEW e \in S
    PROVE  /\ Append(s, e) \in Seq(S) /\ Len(Append(s, e)) = Len(s) + 1
           /\ \A i \in 1 .. Len(s) : Append(s, e)[i] = s[i]
           /\ Append(s, e)[Len(s) + 1] = e
  OBVIOUS

(***************************************************************************)
(* The part of CommUserQueue, under the steps that CommIncoming takes.     *)
(***************************************************************************)
UserInv == U!TypeOK /\ U!CountMatchesQueue
ReadSteps == {"idle", "polled", "try", "copy", "wait", "onqueue", "sleep"}

\* Adding a message to one context's list keeps the list and its count in step.
LEMMA PushedOne ==
    ASSUME NEW s \in Seq(Nat), NEW c \in Nat, c = Len(s), c <= QueueMax, NEW m \in Nat
    PROVE  LET t == Append(IF c >= QueueMax THEN Tail(s) ELSE s, m)
           IN  /\ t \in Seq(Nat)
               /\ Len(t) = IF c >= QueueMax THEN c ELSE c + 1
<1>. DEFINE r == IF c >= QueueMax THEN Tail(s) ELSE s
<1>1. r \in Seq(Nat) /\ Len(r) = IF c >= QueueMax THEN c - 1 ELSE c
  <2>1. CASE c >= QueueMax
    <3>1. s # << >>
      BY <2>1, EmptySeq, IncomingAssumption
    <3>. QED  BY <2>1, <3>1, HeadAndTail
  <2>2. CASE ~(c >= QueueMax)
    BY <2>2
  <2>. QED  BY <2>1, <2>2
<1>. HIDE DEF r
<1>2. Append(r, m) \in Seq(Nat) /\ Len(Append(r, m)) = Len(r) + 1
  BY <1>1, OneAppended
<1>3. Append(r, m) \in Seq(Nat) /\ Len(Append(r, m)) = IF c >= QueueMax THEN c ELSE c + 1
  BY <1>1, <1>2, IncomingAssumption
<1>. QED  BY <1>3 DEF r

\* Delivering a call to the open files keeps every list and count in step.
LEMMA DeliverUser ==
    ASSUME UserInv, NEW n \in Nat, NEW no \in SUBSET opened,
           U!cpu_comm_userspace_deliver(n, no), begun' = begun
    PROVE  UserInv' /\ opened' = opened
<1>1. /\ opened \subseteq Files /\ queue \in [Files -> Seq(Nat)]
      /\ queue_count \in [Files -> Nat] /\ dropped \in [Files -> Nat] /\ begun \in Nat
      /\ pc \in [Readers -> ReadSteps]
      /\ sentTo \in [Files -> Nat] /\ taken \in [Files -> Nat] /\ lastTaken \in [Files -> Nat]
  BY Zenon DEF UserInv, U!TypeOK, ReadSteps
<1>2. \A f \in Files : /\ U!Pushed(f, n) \in Seq(Nat)
                       /\ Len(U!Pushed(f, n)) = IF U!Full(f) THEN queue_count[f]
                                                ELSE queue_count[f] + 1
  <2>. SUFFICES ASSUME NEW f \in Files
                PROVE  /\ U!Pushed(f, n) \in Seq(Nat)
                       /\ Len(U!Pushed(f, n)) = IF U!Full(f) THEN queue_count[f]
                                                ELSE queue_count[f] + 1
    BY Zenon
  <2>1. /\ queue[f] \in Seq(Nat) /\ queue_count[f] \in Nat
        /\ queue_count[f] = Len(queue[f]) /\ queue_count[f] <= QueueMax
    BY <1>1, Zenon DEF UserInv, U!CountMatchesQueue
  <2>. QED  BY <2>1, PushedOne, Zenon DEF U!Pushed, U!Full
<1>3. /\ opened' = opened /\ taken' = taken /\ lastTaken' = lastTaken /\ pc' = pc
      /\ waking' \subseteq Files
  BY <1>1, Zenon DEF U!cpu_comm_userspace_deliver
<1>4. /\ \A f \in Files : queue'[f] = IF f \in opened \ no THEN U!Pushed(f, n) ELSE queue[f]
      /\ \A f \in Files : queue_count'[f] = IF f \in opened \ no /\ ~U!Full(f)
                                            THEN queue_count[f] + 1 ELSE queue_count[f]
  BY Zenon DEF U!cpu_comm_userspace_deliver
<1>5. \A i \in Nat : i + 1 \in Nat
  OBVIOUS
<1>6. U!TypeOK'
  <2>1. queue' \in [Files -> Seq(Nat)] /\ queue_count' \in [Files -> Nat]
    BY <1>1, <1>2, <1>5, Zenon DEF U!cpu_comm_userspace_deliver
  <2>2. dropped' \in [Files -> Nat] /\ sentTo' \in [Files -> Nat]
    BY <1>1, <1>5, Zenon DEF U!cpu_comm_userspace_deliver
  <2>. QED  BY <1>1, <1>3, <2>1, <2>2, Zenon DEF U!TypeOK, ReadSteps
<1>7. U!CountMatchesQueue'
  <2>. SUFFICES ASSUME NEW f \in Files
                PROVE  queue_count'[f] = Len(queue'[f]) /\ queue_count'[f] <= QueueMax
    BY Zenon DEF U!CountMatchesQueue
  <2>1. queue_count[f] = Len(queue[f]) /\ queue_count[f] <= QueueMax /\ queue_count[f] \in Nat
    BY <1>1, Zenon DEF UserInv, U!CountMatchesQueue
  <2>2. ~U!Full(f) => queue_count[f] + 1 <= QueueMax
    BY <2>1, IncomingAssumption DEF U!Full
  <2>. QED  BY <1>2, <1>4, <2>1, <2>2, Zenon
<1>. QED  BY <1>3, <1>6, <1>7, Zenon DEF UserInv

\* A context that is emptied, while the others stay as they are.
LEMMA EmptiedCount ==
    ASSUME UserInv, NEW f \in Files,
           queue' = [queue EXCEPT ![f] = << >>], queue_count' = [queue_count EXCEPT ![f] = 0]
    PROVE  /\ queue' \in [Files -> Seq(Nat)] /\ queue_count' \in [Files -> Nat]
           /\ U!CountMatchesQueue'
<1>1. << >> \in Seq(Nat) /\ 0 \in Nat /\ Len(<< >>) = 0 /\ 0 <= QueueMax
  BY IncomingAssumption
<1>2. queue \in [Files -> Seq(Nat)] /\ queue_count \in [Files -> Nat]
  BY Zenon DEF UserInv, U!TypeOK
<1>. QED  BY <1>1, <1>2, Zenon DEF UserInv, U!CountMatchesQueue

\* open() adds an empty context.
LEMMA OpenUser ==
    ASSUME UserInv, NEW f \in Files, U!cpu_comm_user_open(f)
    PROVE  UserInv' /\ opened' = opened \cup {f} /\ begun' = begun
<1>1. /\ queue' = [queue EXCEPT ![f] = << >>] /\ queue_count' = [queue_count EXCEPT ![f] = 0]
      /\ opened' = opened \cup {f} /\ UNCHANGED <<waking, pc, begun>>
  BY Zenon DEF U!cpu_comm_user_open
<1>2. /\ dropped' \in [Files -> Nat] /\ sentTo' \in [Files -> Nat] /\ taken' \in [Files -> Nat]
      /\ lastTaken' \in [Files -> Nat]
  <2>1. 0 \in Nat
    OBVIOUS
  <2>. QED  BY <2>1, Zenon DEF UserInv, U!TypeOK, U!cpu_comm_user_open
<1>3. /\ queue' \in [Files -> Seq(Nat)] /\ queue_count' \in [Files -> Nat]
      /\ U!CountMatchesQueue'
  BY <1>1, EmptiedCount, Zenon
<1>. QED  BY <1>1, <1>2, <1>3, Zenon DEF UserInv, U!TypeOK

\* release() empties the context, and opens nothing.
LEMMA ReleaseUser ==
    ASSUME UserInv, NEW f \in Files, U!cpu_comm_user_release(f)
    PROVE  UserInv' /\ opened' \subseteq opened /\ begun' = begun
<1>1. /\ queue' = [queue EXCEPT ![f] = << >>] /\ queue_count' = [queue_count EXCEPT ![f] = 0]
      /\ opened' \subseteq opened
      /\ UNCHANGED <<waking, dropped, begun, sentTo, taken, lastTaken>>
  BY Zenon DEF U!cpu_comm_user_release, U!ghosts
<1>2. pc' \in [Readers -> ReadSteps]
  BY Zenon DEF UserInv, U!TypeOK, U!cpu_comm_user_release, ReadSteps
<1>3. /\ queue' \in [Files -> Seq(Nat)] /\ queue_count' \in [Files -> Nat]
      /\ U!CountMatchesQueue'
  BY <1>1, EmptiedCount, Zenon
<1>. QED  BY <1>1, <1>2, <1>3, Zenon DEF UserInv, U!TypeOK, ReadSteps

\* The wake-up that ends a delivery.
LEMMA WakeUser ==
    ASSUME UserInv, NEW f \in Files, U!wake_up_interruptible(f)
    PROVE  UserInv' /\ opened' = opened /\ begun' = begun
<1>1. /\ UNCHANGED <<opened, queue, queue_count, dropped, begun, sentTo, taken, lastTaken>>
      /\ waking' \subseteq waking
  BY Zenon DEF U!wake_up_interruptible, U!ctxVars, U!ghosts
<1>2. pc' \in [Readers -> ReadSteps]
  BY Zenon DEF UserInv, U!TypeOK, U!wake_up_interruptible, ReadSteps
<1>. QED  BY <1>1, <1>2, Zenon DEF UserInv, U!TypeOK, U!CountMatchesQueue, ReadSteps

\* A step of a thread in read() or poll().
LEMMA ReaderUser ==
    ASSUME UserInv, NEW r \in Readers, U!Reader(r)
    PROVE  UserInv' /\ opened' = opened /\ begun' = begun
<1>. DEFINE f == File[r]
<1>0. f \in Files
  BY IncomingAssumption, Zenon
<1>1. /\ queue \in [Files -> Seq(Nat)] /\ queue_count \in [Files -> Nat]
      /\ pc \in [Readers -> ReadSteps]
      /\ taken \in [Files -> Nat] /\ lastTaken \in [Files -> Nat]
  BY Zenon DEF UserInv, U!TypeOK, ReadSteps
<1>2. CASE U!Take(r) /\ queue[f] # << >>
  <2>1. /\ queue[f] \in Seq(Nat) /\ Len(queue[f]) = queue_count[f]
        /\ queue_count[f] <= QueueMax /\ queue_count[f] \in Nat /\ taken[f] \in Nat
    BY <1>0, <1>1, Zenon DEF UserInv, U!CountMatchesQueue
  <2>2. /\ Head(queue[f]) \in Nat /\ Tail(queue[f]) \in Seq(Nat)
        /\ Len(Tail(queue[f])) = Len(queue[f]) - 1
    BY <1>2, <2>1, HeadAndTail, Zenon
  <2>3. Len(queue[f]) # 0
    BY <1>2, <2>1, EmptySeq, Zenon
  <2>4. /\ queue' = [queue EXCEPT ![f] = Tail(@)]
        /\ queue_count' = [queue_count EXCEPT ![f] = @ - 1]
        /\ taken' = [taken EXCEPT ![f] = @ + 1]
        /\ lastTaken' = [lastTaken EXCEPT ![f] = Head(queue[f])]
        /\ pc' = [pc EXCEPT ![r] = "copy"]
        /\ UNCHANGED <<opened, waking, dropped, begun, sentTo>>
    BY <1>2, Zenon DEF U!Take, U!Goto
  <2>. HIDE DEF f
  <2>5. /\ queue_count[f] - 1 \in Nat /\ queue_count[f] - 1 <= QueueMax
        /\ taken[f] + 1 \in Nat /\ Len(Tail(queue[f])) = queue_count[f] - 1
    <3>1. /\ \A c \in Nat : c # 0 /\ c <= QueueMax => c - 1 \in Nat /\ c - 1 <= QueueMax
          /\ \A k \in Nat : k + 1 \in Nat
      BY ONLY IncomingAssumption
    <3>. QED  BY <2>1, <2>2, <2>3, <3>1, Zenon
  <2>6. /\ queue' \in [Files -> Seq(Nat)] /\ queue_count' \in [Files -> Nat]
        /\ taken' \in [Files -> Nat] /\ lastTaken' \in [Files -> Nat]
    BY <1>0, <1>1, <2>2, <2>4, <2>5, Zenon
  <2>7. U!TypeOK'
    <3>1. pc' \in [Readers -> ReadSteps]
      BY <1>1, <2>4, Zenon DEF ReadSteps
    <3>. QED  BY <2>4, <2>6, <3>1, Zenon DEF UserInv, U!TypeOK, ReadSteps
  <2>8. U!CountMatchesQueue'
    BY <1>0, <1>1, <2>4, <2>5, Zenon DEF UserInv, U!CountMatchesQueue
  <2>. QED  BY <2>4, <2>7, <2>8, Zenon DEF UserInv
<1>3. CASE ~(U!Take(r) /\ queue[f] # << >>)
  <2>1. /\ \E s \in ReadSteps : pc' = [pc EXCEPT ![r] = s]
        /\ UNCHANGED <<opened, queue, queue_count, waking, dropped, begun, sentTo, taken, lastTaken>>
    BY <1>3, Zenon DEF U!Reader, U!Take, U!cpu_comm_user_poll, U!cpu_comm_user_read,
       U!PrepareToWait, U!WaitEvent, U!ReadReturns, U!Goto, U!ctxVars, U!ghosts, ReadSteps
  <2>2. pc' \in [Readers -> ReadSteps]
    BY <1>1, <2>1, Zenon
  <2>. QED  BY <2>1, <2>2, Zenon DEF UserInv, U!TypeOK, U!CountMatchesQueue, ReadSteps
<1>. QED  BY <1>2, <1>3

\* A step that leaves user space alone.
LEMMA UserSame ==
    ASSUME UserInv, begun' = begun,
           UNCHANGED <<opened, queue, queue_count, dropped, waking, pc, sentTo, taken, lastTaken>>
    PROVE  UserInv'
  BY Zenon DEF UserInv, U!TypeOK, U!CountMatchesQueue

-----------------------------------------------------------------------------
(***************************************************************************)
(* The types of the rest, with what they need: a work item's slot holds a  *)
(* call that was made.                                                     *)
(***************************************************************************)
Call == [kind : Kinds, notify : BOOLEAN]
Steps == {"none", "start", "release", "find", "respond", "done"}

SlotTypes == /\ freeCall \in Seq(Slots) /\ staged \in Seq(Slots) /\ lost \subseteq Slots
             /\ slotMsg \in [Slots -> 0 .. MaxCalls]
             /\ hdr \in Slots \cup {NoSlot} /\ rxSlot \in Slots \cup {NoSlot}
             /\ item \in [Ids -> Steps] /\ copy \in [Ids -> 0 .. MaxCalls]
             /\ at \in [Ids -> Slots \cup {NoSlot}]
FlagTypes == /\ sent \in BOOLEAN /\ irq \in BOOLEAN /\ callWork \in BOOLEAN
             /\ ackSent \in BOOLEAN /\ waiting \in BOOLEAN /\ rx \in {"idle", "hand", "ack"}
CallTypes == begun \in 0 .. MaxCalls /\ calls \in Seq(Call) /\ Len(calls) = begun
SeenTypes == case \in Cases /\ times \in [Files -> [Ids -> Nat]]

\* The types in groups, so that a step cites those it needs.
LEMMA Types ==
    (TypeOK /\ begun <= MaxCalls) <=>
        (U!TypeOK /\ SlotTypes /\ FlagTypes /\ CallTypes /\ SeenTypes)
<1>1. U!TypeOK => begun \in Nat
  BY Zenon DEF U!TypeOK
<1>2. {sent, irq, callWork, ackSent, waiting} \subseteq BOOLEAN
        <=> /\ sent \in BOOLEAN /\ irq \in BOOLEAN /\ callWork \in BOOLEAN
            /\ ackSent \in BOOLEAN /\ waiting \in BOOLEAN
  BY Zenon
<1>3. begun \in Nat => (begun <= MaxCalls <=> begun \in 0 .. MaxCalls)
  BY IncomingAssumption
<1>. QED  BY <1>1, <1>2, <1>3, Zenon DEF TypeOK, SlotTypes, FlagTypes, CallTypes, SeenTypes, Call, Steps

-----------------------------------------------------------------------------
(***************************************************************************)
(* Sequences without repetition, as sets.                                  *)
(***************************************************************************)
Entries(q) == {q[i] : i \in DOMAIN q}

\* A new entry is added to the set of entries.
LEMMA EntriesAppend ==
    ASSUME NEW S, NEW q \in Seq(S), NEW x \in S, Once(q), x \notin Entries(q)
    PROVE  /\ Append(q, x) \in Seq(S) /\ Once(Append(q, x))
           /\ Entries(Append(q, x)) = Entries(q) \cup {x}
<1>. DEFINE n == Len(q)
            a == Append(q, x)
<1>1. /\ a \in Seq(S) /\ DOMAIN a = 1 .. n + 1 /\ DOMAIN q = 1 .. n /\ n \in Nat
      /\ \A i \in 1 .. n : a[i] = q[i]
      /\ a[n + 1] = x
  BY OneAppended, SeqEntries
<1>. HIDE DEF n, a
<1>2. Entries(a) = Entries(q) \cup {x}
  <2>1. ASSUME NEW y \in Entries(a) PROVE y \in Entries(q) \cup {x}
    <3>1. PICK i \in 1 .. n + 1 : y = a[i]
      BY <1>1 DEF Entries
    <3>2. CASE i \in 1 .. n
      BY <1>1, <3>1, <3>2 DEF Entries
    <3>3. CASE i = n + 1
      BY <1>1, <3>1, <3>3
    <3>. QED  BY <1>1, <3>2, <3>3
  <2>2. ASSUME NEW y \in Entries(q) PROVE y \in Entries(a)
    <3>1. PICK i \in 1 .. n : y = q[i]
      BY <1>1 DEF Entries
    <3>2. i \in 1 .. n + 1 /\ y = a[i]
      BY <1>1, <3>1
    <3>. QED  BY <1>1, <3>2 DEF Entries
  <2>3. n + 1 \in 1 .. n + 1
    BY <1>1
  <2>4. x \in Entries(a)
    BY <1>1, <2>3 DEF Entries
  <2>. QED  BY <2>1, <2>2, <2>4
<1>3. \A i \in 1 .. n : q[i] # x
  BY <1>1 DEF Entries
<1>4. ASSUME NEW i \in 1 .. n + 1, NEW j \in 1 .. n + 1, a[i] = a[j]
      PROVE  i = j
  <2>1. CASE i \in 1 .. n /\ j \in 1 .. n
    BY <1>1, <1>4, <2>1 DEF Once
  <2>2. CASE i = n + 1 /\ j \in 1 .. n
    BY <1>1, <1>3, <1>4, <2>2
  <2>3. CASE i \in 1 .. n /\ j = n + 1
    BY <1>1, <1>3, <1>4, <2>3
  <2>. QED  BY <1>1, <2>1, <2>2, <2>3
<1>. QED  BY <1>1, <1>2, <1>4 DEF Once, a

\* Taking the head removes it from the set of entries.
LEMMA EntriesTail ==
    ASSUME NEW S, NEW q \in Seq(S), q # << >>, Once(q)
    PROVE  /\ Head(q) \in S /\ Head(q) \in Entries(q)
           /\ Tail(q) \in Seq(S) /\ Once(Tail(q))
           /\ Entries(Tail(q)) = Entries(q) \ {Head(q)}
<1>. DEFINE n == Len(q)
            t == Tail(q)
<1>1. /\ t \in Seq(S) /\ n \in Nat /\ n # 0 /\ DOMAIN q = 1 .. n /\ DOMAIN t = 1 .. n - 1
      /\ \A i \in 1 .. n - 1 : t[i] = q[i + 1]
      /\ Head(q) = q[1] /\ Head(q) \in S
  BY HeadAndTail, SeqEntries, EmptySeq
<1>. HIDE DEF n, t
<1>2. \A i, j \in 1 .. n : q[i] = q[j] => i = j
  BY <1>1, Zenon DEF Once
<1>3. Once(t)
  <2>1. ASSUME NEW i \in 1 .. n - 1, NEW j \in 1 .. n - 1, t[i] = t[j] PROVE i = j
    <3>1. i + 1 \in 1 .. n /\ j + 1 \in 1 .. n /\ q[i + 1] = q[j + 1]
      BY <1>1, <2>1
    <3>2. i + 1 = j + 1
      BY <1>2, <3>1
    <3>. QED  BY <3>2
  <2>. QED  BY <1>1, <2>1 DEF Once
<1>4. 1 \in 1 .. n
  BY <1>1
<1>5. ASSUME NEW y \in Entries(t) PROVE y \in Entries(q) \ {Head(q)}
  <2>1. PICK i \in 1 .. n - 1 : y = t[i]
    BY <1>1 DEF Entries
  <2>2. i + 1 \in 1 .. n /\ i + 1 # 1 /\ y = q[i + 1]
    BY <1>1, <2>1
  <2>. QED  BY <1>1, <1>2, <1>4, <2>2 DEF Entries
<1>6. ASSUME NEW y \in Entries(q) \ {Head(q)} PROVE y \in Entries(t)
  <2>1. PICK i \in 1 .. n : y = q[i]
    BY <1>1 DEF Entries
  <2>2. i # 1
    BY <1>1, <1>6, <2>1
  <2>3. i - 1 \in 1 .. n - 1 /\ y = t[i - 1]
    BY <1>1, <2>1, <2>2
  <2>. QED  BY <1>1, <2>3 DEF Entries
<1>7. Head(q) \in Entries(q)
  BY <1>1, <1>4 DEF Entries
<1>. QED  BY <1>1, <1>3, <1>5, <1>6, <1>7 DEF t

\* There is room in the staging FIFO for a slot that is not in it, and
\* InitCommShareSeqMem fills the pool with every slot, each once.
StageFits == \A q \in Seq(Slots), h \in Slots : Once(q) /\ h \notin Entries(q) => Len(q) < StageMax
PoolStartsFull == LET q == SetAsSeq(Slots)
                  IN  q \in Seq(Slots) /\ Once(q) /\ Entries(q) = Slots
-----------------------------------------------------------------------------
(***************************************************************************)
(* The slots: where they are before and after each step.                   *)
(***************************************************************************)
HeldOnce == \A m, n \in InUse : at[m] = at[n] => m = n

\* The places cover the slots, and no slot is at two of them.
Tiles(P, R, S, H, L) ==
    /\ P \cap (R \cup S \cup H \cup L) = {} /\ R \cap (S \cup H \cup L) = {}
    /\ S \cap (H \cup L) = {} /\ H \cap L = {}
    /\ P \cup R \cup S \cup H \cup L = Slots

\* A slot that moves from one place to another leaves the places tiled.
LEMMA Moves ==
    ASSUME NEW P, NEW R, NEW S, NEW H, NEW L, NEW x, Tiles(P, R, S, H, L)
    PROVE  /\ x \in P /\ R = {} => Tiles(P \ {x}, {x}, S, H, L)
           /\ R = {x} => /\ Tiles(P, {}, S \cup {x}, H, L)
                         /\ Tiles(P, {}, S, H \cup {x}, L)
                         /\ Tiles(P, {}, S, H, L \cup {x})
           /\ x \in H => Tiles(P \cup {x}, R, S, H \ {x}, L)
<1>1. x \in P /\ R = {} => Tiles(P \ {x}, {x}, S, H, L)
  BY DEF Tiles
<1>2. R = {x} => Tiles(P, {}, S \cup {x}, H, L)
  BY DEF Tiles
<1>3. R = {x} => Tiles(P, {}, S, H \cup {x}, L)
  BY DEF Tiles
<1>4. R = {x} => Tiles(P, {}, S, H, L \cup {x})
  BY DEF Tiles
<1>5. x \in H => Tiles(P \cup {x}, R, S, H \ {x}, L)
  BY DEF Tiles
<1>. QED  BY <1>1, <1>2, <1>3, <1>4, <1>5, Zenon

SlotInv == /\ Once(freeCall) /\ Once(staged) /\ HeldOnce
           /\ Tiles(Pool, Rung, Staged, Held, lost)

\* The conjuncts about the slots, in one.
LEMMA SlotInvDef == SlotInv <=> (SlotExclusive /\ Once(staged) /\ SlotsKept)
  BY Zenon DEF SlotInv, SlotExclusive, SlotsKept, HeldOnce, Tiles

\* IInv, in the parts the steps below take one by one.
Parts == /\ UserInv /\ SlotTypes /\ FlagTypes /\ CallTypes /\ SeenTypes
         /\ SlotInv /\ OneCall /\ WorkItems /\ Seen

\* The parts together are IInv.
LEMMA PartsAreIInv == Parts <=> IInv
  BY Types, SlotInvDef, Zenon DEF Parts, IInv, UserInv

\* The slot of the one call under way.
LEMMA RungIs ==
    ASSUME FlagTypes, OneCall
    PROVE  /\ irq \/ callWork => Rung = {hdr} /\ rx = "idle"
           /\ rx = "hand" => Rung = {rxSlot}
           /\ ~Pending => Rung = {}
<1>1. /\ irq \/ callWork => rx = "idle" /\ ((irq /\ sent) \/ callWork)
      /\ rx = "hand" => ~irq /\ ~callWork
  BY Zenon DEF FlagTypes, OneCall
<1>2. irq \/ callWork => Rung = {hdr}
  <2>1. {hdr} \cup {} = {hdr}
    BY Zenon
  <2>2. rx = "idle" => rx # "hand"
    BY Zenon
  <2>. QED  BY <1>1, <2>1, <2>2, Zenon DEF Rung
<1>3. rx = "hand" => Rung = {rxSlot}
  <2>1. {} \cup {rxSlot} = {rxSlot}
    BY Zenon
  <2>. QED  BY <1>1, <2>1, Zenon DEF Rung
<1>4. ~Pending => Rung = {}
  BY Zenon DEF Rung, Pending
<1>. QED  BY <1>1, <1>2, <1>3, <1>4, Zenon

\* The same after a step.
LEMMA RungIsNext ==
    ASSUME FlagTypes', OneCall'
    PROVE  /\ irq' \/ callWork' => Rung' = {hdr'} /\ rx' = "idle"
           /\ rx' = "hand" => Rung' = {rxSlot'}
           /\ ~Pending' => Rung' = {}
<1>1. /\ irq' \/ callWork' => rx' = "idle" /\ ((irq' /\ sent') \/ callWork')
      /\ rx' = "hand" => ~irq' /\ ~callWork'
  BY Zenon DEF FlagTypes, OneCall
<1>2. irq' \/ callWork' => Rung' = {hdr'}
  <2>1. {hdr'} \cup {} = {hdr'}
    BY Zenon
  <2>2. rx' = "idle" => rx' # "hand"
    BY Zenon
  <2>. QED  BY <1>1, <2>1, <2>2, Zenon DEF Rung
<1>3. rx' = "hand" => Rung' = {rxSlot'}
  <2>1. {} \cup {rxSlot'} = {rxSlot'}
    BY Zenon
  <2>. QED  BY <1>1, <2>1, Zenon DEF Rung
<1>4. ~Pending' => Rung' = {}
  BY Zenon DEF Rung, Pending
<1>. QED  BY <1>1, <1>2, <1>3, <1>4, Zenon

\* A step that leaves the FIFOs, the call under way and the slots of the work
\* items alone.
LEMMA SlotsSame ==
    ASSUME SlotInv, UNCHANGED <<freeCall, staged, at, lost>>, InUse' = InUse, Rung' = Rung
    PROVE  SlotInv'
<1>1. Pool' = Pool /\ Staged' = Staged /\ Held' = Held
  BY Zenon DEF Pool, Staged, Held
<1>. QED  BY <1>1, Zenon DEF SlotInv, HeldOnce

-----------------------------------------------------------------------------
(***************************************************************************)
(* What the steps leave alone.                                             *)
(***************************************************************************)
\* A step that leaves the call under way alone.
Still == UNCHANGED <<begun, calls, slotMsg, waiting, hdr, sent, irq, callWork, rx, rxSlot, ackSent, case>>

\* The call under way has no work item yet.
LEMMA PendingCall ==
    ASSUME Parts, Pending
    PROVE  begun \in Ids /\ item[begun] = "none"
<1>1. begun \in 0 .. MaxCalls /\ begun > 0 /\ item[begun] = "none"
  BY Zenon DEF Parts, CallTypes, OneCall
<1>. QED  BY <1>1, IncomingAssumption DEF Ids

\* After such a step the call under way is what it was.
LEMMA StillSame ==
    ASSUME CallTypes, FlagTypes, OneCall, Still, Pending => item'[begun] = "none"
    PROVE  CallTypes' /\ FlagTypes' /\ OneCall' /\ Rung' = Rung
<1>1. CallTypes' /\ FlagTypes'
  BY Zenon DEF Still, CallTypes, FlagTypes
<1>2. OneCall'
  BY ZenonT(30) DEF Still, OneCall, Pending
<1>3. Rung' = Rung
  BY Zenon DEF Still, Rung
<1>. QED  BY <1>1, <1>2, <1>3, Zenon

\* A count stays right when the call does not move past its work item's lookup.
LEMMA SeenSame ==
    ASSUME NEW f, NEW m, SeenBy(f, m), begun' = begun, irq' \/ callWork' => irq \/ callWork,
           times'[f][m] = times[f][m],
           item'[m] \in {"none", "start", "release", "find"}
               => item[m] \in {"none", "start", "release", "find"}
    PROVE  SeenBy(f, m)'
  BY Zenon DEF SeenBy

\* A work item that does not change, on slots that do not change.
LEMMA WorkSame ==
    ASSUME NEW m, WorkItem(m), UNCHANGED <<begun, calls, slotMsg>>,
           item'[m] = item[m], at'[m] = at[m], copy'[m] = copy[m]
    PROVE  WorkItem(m)'
  BY Zenon DEF WorkItem

\* A file's counts are numbers.
LEMMA SeenNats ==
    ASSUME Parts, NEW f \in opened, NEW n \in Ids
    PROVE  f \in Files /\ times[f][n] \in Nat /\ SeenBy(f, n)
BY Zenon DEF Parts, UserInv, U!TypeOK, SeenTypes, Seen

-----------------------------------------------------------------------------
(***************************************************************************)
(* The steps that deliver nothing.                                         *)
(***************************************************************************)
\* Init: the pool is full and nothing is under way.
LEMMA InitParts == ASSUME PoolStartsFull, Init PROVE Parts
<1>1. freeCall \in Seq(Slots) /\ Once(freeCall) /\ Entries(freeCall) = Slots
  BY Zenon DEF Init, PoolStartsFull
<1>2. UserInv
  <2>1. 0 \in Nat /\ << >> \in Seq(Nat) /\ Len(<< >>) = 0 /\ 0 <= QueueMax
    BY IncomingAssumption
  <2>. QED  BY <2>1, Zenon DEF Init, U!Init, UserInv, U!TypeOK, U!CountMatchesQueue
<1>3. SlotTypes /\ FlagTypes /\ SeenTypes
  <2>1. 0 \in 0 .. MaxCalls /\ 0 \in Nat /\ << >> \in Seq(Slots)
    BY IncomingAssumption
  <2>2. SlotTypes
    BY <1>1, <2>1, Zenon DEF Init, SlotTypes, Steps
  <2>. QED  BY <2>1, <2>2, Zenon DEF Init, FlagTypes, SeenTypes
<1>4. CallTypes
  BY IncomingAssumption DEF Init, U!Init, CallTypes
<1>5. SlotInv
  <2>1. InUse = {} /\ Rung = {} /\ lost = {}
    BY Zenon DEF Init, InUse, Rung
  <2>2. DOMAIN staged = {}
    BY DEF Init
  <2>3. Held = {} /\ HeldOnce /\ Staged = {} /\ Once(staged)
    BY <2>1, <2>2, Zenon DEF Held, HeldOnce, Staged, Once
  <2>4. Pool = Slots
    BY <1>1, Zenon DEF Pool, Entries
  <2>5. Tiles(Slots, {}, {}, {}, {})
    BY Zenon DEF Tiles
  <2>. QED  BY <1>1, <2>1, <2>3, <2>4, <2>5, Zenon DEF SlotInv
<1>6. OneCall
  BY Zenon DEF Init, OneCall, Pending
<1>7. WorkItems /\ Seen
  BY Zenon DEF Init, U!Init, WorkItems, WorkItem, Seen
<1>. QED  BY <1>2, <1>3, <1>4, <1>5, <1>6, <1>7, Zenon DEF Parts

\* The MIPS makes a call: the head of the pool becomes the slot that is rung.
LEMMA MipsCallParts ==
    ASSUME Parts, NEW k \in Kinds, NEW b \in BOOLEAN, MipsCall(k, b)
    PROVE  Parts'
<1>. DEFINE h == Head(freeCall)
<1>1. /\ ~waiting /\ freeCall # << >> /\ begun < case.calls /\ begun' = begun + 1
      /\ calls' = Append(calls, [kind |-> k, notify |-> b])
      /\ slotMsg' = [slotMsg EXCEPT ![h] = begun + 1]
      /\ hdr' = h /\ freeCall' = Tail(freeCall)
      /\ sent' = TRUE /\ irq' = TRUE /\ waiting' = TRUE
      /\ UNCHANGED <<callWork, rx, rxSlot, ackSent, staged, item, copy, at, lost, times, case>>
      /\ UNCHANGED <<opened, queue, queue_count, dropped, waking, pc, sentTo, taken, lastTaken>>
  BY Zenon DEF MipsCall, userVars, handVars
<1>2. /\ Once(freeCall') /\ freeCall' \in Seq(Slots) /\ h \in Slots /\ h \in Pool
      /\ Pool' = Pool \ {h}
  <2>1. /\ h \in Slots /\ h \in Entries(freeCall)
        /\ Tail(freeCall) \in Seq(Slots) /\ Once(Tail(freeCall))
        /\ Entries(Tail(freeCall)) = Entries(freeCall) \ {h}
    BY <1>1, EntriesTail, Zenon DEF Parts, SlotTypes, SlotInv
  <2>2. Entries(freeCall) = Pool /\ Entries(freeCall') = Pool'
    BY Zenon DEF Entries, Pool
  <2>. QED  BY <1>1, <2>1, <2>2, Zenon
<1>. HIDE DEF h
<1>3. begun \in Nat /\ begun + 1 \in 0 .. MaxCalls /\ begun + 1 \in Ids /\ begun + 1 > 0 /\ begun + 1 \in Nat
  <2>1. begun \in 0 .. MaxCalls /\ case \in Cases /\ begun < case.calls
    BY <1>1, Zenon DEF Parts, CallTypes, SeenTypes
  <2>2. case.calls \in 0 .. MaxCalls
    BY <2>1, IncomingAssumption, Zenon
  <2>. QED  BY <2>1, <2>2, IncomingAssumption DEF Ids
<1>4. UserInv'
  BY <1>1, <1>3, Zenon DEF Parts, UserInv, U!TypeOK, U!CountMatchesQueue
<1>5. SlotTypes' /\ FlagTypes' /\ SeenTypes'
  BY <1>1, <1>2, <1>3, Zenon DEF Parts, SlotTypes, FlagTypes, SeenTypes
<1>6. CallTypes' /\ \A n \in 1 .. begun : calls'[n] = calls[n]
  <2>1. [kind |-> k, notify |-> b] \in Call /\ calls \in Seq(Call) /\ Len(calls) = begun
    BY Zenon DEF Parts, CallTypes, Call
  <2>2. /\ calls' \in Seq(Call) /\ Len(calls') = begun + 1
        /\ \A n \in 1 .. begun : calls'[n] = calls[n]
    <3>1. PICK c \in Call : calls' = Append(calls, c)
      BY <1>1, <2>1, Zenon
    <3>2. /\ Append(calls, c) \in Seq(Call) /\ Len(Append(calls, c)) = Len(calls) + 1
          /\ \A i \in 1 .. Len(calls) : Append(calls, c)[i] = calls[i]
      BY <2>1, OneAppended
    <3>. QED  BY <2>1, <3>1, <3>2, Zenon
  <2>. QED  BY <1>1, <1>3, <2>2, Zenon DEF CallTypes
<1>7. ~irq /\ ~callWork /\ ~ackSent /\ rx = "idle" /\ ~Pending
  BY <1>1, Zenon DEF Parts, OneCall, FlagTypes, Pending
<1>8. item[begun + 1] = "none"
  <2>1. WorkItem(begun + 1)
    BY <1>3, Zenon DEF Parts, WorkItems
  <2>2. ~(begun + 1 <= begun)
    BY ONLY <1>3
  <2>. QED  BY <2>1, <2>2, Zenon DEF WorkItem
<1>9. OneCall'
  <2>1. slotMsg'[hdr'] = begun' /\ begun' > 0 /\ hdr' \in Slots
    BY <1>1, <1>2, <1>3, Zenon DEF Parts, SlotTypes
  <2>2. rx' = "idle" /\ rx' # "hand" /\ item'[begun'] = "none"
    BY <1>1, <1>7, <1>8, Zenon
  <2>. QED  BY <1>1, <1>7, <2>1, <2>2, Zenon DEF OneCall, Pending
<1>10. SlotInv'
  <2>1. Rung = {} /\ Rung' = {h}
    BY <1>1, <1>5, <1>7, <1>9, RungIs, RungIsNext, Zenon DEF Parts
  <2>2. Staged' = Staged /\ Held' = Held /\ HeldOnce' /\ Once(staged')
    BY <1>1, Zenon DEF Parts, Staged, Held, InUse, HeldOnce, SlotInv
  <2>3. Tiles(Pool \ {h}, {h}, Staged, Held, lost)
    BY <1>2, <2>1, Moves, Zenon DEF Parts, SlotInv
  <2>. QED  BY <1>1, <1>2, <2>1, <2>2, <2>3, Zenon DEF SlotInv
<1>11. WorkItems'
  <2>. SUFFICES ASSUME NEW n \in Ids PROVE WorkItem(n)'
    BY Zenon DEF WorkItems
  <2>1. WorkItem(n)
    BY Zenon DEF Parts, WorkItems
  <2>2. item[n] # "none" => n <= begun + 1 /\ calls'[n].kind = "work"
    <3>. HAVE item[n] # "none"
    <3>1. n <= begun /\ calls[n].kind = "work"
      BY <2>1, Zenon DEF WorkItem
    <3>2. n \in 1 .. begun /\ n <= begun + 1
      BY <1>3, <3>1 DEF Ids
    <3>. QED  BY <1>6, <3>1, <3>2, Zenon
  <2>3. item[n] \in {"start", "release"} => at[n] \in Slots /\ slotMsg'[at[n]] = n
    <3>. HAVE item[n] \in {"start", "release"}
    <3>1. at[n] \in Held /\ at[n] \in Slots /\ slotMsg[at[n]] = n
      BY <2>1, Zenon DEF Held, InUse, WorkItem
    <3>2. at[n] # h
      BY <1>2, <3>1, Zenon DEF Parts, SlotInv, Tiles
    <3>. QED  BY <1>1, <3>1, <3>2, Zenon DEF Parts, SlotTypes
  <2>. QED  BY <1>1, <2>1, <2>2, <2>3, Zenon DEF WorkItem
<1>12. Seen'
  <2>. SUFFICES ASSUME NEW f \in opened, NEW n \in Ids PROVE SeenBy(f, n)'
    BY <1>1, Zenon DEF Seen
  <2>1. SeenBy(f, n) /\ n \in Nat
    BY SeenNats DEF Ids
  <2>2. n > begun + 1 \/ n = begun + 1 => n > begun
    BY ONLY <1>3, <2>1
  <2>. QED  BY <1>1, <2>1, <2>2, Zenon DEF SeenBy
<1>. QED  BY <1>4, <1>5, <1>6, <1>9, <1>10, <1>11, <1>12, Zenon DEF Parts

\* The MIPS takes its CALL_ACK, the interrupt hands the call to the work, or the
\* CALL_ACK is sent.
LEMMA AckedParts ==
    ASSUME Parts, MipsAcked \/ cpu_comm_handle_CPU2_call \/ SendAckLow
    PROVE  Parts'
<1>1. /\ UNCHANGED <<begun, calls, freeCall, slotMsg, rxSlot, staged, item, copy, at, lost, times, case>>
      /\ UNCHANGED <<opened, queue, queue_count, dropped, waking, pc, sentTo, taken, lastTaken>>
      /\ hdr' = hdr \/ hdr' = NoSlot
  BY Zenon DEF MipsAcked, cpu_comm_handle_CPU2_call, SendAckLow, userVars, mipsVars, handVars
<1>2. FlagTypes' /\ OneCall' /\ Rung' = Rung /\ (irq' \/ callWork' => irq \/ callWork)
  <2>1. CASE MipsAcked
    <3>1. /\ ackSent /\ ackSent' = FALSE /\ waiting' = FALSE
          /\ UNCHANGED <<sent, irq, callWork, rx, hdr>>
      BY <2>1, Zenon DEF MipsAcked
    <3>2. irq = FALSE /\ callWork = FALSE /\ rx = "idle" /\ sent = FALSE
      BY <3>1, Zenon DEF Parts, OneCall, FlagTypes
    <3>. QED  BY <1>1, <3>1, <3>2, Zenon DEF Parts, FlagTypes, OneCall, Pending, Rung
  <2>2. CASE cpu_comm_handle_CPU2_call
    <3>1. /\ irq = TRUE /\ irq' = FALSE /\ sent' = FALSE /\ UNCHANGED <<ackSent, waiting, rx, hdr>>
          /\ sent = TRUE /\ callWork' = TRUE
      BY <2>2, Zenon DEF cpu_comm_handle_CPU2_call, mipsVars, Parts, FlagTypes, OneCall
    <3>2. /\ callWork = FALSE /\ ackSent = FALSE /\ waiting = TRUE /\ rx = "idle"
          /\ begun > 0 /\ item[begun] = "none" /\ hdr \in Slots /\ slotMsg[hdr] = begun
      BY <3>1, Zenon DEF Parts, FlagTypes, OneCall, Pending
    <3>. QED  BY <1>1, <3>1, <3>2, Zenon DEF FlagTypes, OneCall, Pending, Rung
  <2>3. CASE SendAckLow
    <3>1. /\ rx = "ack" /\ rx' = "idle" /\ ackSent' = TRUE
          /\ UNCHANGED <<sent, irq, callWork, waiting>>
      BY <2>3, Zenon DEF SendAckLow, mipsVars
    <3>2. irq = FALSE /\ callWork = FALSE /\ sent = FALSE /\ waiting = TRUE
      BY <3>1, Zenon DEF Parts, OneCall, FlagTypes
    <3>. QED  BY <1>1, <3>1, <3>2, Zenon DEF Parts, FlagTypes, OneCall, Pending, Rung
  <2>. QED  BY <2>1, <2>2, <2>3, Zenon
<1>3. SlotInv'
  <2>1. InUse' = InUse
    BY <1>1, Zenon DEF InUse
  <2>. QED  BY <1>1, <1>2, <2>1, SlotsSame, Zenon DEF Parts
<1>4. UserInv' /\ SlotTypes' /\ CallTypes' /\ SeenTypes'
  <2>1. UserInv'
    BY <1>1, UserSame, Zenon DEF Parts
  <2>. QED  BY <1>1, <2>1, Zenon DEF Parts, SlotTypes, CallTypes, SeenTypes
<1>5. WorkItems'
  BY <1>1, WorkSame, Zenon DEF Parts, WorkItems
<1>6. Seen'
  BY <1>1, <1>2, SeenSame, Zenon DEF Parts, Seen
<1>. QED  BY <1>2, <1>3, <1>4, <1>5, <1>6, Zenon DEF Parts

\* The call's message is copied, or the response is sent: nothing is delivered
\* and no slot moves.
LEMMA CopyParts ==
    ASSUME Parts, NEW n \in Ids, CopyMsg(n) \/ Respond(n)
    PROVE  Parts'
<1>1. /\ Still /\ UNCHANGED <<freeCall, staged, at, lost, times>>
      /\ UNCHANGED <<opened, queue, queue_count, dropped, waking, pc, sentTo, taken, lastTaken>>
  BY Zenon DEF CopyMsg, Respond, Still, userVars, mipsVars, rxVars
<1>2. /\ item \in [Ids -> Steps] /\ copy \in [Ids -> 0 .. MaxCalls]
      /\ slotMsg \in [Slots -> 0 .. MaxCalls] /\ WorkItem(n)
  BY Zenon DEF Parts, SlotTypes, WorkItems
<1>3. \/ /\ item[n] = "start" /\ item' = [item EXCEPT ![n] = "release"]
         /\ copy' = [copy EXCEPT ![n] = slotMsg[at[n]]] /\ slotMsg[at[n]] \in 0 .. MaxCalls
      \/ item[n] = "respond" /\ item' = [item EXCEPT ![n] = "done"] /\ copy' = copy
  BY <1>2, Zenon DEF CopyMsg, Respond, WorkItem
<1>4. item' \in [Ids -> Steps] /\ copy' \in [Ids -> 0 .. MaxCalls]
  <2>1. "release" \in Steps /\ "done" \in Steps
    BY Zenon DEF Steps
  <2>. QED  BY <1>2, <1>3, <2>1, Zenon
<1>5. /\ \/ item[n] = "start" /\ item'[n] = "release" /\ copy'[n] = slotMsg[at[n]]
         \/ item[n] = "respond" /\ item'[n] = "done" /\ copy'[n] = copy[n]
      /\ \A m \in Ids : m # n => item'[m] = item[m] /\ copy'[m] = copy[m]
  BY <1>2, <1>3, Zenon
<1>6. CallTypes' /\ FlagTypes' /\ OneCall' /\ Rung' = Rung
  <2>1. Pending => begun \in Ids /\ begun # n
    BY <1>5, PendingCall, Zenon
  <2>2. Pending => item'[begun] = "none"
    BY <1>5, <2>1, PendingCall, Zenon
  <2>. QED  BY <1>1, <2>2, StillSame, Zenon DEF Parts
<1>7. UserInv' /\ SlotTypes' /\ SeenTypes'
  <2>1. UserInv'
    BY <1>1, UserSame, Zenon DEF Parts, Still
  <2>. QED  BY <1>1, <1>4, <2>1, Zenon DEF Parts, SlotTypes, SeenTypes, Still
<1>8. SlotInv'
  <2>1. InUse' = InUse
    BY <1>5, Zenon DEF InUse
  <2>. QED  BY <1>1, <1>6, <2>1, SlotsSame, Zenon DEF Parts
<1>9. WorkItems'
  <2>1. WorkItem(n)'
    <3>1. n <= begun /\ calls[n].kind = "work" /\ copy'[n] = n
      BY <1>2, <1>5, Zenon DEF WorkItem
    <3>2. item'[n] = "release" => at[n] \in Slots /\ slotMsg[at[n]] = n
      BY <1>2, <1>5, Zenon DEF WorkItem
    <3>3. item'[n] = "release" \/ item'[n] = "done"
      BY <1>5, Zenon
    <3>. QED  BY <1>1, <3>1, <3>2, <3>3, Zenon DEF WorkItem, Still
  <2>2. ASSUME NEW m \in Ids, m # n PROVE WorkItem(m)'
    BY <1>1, <1>5, <2>2, WorkSame, Zenon DEF Parts, WorkItems, Still
  <2>. QED  BY <2>1, <2>2, Zenon DEF WorkItems
<1>10. Seen'
  <2>1. ASSUME NEW f \in opened, NEW m \in Ids PROVE SeenBy(f, m)'
    <3>1. item'[m] \in {"none", "start", "release", "find"}
             => item[m] \in {"none", "start", "release", "find"}
      BY <1>5, Zenon
    <3>. QED  BY <1>1, <3>1, SeenNats, SeenSame, Zenon DEF Still
  <2>. QED  BY <1>1, <2>1, Zenon DEF Seen
<1>. QED  BY <1>6, <1>7, <1>8, <1>9, <1>10, Zenon DEF Parts

\* The work item gives its slot back to the pool: its copy stays.
LEMMA ReleaseParts ==
    ASSUME Parts, NEW n \in Ids, Comm_ReleaseFreeCall(n)
    PROVE  Parts'
<1>1. /\ Still /\ UNCHANGED <<staged, copy, at, lost, times>>
      /\ UNCHANGED <<opened, queue, queue_count, dropped, waking, pc, sentTo, taken, lastTaken>>
      /\ item[n] = "release" /\ item' = [item EXCEPT ![n] = "find"]
      /\ freeCall' = Append(freeCall, at[n])
  BY Zenon DEF Comm_ReleaseFreeCall, Still, userVars, rxVars
<1>2. item \in [Ids -> Steps] /\ WorkItem(n) /\ "find" \in Steps
  BY Zenon DEF Parts, SlotTypes, WorkItems, Steps
<1>3. /\ item' \in [Ids -> Steps] /\ item'[n] = "find"
      /\ \A m \in Ids : m # n => item'[m] = item[m]
  BY <1>1, <1>2, Zenon
<1>4. CallTypes' /\ FlagTypes' /\ OneCall' /\ Rung' = Rung
  <2>1. Pending => begun \in Ids /\ begun # n
    BY <1>1, PendingCall, Zenon
  <2>2. Pending => item'[begun] = "none"
    BY <1>3, <2>1, PendingCall, Zenon
  <2>. QED  BY <1>1, <2>2, StillSame, Zenon DEF Parts
<1>5. SlotInv' /\ freeCall' \in Seq(Slots)
  <2>1. n \in InUse /\ InUse' = InUse \ {n}
    BY <1>1, <1>3, Zenon DEF InUse
  <2>2. at[n] \in Held /\ at[n] \in Slots /\ at[n] \notin Pool
    <3>1. at[n] \in Held /\ at[n] \in Slots
      BY <1>1, <1>2, <2>1, Zenon DEF Held, WorkItem
    <3>. QED  BY <3>1, Zenon DEF Parts, SlotInv, Tiles
  <2>3. Held' = Held \ {at[n]} /\ HeldOnce'
    <3>1. \A m \in InUse : m # n => at[m] # at[n]
      BY <2>1, Zenon DEF Parts, SlotInv, HeldOnce
    <3>. QED  BY <1>1, <2>1, <3>1, Zenon DEF Parts, SlotInv, Held, HeldOnce
  <2>4. Once(freeCall') /\ freeCall' \in Seq(Slots) /\ Pool' = Pool \cup {at[n]}
    <3>1. Entries(freeCall) = Pool /\ Entries(freeCall') = Pool'
      BY Zenon DEF Entries, Pool
    <3>2. freeCall \in Seq(Slots) /\ Once(freeCall)
      BY Zenon DEF Parts, SlotTypes, SlotInv
    <3>3. /\ Append(freeCall, at[n]) \in Seq(Slots) /\ Once(Append(freeCall, at[n]))
          /\ Entries(Append(freeCall, at[n])) = Entries(freeCall) \cup {at[n]}
      BY <2>2, <3>1, <3>2, EntriesAppend
    <3>. QED  BY <1>1, <3>1, <3>3, Zenon
  <2>5. Staged' = Staged /\ Once(staged')
    BY <1>1, Zenon DEF Parts, Staged, SlotInv
  <2>6. Tiles(Pool \cup {at[n]}, Rung, Staged, Held \ {at[n]}, lost)
    BY <2>2, Moves, Zenon DEF Parts, SlotInv
  <2>. QED  BY <1>1, <1>4, <2>3, <2>4, <2>5, <2>6, Zenon DEF SlotInv
<1>6. UserInv' /\ SlotTypes' /\ SeenTypes'
  <2>1. UserInv'
    BY <1>1, UserSame, Zenon DEF Parts, Still
  <2>. QED  BY <1>1, <1>3, <1>5, <2>1, Zenon DEF Parts, SlotTypes, SeenTypes, Still
<1>7. WorkItems'
  <2>1. WorkItem(n)'
    <3>1. n <= begun /\ calls[n].kind = "work" /\ copy[n] = n
      BY <1>1, <1>2, Zenon DEF WorkItem
    <3>. QED  BY <1>1, <1>3, <3>1, Zenon DEF WorkItem, Still
  <2>2. ASSUME NEW m \in Ids, m # n PROVE WorkItem(m)'
    BY <1>1, <1>3, <2>2, WorkSame, Zenon DEF Parts, WorkItems, Still
  <2>. QED  BY <2>1, <2>2, Zenon DEF WorkItems
<1>8. Seen'
  <2>1. ASSUME NEW f \in opened, NEW m \in Ids PROVE SeenBy(f, m)'
    <3>1. item'[m] \in {"none", "start", "release", "find"}
             => item[m] \in {"none", "start", "release", "find"}
      BY <1>1, <1>3, Zenon
    <3>. QED  BY <1>1, <3>1, SeenNats, SeenSame, Zenon DEF Still
  <2>. QED  BY <1>1, <2>1, Zenon DEF Seen
<1>. QED  BY <1>4, <1>5, <1>6, <1>7, <1>8, Zenon DEF Parts

\* The slot under way goes to the staging FIFO, which has room, to a work item or,
\* without memory, nowhere.
LEMMA HandParts == ASSUME StageFits, Parts, HandOn PROVE Parts'
<1>1. /\ rx = "hand" /\ rx' = "ack"
      /\ IF calls[slotMsg[rxSlot]].kind = "staged" THEN Comm_Add2NewCallFifo(rxSlot)
                                                   ELSE Comm_Add2Call2WQ(rxSlot)
      /\ UNCHANGED <<begun, calls, freeCall, slotMsg, waiting, hdr, sent, irq, callWork, rxSlot, ackSent>>
      /\ UNCHANGED <<opened, queue, queue_count, dropped, waking, pc, sentTo, taken, lastTaken>>
      /\ UNCHANGED <<times, case>>
  BY Zenon DEF HandOn, userVars, mipsVars
<1>2. /\ rxSlot \in Slots /\ slotMsg[rxSlot] = begun /\ begun \in Ids /\ item[begun] = "none"
      /\ irq = FALSE /\ callWork = FALSE /\ ackSent = FALSE /\ sent = FALSE /\ waiting = TRUE
  <2>1. Pending
    BY <1>1, Zenon DEF Pending
  <2>. QED  BY <1>1, <2>1, PendingCall, Zenon DEF Parts, OneCall, FlagTypes
<1>3. FlagTypes' /\ OneCall' /\ CallTypes' /\ SeenTypes'
  BY <1>1, <1>2, Zenon DEF Parts, FlagTypes, OneCall, Pending, CallTypes, SeenTypes
<1>4. UserInv'
  BY <1>1, UserSame, Zenon DEF Parts
<1>5. Rung = {rxSlot} /\ Rung' = {} /\ Pool' = Pool /\ Once(freeCall')
  <2>1. ~Pending'
    BY <1>1, <1>2, Zenon DEF Pending
  <2>2. Rung = {rxSlot} /\ Rung' = {}
    BY <1>1, <1>3, <2>1, RungIs, RungIsNext, Zenon DEF Parts
  <2>. QED  BY <1>1, <2>2, Zenon DEF Parts, Pool, SlotInv
<1>6. /\ item \in [Ids -> Steps] /\ at \in [Ids -> Slots \cup {NoSlot}] /\ staged \in Seq(Slots)
      /\ Once(staged) /\ HeldOnce /\ Tiles(Pool, Rung, Staged, Held, lost)
  BY Zenon DEF Parts, SlotTypes, SlotInv
<1>7. ASSUME UNCHANGED <<item, copy, at>>
      PROVE  Held' = Held /\ HeldOnce' /\ WorkItems' /\ Seen'
  <2>1. InUse' = InUse
    BY <1>7, Zenon DEF InUse
  <2>2. Held' = Held /\ HeldOnce'
    BY <1>6, <1>7, <2>1, Zenon DEF Held, HeldOnce
  <2>3. WorkItems'
    BY <1>1, <1>7, WorkSame, Zenon DEF Parts, WorkItems
  <2>4. Seen'
    BY <1>1, <1>7, SeenSame, Zenon DEF Parts, Seen
  <2>. QED  BY <2>2, <2>3, <2>4, Zenon
<1>8. CASE Comm_Add2NewCallFifo(rxSlot)
  <2>1. Entries(staged) = Staged /\ Entries(staged') = Staged'
    BY Zenon DEF Entries, Staged
  <2>2. rxSlot \notin Staged
    BY <1>5, <1>6, Zenon DEF Tiles
  <2>3. Len(staged) < StageMax
    BY <1>2, <1>6, <2>1, <2>2, Zenon DEF StageFits
  <2>4. staged' = Append(staged, rxSlot) /\ UNCHANGED <<item, copy, at, lost>>
    BY <1>8, <2>3, Zenon DEF Comm_Add2NewCallFifo
  <2>5. Once(staged') /\ staged' \in Seq(Slots) /\ Staged' = Staged \cup {rxSlot}
    <3>1. /\ Append(staged, rxSlot) \in Seq(Slots) /\ Once(Append(staged, rxSlot))
          /\ Entries(Append(staged, rxSlot)) = Entries(staged) \cup {rxSlot}
      BY <1>2, <1>6, <2>1, <2>2, EntriesAppend
    <3>. QED  BY <2>1, <2>4, <3>1, Zenon
  <2>6. Tiles(Pool, {}, Staged \cup {rxSlot}, Held, lost)
    BY <1>5, <1>6, Moves, Zenon
  <2>7. SlotInv'
    BY <1>5, <1>7, <2>4, <2>5, <2>6, Zenon DEF SlotInv
  <2>8. SlotTypes'
    BY <1>1, <2>4, <2>5, Zenon DEF Parts, SlotTypes
  <2>. QED  BY <1>3, <1>4, <1>7, <2>4, <2>7, <2>8, Zenon DEF Parts
<1>9. CASE Comm_Add2Call2WQ(rxSlot) /\ calls[begun].kind # "staged"
  <2>1. staged' = staged /\ Staged' = Staged /\ copy' = copy
    BY <1>9, Zenon DEF Comm_Add2Call2WQ, Staged
  <2>2. CASE item' = [item EXCEPT ![begun] = "start"] /\ at' = [at EXCEPT ![begun] = rxSlot] /\ lost' = lost
    <3>1. /\ item'[begun] = "start" /\ at'[begun] = rxSlot
          /\ \A n \in Ids : n # begun => item'[n] = item[n] /\ at'[n] = at[n]
      BY <1>2, <1>6, <2>2, Zenon
    <3>2. InUse' = InUse \cup {begun} /\ begun \notin InUse
      BY <1>2, <3>1, Zenon DEF InUse
    <3>3. \A n \in InUse : n \in Ids /\ n # begun /\ at'[n] = at[n]
      BY <3>1, <3>2, Zenon DEF InUse
    <3>4. Held' = Held \cup {rxSlot}
      BY <3>1, <3>2, <3>3, Zenon DEF Held
    <3>5. rxSlot \notin Held
      BY <1>5, <1>6, Zenon DEF Tiles
    <3>6. HeldOnce'
      <4>1. \A n \in InUse : at'[n] # at'[begun]
        BY <3>1, <3>3, <3>5, Zenon DEF Held
      <4>. QED  BY <1>6, <3>2, <3>3, <4>1, Zenon DEF HeldOnce
    <3>7. Tiles(Pool, {}, Staged, Held \cup {rxSlot}, lost)
      BY <1>5, <1>6, Moves, Zenon
    <3>8. SlotInv'
      BY <1>5, <1>6, <2>1, <2>2, <3>4, <3>6, <3>7, Zenon DEF SlotInv
    <3>9. SlotTypes'
      <4>1. "start" \in Steps /\ rxSlot \in Slots \cup {NoSlot}
        BY <1>2, Zenon DEF Steps
      <4>2. item' \in [Ids -> Steps] /\ at' \in [Ids -> Slots \cup {NoSlot}]
        BY <1>6, <2>2, <4>1, Zenon
      <4>. QED  BY <1>1, <2>1, <2>2, <4>2, Zenon DEF Parts, SlotTypes
    <3>10. WorkItems'
      <4>1. calls[begun].kind = "work"
        <5>1. begun \in 1 .. Len(calls) /\ calls \in Seq(Call)
          BY <1>2 DEF Parts, CallTypes, Ids
        <5>2. calls[begun] \in Call
          BY <5>1, SeqEntries, Zenon
        <5>. QED  BY <1>9, <5>2, IncomingAssumption, Zenon DEF Call
      <4>2. begun <= begun
        BY <1>2 DEF Ids
      <4>3. ASSUME NEW m \in Ids, m = begun PROVE WorkItem(m)'
        BY <1>1, <1>2, <3>1, <4>1, <4>2, <4>3, Zenon DEF WorkItem
      <4>4. ASSUME NEW m \in Ids, m # begun PROVE WorkItem(m)'
        BY <1>1, <2>1, <3>1, <4>4, WorkSame, Zenon DEF Parts, WorkItems
      <4>. QED  BY <4>3, <4>4, Zenon DEF WorkItems
    <3>11. Seen'
      <4>1. ASSUME NEW f \in opened, NEW m \in Ids PROVE SeenBy(f, m)'
        <5>1. item'[m] \in {"none", "start", "release", "find"}
                 => item[m] \in {"none", "start", "release", "find"}
          BY <1>2, <3>1, Zenon
        <5>. QED  BY <1>1, <5>1, SeenNats, SeenSame, Zenon
      <4>. QED  BY <1>1, <4>1, Zenon DEF Seen
    <3>. QED  BY <1>3, <1>4, <3>8, <3>9, <3>10, <3>11, Zenon DEF Parts
  <2>3. CASE lost' = lost \cup {rxSlot} /\ UNCHANGED <<item, at>>
    <3>1. Tiles(Pool, {}, Staged, Held, lost \cup {rxSlot})
      BY <1>5, <1>6, Moves, Zenon
    <3>2. SlotInv'
      BY <1>5, <1>6, <1>7, <2>1, <2>3, <3>1, Zenon DEF SlotInv
    <3>3. SlotTypes'
      BY <1>1, <1>2, <2>1, <2>3, Zenon DEF Parts, SlotTypes
    <3>. QED  BY <1>3, <1>4, <1>7, <2>1, <2>3, <3>2, <3>3, Zenon DEF Parts
  <2>. QED  BY <1>2, <1>9, <2>2, <2>3, Zenon DEF Comm_Add2Call2WQ
<1>. QED  BY <1>1, <1>2, <1>8, <1>9, Zenon

-----------------------------------------------------------------------------
(***************************************************************************)
(* The steps that deliver a call or are user space's own.                  *)
(***************************************************************************)
\* One delivery of call n: the count of it goes up by one for the files it reaches.
LEMMA DeliverCounts ==
    ASSUME Parts, NEW n \in Ids, DeliverCall(n), begun' = begun
    PROVE  /\ UserInv' /\ opened' = opened /\ times' \in [Files -> [Ids -> Nat]]
           /\ \A f \in opened : \A m \in Ids :
                  times'[f][m] = times[f][m] \/ (m = n /\ times'[f][m] = times[f][m] + 1)
<1>1. PICK no \in SUBSET opened :
        /\ U!cpu_comm_userspace_deliver(n, no)
        /\ times' = [f \in Files |-> IF f \in opened \ no THEN [times[f] EXCEPT ![n] = @ + 1]
                                     ELSE times[f]]
  BY Zenon DEF DeliverCall
<1>2. UserInv' /\ opened' = opened
  <2>1. n \in Nat
    BY DEF Ids
  <2>. QED  BY <1>1, <2>1, DeliverUser, Zenon DEF Parts
<1>3. times \in [Files -> [Ids -> Nat]] /\ opened \subseteq Files
  BY Zenon DEF Parts, SeenTypes, UserInv, U!TypeOK
<1>4. \A i \in Nat : i + 1 \in Nat
  OBVIOUS
<1>5. ASSUME NEW f \in Files PROVE [times[f] EXCEPT ![n] = @ + 1] \in [Ids -> Nat]
  <2>1. times[f] \in [Ids -> Nat] /\ times[f][n] + 1 \in Nat
    BY <1>3, <1>4, Zenon
  <2>. QED  BY <2>1, Zenon
<1>6. times' \in [Files -> [Ids -> Nat]]
  BY <1>1, <1>3, <1>5, Zenon
<1>7. ASSUME NEW f \in opened, NEW m \in Ids
      PROVE  times'[f][m] = times[f][m] \/ (m = n /\ times'[f][m] = times[f][m] + 1)
  <2>1. times[f] \in [Ids -> Nat]
    BY <1>3, Zenon
  <2>2. times'[f] = times[f] \/ times'[f] = [times[f] EXCEPT ![n] = @ + 1]
    BY <1>1, <1>3, Zenon
  <2>. QED  BY <2>1, <2>2, Zenon
<1>. QED  BY <1>2, <1>6, <1>7, Zenon

\* There is room in the staging FIFO for a slot that is not in it.
LEMMA StageHasRoom == StageFits
<1>. SUFFICES ASSUME NEW q \in Seq(Slots), Once(q), NEW h \in Slots, h \notin Entries(q)
              PROVE  Len(q) < StageMax
  BY Zenon DEF StageFits
<1>1. Len(q) \in Nat /\ DOMAIN q = 1 .. Len(q) /\ \A i \in 1 .. Len(q) : q[i] \in Slots
  BY SeqEntries, Zenon
<1>2. q \in Injection(1 .. Len(q), Slots \ {h})
  <2>1. \A i \in 1 .. Len(q) : q[i] \in Slots /\ q[i] # h
    BY <1>1, Zenon DEF Entries
  <2>2. q \in [1 .. Len(q) -> Slots \ {h}]
    BY <1>1, <2>1
  <2>. QED  BY <1>1, <2>2, Zenon DEF Injection, IsInjective, Once
<1>3. IsFiniteSet(Slots \ {h}) /\ Cardinality(Slots \ {h}) = Cardinality(Slots) - 1
  BY FS_RemoveElement, IncomingAssumption, Zenon
<1>4. Cardinality(1 .. Len(q)) <= Cardinality(Slots \ {h})
  BY <1>2, <1>3, FS_Injection, Zenon
<1>5. Cardinality(1 .. Len(q)) = Len(q)
  <2>1. Cardinality(1 .. Len(q)) = IF 1 > Len(q) THEN 0 ELSE Len(q) - 1 + 1
    BY <1>1, FS_Interval
  <2>. QED  BY ONLY <1>1, <2>1
<1>6. Cardinality(Slots) \in Nat /\ Cardinality(Slots) <= StageMax /\ StageMax \in Nat
  BY FS_CardinalityType, IncomingAssumption, Zenon
<1>. QED  BY ONLY <1>1, <1>3, <1>4, <1>5, <1>6

\* InitCommShareSeqMem fills the pool with every slot, each once.
LEMMA PoolIsFull == PoolStartsFull
<1>. DEFINE n == Cardinality(Slots)
            q == SetAsSeq(Slots)
<1>1. n \in Nat /\ ExistsBijection(1 .. n, Slots)
  BY FS_CardinalityType, IncomingAssumption, Zenon
<1>2. PICK b \in Bijection(1 .. n, Slots) : TRUE
  BY <1>1, Zenon DEF ExistsBijection
<1>3. b \in [1 .. n -> Slots] /\ {b[i] : i \in DOMAIN b} = Slots
  BY <1>2 DEF Bijection, Injection, Surjection
<1>4. q \in [1 .. n -> Slots] /\ {q[i] : i \in DOMAIN q} = Slots
  BY <1>3 DEF SetAsSeq
<1>5. q \in Surjection(1 .. n, Slots)
  BY <1>4 DEF Surjection
<1>6. IsFiniteSet(1 .. n) /\ Cardinality(1 .. n) = n
  <2>1. IsFiniteSet(1 .. n) /\ Cardinality(1 .. n) = IF 1 > n THEN 0 ELSE n - 1 + 1
    BY <1>1, FS_Interval
  <2>. QED  BY <1>1, <2>1
<1>7. q \in Injection(1 .. n, Slots)
  BY <1>5, <1>6, FS_SurjSameCardinalityImpliesInj
<1>8. Once(q)
  BY <1>4, <1>7 DEF Injection, IsInjective, Once
<1>9. q \in Seq(Slots)
  BY <1>1, <1>4
<1>. QED  BY <1>4, <1>8, <1>9, Zenon DEF Entries, PoolStartsFull

\* command_action takes the call under way and delivers it for the first time.
LEMMA CommandParts == ASSUME Parts, command_action PROVE Parts'
<1>1. /\ callWork /\ rx = "idle" /\ callWork' = FALSE /\ rxSlot' = hdr /\ rx' = "hand"
      /\ DeliverCall(slotMsg[hdr])
      /\ UNCHANGED <<begun, calls, freeCall, slotMsg, waiting, hdr, sent, irq, ackSent>>
      /\ UNCHANGED <<staged, item, copy, at, lost, case>>
  BY Zenon DEF command_action, mipsVars, handVars
<1>2. /\ begun \in Ids /\ slotMsg[hdr] = begun /\ item[begun] = "none" /\ hdr \in Slots
      /\ irq = FALSE /\ ackSent = FALSE /\ sent = FALSE /\ waiting = TRUE /\ begun > 0
  <2>1. Pending
    BY <1>1, Zenon DEF Pending
  <2>. QED  BY <1>1, <2>1, PendingCall, Zenon DEF Parts, OneCall, FlagTypes
<1>3. /\ UserInv' /\ opened' = opened /\ times' \in [Files -> [Ids -> Nat]]
      /\ \A f \in opened : \A m \in Ids :
             times'[f][m] = times[f][m] \/ (m = begun /\ times'[f][m] = times[f][m] + 1)
  <2>1. DeliverCall(begun) /\ begun' = begun
    BY <1>1, <1>2, Zenon
  <2>. QED  BY <1>2, <2>1, DeliverCounts, Zenon
<1>4. SlotTypes' /\ FlagTypes' /\ CallTypes' /\ SeenTypes'
  BY <1>1, <1>2, <1>3, Zenon DEF Parts, SlotTypes, FlagTypes, CallTypes, SeenTypes
<1>5. OneCall'
  BY <1>1, <1>2, Zenon DEF Parts, OneCall, Pending
<1>6. SlotInv'
  <2>1. Rung = {hdr} /\ Rung' = {rxSlot'}
    BY <1>1, <1>4, <1>5, RungIs, RungIsNext, Zenon DEF Parts
  <2>2. InUse' = InUse
    BY <1>1, Zenon DEF InUse
  <2>. QED  BY <1>1, <2>1, <2>2, SlotsSame, Zenon DEF Parts
<1>7. WorkItems'
  BY <1>1, WorkSame, Zenon DEF Parts, WorkItems
<1>8. Seen'
  <2>. SUFFICES ASSUME NEW f \in opened, NEW n \in Ids PROVE SeenBy(f, n)'
    BY <1>3, Zenon DEF Seen
  <2>1. times[f][n] \in Nat /\ SeenBy(f, n)
    BY SeenNats, Zenon
  <2>2. CASE times'[f][n] = times[f][n]
    BY <1>1, <2>1, <2>2, SeenSame, Zenon
  <2>3. CASE n = begun /\ times'[f][n] = times[f][n] + 1
    <3>1. times[f][n] = 0
      BY <1>1, <2>1, <2>3, Zenon DEF SeenBy
    <3>2. 0 + 1 <= 1 /\ 0 + 1 <= 2 /\ ~(begun > begun)
      BY <1>2 DEF Ids
    <3>3. ~(irq' \/ callWork') /\ begun' = begun
      BY <1>1, <1>2, Zenon
    <3>. QED  BY <2>3, <3>1, <3>2, <3>3, Zenon DEF SeenBy
  <2>. QED  BY <1>3, <2>2, <2>3, Zenon
<1>. QED  BY <1>3, <1>4, <1>5, <1>6, <1>7, <1>8, Zenon DEF Parts

\* The routine is looked up; a call of this CPU is delivered once more.
LEMMA FindParts == ASSUME Parts, NEW n \in Ids, FindRoutine(n) PROVE Parts'
<1>1. item[n] = "find" /\ Still /\ UNCHANGED <<freeCall, staged, copy, at, lost>>
  BY Zenon DEF FindRoutine, Still, mipsVars, rxVars
<1>2. item \in [Ids -> Steps] /\ copy[n] = n /\ WorkItem(n)
  BY <1>1, Zenon DEF Parts, SlotTypes, WorkItems, WorkItem
<1>3. PICK s \in {"respond", "done"} :
        /\ item' = [item EXCEPT ![n] = s]
        /\ DeliverCall(n) \/ UNCHANGED <<userVars, times>>
  <2>1. PICK o \in Lookups :
          IF o = "here"
          THEN /\ DeliverCall(copy[n])
               /\ item' = [item EXCEPT ![n] = IF calls[copy[n]].notify THEN "done" ELSE "respond"]
          ELSE item' = [item EXCEPT ![n] = "done"] /\ UNCHANGED <<userVars, times>>
    BY Zenon DEF FindRoutine
  <2>2. CASE o = "here" /\ calls[copy[n]].notify
    BY <1>2, <2>1, <2>2, Zenon
  <2>3. CASE o = "here" /\ ~calls[copy[n]].notify
    BY <1>2, <2>1, <2>3, Zenon
  <2>4. CASE o # "here"
    BY <2>1, <2>4, Zenon
  <2>. QED  BY <2>2, <2>3, <2>4, Zenon
<1>4. /\ item' \in [Ids -> Steps] /\ item'[n] = s /\ \A m \in Ids : m # n => item'[m] = item[m]
  <2>1. s \in Steps
    BY Zenon DEF Steps
  <2>. QED  BY <1>2, <1>3, <2>1, Zenon
<1>5. /\ UserInv' /\ opened' = opened /\ times' \in [Files -> [Ids -> Nat]]
      /\ \A f \in opened : \A m \in Ids :
             times'[f][m] = times[f][m] \/ (m = n /\ times'[f][m] = times[f][m] + 1)
  <2>1. CASE DeliverCall(n)
    BY <1>1, <2>1, DeliverCounts, Zenon DEF Still
  <2>2. CASE UNCHANGED <<userVars, times>>
    <3>1. UNCHANGED <<opened, queue, queue_count, dropped, waking, pc, sentTo, taken, lastTaken, times>>
      BY <2>2, Zenon DEF userVars
    <3>2. UserInv'
      BY <1>1, <3>1, UserSame, Zenon DEF Parts, Still
    <3>. QED  BY <3>1, <3>2, Zenon DEF Parts, SeenTypes
  <2>. QED  BY <1>3, <2>1, <2>2, Zenon
<1>6. CallTypes' /\ FlagTypes' /\ OneCall' /\ Rung' = Rung
  <2>1. Pending => begun \in Ids /\ begun # n
    BY <1>1, PendingCall, Zenon
  <2>2. Pending => item'[begun] = "none"
    BY <1>4, <2>1, PendingCall, Zenon
  <2>. QED  BY <1>1, <2>2, StillSame, Zenon DEF Parts
<1>7. SlotTypes' /\ SeenTypes'
  BY <1>1, <1>4, <1>5, Zenon DEF Parts, SlotTypes, SeenTypes, Still
<1>8. SlotInv'
  <2>1. InUse' = InUse
    BY <1>1, <1>4, Zenon DEF InUse
  <2>. QED  BY <1>1, <1>6, <2>1, SlotsSame, Zenon DEF Parts
<1>9. WorkItems'
  <2>1. WorkItem(n)'
    BY <1>1, <1>2, <1>4, Zenon DEF WorkItem, Still
  <2>2. ASSUME NEW m \in Ids, m # n PROVE WorkItem(m)'
    BY <1>1, <1>4, <2>2, WorkSame, Zenon DEF Parts, WorkItems, Still
  <2>. QED  BY <2>1, <2>2, Zenon DEF WorkItems
<1>10. Seen'
  <2>. SUFFICES ASSUME NEW f \in opened, NEW m \in Ids PROVE SeenBy(f, m)'
    BY <1>5, Zenon DEF Seen
  <2>1. times[f][m] \in Nat /\ SeenBy(f, m)
    BY SeenNats, Zenon
  <2>2. CASE times'[f][m] = times[f][m]
    <3>1. item'[m] \in {"none", "start", "release", "find"}
             => item[m] \in {"none", "start", "release", "find"}
      BY <1>1, <1>4, Zenon
    <3>. QED  BY <1>1, <2>1, <2>2, <3>1, SeenSame, Zenon DEF Still
  <2>3. CASE m = n /\ times'[f][m] = times[f][m] + 1
    <3>1. times[f][m] <= 1
      BY <1>1, <2>1, <2>3, Zenon DEF SeenBy
    <3>2. times[f][m] + 1 <= 2
      BY <2>1, <3>1
    <3>3. item'[m] \notin {"none", "start", "release", "find"}
      BY <1>4, <2>3, Zenon
    <3>4. ~(m > begun) /\ ~(m = begun /\ (irq \/ callWork))
      <4>1. m <= begun /\ m \in Ids /\ begun \in 0 .. MaxCalls
        BY <1>1, <1>2, <2>3, Zenon DEF WorkItem, Parts, CallTypes
      <4>2. ~(m > begun)
        BY <4>1, IncomingAssumption DEF Ids
      <4>3. m = begun => ~Pending
        BY <1>1, <2>3, PendingCall, Zenon
      <4>. QED  BY <4>2, <4>3, Zenon DEF Pending
    <3>. QED  BY <1>1, <2>3, <3>2, <3>3, <3>4, Zenon DEF SeenBy, Still
  <2>. QED  BY <1>5, <2>2, <2>3, Zenon
<1>. QED  BY <1>5, <1>6, <1>7, <1>8, <1>9, <1>10, Zenon DEF Parts

\* What is left to show of a step that only user space takes.
LEMMA UserSide ==
    ASSUME Parts, Still, UNCHANGED <<freeCall, staged, item, copy, at, lost>>,
           UserInv', times' \in [Files -> [Ids -> Nat]], Seen'
    PROVE  Parts'
<1>1. CallTypes' /\ FlagTypes' /\ OneCall' /\ Rung' = Rung
  <2>1. Pending => item'[begun] = "none"
    BY PendingCall, Zenon
  <2>. QED  BY <2>1, StillSame, Zenon DEF Parts
<1>2. SlotTypes' /\ SeenTypes'
  BY Zenon DEF Parts, SlotTypes, SeenTypes, Still
<1>3. SlotInv'
  <2>1. InUse' = InUse
    BY Zenon DEF InUse
  <2>. QED  BY <1>1, <2>1, SlotsSame, Zenon DEF Parts
<1>4. WorkItems'
  BY WorkSame, Zenon DEF Parts, WorkItems, Still
<1>. QED  BY <1>1, <1>2, <1>3, <1>4, Zenon DEF Parts

\* A file is opened: it has been sent nothing.
LEMMA OpenParts == ASSUME Parts, NEW f \in Files, Open(f) PROVE Parts'
<1>1. /\ Still /\ UNCHANGED <<freeCall, staged, item, copy, at, lost>>
      /\ times' = [times EXCEPT ![f] = [n \in Ids |-> 0]] /\ U!cpu_comm_user_open(f)
  BY Zenon DEF Open, Still, mipsVars, rxVars, handVars
<1>2. UserInv' /\ opened' = opened \cup {f}
  BY <1>1, OpenUser, Zenon DEF Parts
<1>3. 0 \in Nat /\ 0 <= 1 /\ 0 <= 2
  OBVIOUS
<1>4. times \in [Files -> [Ids -> Nat]] /\ opened \subseteq Files
  BY Zenon DEF Parts, SeenTypes, UserInv, U!TypeOK
<1>5. times' \in [Files -> [Ids -> Nat]]
  BY <1>1, <1>3, <1>4, Zenon
<1>6. Seen'
  <2>. SUFFICES ASSUME NEW g \in opened \cup {f}, NEW n \in Ids PROVE SeenBy(g, n)'
    BY <1>2, Zenon DEF Seen
  <2>1. CASE g = f
    <3>1. times'[g][n] = 0
      BY <1>1, <1>4, <2>1, Zenon
    <3>. QED  BY <1>3, <3>1, Zenon DEF SeenBy
  <2>2. CASE g # f
    <3>1. g \in opened /\ times'[g] = times[g]
      BY <1>1, <1>4, <2>2, Zenon
    <3>. QED  BY <1>1, <3>1, SeenNats, SeenSame, Zenon DEF Still
  <2>. QED  BY <2>1, <2>2, Zenon
<1>. QED  BY <1>1, <1>2, <1>5, <1>6, UserSide, Zenon

\* Readers are woken, a file is closed, a thread reads or polls, or nothing happens.
LEMMA UserParts ==
    ASSUME Parts, (\E f \in Files : Wake(f)) \/ UserStep \/ UNCHANGED vars
    PROVE  Parts'
<1>1. Still /\ UNCHANGED <<freeCall, staged, item, copy, at, lost, times>>
  BY Zenon DEF Wake, UserStep, vars, Still, mipsVars, rxVars, handVars
<1>2. UserInv' /\ opened' \subseteq opened
  <2>1. CASE \E f \in Files : U!cpu_comm_user_release(f)
    BY <2>1, ReleaseUser, Zenon DEF Parts
  <2>2. CASE \E r \in Readers : U!Reader(r)
    BY <2>2, ReaderUser, Zenon DEF Parts
  <2>3. CASE UNCHANGED vars
    <3>1. UNCHANGED <<opened, queue, queue_count, dropped, waking, pc, sentTo, taken, lastTaken>>
      BY <2>3, Zenon DEF vars, userVars
    <3>. QED  BY <1>1, <3>1, UserSame, Zenon DEF Parts, Still
  <2>4. CASE \E f \in Files : U!wake_up_interruptible(f)
    BY <2>4, WakeUser, Zenon DEF Parts
  <2>. QED  BY <2>1, <2>2, <2>3, <2>4, Zenon DEF UserStep, Wake
<1>3. times' \in [Files -> [Ids -> Nat]]
  BY <1>1, Zenon DEF Parts, SeenTypes
<1>4. Seen'
  BY <1>1, <1>2, SeenSame, Zenon DEF Parts, Seen, Still
<1>. QED  BY <1>1, <1>2, <1>3, <1>4, UserSide, Zenon

\* Every step keeps the parts.
LEMMA NextParts == ASSUME Parts, [Next]_vars PROVE Parts'
<1>1. ASSUME NEW k \in Kinds, NEW b \in BOOLEAN, MipsCall(k, b) PROVE Parts'
  BY <1>1, MipsCallParts, Zenon
<1>2. CASE MipsAcked \/ cpu_comm_handle_CPU2_call \/ SendAckLow
  BY <1>2, AckedParts, Zenon
<1>3. CASE command_action
  BY <1>3, CommandParts, Zenon
<1>4. CASE HandOn
  BY <1>4, HandParts, StageHasRoom, Zenon
<1>5. ASSUME NEW n \in Ids, comm_CallWorkAction(n) PROVE Parts'
  BY <1>5, CopyParts, ReleaseParts, FindParts, Zenon DEF comm_CallWorkAction
<1>6. ASSUME NEW f \in Files, Open(f) PROVE Parts'
  BY <1>6, OpenParts, Zenon
<1>7. CASE (\E f \in Files : Wake(f)) \/ UserStep \/ UNCHANGED vars
  BY <1>7, UserParts, Zenon
<1>. QED  BY <1>1, <1>2, <1>3, <1>4, <1>5, <1>6, <1>7, Zenon DEF Next

-----------------------------------------------------------------------------
\* The strengthening holds in every state: the one call under way, the slots, the
\* work items and the deliveries fit together.
THEOREM IncomingInvariant == Spec => []IInv
<1>1. Init => Parts
  BY InitParts, PoolIsFull, Zenon
<1>2. Parts /\ [Next]_vars => Parts'
  BY NextParts, Zenon
<1>3. Parts => IInv
  BY PartsAreIInv, Zenon
<1>. QED  BY <1>1, <1>2, <1>3, PTL DEF Spec

\* The CALL path and Comm_ReleaseFreeCall keep every call slot of the MIPS at exactly
\* one place, whatever the number of slots, and one leaves the circulation only with a
\* work item that could not be allocated.
THEOREM SlotsAreConserved == Spec => []SlotsConserved
<1>1. IInv => SlotsConserved
  BY Zenon DEF IInv, SlotsConserved
<1>. QED  BY <1>1, IncomingInvariant, PTL

\* comm_CallWorkAction works on the call it was queued for, although the slot is
\* released, and may be used again, before the routine is looked up.
THEOREM CallsDispatchedIntact == Spec => []DispatchedIntact
<1>1. IInv => DispatchedIntact
  BY Zenon DEF IInv, WorkItems, WorkItem, DispatchedIntact
<1>. QED  BY <1>1, IncomingInvariant, PTL

\* No file is sent a call more often than its kind allows, however the deliveries of
\* command_action and of the work items of several calls interleave.
THEOREM SentAtMost == Spec => []ObservedAtMost
<1>1. IInv => ObservedAtMost
  <2>. SUFFICES ASSUME IInv, NEW f \in opened, NEW n \in 1 .. begun
                PROVE  times[f][n] <= IF calls[n].kind = "work" THEN 2 ELSE 1
    BY Zenon DEF ObservedAtMost
  <2>0. Parts
    BY PartsAreIInv, Zenon
  <2>1. n \in Ids
    BY <2>0, IncomingAssumption DEF Parts, CallTypes, Ids
  <2>2. SeenBy(f, n) /\ WorkItem(n)
    BY <2>0, <2>1, SeenNats, Zenon DEF Parts, WorkItems
  <2>3. calls[n].kind # "work" => item[n] = "none"
    BY <2>2, Zenon DEF WorkItem
  <2>. QED  BY <2>2, <2>3, Zenon DEF SeenBy
<1>. QED  BY <1>1, IncomingInvariant, PTL

=============================================================================
