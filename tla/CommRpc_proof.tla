---------------------------- MODULE CommRpc_proof ----------------------------
(***************************************************************************)
(* Proofs about CommRpc for any number of threads, wait entries, call and  *)
(* return slots and calls, and any timeouts: RpcIInv is inductive, and     *)
(* PoolsConserved and CallIsOwn follow from it.  There is one lemma for    *)
(* each action.  A part of the invariant that an action cannot disturb is  *)
(* carried over by the lemma on that part whose name ends in Kept.         *)
(***************************************************************************)
EXTENDS CommRpc, TLAPS

(***************************************************************************)
(* FIFOs without repetition, as sets.                                      *)
(***************************************************************************)
Entries(q) == {q[i] : i \in DOMAIN q}

\* The domain and the entries of a sequence, and its head and tail.
LEMMA SeqFacts ==
    ASSUME NEW S, NEW s \in Seq(S)
    PROVE  /\ Len(s) \in Nat /\ DOMAIN s = 1 .. Len(s) /\ \A i \in 1 .. Len(s) : s[i] \in S
           /\ s = << >> <=> Len(s) = 0
           /\ s # << >> => /\ Head(s) \in S /\ Head(s) = s[1]
                           /\ Tail(s) \in Seq(S) /\ Len(Tail(s)) = Len(s) - 1
                           /\ \A i \in 1 .. Len(s) - 1 : Tail(s)[i] = s[i + 1]
  OBVIOUS

\* One entry more at the end.
LEMMA AppendFacts ==
    ASSUME NEW S, NEW s \in Seq(S), NEW e \in S
    PROVE  /\ Append(s, e) \in Seq(S) /\ Len(Append(s, e)) = Len(s) + 1
           /\ \A i \in 1 .. Len(s) : Append(s, e)[i] = s[i]
           /\ Append(s, e)[Len(s) + 1] = e
           /\ Append(s, e) # << >>
           /\ s # << >> => Head(Append(s, e)) = Head(s)
<1>. DEFINE a == Append(s, e)
<1>1. /\ a \in Seq(S) /\ Len(a) = Len(s) + 1
      /\ \A i \in 1 .. Len(s) : a[i] = s[i]
      /\ a[Len(s) + 1] = e
  OBVIOUS
<1>. HIDE DEF a
<1>2. a # << >> /\ Head(a) = a[1]
  BY <1>1, SeqFacts
<1>3. s # << >> => a[1] = s[1] /\ Head(s) = s[1]
  BY <1>1, SeqFacts
<1>. QED  BY <1>1, <1>2, <1>3 DEF a

\* A new entry is added to the set of entries; the head stays.
LEMMA PutFree ==
    ASSUME NEW S, NEW q \in Seq(S), NEW x \in S, Distinct(q), x \notin Entries(q)
    PROVE  /\ Append(q, x) \in Seq(S) /\ Distinct(Append(q, x))
           /\ Entries(Append(q, x)) = Entries(q) \cup {x}
           /\ Append(q, x) # << >>
           /\ q # << >> => Head(Append(q, x)) = Head(q)
<1>. DEFINE n == Len(q)
            a == Append(q, x)
<1>1. /\ a \in Seq(S) /\ DOMAIN a = 1 .. n + 1 /\ DOMAIN q = 1 .. n /\ n \in Nat
      /\ \A i \in 1 .. n : a[i] = q[i]
      /\ a[n + 1] = x
      /\ a # << >>
      /\ q # << >> => Head(a) = Head(q)
  BY AppendFacts, SeqFacts
<1>. HIDE DEF n, a
<1>2. Entries(a) = Entries(q) \cup {x}
  <2>1. ASSUME NEW y \in Entries(a) PROVE y \in Entries(q) \cup {x}
    <3>1. PICK i \in 1 .. n + 1 : y = a[i]
      BY <1>1 DEF Entries
    <3>2. CASE i \in 1 .. n
      BY <1>1, <3>1, <3>2 DEF Entries
    <3>3. CASE i = n + 1
      BY <1>1, <3>1, <3>3
    <3>. QED  BY <1>1, <3>2, <3>3
  <2>2. ASSUME NEW y \in Entries(q) PROVE y \in Entries(a)
    <3>1. PICK i \in 1 .. n : y = q[i]
      BY <1>1 DEF Entries
    <3>2. i \in 1 .. n + 1 /\ y = a[i]
      BY <1>1, <3>1
    <3>. QED  BY <1>1, <3>2 DEF Entries
  <2>3. n + 1 \in 1 .. n + 1
    BY <1>1
  <2>4. x \in Entries(a)
    BY <1>1, <2>3 DEF Entries
  <2>. QED  BY <2>1, <2>2, <2>4
<1>3. \A i \in 1 .. n : q[i] # x
  BY <1>1 DEF Entries
<1>4. ASSUME NEW i \in 1 .. n + 1, NEW j \in 1 .. n + 1, a[i] = a[j]
      PROVE  i = j
  <2>1. CASE i \in 1 .. n /\ j \in 1 .. n
    BY <1>1, <1>4, <2>1 DEF Distinct
  <2>2. CASE i = n + 1 /\ j \in 1 .. n
    BY <1>1, <1>3, <1>4, <2>2
  <2>3. CASE i \in 1 .. n /\ j = n + 1
    BY <1>1, <1>3, <1>4, <2>3
  <2>. QED  BY <1>1, <2>1, <2>2, <2>3
<1>. QED  BY <1>1, <1>2, <1>4 DEF Distinct, a

\* Taking the head removes it from the set of entries.
LEMMA TakeFree ==
    ASSUME NEW S, NEW q \in Seq(S), q # << >>, Distinct(q)
    PROVE  /\ Head(q) \in S /\ Head(q) \in Entries(q)
           /\ Tail(q) \in Seq(S) /\ Distinct(Tail(q))
           /\ Entries(Tail(q)) = Entries(q) \ {Head(q)}
<1>. DEFINE n == Len(q)
            t == Tail(q)
<1>1. /\ t \in Seq(S) /\ n \in Nat /\ n # 0 /\ DOMAIN q = 1 .. n /\ DOMAIN t = 1 .. n - 1
      /\ \A i \in 1 .. n - 1 : t[i] = q[i + 1]
      /\ Head(q) = q[1] /\ Head(q) \in S
  BY SeqFacts
<1>. HIDE DEF n, t
<1>2. \A i, j \in 1 .. n : q[i] = q[j] => i = j
  BY <1>1, Zenon DEF Distinct
<1>3. Distinct(t)
  <2>1. ASSUME NEW i \in 1 .. n - 1, NEW j \in 1 .. n - 1, t[i] = t[j] PROVE i = j
    <3>1. i + 1 \in 1 .. n /\ j + 1 \in 1 .. n /\ q[i + 1] = q[j + 1]
      BY <1>1, <2>1
    <3>2. i + 1 = j + 1
      BY <1>2, <3>1
    <3>. QED  BY <3>2
  <2>. QED  BY <1>1, <2>1 DEF Distinct
<1>4. 1 \in 1 .. n
  BY <1>1
<1>5. ASSUME NEW y \in Entries(t) PROVE y \in Entries(q) \ {Head(q)}
  <2>1. PICK i \in 1 .. n - 1 : y = t[i]
    BY <1>1 DEF Entries
  <2>2. i + 1 \in 1 .. n /\ i + 1 # 1 /\ y = q[i + 1]
    BY <1>1, <2>1
  <2>. QED  BY <1>1, <1>2, <1>4, <2>2 DEF Entries
<1>6. ASSUME NEW y \in Entries(q) \ {Head(q)} PROVE y \in Entries(t)
  <2>1. PICK i \in 1 .. n : y = q[i]
    BY <1>1 DEF Entries
  <2>2. i # 1
    BY <1>1, <1>6, <2>1
  <2>3. i - 1 \in 1 .. n - 1 /\ y = t[i - 1]
    BY <1>1, <2>1, <2>2
  <2>. QED  BY <1>1, <2>3 DEF Entries
<1>7. Head(q) \in Entries(q)
  BY <1>1, <1>4 DEF Entries
<1>. QED  BY <1>1, <1>3, <1>5, <1>6, <1>7 DEF t

-----------------------------------------------------------------------------
(***************************************************************************)
(* The types, in groups.                                                   *)
(***************************************************************************)
Waitings == Waits \cup {None}
TNat  == /\ sendSem \in Nat /\ ackSem \in Nat /\ sid \in Nat /\ cmd \in Nat /\ acks \in Nat
         /\ callIrq \in Nat
TFree == freeWait \in Seq(Waits) /\ freeCall \in Seq(Calls) /\ freeRet \in Seq(Rets)
TWait == session \in [Waits -> Nat] /\ waitSem \in [Waits -> Nat] /\ waitList \subseteq Waits
TCall == /\ call \in [Calls -> [session : Nat, wait : Waitings, notify : BOOLEAN]]
         /\ hdr \in Calls \cup {None}
TRet  == /\ ret \in [Rets -> [session : Nat, wait : Waitings]] /\ retHdr \in Rets \cup {None}
         /\ returns \subseteq Rets /\ retBusy \in Rets \cup {None}
TBool == /\ sent \in BOOLEAN /\ retSent \in BOOLEAN /\ ackSent \in BOOLEAN /\ ackIrq \in BOOLEAN
         /\ retIrq \in BOOLEAN /\ ackWork \in BOOLEAN /\ retWork \in BOOLEAN
         /\ unacked \in BOOLEAN /\ retAck \in BOOLEAN
TPc   == pc \in [Callers -> Sending \cup {"idle", "down", "retwait", "getret", "relwait"}]
TLoc  == /\ kind \in [Callers -> {"call", "notify"}]
         /\ slot \in [Callers -> Calls \cup {None}] /\ wait \in [Callers -> Waitings]
         /\ sess \in [Callers -> Nat] /\ result \in [Callers -> Nat]
         /\ status \in [Callers -> {"none", "ok", "busy", "timeout"}]
TCase == case \in Cases /\ begun \in 0 .. case.calls /\ late \subseteq case.may
Message == [slot : Calls, session : Nat, wait : Waitings, notify : BOOLEAN]
TMips == taken \subseteq Nat /\ \A m \in todo : m \in Message

\* The groups make up TypeOK, ...
LEMMA TypeGroups ==
    TypeOK <=> (TNat /\ TFree /\ TWait /\ TCall /\ TRet /\ TBool /\ TPc /\ TLoc /\ TCase /\ TMips)
  BY ZenonT(60) DEF TypeOK, TNat, TFree, TWait, TCall, TRet, TBool, TPc, TLoc, TCase, TMips, Waitings,
                    Message

\* ... also in the next state.
LEMMA TypeGroupsNext ==
    TypeOK' <=> (TNat' /\ TFree' /\ TWait' /\ TCall' /\ TRet' /\ TBool' /\ TPc' /\ TLoc'
                 /\ TCase' /\ TMips')
  BY ZenonT(60) DEF TypeOK, TNat, TFree, TWait, TCall, TRet, TBool, TPc, TLoc, TCase, TMips, Waitings,
                    Message

\* A step keeps the type of what it does not change.
LEMMA TypesKept ==
    /\ TNat /\ UNCHANGED <<sendSem, ackSem, sid, cmd, acks, callIrq>> => TNat'
    /\ TFree /\ UNCHANGED <<freeWait, freeCall, freeRet>> => TFree'
    /\ TWait /\ UNCHANGED <<session, waitSem, waitList>> => TWait'
    /\ TCall /\ UNCHANGED <<call, hdr>> => TCall'
    /\ TRet /\ UNCHANGED <<ret, retHdr, returns, retBusy>> => TRet'
    /\ TBool /\ UNCHANGED <<sent, retSent, ackSent, ackIrq, retIrq, ackWork, retWork, unacked, retAck>> => TBool'
    /\ TPc /\ UNCHANGED <<pc>> => TPc'
    /\ TLoc /\ UNCHANGED <<kind, slot, wait, sess, result, status>> => TLoc'
    /\ TCase /\ UNCHANGED <<case, begun, late>> => TCase'
    /\ TMips /\ UNCHANGED <<taken, todo>> => TMips'
<1>1. TNat /\ UNCHANGED <<sendSem, ackSem, sid, cmd, acks, callIrq>> => TNat'
  BY Zenon DEF TNat
<1>2. TFree /\ UNCHANGED <<freeWait, freeCall, freeRet>> => TFree'
  BY Zenon DEF TFree
<1>3. TWait /\ UNCHANGED <<session, waitSem, waitList>> => TWait'
  BY Zenon DEF TWait
<1>4. TCall /\ UNCHANGED <<call, hdr>> => TCall'
  BY Zenon DEF TCall
<1>5. TRet /\ UNCHANGED <<ret, retHdr, returns, retBusy>> => TRet'
  BY Zenon DEF TRet
<1>6. TBool /\ UNCHANGED <<sent, retSent, ackSent, ackIrq, retIrq, ackWork, retWork, unacked, retAck>> => TBool'
  BY Zenon DEF TBool
<1>7. TPc /\ UNCHANGED <<pc>> => TPc'
  BY Zenon DEF TPc
<1>8. TLoc /\ UNCHANGED <<kind, slot, wait, sess, result, status>> => TLoc'
  BY Zenon DEF TLoc
<1>9. TCase /\ UNCHANGED <<case, begun, late>> => TCase'
  BY Zenon DEF TCase
<1>10. TMips /\ UNCHANGED <<taken, todo>> => TMips'
  BY Zenon DEF TMips
<1>. QED  BY <1>1, <1>2, <1>3, <1>4, <1>5, <1>6, <1>7, <1>8, <1>9, <1>10, Zenon

\* Storing into one entry of a function.
LEMMA Store ==
    ASSUME NEW D, NEW R, NEW f \in [D -> R], NEW d \in D, NEW v \in R
    PROVE  /\ [f EXCEPT ![d] = v] \in [D -> R]
           /\ [f EXCEPT ![d] = v][d] = v
           /\ \A e \in D : e # d => [f EXCEPT ![d] = v][e] = f[e]
  OBVIOUS

-----------------------------------------------------------------------------
(***************************************************************************)
(* What carries each part over a step that does not disturb it.            *)
(***************************************************************************)
\* A thread that does not move keeps its place ...
LEMMA PlaceKept ==
    ASSUME NEW d \in Callers, Place(d), pc'[d] = pc[d], kind'[d] = kind[d], wait'[d] = wait[d],
           sess'[d] = sess[d], status'[d] = status[d], slot'[d] = slot[d]
    PROVE  Place(d)'
  BY DEF Place, Fills, AtAck, Holding

\* ... and is in the same phase of its call.
LEMMA PhaseKept ==
    ASSUME NEW d \in Callers, pc'[d] = pc[d], wait'[d] = wait[d], status'[d] = status[d]
    PROVE  /\ Fills(d)' <=> Fills(d)
           /\ AtAck(d)' <=> AtAck(d)
           /\ Holding(d)' <=> Holding(d)
           /\ Awaits(d)' <=> Awaits(d)
           /\ Collects(d)' <=> Collects(d)
  BY DEF Fills, AtAck, Holding, Awaits, Collects

\* A step that does not begin or end a send.
LEMMA SemKept ==
    ASSUME SemDown, sendSem' = sendSem,
           \A d \in Callers : pc'[d] \in Sending => pc[d] \in Sending
    PROVE  SemDown'
  BY DEF SemDown

\* A step that gives out no session number.
LEMMA NumbersKept ==
    ASSUME Numbers, sid' = sid, \A d \in Callers : sess'[d] = sess[d] \/ sess'[d] = 0,
           \A d \in Callers : pc[d] = "store" <=> pc'[d] = "store",
           \A d \in Callers : pc[d] = "store" => sess'[d] = sess[d],
           sid \in Nat
    PROVE  Numbers'
  BY DEF Numbers

\* A step that leaves the wait entries and their holders alone.
LEMMA WaitsKept ==
    ASSUME WaitsHeld, WaitsConserved,
           session' = session, waitList' = waitList, freeWait' = freeWait,
           \A d \in Callers : Holding(d)' <=> Holding(d),
           \A d \in Callers : Holding(d) => wait'[d] = wait[d] /\ sess'[d] = sess[d],
           \A d \in Callers : pc'[d] = "addwait" => pc[d] = "addwait" /\ wait'[d] = wait[d]
    PROVE  WaitsHeld' /\ WaitsConserved'
<1>1. WaitsHeld'
  BY DEF WaitsHeld
<1>2. WaitsConserved'
  BY DEF WaitsConserved
<1>. QED  BY <1>1, <1>2

\* A step that leaves the free call slots, the header and the senders' slots alone.
LEMMA SlotsHeldKept ==
    ASSUME SlotsHeld, freeCall' = freeCall, sent' = sent, hdr' = hdr,
           \A d \in Callers : pc'[d] = "session" => pc[d] = "session" /\ slot'[d] = slot[d],
           \A d \in Callers : Fills(d)' => Fills(d) /\ slot'[d] = slot[d]
    PROVE  SlotsHeld'
  BY DEF SlotsHeld

\* The call slots the senders hold.
LEMMA SenderSlots ==
    \A x : x \in WithSender <=> \/ \E c \in Callers : Fills(c) /\ slot[c] = x
                                \/ sent /\ x = hdr
  BY DEF WithSender, Fills

\* The same in the next state.
LEMMA SenderSlotsNext ==
    \A x : x \in WithSender' <=> \/ \E c \in Callers : Fills(c)' /\ slot'[c] = x
                                 \/ sent' /\ x = hdr'
  BY DEF WithSender, Fills

\* A step that moves no call slot.
LEMMA SlotsKeptSame ==
    ASSUME freeCall' = freeCall, todo' = todo, sent' = sent, hdr' = hdr,
           \A d \in Callers : Fills(d)' <=> Fills(d),
           \A d \in Callers : Fills(d) => slot'[d] = slot[d]
    PROVE  (SlotExclusive => SlotExclusive') /\ (SlotsKept => SlotsKept')
<1>1. \A x : x \in WithSender' <=> x \in WithSender
  BY SenderSlots, SenderSlotsNext
<1>2. WithSender' = WithSender
  BY <1>1, Zenon
<1>3. FreeCalls' = FreeCalls /\ WithMips' = WithMips
  BY DEF FreeCalls, WithMips
<1>. QED  BY <1>2, <1>3 DEF SlotExclusive, SlotsKept

\* A step that has nothing to do with the CALL_ACK.
LEMMA AckKept ==
    ASSUME AckPending, sent' = sent, acks' = acks, ackSent' = ackSent, ackSem' = ackSem,
           hdr' = hdr, call' = call, taken' = taken,
           \A d \in Callers : pc'[d] = "unwait" => pc[d] = "unwait",
           \A d \in Callers : AtAck(d)' <=> AtAck(d),
           \A d \in Callers : AtAck(d) => /\ slot'[d] = slot[d] /\ sess'[d] = sess[d]
                                          /\ wait'[d] = wait[d] /\ kind'[d] = kind[d]
    PROVE  AckPending'
<1>1. InFlight' = InFlight
  BY DEF InFlight, One
<1>. QED  BY <1>1 DEF AckPending

\* A step in which no send succeeds.
LEMMA OwnKept ==
    ASSUME AckIsOwn, taken \subseteq taken',
           \A d \in Callers : status'[d] = "ok" => status[d] = "ok" /\ sess'[d] = sess[d]
    PROVE  AckIsOwn'
  BY DEF AckIsOwn

\* A step that leaves the return slots alone.
LEMMA RetKept ==
    ASSUME RetSlots, freeRet' = freeRet, returns' = returns, RetLive' <=> RetLive,
           RetLive => retHdr' = retHdr, retBusy' = retBusy
    PROVE  RetSlots'
  BY Zenon DEF RetSlots, FreeRets

\* A step that moves no answer, while those who await one go on to.
LEMMA AnswerKept ==
    ASSUME todo' = todo, ret' = ret, RetLive => retHdr' = retHdr, returns' = returns,
           RetLive' <=> RetLive,
           \A d \in Callers : Awaits(d) =>
               Awaits(d)' /\ sess'[d] = sess[d] /\ wait'[d] = wait[d],
           \A d \in Callers : Collects(d) =>
               Collects(d)' /\ sess'[d] = sess[d] /\ wait'[d] = wait[d]
    PROVE  /\ AskedOnce => AskedOnce'
           /\ ArrivesOnce => ArrivesOnce'
           /\ ReturnedOnce => ReturnedOnce'
           /\ \A s : NoAnswer(s) => NoAnswer(s)'
<1>1. \A s : (Returned(s)' <=> Returned(s)) /\ (Asked(s)' <=> Asked(s))
  BY Zenon DEF Returned, Asked
<1>2. AskedOnce => AskedOnce'
  BY <1>1, ZenonT(60) DEF AskedOnce
<1>3. ArrivesOnce => ArrivesOnce'
  BY <1>1, Zenon DEF ArrivesOnce
<1>4. ReturnedOnce => ReturnedOnce'
  BY DEF ReturnedOnce
<1>5. \A s : NoAnswer(s) => NoAnswer(s)'
  BY <1>1, Zenon DEF NoAnswer
<1>. QED  BY <1>2, <1>3, <1>4, <1>5

\* The same when no call goes into the header either.
LEMMA AnswersKept ==
    ASSUME AnswerOnce, todo' = todo, ret' = ret, RetLive => retHdr' = retHdr, returns' = returns,
           RetLive' <=> RetLive,
           \A d \in Callers : Awaits(d) =>
               Awaits(d)' /\ sess'[d] = sess[d] /\ wait'[d] = wait[d],
           \A d \in Callers : Collects(d) =>
               Collects(d)' /\ sess'[d] = sess[d] /\ wait'[d] = wait[d],
           \A d \in Callers : sent' /\ AtAck(d)' => sent /\ AtAck(d) /\ sess'[d] = sess[d]
    PROVE  AnswerOnce'
<1>1. NotYetAsked'
  BY AnswerKept, Zenon DEF AnswerOnce, NotYetAsked
<1>. QED  BY <1>1, AnswerKept, Zenon DEF AnswerOnce

\* A step that signals no wait entry and takes no RETURN.
LEMMA SignalsKept ==
    ASSUME Signals, waitSem' = waitSem, ret' = ret, returns' = returns, retBusy' = retBusy,
           \A d \in Callers : Awaits(d) =>
               Awaits(d)' /\ sess'[d] = sess[d] /\ wait'[d] = wait[d],
           \A d \in Callers : pc'[d] = "getret" => pc[d] = "getret" /\ sess'[d] = sess[d],
           \A d \in Callers : pc'[d] = "relwait" =>
               pc[d] = "relwait" /\ sess'[d] = sess[d] /\ result'[d] = result[d]
    PROVE  Signals'
  BY DEF Signals, Ready

\* A step that ends no call with success.
LEMMA ResultKept ==
    ASSUME CallHasResult,
           \A d \in Callers : pc'[d] = "idle" /\ kind'[d] = "call" /\ status'[d] = "ok" =>
               /\ pc[d] = "idle" /\ kind[d] = "call" /\ status[d] = "ok"
               /\ result'[d] = result[d] /\ sess'[d] = sess[d]
    PROVE  CallHasResult'
  BY DEF CallHasResult

-----------------------------------------------------------------------------
(***************************************************************************)
(* The steps of a calling thread.                                          *)
(***************************************************************************)
\* The thread d keeps its local variables; it does not move.
Locals(d) == /\ kind'[d] = kind[d] /\ slot'[d] = slot[d] /\ sess'[d] = sess[d]
             /\ wait'[d] = wait[d] /\ status'[d] = status[d] /\ result'[d] = result[d]
Same(d)   == pc'[d] = pc[d] /\ Locals(d)

\* The phases of a call, of a thread that does not move.
SamePhase(d) == /\ Fills(d)' <=> Fills(d)
                /\ AtAck(d)' <=> AtAck(d)
                /\ Holding(d)' <=> Holding(d)
                /\ Awaits(d)' <=> Awaits(d)
                /\ Collects(d)' <=> Collects(d)

\* Where a thread goes.
LEMMA Goes ==
    ASSUME TPc, NEW c \in Callers, NEW s, Goto(c, s)
    PROVE  pc'[c] = s /\ \A d \in Callers : d # c => pc'[d] = pc[d]
  BY DEF TPc, Goto

\* The thread d disturbs nothing of Shared, nothing of Acked, or nothing of Exact.
Quiet(d) ==
    /\ Fills(d)' <=> Fills(d)
    /\ Holding(d)' <=> Holding(d)
    /\ pc'[d] \in Sending => pc[d] \in Sending
    /\ pc[d] = "store" <=> pc'[d] = "store"
    /\ sess'[d] = sess[d] \/ (sess'[d] = 0 /\ pc[d] # "store")
    /\ Holding(d) => wait'[d] = wait[d] /\ sess'[d] = sess[d]
    /\ pc'[d] = "addwait" => pc[d] = "addwait" /\ wait'[d] = wait[d]
    /\ pc'[d] = "session" => pc[d] = "session" /\ slot'[d] = slot[d]
    /\ Fills(d) => slot'[d] = slot[d]

Steady(d) ==
    /\ (Fills(d)' <=> Fills(d)) /\ (AtAck(d)' <=> AtAck(d))
    /\ Fills(d) \/ AtAck(d) => slot'[d] = slot[d]
    /\ AtAck(d) => sess'[d] = sess[d] /\ wait'[d] = wait[d] /\ kind'[d] = kind[d]
    /\ pc'[d] = "unwait" => pc[d] = "unwait"
    /\ status'[d] = "ok" => status[d] = "ok" /\ sess'[d] = sess[d]

Calm(d) ==
    /\ Steady(d)
    /\ (Awaits(d)' <=> Awaits(d)) /\ (Collects(d)' <=> Collects(d))
    /\ Collects(d) => sess'[d] = sess[d] /\ wait'[d] = wait[d]
    /\ pc'[d] = "getret" => pc[d] = "getret" /\ sess'[d] = sess[d]
    /\ pc'[d] = "relwait" => pc[d] = "relwait" /\ sess'[d] = sess[d] /\ result'[d] = result[d]
    /\ pc'[d] = "idle" /\ kind'[d] = "call" /\ status'[d] = "ok" =>
          /\ pc[d] = "idle" /\ kind[d] = "call" /\ status[d] = "ok"
          /\ result'[d] = result[d] /\ sess'[d] = sess[d]

\* A thread that does not move disturbs nothing.
LEMMA StillThread ==
    ASSUME NEW d \in Callers, Same(d)
    PROVE  SamePhase(d) /\ Quiet(d) /\ Calm(d)
<1>1. SamePhase(d)
  BY PhaseKept, Zenon DEF Same, Locals, SamePhase
<1>2. Quiet(d)
  BY <1>1, Zenon DEF Quiet, Same, Locals, SamePhase
<1>3. Calm(d)
  BY <1>1, Zenon DEF Calm, Steady, SamePhase, Same, Locals
<1>. QED  BY <1>1, <1>2, <1>3

\* All threads but one stay where they are.
LEMMA OthersSame ==
    ASSUME Places, NEW c \in Callers, \A d \in Callers : d # c => Same(d), Place(c)'
    PROVE  Places' /\ \A d \in Callers : d # c => SamePhase(d) /\ Quiet(d) /\ Calm(d)
<1>1. ASSUME NEW d \in Callers, d # c PROVE Place(d)' /\ SamePhase(d) /\ Quiet(d) /\ Calm(d)
  <2>1. Same(d) /\ Place(d)
    BY <1>1, Zenon DEF Places
  <2>2. Place(d)'
    BY <2>1, PlaceKept, Zenon DEF Same, Locals
  <2>. QED  BY <2>1, <2>2, StillThread, Zenon
<1>. QED  BY <1>1, Zenon DEF Places

\* No thread moves.
LEMMA AllSame ==
    ASSUME Places, UNCHANGED <<pc, kind, slot, sess, wait, status, result>>
    PROVE  Places' /\ \A d \in Callers : SamePhase(d) /\ Quiet(d) /\ Calm(d)
<1>1. \A d \in Callers : Same(d)
  BY Zenon DEF Same, Locals
<1>2. ASSUME NEW d \in Callers PROVE Place(d)'
  BY <1>1, PlaceKept, Zenon DEF Places, Same, Locals
<1>. QED  BY <1>1, <1>2, StillThread, Zenon DEF Places

\* Who awaits the RETURN has not fetched it.
LEMMA AwaitsCollects == \A d \in Callers : Awaits(d) => Collects(d)
  BY Zenon DEF Awaits, Collects

\* The answer to a call that nobody makes is nowhere.
LEMMA NoAnswerYet ==
    ASSUME AnswerOnce, NEW s, \A d \in Callers : Collects(d) => sess[d] # s
    PROVE  NoAnswer(s)
<1>1. ~Returned(s)
  BY Zenon DEF AnswerOnce, ReturnedOnce, Returned
<1>2. ~Asked(s)
  BY AwaitsCollects, Zenon DEF AnswerOnce, AskedOnce, Asked
<1>3. RetLive => ret[retHdr].session # s
  BY AwaitsCollects, Zenon DEF AnswerOnce, ArrivesOnce
<1>. QED  BY <1>1, <1>2, <1>3, Zenon DEF NoAnswer

\* A step that disturbs nothing of Shared.
LEMMA SharedKept ==
    ASSUME TNat, Shared, \A d \in Callers : Quiet(d),
           sendSem' = sendSem, sid' = sid, session' = session, waitList' = waitList,
           freeWait' = freeWait, freeCall' = freeCall, todo' = todo, sent' = sent, hdr' = hdr
    PROVE  Shared'
<1>1. SemDown'
  BY SemKept, Zenon DEF Shared, Quiet
<1>2. Numbers'
  BY NumbersKept, Zenon DEF Shared, Quiet, TNat
<1>3. WaitsHeld' /\ WaitsConserved'
  BY WaitsKept, Zenon DEF Shared, Quiet
<1>4. SlotsHeld'
  BY SlotsHeldKept, Zenon DEF Shared, Quiet
<1>5. SlotExclusive'
  BY SlotsKeptSame, Zenon DEF Shared, Quiet
<1>. QED  BY <1>1, <1>2, <1>3, <1>4, <1>5, Zenon DEF Shared

\* A step that disturbs nothing of Acked.
LEMMA AckedKept ==
    ASSUME Acked, \A d \in Callers : Steady(d),
           sent' = sent, acks' = acks, ackSent' = ackSent, ackSem' = ackSem, hdr' = hdr,
           call' = call, taken' = taken, freeCall' = freeCall, todo' = todo
    PROVE  Acked'
<1>1. AckPending'
  BY AckKept, Zenon DEF Acked, Steady
<1>2. AckIsOwn'
  BY OwnKept, Zenon DEF Acked, Steady
<1>3. SlotsKept'
  BY SlotsKeptSame, Zenon DEF Acked, Steady
<1>. QED  BY <1>1, <1>2, <1>3, Zenon DEF Acked

\* A step that disturbs nothing of Exact.
LEMMA ExactKept ==
    ASSUME Exact, \A d \in Callers : Calm(d), sent' = sent, todo' = todo,
           freeRet' = freeRet, returns' = returns, retSent' = retSent, retWork' = retWork,
           retHdr' = retHdr, retBusy' = retBusy, ret' = ret, waitSem' = waitSem
    PROVE  Exact'
<1>0. RetLive' <=> RetLive
  BY Zenon DEF RetLive
<1>1. RetSlots'
  BY <1>0, RetKept, Zenon DEF Exact
<1>2. AnswerOnce'
  BY <1>0, AnswersKept, AwaitsCollects, Zenon DEF Exact, Calm, Steady
<1>3. Signals'
  BY SignalsKept, AwaitsCollects, Zenon DEF Exact, Calm
<1>4. CallHasResult'
  BY ResultKept, Zenon DEF Exact, Calm
<1>. QED  BY <1>1, <1>2, <1>3, <1>4, Zenon DEF Exact

\* What is left to show of a step that no timeout runs out in, ...
LEMMA StepInv ==
    ASSUME RpcIInv, late' = late, TypeOK', Places', Headers', RetOne',
           NoBypass /\ Shared => Shared',
           NoAckTimeout /\ Shared /\ Acked => Acked',
           NoTimeout /\ Shared /\ Acked /\ Exact => Exact'
    PROVE  RpcIInv'
<1>1. (NoBypass' <=> NoBypass) /\ (NoAckTimeout' <=> NoAckTimeout) /\ (NoTimeout' <=> NoTimeout)
  BY Zenon DEF NoBypass, NoAckTimeout, NoTimeout
<1>2. (NoTimeout => NoAckTimeout) /\ (NoAckTimeout => NoBypass)
  BY Zenon DEF NoBypass, NoAckTimeout, NoTimeout
<1>. QED  BY <1>1, <1>2, Zenon DEF RpcIInv

\* ... and of one that the 100 ms, the CALL_ACK's or the RETURN's timeout runs out in.
LEMMA TimeoutInv ==
    ASSUME RpcIInv, NEW t \in {"sem", "ack", "ret"}, late' = late \cup {t},
           TypeOK', Places', Headers', RetOne',
           t # "sem" /\ NoBypass /\ Shared => Shared',
           t = "ret" /\ NoAckTimeout /\ Shared /\ Acked => Acked'
    PROVE  RpcIInv'
<1>1. /\ NoBypass' => t # "sem" /\ NoBypass
      /\ NoAckTimeout' => t = "ret" /\ NoAckTimeout
      /\ ~NoTimeout'
  BY Zenon DEF NoBypass, NoAckTimeout, NoTimeout
<1>2. NoAckTimeout => NoBypass
  BY Zenon DEF NoBypass, NoAckTimeout
<1>. QED  BY <1>1, <1>2, Zenon DEF RpcIInv

\* The entry that GetWaitbySessionId finds is the thread's own: an entry on the
\* active list has the session of its holder, and a session has one holder.
LEMMA OwnEntry ==
    ASSUME Places, Numbers, WaitsHeld, NEW c \in Callers, Holding(c),
           NEW w \in waitList, session[w] = sess[c]
    PROVE  w = wait[c]
<1>1. PICK d \in Callers : Holding(d) /\ wait[d] = w
  BY Zenon DEF WaitsHeld
<1>2. session[wait[d]] = sess[d]
  BY <1>1, Zenon DEF WaitsHeld
<1>3. sess[c] # 0
  BY Zenon DEF Places, Place
<1>4. d = c
  BY <1>1, <1>2, <1>3, Zenon DEF Numbers
<1>. QED  BY <1>1, <1>4

\* A wait entry has one holder.
LEMMA OneHolder ==
    ASSUME Places, Numbers, WaitsHeld, NEW c \in Callers, Holding(c),
           NEW d \in Callers, Holding(d), wait[c] = wait[d]
    PROVE  c = d
<1>1. session[wait[c]] = sess[c] /\ session[wait[d]] = sess[d]
  BY Zenon DEF WaitsHeld
<1>2. sess[c] # 0
  BY Zenon DEF Places, Place
<1>. QED  BY <1>1, <1>2, Zenon DEF Numbers

\* ReleaseWaitComm: the holder gives its entry back.
LEMMA EntryReleased ==
    ASSUME TFree, TWait, Places, Numbers, WaitsHeld, WaitsConserved,
           NEW c \in Callers, Holding(c),
           waitList' = waitList \ {wait[c]}, freeWait' = Append(freeWait, wait[c]),
           session' = session, wait' = wait, sess' = sess,
           \A d \in Callers : Holding(d)' <=> Holding(d) /\ d # c,
           \A d \in Callers : pc'[d] = "addwait" => pc[d] = "addwait"
    PROVE  WaitsHeld' /\ WaitsConserved'
<1>1. /\ wait[c] \in waitList /\ waitList \subseteq Waits
      /\ Distinct(freeWait) /\ Entries(freeWait) = Waits \ waitList
  BY DEF WaitsHeld, WaitsConserved, TWait, Entries
<1>2. /\ Distinct(freeWait') /\ Entries(freeWait') = Entries(freeWait) \cup {wait[c]}
      /\ freeWait' # << >>
      /\ freeWait # << >> => Head(freeWait') = Head(freeWait)
  BY <1>1, PutFree DEF TFree
<1>3. Entries(freeWait') = Waits \ waitList'
  BY <1>1, <1>2
<1>4. WaitsConserved'
  BY <1>2, <1>3 DEF WaitsConserved, Entries
<1>5. \A d \in Callers : Holding(d)' => wait'[d] \in waitList' /\ session'[wait'[d]] = sess'[d]
  BY OneHolder DEF WaitsHeld
<1>6. \A w \in waitList' : \E d \in Callers : Holding(d)' /\ wait'[d] = w
  BY DEF WaitsHeld
<1>7. \A d \in Callers : pc'[d] = "addwait" => freeWait' # << >> /\ wait'[d] = Head(freeWait')
  BY <1>2 DEF WaitsHeld
<1>8. WaitsHeld'
  BY <1>5, <1>6, <1>7 DEF WaitsHeld
<1>. QED  BY <1>4, <1>8

\* An up of a semaphore, if there is one of that name.
LEMMA Bump ==
    ASSUME NEW D, NEW f \in [D -> Nat], NEW x
    PROVE  [f EXCEPT ![x] = f[x] + 1] \in [D -> Nat]
<1>1. CASE x \in D
  BY <1>1
<1>2. CASE x \notin D
  <2>1. [f EXCEPT ![x] = f[x] + 1] = f
    BY <1>2
  <2>. QED  BY <2>1, Zenon
<1>. QED  BY <1>1, <1>2

\* The MIPS gives the slot of a call back.
LEMMA SlotReturned ==
    ASSUME TFree, TMips, SlotExclusive, SlotsHeld, NEW m \in todo,
           freeCall' = Append(freeCall, m.slot), todo' = todo \ {m},
           pc' = pc, slot' = slot, sent' = sent, hdr' = hdr
    PROVE  SlotExclusive' /\ SlotsHeld' /\ (SlotsKept => SlotsKept')
<1>1. m.slot \in Calls /\ m.slot \in WithMips
  BY Zenon DEF TMips, Message, WithMips
<1>2. /\ Distinct(freeCall) /\ FreeCalls \cap WithMips = {} /\ FreeCalls \cap WithSender = {}
      /\ WithMips \cap WithSender = {} /\ \A n \in todo : m.slot = n.slot => m = n
      /\ freeCall \in Seq(Calls)
  BY Zenon DEF SlotExclusive, TFree
<1>3. m.slot \notin FreeCalls
  BY <1>1, <1>2, Zenon
<1>4. /\ Distinct(freeCall') /\ FreeCalls' = FreeCalls \cup {m.slot}
      /\ freeCall # << >> => Head(freeCall') = Head(freeCall) /\ freeCall' # << >>
  <2>1. freeCall \in Seq(Calls) /\ m.slot \in Calls /\ Distinct(freeCall) /\ m.slot \notin Entries(freeCall)
    BY <1>1, <1>2, <1>3, Zenon DEF FreeCalls, Entries
  <2>2. /\ Distinct(Append(freeCall, m.slot))
        /\ Entries(Append(freeCall, m.slot)) = Entries(freeCall) \cup {m.slot}
        /\ Append(freeCall, m.slot) # << >>
        /\ freeCall # << >> => Head(Append(freeCall, m.slot)) = Head(freeCall)
    BY <2>1, PutFree
  <2>. QED  BY <2>2, Zenon DEF FreeCalls, Entries
<1>5. \A x : x \in WithMips' <=> x \in WithMips /\ x # m.slot
  BY <1>2, Zenon DEF WithMips
<1>6. WithSender' = WithSender
  BY Zenon DEF WithSender
<1>7. SlotExclusive'
  <2>1. \A n, k \in todo' : n.slot = k.slot => n = k
    BY Zenon DEF SlotExclusive
  <2>2. /\ FreeCalls' \cap WithMips' = {} /\ FreeCalls' \cap WithSender' = {}
        /\ WithMips' \cap WithSender' = {}
    BY <1>1, <1>2, <1>4, <1>5, <1>6, Zenon
  <2>. QED  BY <1>4, <2>1, <2>2, Zenon DEF SlotExclusive
<1>8. SlotsHeld'
  BY <1>4, Zenon DEF SlotsHeld, Fills
<1>9. ASSUME SlotsKept PROVE SlotsKept'
  <2>1. \A x : x \in FreeCalls' \cup WithMips' \cup WithSender' <=>
               x \in FreeCalls \cup WithMips \cup WithSender
    BY <1>1, <1>4, <1>5, <1>6, Zenon
  <2>. QED  BY <1>9, <2>1, Zenon DEF SlotsKept
<1>. QED  BY <1>7, <1>8, <1>9

\* CPUComm_CallEx or CPUComm_Notify is entered.
LEMMA BeginInv ==
    ASSUME RpcIInv, NEW c \in Callers, NEW k \in {"call", "notify"}, Begin(c, k)
    PROVE  RpcIInv'
<1>0. /\ TNat /\ TFree /\ TWait /\ TCall /\ TRet /\ TBool /\ TPc /\ TLoc /\ TCase /\ TMips
      /\ Places /\ Place(c) /\ Headers /\ RetOne
  BY TypeGroups, Zenon DEF RpcIInv, Places
<1>1. /\ pc[c] = "idle" /\ Goto(c, "down") /\ begun < case.calls /\ begun' = begun + 1
      /\ kind' = [kind EXCEPT ![c] = k] /\ sess' = [sess EXCEPT ![c] = 0]
      /\ slot' = [slot EXCEPT ![c] = None] /\ wait' = [wait EXCEPT ![c] = None]
      /\ status' = [status EXCEPT ![c] = "none"] /\ result' = [result EXCEPT ![c] = 0]
  BY Zenon DEF Begin
<1>2. UNCHANGED <<sendSem, ackSem, sid, freeWait, session, waitSem, waitList, freeCall, cmd, call,
                 hdr, sent, ret, retHdr, retSent, ackSent, returns, retAck, callIrq, ackIrq,
                 retIrq, ackWork, retWork, retBusy, case, late, freeRet, todo, acks, unacked,
                 taken>>
  BY Zenon DEF Begin, sockVars, waitVars, callVars, retVars, irqVars, mipsVars
<1>3. /\ pc'[c] = "down" /\ kind'[c] = k /\ sess'[c] = 0 /\ slot'[c] = None /\ wait'[c] = None
      /\ status'[c] = "none" /\ result'[c] = 0
      /\ \A d \in Callers : d # c => Same(d)
  BY <1>0, <1>1, <1>2, Goes, ZenonT(60) DEF TLoc, Same, Locals
<1>4. TypeOK'
  <2>1. TPc'
    BY <1>0, <1>1, Zenon DEF TPc, Goto, Sending
  <2>2. TLoc'
    BY <1>0, <1>1, Zenon DEF TLoc, Waitings
  <2>3. TCase'
    BY <1>0, <1>1, <1>2, RpcAssumption DEF TCase
  <2>4. TNat' /\ TFree' /\ TWait' /\ TCall' /\ TRet' /\ TBool' /\ TMips'
    BY <1>0, <1>2, TypesKept, Zenon
  <2>. QED  BY <2>1, <2>2, <2>3, <2>4, TypeGroupsNext, Zenon
<1>5. Place(c)'
  BY <1>0, <1>1, <1>3, Zenon DEF Place, Fills, AtAck, Holding, Locals
<1>6. Places' /\ \A d \in Callers : d # c => SamePhase(d) /\ Quiet(d) /\ Calm(d)
  BY <1>0, <1>3, <1>5, OthersSame, Zenon
<1>7. /\ ~Fills(c) /\ ~AtAck(c) /\ ~Holding(c) /\ ~Awaits(c) /\ ~Collects(c)
      /\ ~Fills(c)' /\ ~AtAck(c)' /\ ~Holding(c)' /\ ~Awaits(c)' /\ ~Collects(c)'
  BY <1>0, <1>1, <1>3, Zenon DEF Place, Fills, AtAck, Holding, Awaits, Collects, Locals
<1>q. Quiet(c)
  BY <1>0, <1>1, <1>3, <1>7, Zenon DEF Quiet, SamePhase, Sending, Locals, Place
<1>c. Calm(c)
  BY <1>0, <1>1, <1>3, <1>7, Zenon DEF Calm, Steady, SamePhase, Sending, Locals, Place
<1>8. ASSUME NoBypass, Shared PROVE Shared'
  BY <1>0, <1>2, <1>6, <1>q, <1>8, SharedKept, Zenon
<1>9. ASSUME NoAckTimeout, Shared, Acked PROVE Acked'
  BY <1>2, <1>6, <1>c, <1>9, AckedKept, Zenon DEF Calm
<1>e. ASSUME NoTimeout, Shared, Acked, Exact PROVE Exact'
  BY <1>2, <1>6, <1>c, <1>e, ExactKept, Zenon
<1>10. Headers' /\ RetOne' /\ late' = late
  BY <1>0, <1>2, Zenon DEF Headers, RetOne, RetLive
<1>. QED  BY <1>4, <1>6, <1>8, <1>9, <1>e, <1>10, StepInv, Zenon

\* The send semaphore is taken: nobody sends.
LEMMA AcquireSendInv ==
    ASSUME RpcIInv, NEW c \in Callers, AcquireSend(c)
    PROVE  RpcIInv'
<1>0. /\ TNat /\ TFree /\ TWait /\ TCall /\ TRet /\ TBool /\ TPc /\ TLoc /\ TCase /\ TMips
      /\ Places /\ Place(c) /\ Headers /\ RetOne
  BY TypeGroups, Zenon DEF RpcIInv, Places
<1>1. /\ pc[c] = "down" /\ Goto(c, "getcall")
      /\ sendSem > 0 /\ sendSem' = sendSem - 1
  BY Zenon DEF AcquireSend
<1>2. UNCHANGED <<ackSem, sid, freeWait, session, waitSem, waitList, freeCall, cmd, call, hdr, sent,
                 ret, retHdr, retSent, ackSent, returns, retAck, callIrq, ackIrq, retIrq,
                 ackWork, retWork, retBusy, kind, slot, sess, wait, status, result, begun,
                 case, late, freeRet, todo, acks, unacked, taken>>
  BY Zenon DEF AcquireSend, waitVars, callVars, retVars, irqVars, locals, mipsVars
<1>3. /\ pc'[c] = "getcall" /\ Locals(c)
      /\ \A d \in Callers : d # c => Same(d)
  BY <1>0, <1>1, <1>2, Goes, Zenon DEF Same, Locals
<1>4. TypeOK'
  <2>1. TNat'
    BY <1>0, <1>1, <1>2 DEF TNat
  <2>2. TPc'
    BY <1>0, <1>1, Zenon DEF TPc, Goto, Sending
  <2>3. TFree' /\ TWait' /\ TCall' /\ TRet' /\ TBool' /\ TLoc' /\ TCase' /\ TMips'
    BY <1>0, <1>2, TypesKept, Zenon
  <2>. QED  BY <2>1, <2>2, <2>3, TypeGroupsNext, Zenon
<1>5. Place(c)'
  BY <1>0, <1>1, <1>3, Zenon DEF Place, Fills, AtAck, Holding, Locals
<1>6. Places' /\ \A d \in Callers : d # c => SamePhase(d) /\ Quiet(d) /\ Calm(d)
  BY <1>0, <1>3, <1>5, OthersSame, Zenon
<1>7. /\ ~Fills(c) /\ ~AtAck(c) /\ ~Holding(c) /\ ~Awaits(c) /\ ~Collects(c)
      /\ ~Fills(c)' /\ ~AtAck(c)' /\ ~Holding(c)' /\ ~Awaits(c)' /\ ~Collects(c)'
  BY <1>0, <1>1, <1>3, Zenon DEF Place, Fills, AtAck, Holding, Awaits, Collects, Locals
<1>c. Calm(c)
  BY <1>0, <1>1, <1>3, <1>7, Zenon DEF Calm, Steady, SamePhase, Sending, Locals, Place
<1>8. ASSUME NoBypass, Shared PROVE Shared'
  <2>1. SemDown'
    BY <1>0, <1>1, <1>3, <1>8 DEF Shared, SemDown, TNat, Same, Locals, Sending
  <2>2. Numbers'
    BY <1>0, <1>1, <1>2, <1>3, <1>6, <1>7, <1>8, NumbersKept, Zenon DEF Shared, Quiet, Locals, Sending, TNat
  <2>3. WaitsHeld' /\ WaitsConserved'
    BY <1>0, <1>1, <1>2, <1>3, <1>6, <1>7, <1>8, WaitsKept, Zenon DEF Shared, Quiet, Locals, Sending, TNat
  <2>4. SlotsHeld'
    BY <1>0, <1>1, <1>2, <1>3, <1>6, <1>7, <1>8, SlotsHeldKept, Zenon DEF Shared, Quiet, Locals, Sending, TNat
  <2>5. SlotExclusive'
    BY <1>0, <1>1, <1>2, <1>3, <1>6, <1>7, <1>8, SlotsKeptSame, Zenon DEF Shared, Quiet, Locals, Sending, TNat
  <2>. QED  BY <2>1, <2>2, <2>3, <2>4, <2>5, Zenon DEF Shared
<1>9. ASSUME NoAckTimeout, Shared, Acked PROVE Acked'
  BY <1>2, <1>6, <1>c, <1>9, AckedKept, Zenon DEF Calm
<1>e. ASSUME NoTimeout, Shared, Acked, Exact PROVE Exact'
  BY <1>2, <1>6, <1>c, <1>e, ExactKept, Zenon
<1>10. Headers' /\ RetOne' /\ late' = late
  BY <1>0, <1>2, Zenon DEF Headers, RetOne, RetLive
<1>. QED  BY <1>4, <1>6, <1>8, <1>9, <1>e, <1>10, StepInv, Zenon

\* A caller goes past the send semaphore: from here on nothing is claimed of the pools.
LEMMA BypassSendInv ==
    ASSUME RpcIInv, NEW c \in Callers, BypassSend(c)
    PROVE  RpcIInv'
<1>0. /\ TNat /\ TFree /\ TWait /\ TCall /\ TRet /\ TBool /\ TPc /\ TLoc /\ TCase /\ TMips
      /\ Places /\ Place(c) /\ Headers /\ RetOne
  BY TypeGroups, Zenon DEF RpcIInv, Places
<1>1. /\ pc[c] = "down" /\ Goto(c, "getcall")
      /\ "sem" \in case.may /\ late' = late \cup {"sem"}
  BY Zenon DEF BypassSend
<1>2. UNCHANGED <<sendSem, ackSem, sid, freeWait, session, waitSem, waitList, freeCall, cmd, call, hdr, sent,
                 ret, retHdr, retSent, ackSent, returns, retAck, callIrq, ackIrq, retIrq,
                 ackWork, retWork, retBusy, kind, slot, sess, wait, status, result, begun,
                 case, freeRet, todo, acks, unacked, taken>>
  BY Zenon DEF BypassSend, sockVars, waitVars, callVars, retVars, irqVars, mipsVars
<1>3. /\ pc'[c] = "getcall" /\ Locals(c)
      /\ \A d \in Callers : d # c => Same(d)
  BY <1>0, <1>1, <1>2, Goes, Zenon DEF Same, Locals
<1>4. TypeOK'
  <2>1. TPc'
    BY <1>0, <1>1, Zenon DEF TPc, Goto, Sending
  <2>2. TCase'
    BY <1>0, <1>1, <1>2, Zenon DEF TCase
  <2>3. TNat' /\ TFree' /\ TWait' /\ TCall' /\ TRet' /\ TBool' /\ TLoc' /\ TMips'
    BY <1>0, <1>2, TypesKept, Zenon
  <2>. QED  BY <2>1, <2>2, <2>3, TypeGroupsNext, Zenon
<1>5. Place(c)'
  BY <1>0, <1>1, <1>3, Zenon DEF Place, Fills, AtAck, Holding, Locals
<1>6. Places' /\ \A d \in Callers : d # c => SamePhase(d) /\ Quiet(d) /\ Calm(d)
  BY <1>0, <1>3, <1>5, OthersSame, Zenon
<1>7. Headers' /\ RetOne'
  BY <1>0, <1>2, Zenon DEF Headers, RetOne, RetLive
<1>8. "sem" \in {"sem", "ack", "ret"} /\ "sem" # "ret"
  BY SMT
<1>. QED  BY <1>1, <1>4, <1>6, <1>7, <1>8, TimeoutInv, Zenon

\* No call slot: the send fails.
LEMMA SendBusyInv ==
    ASSUME RpcIInv, NEW c \in Callers, SendBusy(c)
    PROVE  RpcIInv'
<1>0. /\ TNat /\ TFree /\ TWait /\ TCall /\ TRet /\ TBool /\ TPc /\ TLoc /\ TCase /\ TMips
      /\ Places /\ Place(c) /\ Headers /\ RetOne
  BY TypeGroups, Zenon DEF RpcIInv, Places
<1>1. /\ pc[c] = "getcall" /\ Goto(c, "up")
      /\ status' = [status EXCEPT ![c] = "busy"]
  BY Zenon DEF SendBusy
<1>2. UNCHANGED <<sendSem, ackSem, sid, freeWait, session, waitSem, waitList, freeCall, cmd, call,
                 hdr, sent, ret, retHdr, retSent, ackSent, returns, retAck, callIrq, ackIrq,
                 retIrq, ackWork, retWork, retBusy, kind, slot, sess, wait, result, begun,
                 case, late, freeRet, todo, acks, unacked, taken>>
  BY Zenon DEF SendBusy, sockVars, waitVars, callVars, retVars, irqVars, mipsVars
<1>3. /\ pc'[c] = "up" /\ status'[c] = "busy" /\ kind'[c] = kind[c] /\ slot'[c] = slot[c]
      /\ sess'[c] = sess[c] /\ wait'[c] = wait[c] /\ result'[c] = result[c]
      /\ \A d \in Callers : d # c => Same(d)
  BY <1>0, <1>1, <1>2, Goes, Zenon DEF TLoc, Same, Locals
<1>4. TypeOK'
  <2>1. TPc'
    BY <1>0, <1>1, Zenon DEF TPc, Goto, Sending
  <2>2. TLoc'
    BY <1>0, <1>1, <1>2, Zenon DEF TLoc
  <2>3. TNat' /\ TFree' /\ TWait' /\ TCall' /\ TRet' /\ TBool' /\ TCase' /\ TMips'
    BY <1>0, <1>2, TypesKept, Zenon
  <2>. QED  BY <2>1, <2>2, <2>3, TypeGroupsNext, Zenon
<1>5. Place(c)'
  BY <1>0, <1>1, <1>3, Zenon DEF Place, Fills, AtAck, Holding, Locals
<1>6. Places' /\ \A d \in Callers : d # c => SamePhase(d) /\ Quiet(d) /\ Calm(d)
  BY <1>0, <1>3, <1>5, OthersSame, Zenon
<1>7. /\ ~Fills(c) /\ ~AtAck(c) /\ ~Holding(c) /\ ~Awaits(c) /\ ~Collects(c)
      /\ ~Fills(c)' /\ ~AtAck(c)' /\ ~Holding(c)' /\ ~Awaits(c)' /\ ~Collects(c)'
  BY <1>0, <1>1, <1>3, Zenon DEF Place, Fills, AtAck, Holding, Awaits, Collects, Locals
<1>q. Quiet(c)
  BY <1>0, <1>1, <1>3, <1>7, Zenon DEF Quiet, SamePhase, Sending, Locals, Place
<1>c. Calm(c)
  BY <1>0, <1>1, <1>3, <1>7, Zenon DEF Calm, Steady, SamePhase, Sending, Locals, Place
<1>8. ASSUME NoBypass, Shared PROVE Shared'
  BY <1>0, <1>2, <1>6, <1>q, <1>8, SharedKept, Zenon
<1>9. ASSUME NoAckTimeout, Shared, Acked PROVE Acked'
  BY <1>2, <1>6, <1>c, <1>9, AckedKept, Zenon DEF Calm
<1>e. ASSUME NoTimeout, Shared, Acked, Exact PROVE Exact'
  BY <1>2, <1>6, <1>c, <1>e, ExactKept, Zenon
<1>10. Headers' /\ RetOne' /\ late' = late
  BY <1>0, <1>2, Zenon DEF Headers, RetOne, RetLive
<1>. QED  BY <1>4, <1>6, <1>8, <1>9, <1>e, <1>10, StepInv, Zenon

\* The head of the FreeCall FIFO is read.
LEMMA GetFreeCallInv ==
    ASSUME RpcIInv, NEW c \in Callers, Comm_GetFreeCall(c)
    PROVE  RpcIInv'
<1>0. /\ TNat /\ TFree /\ TWait /\ TCall /\ TRet /\ TBool /\ TPc /\ TLoc /\ TCase /\ TMips
      /\ Places /\ Place(c) /\ Headers /\ RetOne
  BY TypeGroups, Zenon DEF RpcIInv, Places
<1>1. /\ pc[c] = "getcall" /\ Goto(c, "session") /\ freeCall # << >>
      /\ slot' = [slot EXCEPT ![c] = Head(freeCall)]
  BY Zenon DEF Comm_GetFreeCall
<1>2. UNCHANGED <<sendSem, ackSem, sid, freeWait, session, waitSem, waitList, freeCall, cmd, call,
                 hdr, sent, ret, retHdr, retSent, ackSent, returns, retAck, callIrq, ackIrq,
                 retIrq, ackWork, retWork, retBusy, kind, sess, wait, status, result, begun,
                 case, late, freeRet, todo, acks, unacked, taken>>
  BY Zenon DEF Comm_GetFreeCall, sockVars, waitVars, callVars, retVars, irqVars, mipsVars
<1>3. /\ pc'[c] = "session" /\ slot'[c] = Head(freeCall) /\ Head(freeCall) \in Calls /\ status'[c] = status[c]
      /\ kind'[c] = kind[c] /\ wait'[c] = wait[c] /\ sess'[c] = sess[c] /\ result'[c] = result[c]
      /\ \A d \in Callers : d # c => Same(d)
  <2>1. Head(freeCall) \in Calls
    BY <1>0, <1>1, SeqFacts, Zenon DEF TFree
  <2>. QED  BY <1>0, <1>1, <1>2, <2>1, Goes, Zenon DEF TLoc, Same, Locals
<1>4. TypeOK'
  <2>1. TPc'
    BY <1>0, <1>1, Zenon DEF TPc, Goto, Sending
  <2>2. TLoc'
    BY <1>0, <1>1, <1>2, <1>3, Zenon DEF TLoc
  <2>3. TNat' /\ TFree' /\ TWait' /\ TCall' /\ TRet' /\ TBool' /\ TCase' /\ TMips'
    BY <1>0, <1>2, TypesKept, Zenon
  <2>. QED  BY <2>1, <2>2, <2>3, TypeGroupsNext, Zenon
<1>5. Place(c)'
  BY <1>0, <1>1, <1>3, Zenon DEF Place, Fills, AtAck, Holding, Locals
<1>6. Places' /\ \A d \in Callers : d # c => SamePhase(d) /\ Quiet(d) /\ Calm(d)
  BY <1>0, <1>3, <1>5, OthersSame, Zenon
<1>7. /\ ~Fills(c) /\ ~AtAck(c) /\ ~Holding(c) /\ ~Awaits(c) /\ ~Collects(c)
      /\ ~Fills(c)' /\ ~AtAck(c)' /\ ~Holding(c)' /\ ~Awaits(c)' /\ ~Collects(c)'
  BY <1>0, <1>1, <1>3, Zenon DEF Place, Fills, AtAck, Holding, Awaits, Collects, Locals
<1>c. Calm(c)
  BY <1>0, <1>1, <1>3, <1>7, Zenon DEF Calm, Steady, SamePhase, Sending, Locals, Place
<1>8. ASSUME NoBypass, Shared PROVE Shared'
  <2>1. SemDown'
    BY <1>0, <1>1, <1>2, <1>3, <1>6, <1>7, <1>8, SemKept, Zenon DEF Shared, Quiet, Locals, Sending, TNat
  <2>2. Numbers'
    BY <1>0, <1>1, <1>2, <1>3, <1>6, <1>7, <1>8, NumbersKept, Zenon DEF Shared, Quiet, Locals, Sending, TNat
  <2>3. WaitsHeld' /\ WaitsConserved'
    BY <1>0, <1>1, <1>2, <1>3, <1>6, <1>7, <1>8, WaitsKept, Zenon DEF Shared, Quiet, Locals, Sending, TNat
  <2>4. SlotsHeld'
    <3>1. \A d \in Callers : pc'[d] = "session" => freeCall' # << >> /\ slot'[d] = Head(freeCall')
      BY <1>1, <1>2, <1>3, <1>6, <1>8, ZenonT(60) DEF Shared, SlotsHeld, Quiet
    <3>2. \A d \in Callers : Fills(d)' /\ sent' => slot'[d] # hdr'
      BY <1>2, <1>6, <1>7, <1>8, Zenon DEF Shared, SlotsHeld, Quiet
    <3>. QED  BY <3>1, <3>2, Zenon DEF SlotsHeld
  <2>5. SlotExclusive'
    BY <1>0, <1>1, <1>2, <1>3, <1>6, <1>7, <1>8, SlotsKeptSame, Zenon DEF Shared, Quiet, Locals, Sending, TNat
  <2>. QED  BY <2>1, <2>2, <2>3, <2>4, <2>5, Zenon DEF Shared
<1>9. ASSUME NoAckTimeout, Shared, Acked PROVE Acked'
  BY <1>2, <1>6, <1>c, <1>9, AckedKept, Zenon DEF Calm
<1>e. ASSUME NoTimeout, Shared, Acked, Exact PROVE Exact'
  BY <1>2, <1>6, <1>c, <1>e, ExactKept, Zenon
<1>10. Headers' /\ RetOne' /\ late' = late
  BY <1>0, <1>2, Zenon DEF Headers, RetOne, RetLive
<1>. QED  BY <1>4, <1>6, <1>8, <1>9, <1>e, <1>10, StepInv, Zenon

\* The slot leaves the FIFO; the session number is the next one, and nobody else is about
\* to take it.
LEMMA LoadSessionInv ==
    ASSUME RpcIInv, NEW c \in Callers, LoadSession(c)
    PROVE  RpcIInv'
<1>0. /\ TNat /\ TFree /\ TWait /\ TCall /\ TRet /\ TBool /\ TPc /\ TLoc /\ TCase /\ TMips
      /\ Places /\ Place(c) /\ Headers /\ RetOne
  BY TypeGroups, Zenon DEF RpcIInv, Places
<1>1. /\ pc[c] = "session" /\ Goto(c, "store")
      /\ freeCall' = IF freeCall = << >> THEN freeCall ELSE Tail(freeCall)
      /\ sess' = [sess EXCEPT ![c] = sid + 1]
  BY Zenon DEF LoadSession
<1>2. UNCHANGED <<sendSem, ackSem, sid, freeWait, session, waitSem, waitList, cmd, call, hdr, sent, ret,
                 retHdr, retSent, ackSent, returns, retAck, callIrq, ackIrq, retIrq, ackWork,
                 retWork, retBusy, kind, slot, wait, status, result, begun, case, late,
                 freeRet, todo, acks, unacked, taken>>
  BY Zenon DEF LoadSession, sockVars, waitVars, retVars, irqVars, mipsVars
<1>3. /\ pc'[c] = "store"
      /\ sess'[c] = sid + 1 /\ slot'[c] = slot[c] /\ status'[c] = status[c]
      /\ kind'[c] = kind[c] /\ wait'[c] = wait[c] /\ result'[c] = result[c]
      /\ \A d \in Callers : d # c => Same(d)
  <2>1. sid + 1 \in Nat
    BY <1>0 DEF TNat
  <2>. QED  BY <1>0, <1>1, <1>2, <2>1, Goes, Zenon DEF TLoc, Same, Locals
<1>4. TypeOK'
  <2>2. TFree'
    BY <1>0, <1>1, <1>2, SeqFacts, Zenon DEF TFree
  <2>3. TPc'
    BY <1>0, <1>1, Zenon DEF TPc, Goto, Sending
  <2>4. TLoc'
    <3>1. sid + 1 \in Nat
      BY <1>0 DEF TNat
    <3>. QED  BY <1>0, <1>1, <1>2, <3>1, Zenon DEF TLoc
  <2>5. TNat' /\ TWait' /\ TCall' /\ TRet' /\ TBool' /\ TCase' /\ TMips'
    BY <1>0, <1>2, TypesKept, Zenon
  <2>. QED  BY <2>2, <2>3, <2>4, <2>5, TypeGroupsNext, Zenon
<1>5. Place(c)'
  <2>1. sid + 1 # 0
    BY <1>0 DEF TNat
  <2>2. /\ wait'[c] = None /\ status'[c] # "ok" /\ slot'[c] \in Calls /\ sess'[c] # 0
    BY <1>0, <1>1, <1>3, <2>1, Zenon DEF Place
  <2>. QED  BY <1>3, <2>2, Zenon DEF Place, Fills, AtAck, Holding
<1>6. Places' /\ \A d \in Callers : d # c => SamePhase(d) /\ Quiet(d) /\ Calm(d)
  BY <1>0, <1>3, <1>5, OthersSame, Zenon
<1>7. /\ ~Fills(c) /\ ~AtAck(c) /\ ~Holding(c) /\ ~Awaits(c) /\ ~Collects(c)
      /\ Fills(c)' /\ ~AtAck(c)' /\ ~Holding(c)' /\ ~Awaits(c)' /\ ~Collects(c)'
  BY <1>0, <1>1, <1>3, Zenon DEF Place, Fills, AtAck, Holding, Awaits, Collects, Locals
<1>s. ASSUME Shared
      PROVE  /\ slot[c] \in FreeCalls /\ FreeCalls' = FreeCalls \ {slot[c]} /\ Distinct(freeCall')
             /\ WithMips' = WithMips
             /\ \A x : x \in WithSender' <=> x \in WithSender \/ x = slot[c]
  <2>1. freeCall # << >> /\ slot[c] = Head(freeCall) /\ Distinct(freeCall) /\ freeCall' = Tail(freeCall)
    BY <1>1, <1>s, Zenon DEF Shared, SlotsHeld, SlotExclusive
  <2>2. slot[c] \in FreeCalls /\ FreeCalls' = FreeCalls \ {slot[c]} /\ Distinct(freeCall')
    <3>1. FreeCalls = Entries(freeCall) /\ FreeCalls' = Entries(Tail(freeCall))
      BY <2>1, Zenon DEF FreeCalls, Entries
    <3>. QED  BY <1>0, <2>1, <3>1, TakeFree, ZenonT(60) DEF TFree
  <2>3. WithMips' = WithMips
    BY <1>2, Zenon DEF WithMips
  <2>4. \A x : x \in WithSender' <=> x \in WithSender \/ x = slot[c]
    BY <1>2, <1>3, <1>6, <1>7, SenderSlots, SenderSlotsNext, Zenon DEF Quiet
  <2>. QED  BY <2>2, <2>3, <2>4, Zenon
<1>8. ASSUME NoBypass, Shared PROVE Shared'
  <2>0. \A d \in Callers : d # c => pc[d] \notin Sending
    BY <1>1, <1>8, Zenon DEF Shared, SemDown, Sending
  <2>1. SemDown'
    BY <1>0, <1>1, <1>2, <1>3, <1>6, <1>7, <1>8, SemKept, Zenon DEF Shared, Quiet, Locals, Sending, TNat
  <2>2. Numbers'
    <3>1. \A d \in Callers : d # c => sess'[d] = sess[d] /\ pc'[d] = pc[d] /\ sess[d] \in Nat /\ sess[d] <= sid
      BY <1>0, <1>3, <1>8, <2>0, Zenon DEF Shared, Numbers, Same, Locals, TLoc, Sending
    <3>2. sid \in Nat /\ \A d \in Callers : d # c => pc'[d] # "store"
      BY <1>0, <2>0, <3>1, Zenon DEF TNat, Sending
    <3>3. ASSUME NEW d \in Callers PROVE IF pc'[d] = "store" THEN sess'[d] = sid' + 1 ELSE sess'[d] <= sid'
      BY <1>2, <1>3, <3>1, <3>2
    <3>4. \A d \in Callers : d # c => sess'[d] # sess'[c]
      BY <1>3, <3>1, <3>2
    <3>5. \A d, e \in Callers : d # c /\ e # c /\ sess'[d] = sess'[e] /\ sess'[d] # 0 => d = e
      BY <1>8, <3>1, Zenon DEF Shared, Numbers
    <3>. QED  BY <3>3, <3>4, <3>5, Zenon DEF Numbers
  <2>3. WaitsHeld' /\ WaitsConserved'
    BY <1>0, <1>1, <1>2, <1>3, <1>6, <1>7, <1>8, WaitsKept, Zenon DEF Shared, Quiet, Locals, Sending, TNat
  <2>4. SlotsHeld'
    <3>1. \A d \in Callers : pc'[d] # "session"
      BY <1>3, <2>0, Zenon DEF Same, Sending
    <3>2. ASSUME NEW d \in Callers, Fills(d)', sent' PROVE slot'[d] # hdr'
      <4>1. d = c
        BY <1>6, <2>0, <3>2, Zenon DEF Quiet, Fills, Sending
      <4>2. hdr \in WithSender /\ slot[c] \in FreeCalls /\ FreeCalls \cap WithSender = {}
        BY <1>2, <1>8, <1>s, <3>2, SenderSlots, Zenon DEF Shared, SlotExclusive
      <4>. QED  BY <1>2, <1>3, <4>1, <4>2, Zenon
    <3>. QED  BY <3>1, <3>2, Zenon DEF SlotsHeld
  <2>5. SlotExclusive'
    <3>1. SlotExclusive /\ todo' = todo
      BY <1>2, <1>8, Zenon DEF Shared
    <3>. QED  BY <1>8, <1>s, <3>1 DEF SlotExclusive
  <2>. QED  BY <2>1, <2>2, <2>3, <2>4, <2>5, Zenon DEF Shared
<1>9. ASSUME NoAckTimeout, Shared, Acked PROVE Acked'
  <2>1. AckPending'
    BY <1>0, <1>1, <1>2, <1>3, <1>6, <1>7, <1>9, AckKept, Zenon DEF Acked, Calm, Steady, SamePhase, Locals, RetLive, Place
  <2>2. AckIsOwn'
    BY <1>0, <1>1, <1>2, <1>3, <1>6, <1>7, <1>9, OwnKept, Zenon DEF Acked, Calm, Steady, SamePhase, Locals, RetLive, Place
  <2>3. SlotsKept'
    BY <1>9, <1>s, Zenon DEF Acked, SlotsKept
  <2>. QED  BY <2>1, <2>2, <2>3, Zenon DEF Acked
<1>e. ASSUME NoTimeout, Shared, Acked, Exact PROVE Exact'
  <2>4. RetSlots'
    BY <1>2, <1>e, RetKept, Zenon DEF Exact, RetLive
  <2>5. AnswerOnce'
    BY <1>0, <1>1, <1>2, <1>3, <1>6, <1>7, <1>e, AnswersKept, AwaitsCollects, Zenon DEF Exact, Calm, Steady, SamePhase, Locals, RetLive, Place
  <2>6. Signals'
    BY <1>0, <1>1, <1>2, <1>3, <1>6, <1>7, <1>e, SignalsKept, AwaitsCollects, Zenon DEF Exact, Calm, Steady, SamePhase, Locals, RetLive, Place
  <2>7. CallHasResult'
    BY <1>0, <1>1, <1>2, <1>3, <1>6, <1>7, <1>e, ResultKept, Zenon DEF Exact, Calm, Steady, SamePhase, Locals, RetLive, Place
  <2>. QED  BY <2>4, <2>5, <2>6, <2>7, Zenon DEF Exact
<1>10. Headers' /\ RetOne' /\ late' = late
  BY <1>0, <1>2, Zenon DEF Headers, RetOne, RetLive
<1>. QED  BY <1>4, <1>6, <1>8, <1>9, <1>e, <1>10, StepInv, Zenon

\* The session number is stored, and is no longer the next one.
LEMMA StoreSessionInv ==
    ASSUME RpcIInv, NEW c \in Callers, StoreSession(c)
    PROVE  RpcIInv'
<1>0. /\ TNat /\ TFree /\ TWait /\ TCall /\ TRet /\ TBool /\ TPc /\ TLoc /\ TCase /\ TMips
      /\ Places /\ Place(c) /\ Headers /\ RetOne
  BY TypeGroups, Zenon DEF RpcIInv, Places
<1>1. /\ pc[c] = "store" /\ sid' = sess[c]
      /\ Goto(c, IF kind[c] = "notify" THEN "send" ELSE "getwait")
  BY Zenon DEF StoreSession
<1>2. UNCHANGED <<sendSem, ackSem, freeWait, session, waitSem, waitList, freeCall, cmd, call, hdr,
                 sent, ret, retHdr, retSent, ackSent, returns, retAck, callIrq, ackIrq,
                 retIrq, ackWork, retWork, retBusy, kind, slot, sess, wait, status, result, begun,
                 case, late, freeRet, todo, acks, unacked, taken>>
  BY Zenon DEF StoreSession, waitVars, callVars, retVars, irqVars, locals, mipsVars
<1>3. /\ pc'[c] = (IF kind[c] = "notify" THEN "send" ELSE "getwait") /\ Locals(c)
      /\ pc'[c] \in {"send", "getwait"} /\ wait[c] = None
      /\ \A d \in Callers : d # c => Same(d)
  <2>1. wait[c] = None
    BY <1>0, <1>1, Zenon DEF Place
  <2>. QED  BY <1>0, <1>1, <1>2, <2>1, Goes, Zenon DEF Same, Locals
<1>4. TypeOK'
  <2>1. TNat'
    BY <1>0, <1>1, <1>2, Zenon DEF TNat, TLoc
  <2>2. TPc'
    BY <1>0, <1>1, Zenon DEF TPc, Goto, Sending
  <2>3. TFree' /\ TWait' /\ TCall' /\ TRet' /\ TBool' /\ TLoc' /\ TCase' /\ TMips'
    BY <1>0, <1>2, TypesKept, Zenon
  <2>. QED  BY <2>1, <2>2, <2>3, TypeGroupsNext, Zenon
<1>5. Place(c)'
  <2>1. /\ wait'[c] = None /\ status'[c] # "ok" /\ slot'[c] \in Calls /\ sess'[c] # 0
        /\ kind'[c] = kind[c] /\ kind[c] \in {"call", "notify"}
    BY <1>0, <1>1, <1>3, Zenon DEF Place, Fills, TLoc, Locals
  <2>2. CASE kind[c] = "notify"
    <3>1. pc'[c] = "send" /\ kind'[c] = "notify"
      BY <1>3, <2>1, <2>2, Zenon
    <3>. QED  BY <2>1, <3>1, Zenon DEF Place, Fills, AtAck, Holding
  <2>3. CASE kind[c] = "call"
    <3>1. pc'[c] = "getwait" /\ kind'[c] = "call"
      BY <1>3, <2>1, <2>3, Zenon
    <3>. QED  BY <2>1, <3>1, Zenon DEF Place, Fills, AtAck, Holding
  <2>. QED  BY <2>1, <2>2, <2>3, Zenon
<1>6. Places' /\ \A d \in Callers : d # c => SamePhase(d) /\ Quiet(d) /\ Calm(d)
  BY <1>0, <1>3, <1>5, OthersSame, Zenon
<1>7. /\ Fills(c) /\ ~AtAck(c) /\ ~Holding(c) /\ ~Awaits(c) /\ ~Collects(c)
      /\ Fills(c)' /\ ~AtAck(c)' /\ ~Holding(c)' /\ ~Awaits(c)' /\ ~Collects(c)'
  BY <1>0, <1>1, <1>3, Zenon DEF Place, Fills, AtAck, Holding, Awaits, Collects, Locals
<1>c. Calm(c)
  BY <1>0, <1>1, <1>3, <1>7, Zenon DEF Calm, Steady, SamePhase, Sending, Locals, Place
<1>8. ASSUME NoBypass, Shared PROVE Shared'
  <2>0. \A d \in Callers : d # c => pc[d] \notin Sending
    BY <1>1, <1>8, Zenon DEF Shared, SemDown, Sending
  <2>1. SemDown'
    BY <1>0, <1>1, <1>2, <1>3, <1>6, <1>7, <1>8, SemKept, Zenon DEF Shared, Quiet, Locals, Sending, TNat
  <2>2. Numbers'
    <3>1. \A d \in Callers : d # c => pc'[d] # "store" /\ sess[d] \in Nat /\ sess[d] <= sid
      BY <1>0, <1>3, <1>8, <2>0, Zenon DEF Shared, Numbers, Same, TLoc, Sending
    <3>2. sid \in Nat /\ sess[c] = sid + 1
      BY <1>0, <1>1, <1>8, Zenon DEF Shared, Numbers, TNat
    <3>3. sess' = sess /\ sid' = sess[c] /\ pc'[c] # "store"
      BY <1>1, <1>2, <1>3, Zenon
    <3>4. ASSUME NEW d \in Callers PROVE IF pc'[d] = "store" THEN sess'[d] = sid' + 1 ELSE sess'[d] <= sid'
      BY <3>1, <3>2, <3>3
    <3>. QED  BY <1>8, <3>3, <3>4, Zenon DEF Shared, Numbers
  <2>3. WaitsHeld' /\ WaitsConserved'
    BY <1>0, <1>1, <1>2, <1>3, <1>6, <1>7, <1>8, WaitsKept, Zenon DEF Shared, Quiet, Locals, Sending, TNat
  <2>4. SlotsHeld'
    BY <1>0, <1>1, <1>2, <1>3, <1>6, <1>7, <1>8, SlotsHeldKept, Zenon DEF Shared, Quiet, Locals, Sending, TNat
  <2>5. SlotExclusive'
    BY <1>0, <1>1, <1>2, <1>3, <1>6, <1>7, <1>8, SlotsKeptSame, Zenon DEF Shared, Quiet, Locals, Sending, TNat
  <2>. QED  BY <2>1, <2>2, <2>3, <2>4, <2>5, Zenon DEF Shared
<1>9. ASSUME NoAckTimeout, Shared, Acked PROVE Acked'
  BY <1>2, <1>6, <1>c, <1>9, AckedKept, Zenon DEF Calm
<1>e. ASSUME NoTimeout, Shared, Acked, Exact PROVE Exact'
  BY <1>2, <1>6, <1>c, <1>e, ExactKept, Zenon
<1>10. Headers' /\ RetOne' /\ late' = late
  BY <1>0, <1>2, Zenon DEF Headers, RetOne, RetLive
<1>. QED  BY <1>4, <1>6, <1>8, <1>9, <1>e, <1>10, StepInv, Zenon

\* The head of the FreeWait FIFO is read.
LEMMA GetFreeWaitInv ==
    ASSUME RpcIInv, NEW c \in Callers, GetFreeWaitComm(c)
    PROVE  RpcIInv'
<1>0. /\ TNat /\ TFree /\ TWait /\ TCall /\ TRet /\ TBool /\ TPc /\ TLoc /\ TCase /\ TMips
      /\ Places /\ Place(c) /\ Headers /\ RetOne
  BY TypeGroups, Zenon DEF RpcIInv, Places
<1>1. /\ pc[c] = "getwait" /\ Goto(c, "addwait") /\ freeWait # << >>
      /\ wait' = [wait EXCEPT ![c] = Head(freeWait)]
  BY Zenon DEF GetFreeWaitComm
<1>2. UNCHANGED <<sendSem, ackSem, sid, freeWait, session, waitSem, waitList, freeCall, cmd, call, hdr,
                 sent, ret, retHdr, retSent, ackSent, returns, retAck, callIrq, ackIrq,
                 retIrq, ackWork, retWork, retBusy, kind, slot, sess, status, result, begun,
                 case, late, freeRet, todo, acks, unacked, taken>>
  BY Zenon DEF GetFreeWaitComm, sockVars, waitVars, callVars, retVars, irqVars, mipsVars
<1>3. /\ pc'[c] = "addwait" /\ wait'[c] = Head(freeWait) /\ Head(freeWait) \in Waits /\ status'[c] = status[c]
      /\ kind'[c] = kind[c] /\ slot'[c] = slot[c] /\ sess'[c] = sess[c] /\ result'[c] = result[c]
      /\ \A d \in Callers : d # c => Same(d)
  <2>1. Head(freeWait) \in Waits
    BY <1>0, <1>1, SeqFacts, Zenon DEF TFree
  <2>. QED  BY <1>0, <1>1, <1>2, <2>1, Goes, Zenon DEF TLoc, Waitings, Same, Locals
<1>4. TypeOK'
  <2>2. TPc'
    BY <1>0, <1>1, Zenon DEF TPc, Goto, Sending
  <2>3. TLoc'
    BY <1>0, <1>1, <1>2, <1>3, Zenon DEF TLoc, Waitings
  <2>4. TNat' /\ TFree' /\ TWait' /\ TCall' /\ TRet' /\ TBool' /\ TCase' /\ TMips'
    BY <1>0, <1>2, TypesKept, Zenon
  <2>. QED  BY <2>2, <2>3, <2>4, TypeGroupsNext, Zenon
<1>5. Place(c)'
  <2>1. /\ wait'[c] # None /\ status'[c] # "ok" /\ slot'[c] \in Calls /\ sess'[c] # 0
        /\ kind'[c] = "call" /\ pc'[c] = "addwait"
    BY <1>0, <1>1, <1>3, RpcAssumption, Zenon DEF Place, Fills
  <2>. QED  BY <2>1, Zenon DEF Place, Fills, AtAck, Holding
<1>6. Places' /\ \A d \in Callers : d # c => SamePhase(d) /\ Quiet(d) /\ Calm(d)
  BY <1>0, <1>3, <1>5, OthersSame, Zenon
<1>7. /\ Fills(c) /\ ~AtAck(c) /\ ~Holding(c) /\ ~Awaits(c) /\ ~Collects(c)
      /\ Fills(c)' /\ ~AtAck(c)' /\ ~Holding(c)' /\ ~Awaits(c)' /\ ~Collects(c)'
  BY <1>0, <1>1, <1>3, Zenon DEF Place, Fills, AtAck, Holding, Awaits, Collects, Locals
<1>8. ASSUME NoBypass, Shared PROVE Shared'
  <2>1. SemDown'
    BY <1>0, <1>1, <1>2, <1>3, <1>6, <1>7, <1>8, SemKept, Zenon DEF Shared, Quiet, Locals, Sending, TNat
  <2>2. Numbers'
    BY <1>0, <1>1, <1>2, <1>3, <1>6, <1>7, <1>8, NumbersKept, Zenon DEF Shared, Quiet, Locals, Sending, TNat
  <2>3. WaitsHeld' /\ WaitsConserved'
    <3>1. \A d \in Callers : pc'[d] = "addwait" => freeWait' # << >> /\ wait'[d] = Head(freeWait')
      BY <1>1, <1>2, <1>3, <1>6, <1>8, ZenonT(60) DEF Shared, WaitsHeld, Quiet
    <3>2. \A d \in Callers : (Holding(d)' <=> Holding(d)) /\ (Holding(d) => wait'[d] = wait[d])
      BY <1>6, <1>7, Zenon DEF Quiet
    <3>3. WaitsHeld'
      BY <1>2, <1>8, <3>1, <3>2, Zenon DEF Shared, WaitsHeld
    <3>. QED  BY <1>2, <1>8, <3>3, Zenon DEF Shared, WaitsConserved
  <2>4. SlotsHeld'
    BY <1>0, <1>1, <1>2, <1>3, <1>6, <1>7, <1>8, SlotsHeldKept, Zenon DEF Shared, Quiet, Locals, Sending, TNat
  <2>5. SlotExclusive'
    BY <1>0, <1>1, <1>2, <1>3, <1>6, <1>7, <1>8, SlotsKeptSame, Zenon DEF Shared, Quiet, Locals, Sending, TNat
  <2>. QED  BY <2>1, <2>2, <2>3, <2>4, <2>5, Zenon DEF Shared
<1>9. ASSUME NoAckTimeout, Shared, Acked PROVE Acked'
  <2>1. AckPending'
    BY <1>0, <1>1, <1>2, <1>3, <1>6, <1>7, <1>9, AckKept, Zenon DEF Acked, Calm, Steady, SamePhase, Locals, RetLive, Place
  <2>2. AckIsOwn'
    BY <1>0, <1>1, <1>2, <1>3, <1>6, <1>7, <1>9, OwnKept, Zenon DEF Acked, Calm, Steady, SamePhase, Locals, RetLive, Place
  <2>3. SlotsKept'
    BY <1>0, <1>1, <1>2, <1>3, <1>6, <1>7, <1>9, SlotsKeptSame, Zenon DEF Acked, Calm, Steady, SamePhase, Locals, RetLive, Place
  <2>. QED  BY <2>1, <2>2, <2>3, Zenon DEF Acked
<1>e. ASSUME NoTimeout, Shared, Acked, Exact PROVE Exact'
  <2>4. RetSlots'
    BY <1>2, <1>e, RetKept, Zenon DEF Exact, RetLive
  <2>5. AnswerOnce'
    BY <1>0, <1>1, <1>2, <1>3, <1>6, <1>7, <1>e, AnswersKept, AwaitsCollects, Zenon DEF Exact, Calm, Steady, SamePhase, Locals, RetLive, Place
  <2>6. Signals'
    BY <1>0, <1>1, <1>2, <1>3, <1>6, <1>7, <1>e, SignalsKept, AwaitsCollects, Zenon DEF Exact, Calm, Steady, SamePhase, Locals, RetLive, Place
  <2>7. CallHasResult'
    BY <1>0, <1>1, <1>2, <1>3, <1>6, <1>7, <1>e, ResultKept, Zenon DEF Exact, Calm, Steady, SamePhase, Locals, RetLive, Place
  <2>. QED  BY <2>4, <2>5, <2>6, <2>7, Zenon DEF Exact
<1>10. Headers' /\ RetOne' /\ late' = late
  BY <1>0, <1>2, Zenon DEF Headers, RetOne, RetLive
<1>. QED  BY <1>4, <1>6, <1>8, <1>9, <1>e, <1>10, StepInv, Zenon

\* The head of the FreeWait FIFO goes on the active list, with the session.
LEMMA AddtoWaitInv ==
    ASSUME RpcIInv, NEW c \in Callers, AddtoWaitComm(c)
    PROVE  RpcIInv'
<1>0. /\ TNat /\ TFree /\ TWait /\ TCall /\ TRet /\ TBool /\ TPc /\ TLoc /\ TCase /\ TMips
      /\ Places /\ Place(c) /\ Headers /\ RetOne
  BY TypeGroups, Zenon DEF RpcIInv, Places
<1>1. /\ pc[c] = "addwait" /\ Goto(c, "send")
      /\ freeWait' = IF freeWait = << >> THEN freeWait ELSE Tail(freeWait)
      /\ session' = [session EXCEPT ![wait[c]] = sess[c]] /\ waitList' = waitList \cup {wait[c]}
  BY Zenon DEF AddtoWaitComm
<1>2. UNCHANGED <<sendSem, ackSem, sid, waitSem, freeCall, cmd, call, hdr, sent, ret, retHdr,
                 retSent, ackSent, returns, retAck, callIrq, ackIrq, retIrq, ackWork, retWork,
                 retBusy, kind, slot, sess, wait, status, result, begun, case, late, freeRet,
                 todo, acks, unacked, taken>>
  BY Zenon DEF AddtoWaitComm, sockVars, callVars, retVars, irqVars, locals, mipsVars
<1>3. /\ pc'[c] = "send" /\ Locals(c) /\ wait[c] # None /\ wait[c] \in Waits /\ sess[c] \in Nat
      /\ \A d \in Callers : d # c => Same(d)
  <2>1. wait[c] # None /\ wait[c] \in Waits /\ sess[c] \in Nat
    BY <1>0, <1>1, Zenon DEF Place, TLoc, Waitings
  <2>. QED  BY <1>0, <1>1, <1>2, <2>1, Goes, Zenon DEF Same, Locals
<1>4. TypeOK'
  <2>1. TFree'
    BY <1>0, <1>1, <1>2, SeqFacts, Zenon DEF TFree
  <2>2. TWait'
    BY <1>0, <1>1, <1>2, <1>3, Zenon DEF TWait
  <2>3. TPc'
    BY <1>0, <1>1, Zenon DEF TPc, Goto, Sending
  <2>4. TNat' /\ TCall' /\ TRet' /\ TBool' /\ TLoc' /\ TCase' /\ TMips'
    BY <1>0, <1>2, TypesKept, Zenon
  <2>. QED  BY <2>1, <2>2, <2>3, <2>4, TypeGroupsNext, Zenon
<1>5. Place(c)'
  BY <1>0, <1>1, <1>3, Zenon DEF Place, Fills, AtAck, Holding, Locals
<1>6. Places' /\ \A d \in Callers : d # c => SamePhase(d) /\ Quiet(d) /\ Calm(d)
  BY <1>0, <1>3, <1>5, OthersSame, Zenon
<1>7. /\ Fills(c) /\ ~AtAck(c) /\ ~Holding(c) /\ ~Awaits(c) /\ ~Collects(c)
      /\ Fills(c)' /\ ~AtAck(c)' /\ Holding(c)' /\ ~Awaits(c)' /\ ~Collects(c)'
  BY <1>0, <1>1, <1>3, Zenon DEF Place, Fills, AtAck, Holding, Awaits, Collects, Locals
<1>8. ASSUME NoBypass, Shared PROVE Shared'
  <2>0. \A d \in Callers : d # c => pc[d] \notin Sending
    BY <1>1, <1>8, Zenon DEF Shared, SemDown, Sending
  <2>1. SemDown'
    BY <1>0, <1>1, <1>2, <1>3, <1>6, <1>7, <1>8, SemKept, Zenon DEF Shared, Quiet, Locals, Sending, TNat
  <2>2. Numbers'
    BY <1>0, <1>1, <1>2, <1>3, <1>6, <1>7, <1>8, NumbersKept, Zenon DEF Shared, Quiet, Locals, Sending, TNat
  <2>3. WaitsHeld' /\ WaitsConserved'
    <3>1. freeWait # << >> /\ wait[c] = Head(freeWait) /\ Distinct(freeWait) /\ freeWait' = Tail(freeWait)
      BY <1>1, <1>8, Zenon DEF Shared, WaitsHeld, WaitsConserved
    <3>2. /\ Entries(freeWait) = Waits \ waitList /\ wait[c] \in Entries(freeWait)
          /\ Distinct(freeWait') /\ Entries(freeWait') = Entries(freeWait) \ {wait[c]}
      <4>1. Entries(freeWait) = Waits \ waitList
        BY <1>8, Zenon DEF Shared, WaitsConserved, Entries
      <4>. QED  BY <1>0, <3>1, <4>1, TakeFree, Zenon DEF TFree
    <3>3. Entries(freeWait') = Waits \ waitList' /\ wait[c] \notin waitList
      BY <1>1, <3>2
    <3>4. WaitsConserved'
      BY <3>2, <3>3, Zenon DEF WaitsConserved, Entries
    <3>5. session'[wait[c]] = sess[c] /\ \A w \in waitList : session'[w] = session[w]
      BY <1>0, <1>1, <1>3, <3>3, Zenon DEF TWait
    <3>6. wait' = wait /\ sess' = sess
      BY <1>2, Zenon
    <3>7. \A d \in Callers : Holding(d)' => wait'[d] \in waitList' /\ session'[wait'[d]] = sess'[d]
      BY <1>1, <1>6, <1>8, <3>5, <3>6, ZenonT(60) DEF Shared, WaitsHeld, Quiet
    <3>8. \A w \in waitList' : \E d \in Callers : Holding(d)' /\ wait'[d] = w
      BY <1>1, <1>6, <1>7, <1>8, <3>6, Zenon DEF Shared, WaitsHeld, Quiet
    <3>9. \A d \in Callers : pc'[d] # "addwait"
      BY <1>3, <2>0, Zenon DEF Same, Sending
    <3>. QED  BY <3>4, <3>7, <3>8, <3>9, Zenon DEF WaitsHeld
  <2>4. SlotsHeld'
    BY <1>0, <1>1, <1>2, <1>3, <1>6, <1>7, <1>8, SlotsHeldKept, Zenon DEF Shared, Quiet, Locals, Sending, TNat
  <2>5. SlotExclusive'
    BY <1>0, <1>1, <1>2, <1>3, <1>6, <1>7, <1>8, SlotsKeptSame, Zenon DEF Shared, Quiet, Locals, Sending, TNat
  <2>. QED  BY <2>1, <2>2, <2>3, <2>4, <2>5, Zenon DEF Shared
<1>9. ASSUME NoAckTimeout, Shared, Acked PROVE Acked'
  <2>1. AckPending'
    BY <1>0, <1>1, <1>2, <1>3, <1>6, <1>7, <1>9, AckKept, Zenon DEF Acked, Calm, Steady, SamePhase, Locals, RetLive, Place
  <2>2. AckIsOwn'
    BY <1>0, <1>1, <1>2, <1>3, <1>6, <1>7, <1>9, OwnKept, Zenon DEF Acked, Calm, Steady, SamePhase, Locals, RetLive, Place
  <2>3. SlotsKept'
    BY <1>0, <1>1, <1>2, <1>3, <1>6, <1>7, <1>9, SlotsKeptSame, Zenon DEF Acked, Calm, Steady, SamePhase, Locals, RetLive, Place
  <2>. QED  BY <2>1, <2>2, <2>3, Zenon DEF Acked
<1>e. ASSUME NoTimeout, Shared, Acked, Exact PROVE Exact'
  <2>4. RetSlots'
    BY <1>2, <1>e, RetKept, Zenon DEF Exact, RetLive
  <2>5. AnswerOnce'
    BY <1>0, <1>1, <1>2, <1>3, <1>6, <1>7, <1>e, AnswersKept, AwaitsCollects, Zenon DEF Exact, Calm, Steady, SamePhase, Locals, RetLive, Place
  <2>6. Signals'
    BY <1>0, <1>1, <1>2, <1>3, <1>6, <1>7, <1>e, SignalsKept, AwaitsCollects, Zenon DEF Exact, Calm, Steady, SamePhase, Locals, RetLive, Place
  <2>7. CallHasResult'
    BY <1>0, <1>1, <1>2, <1>3, <1>6, <1>7, <1>e, ResultKept, Zenon DEF Exact, Calm, Steady, SamePhase, Locals, RetLive, Place
  <2>. QED  BY <2>4, <2>5, <2>6, <2>7, Zenon DEF Exact
<1>10. Headers' /\ RetOne' /\ late' = late
  BY <1>0, <1>2, Zenon DEF Headers, RetOne, RetLive
<1>. QED  BY <1>4, <1>6, <1>8, <1>9, <1>e, <1>10, StepInv, Zenon

\* The call goes into the header, which the send before it has left.
LEMMA SendCommLowInv ==
    ASSUME RpcIInv, NEW c \in Callers, SendCommLow(c)
    PROVE  RpcIInv'
<1>0. /\ TNat /\ TFree /\ TWait /\ TCall /\ TRet /\ TBool /\ TPc /\ TLoc /\ TCase /\ TMips
      /\ Places /\ Place(c) /\ Headers /\ RetOne
  BY TypeGroups, Zenon DEF RpcIInv, Places
<1>1. /\ pc[c] = "send" /\ Goto(c, "ring")
      /\ call' = [call EXCEPT ![slot[c]] = [session |-> sess[c], wait |-> wait[c],
                                          notify |-> kind[c] = "notify"]]
      /\ hdr' = slot[c] /\ sent' = TRUE
  BY Zenon DEF SendCommLow
<1>2. UNCHANGED <<sendSem, ackSem, sid, freeWait, session, waitSem, waitList, freeCall, cmd, ret,
                 retHdr, retSent, ackSent, returns, retAck, callIrq, ackIrq, retIrq, ackWork,
                 retWork, retBusy, kind, slot, sess, wait, status, result, begun, case, late,
                 freeRet, todo, acks, unacked, taken>>
  BY Zenon DEF SendCommLow, sockVars, waitVars, retVars, irqVars, locals, mipsVars
<1>3. /\ pc'[c] = "ring" /\ Locals(c) /\ slot[c] \in Calls
      /\ \A d \in Callers : d # c => Same(d)
  <2>1. slot[c] \in Calls
    BY <1>0, <1>1, Zenon DEF Place, Fills
  <2>. QED  BY <1>0, <1>1, <1>2, <2>1, Goes, Zenon DEF Same, Locals
<1>4. TypeOK'
  <2>1. TCall'
    <3>. DEFINE m == [session |-> sess[c], wait |-> wait[c], notify |-> kind[c] = "notify"]
    <3>1. sess[c] \in Nat /\ wait[c] \in Waitings
      BY <1>0, Zenon DEF TLoc
    <3>2. m \in [session : Nat, wait : Waitings, notify : BOOLEAN]
      BY <3>1
    <3>. HIDE DEF m
    <3>3. call' = [call EXCEPT ![slot[c]] = m]
      BY <1>1 DEF m
    <3>4. call' \in [Calls -> [session : Nat, wait : Waitings, notify : BOOLEAN]]
      BY <1>0, <1>3, <3>2, <3>3, Store, Zenon DEF TCall
    <3>. QED  BY <1>1, <1>3, <3>4, Zenon DEF TCall
  <2>2. TBool'
    BY <1>0, <1>1, <1>2, Zenon DEF TBool
  <2>3. TPc'
    BY <1>0, <1>1, Zenon DEF TPc, Goto, Sending
  <2>4. TNat' /\ TFree' /\ TWait' /\ TRet' /\ TLoc' /\ TCase' /\ TMips'
    BY <1>0, <1>2, TypesKept, Zenon
  <2>. QED  BY <2>1, <2>2, <2>3, <2>4, TypeGroupsNext, Zenon
<1>5. Place(c)'
  BY <1>0, <1>1, <1>3, Zenon DEF Place, Fills, AtAck, Holding, Locals
<1>6. Places' /\ \A d \in Callers : d # c => SamePhase(d) /\ Quiet(d) /\ Calm(d)
  BY <1>0, <1>3, <1>5, OthersSame, Zenon
<1>7. /\ Fills(c) /\ ~AtAck(c) /\ ~Awaits(c) /\ ~Collects(c)
      /\ ~Fills(c)' /\ AtAck(c)' /\ (Holding(c)' <=> Holding(c)) /\ sess[c] # 0
  BY <1>0, <1>1, <1>3, Zenon DEF Place, Fills, AtAck, Holding, Awaits, Collects, Locals
<1>s. ASSUME Shared PROVE WithSender' = {slot[c]} /\ slot[c] \in WithSender
  <2>1. \A d \in Callers : ~Fills(d)'
    BY <1>1, <1>6, <1>7, <1>s, Zenon DEF Shared, SemDown, Sending, Quiet, Fills
  <2>2. \A x : x \in WithSender' <=> x = slot[c]
    BY <1>1, <2>1, SenderSlotsNext, Zenon
  <2>3. slot[c] \in WithSender
    BY <1>7, SenderSlots, Zenon
  <2>. QED  BY <2>2, <2>3, Zenon
<1>8. ASSUME NoBypass, Shared PROVE Shared'
  <2>0. \A d \in Callers : d # c => pc[d] \notin Sending
    BY <1>1, <1>8, Zenon DEF Shared, SemDown, Sending
  <2>1. SemDown'
    BY <1>0, <1>1, <1>2, <1>3, <1>6, <1>7, <1>8, SemKept, Zenon DEF Shared, Quiet, Locals, Sending, TNat
  <2>2. Numbers'
    BY <1>0, <1>1, <1>2, <1>3, <1>6, <1>7, <1>8, NumbersKept, Zenon DEF Shared, Quiet, Locals, Sending, TNat
  <2>3. WaitsHeld' /\ WaitsConserved'
    BY <1>0, <1>1, <1>2, <1>3, <1>6, <1>7, <1>8, WaitsKept, Zenon DEF Shared, Quiet, Locals, Sending, TNat
  <2>4. SlotsHeld'
    <3>1. \A d \in Callers : pc'[d] # "session" /\ ~Fills(d)'
      BY <1>3, <1>6, <1>7, <2>0, Zenon DEF Same, Sending, Quiet, Fills
    <3>. QED  BY <3>1, Zenon DEF SlotsHeld
  <2>5. SlotExclusive'
    <3>1. SlotExclusive /\ todo' = todo /\ FreeCalls' = FreeCalls /\ WithMips' = WithMips /\ freeCall' = freeCall
      BY <1>2, <1>8, Zenon DEF Shared, FreeCalls, WithMips
    <3>. QED  BY <1>8, <1>s, <3>1 DEF SlotExclusive
  <2>. QED  BY <2>1, <2>2, <2>3, <2>4, <2>5, Zenon DEF Shared
<1>9. ASSUME NoAckTimeout, Shared, Acked PROVE Acked'
  <2>0. \A d \in Callers : d # c => pc[d] \notin Sending
    BY <1>1, <1>9, Zenon DEF Shared, SemDown, Sending
  <2>a. \A d \in Callers : d # c => ~AtAck(d) /\ ~AtAck(d)' /\ ~Fills(d)'
    BY <1>6, <2>0, Zenon DEF AtAck, Fills, Sending, SamePhase
  <2>b. InFlight = 0
    BY <1>7, <1>9, <2>a, Zenon DEF Acked, AckPending
  <2>c. sent = FALSE /\ acks = 0 /\ ackSent = FALSE /\ ackSem = 0
    BY <1>0, <2>b DEF InFlight, One, TNat, TBool
  <2>1. AckPending'
    <3>1. InFlight' = 1
      <4>1. sent' = TRUE /\ acks' = 0 /\ ackSent' = FALSE /\ ackSem' = 0
        BY <1>1, <1>2, <2>c, Zenon
      <4>. QED  BY <4>1 DEF InFlight, One
    <3>2. hdr' = slot'[c] /\ call'[hdr'] = [session |-> sess'[c], wait |-> wait'[c],
                                             notify |-> kind'[c] = "notify"]
      BY <1>0, <1>1, <1>3, Zenon DEF Locals, TCall
    <3>3. \A d \in Callers : pc'[d] # "unwait"
      BY <1>3, <1>9, Zenon DEF Acked, AckPending, Same
    <3>. QED  BY <1>1, <1>7, <2>a, <3>1, <3>2, <3>3, Zenon DEF AckPending
  <2>2. AckIsOwn'
    BY <1>0, <1>1, <1>2, <1>3, <1>6, <1>7, <1>9, OwnKept, Zenon DEF Acked, Calm, Steady, SamePhase, Locals, RetLive, Place
  <2>3. SlotsKept'
    <3>1. FreeCalls' = FreeCalls /\ WithMips' = WithMips
      BY <1>2, Zenon DEF FreeCalls, WithMips
    <3>2. \A x : x \in WithSender => x = slot[c]
      BY <1>6, <2>a, <2>c, SenderSlots, Zenon DEF Quiet
    <3>3. WithSender' = WithSender
      BY <1>9, <1>s, <3>2
    <3>. QED  BY <1>9, <3>1, <3>3, Zenon DEF Acked, SlotsKept
  <2>. QED  BY <2>1, <2>2, <2>3, Zenon DEF Acked
<1>e. ASSUME NoTimeout, Shared, Acked, Exact PROVE Exact'
  <2>0. \A d \in Callers : d # c => pc[d] \notin Sending
    BY <1>1, <1>e, Zenon DEF Shared, SemDown, Sending
  <2>a. \A d \in Callers : d # c => ~AtAck(d) /\ ~AtAck(d)' /\ ~Fills(d)'
    BY <1>6, <2>0, Zenon DEF AtAck, Fills, Sending, SamePhase
  <2>4. RetSlots'
    BY <1>2, <1>e, RetKept, Zenon DEF Exact, RetLive
  <2>5. AnswerOnce'
    <3>1. \A d \in Callers : Collects(d) => sess[d] # sess[c]
      BY <1>7, <1>e, Zenon DEF Shared, Numbers
    <3>2. NoAnswer(sess[c])
      BY <1>e, <3>1, NoAnswerYet, Zenon DEF Exact
    <3>3. /\ todo' = todo /\ ret' = ret /\ retHdr' = retHdr /\ returns' = returns /\ sess' = sess
          /\ wait' = wait /\ (RetLive' <=> RetLive)
      BY <1>2, Zenon DEF RetLive
    <3>4. \A d \in Callers : (Awaits(d) => Awaits(d)') /\ (Collects(d) => Collects(d)')
      BY <1>6, <1>7, Zenon DEF SamePhase
    <3>5. NotYetAsked'
      BY <2>a, <3>2, <3>3, <3>4, AnswerKept, Zenon DEF NotYetAsked
    <3>. QED  BY <1>e, <3>3, <3>4, <3>5, AnswerKept, Zenon DEF Exact, AnswerOnce
  <2>6. Signals'
    BY <1>0, <1>1, <1>2, <1>3, <1>6, <1>7, <1>e, SignalsKept, AwaitsCollects, Zenon DEF Exact, Calm, Steady, SamePhase, Locals, RetLive, Place
  <2>7. CallHasResult'
    BY <1>0, <1>1, <1>2, <1>3, <1>6, <1>7, <1>e, ResultKept, Zenon DEF Exact, Calm, Steady, SamePhase, Locals, RetLive, Place
  <2>. QED  BY <2>4, <2>5, <2>6, <2>7, Zenon DEF Exact
<1>10. Headers' /\ RetOne' /\ late' = late
  BY <1>0, <1>1, <1>2, <1>3, Zenon DEF Headers, RetOne, RetLive
<1>. QED  BY <1>4, <1>6, <1>8, <1>9, <1>e, <1>10, StepInv, Zenon

\* The doorbell of a call.
LEMMA RingMipsInv ==
    ASSUME RpcIInv, NEW c \in Callers, RingMips(c)
    PROVE  RpcIInv'
<1>0. /\ TNat /\ TFree /\ TWait /\ TCall /\ TRet /\ TBool /\ TPc /\ TLoc /\ TCase /\ TMips
      /\ Places /\ Place(c) /\ Headers /\ RetOne
  BY TypeGroups, Zenon DEF RpcIInv, Places
<1>1. /\ pc[c] = "ring" /\ Goto(c, "ackwait") /\ callIrq' = callIrq + 1
  BY Zenon DEF RingMips
<1>2. UNCHANGED <<sendSem, ackSem, sid, freeWait, session, waitSem, waitList, freeCall, cmd, call,
                 hdr, sent, ret, retHdr, retSent, ackSent, returns, retAck, ackIrq, retIrq,
                 ackWork, retWork, retBusy, kind, slot, sess, wait, status, result, begun,
                 case, late, freeRet, todo, acks, unacked, taken>>
  BY Zenon DEF RingMips, sockVars, waitVars, callVars, retVars, locals, mipsVars
<1>3. /\ pc'[c] = "ackwait" /\ Locals(c)
      /\ \A d \in Callers : d # c => Same(d)
  BY <1>0, <1>1, <1>2, Goes, Zenon DEF Same, Locals
<1>4. TypeOK'
  <2>1. TNat'
    BY <1>0, <1>1, <1>2 DEF TNat
  <2>2. TPc'
    BY <1>0, <1>1, Zenon DEF TPc, Goto, Sending
  <2>3. TFree' /\ TWait' /\ TCall' /\ TRet' /\ TBool' /\ TLoc' /\ TCase' /\ TMips'
    BY <1>0, <1>2, TypesKept, Zenon
  <2>. QED  BY <2>1, <2>2, <2>3, TypeGroupsNext, Zenon
<1>5. Place(c)'
  BY <1>0, <1>1, <1>3, Zenon DEF Place, Fills, AtAck, Holding, Locals
<1>6. Places' /\ \A d \in Callers : d # c => SamePhase(d) /\ Quiet(d) /\ Calm(d)
  BY <1>0, <1>3, <1>5, OthersSame, Zenon
<1>7. /\ (Fills(c)' <=> Fills(c)) /\ (AtAck(c)' <=> AtAck(c)) /\ (Holding(c)' <=> Holding(c))
      /\ (Awaits(c)' <=> Awaits(c)) /\ (Collects(c)' <=> Collects(c))
  BY <1>0, <1>1, <1>3, Zenon DEF Place, Fills, AtAck, Holding, Awaits, Collects, Locals
<1>q. Quiet(c)
  BY <1>0, <1>1, <1>3, <1>7, Zenon DEF Quiet, SamePhase, Sending, Locals, Place
<1>c. Calm(c)
  BY <1>0, <1>1, <1>3, <1>7, Zenon DEF Calm, Steady, SamePhase, Sending, Locals, Place
<1>8. ASSUME NoBypass, Shared PROVE Shared'
  BY <1>0, <1>2, <1>6, <1>q, <1>8, SharedKept, Zenon
<1>9. ASSUME NoAckTimeout, Shared, Acked PROVE Acked'
  BY <1>2, <1>6, <1>c, <1>9, AckedKept, Zenon DEF Calm
<1>e. ASSUME NoTimeout, Shared, Acked, Exact PROVE Exact'
  BY <1>2, <1>6, <1>c, <1>e, ExactKept, Zenon
<1>10. Headers' /\ RetOne' /\ late' = late
  BY <1>0, <1>2, Zenon DEF Headers, RetOne, RetLive
<1>. QED  BY <1>4, <1>6, <1>8, <1>9, <1>e, <1>10, StepInv, Zenon

\* The CALL_ACK the thread takes is that of its own call: no other was on its way.
LEMMA AckReceivedInv ==
    ASSUME RpcIInv, NEW c \in Callers, AckReceived(c)
    PROVE  RpcIInv'
<1>0. /\ TNat /\ TFree /\ TWait /\ TCall /\ TRet /\ TBool /\ TPc /\ TLoc /\ TCase /\ TMips
      /\ Places /\ Place(c) /\ Headers /\ RetOne
  BY TypeGroups, Zenon DEF RpcIInv, Places
<1>1. /\ pc[c] = "ackwait" /\ Goto(c, "up") /\ ackSem > 0 /\ ackSem' = ackSem - 1
      /\ cmd' = (IF cmd > 0 THEN cmd - 1 ELSE 0) /\ status' = [status EXCEPT ![c] = "ok"]
  BY Zenon DEF AckReceived
<1>2. UNCHANGED <<sendSem, sid, freeWait, session, waitSem, waitList, freeCall, call, hdr, sent,
                 ret, retHdr, retSent, ackSent, returns, retAck, callIrq, ackIrq, retIrq,
                 ackWork, retWork, retBusy, kind, slot, sess, wait, result, begun, case, late,
                 freeRet, todo, acks, unacked, taken>>
  BY Zenon DEF AckReceived, waitVars, retVars, irqVars, mipsVars
<1>3. /\ pc'[c] = "up" /\ status'[c] = "ok" /\ kind'[c] = kind[c] /\ slot'[c] = slot[c]
      /\ sess'[c] = sess[c] /\ wait'[c] = wait[c] /\ result'[c] = result[c]
      /\ \A d \in Callers : d # c => Same(d)
  BY <1>0, <1>1, <1>2, Goes, Zenon DEF TLoc, Same, Locals
<1>4. TypeOK'
  <2>1. TNat'
    BY <1>0, <1>1, <1>2 DEF TNat
  <2>2. TPc'
    BY <1>0, <1>1, Zenon DEF TPc, Goto, Sending
  <2>3. TLoc'
    BY <1>0, <1>1, <1>2, Zenon DEF TLoc
  <2>4. TFree' /\ TWait' /\ TCall' /\ TRet' /\ TBool' /\ TCase' /\ TMips'
    BY <1>0, <1>2, TypesKept, Zenon
  <2>. QED  BY <2>1, <2>2, <2>3, <2>4, TypeGroupsNext, Zenon
<1>5. Place(c)'
  <2>1. kind[c] = "call" => wait[c] # None
    BY <1>0, <1>1, Zenon DEF Place
  <2>2. sess[c] # 0 /\ (kind[c] = "notify" => wait[c] = None)
    BY <1>0, <1>1, Zenon DEF Place, AtAck
  <2>. QED  BY <1>3, <2>1, <2>2, Zenon DEF Place, Fills, AtAck, Holding
<1>6. Places' /\ \A d \in Callers : d # c => SamePhase(d) /\ Quiet(d) /\ Calm(d)
  BY <1>0, <1>3, <1>5, OthersSame, Zenon
<1>7. /\ ~Fills(c)' /\ ~Fills(c) /\ AtAck(c) /\ ~AtAck(c)' /\ (Holding(c)' <=> Holding(c))
      /\ (Awaits(c)' <=> Awaits(c)) /\ (Collects(c)' <=> Collects(c))
  BY <1>0, <1>1, <1>3, Zenon DEF Place, Fills, AtAck, Holding, Awaits, Collects, Locals
<1>q. Quiet(c)
  BY <1>0, <1>1, <1>3, <1>7, Zenon DEF Quiet, SamePhase, Sending, Locals, Place
<1>8. ASSUME NoBypass, Shared PROVE Shared'
  BY <1>0, <1>2, <1>6, <1>q, <1>8, SharedKept, Zenon
<1>9. ASSUME NoAckTimeout, Shared, Acked PROVE Acked'
  <2>0. \A d \in Callers : d # c => pc[d] \notin Sending
    BY <1>1, <1>9, Zenon DEF Shared, SemDown, Sending
  <2>a. \A d \in Callers : d # c => ~AtAck(d) /\ ~AtAck(d)' /\ ~Fills(d)'
    BY <1>6, <2>0, Zenon DEF AtAck, Fills, Sending, SamePhase
  <2>b. InFlight = 1
    BY <1>7, <1>9, Zenon DEF Acked, AckPending
  <2>c. sent = FALSE /\ acks = 0 /\ ackSent = FALSE /\ ackSem = 1
    BY <1>0, <1>1, <2>b DEF InFlight, One, TNat, TBool
  <2>d. sess[c] \in taken
    BY <1>7, <1>9, <2>c, Zenon DEF Acked, AckPending
  <2>1. AckPending'
    <3>1. InFlight' = 0
      <4>1. sent' = FALSE /\ acks' = 0 /\ ackSent' = FALSE /\ ackSem' = 0
        <5>1. ackSem' = 0
          BY <1>1, <2>c
        <5>. QED  BY <1>2, <2>c, <5>1, Zenon
      <4>. QED  BY <4>1 DEF InFlight, One
    <3>2. \A d \in Callers : pc'[d] # "unwait"
      BY <1>3, <1>9, Zenon DEF Acked, AckPending, Same
    <3>. QED  BY <1>7, <2>a, <3>1, <3>2, Zenon DEF AckPending
  <2>2. AckIsOwn'
    BY <1>2, <1>3, <1>9, <2>d, Zenon DEF Acked, AckIsOwn, Same, Locals
  <2>3. SlotsKept'
    BY <1>0, <1>1, <1>2, <1>3, <1>6, <1>7, <1>9, SlotsKeptSame, Zenon DEF Acked, Calm, Steady, SamePhase, Locals, RetLive, Place
  <2>. QED  BY <2>1, <2>2, <2>3, Zenon DEF Acked
<1>e. ASSUME NoTimeout, Shared, Acked, Exact PROVE Exact'
  <2>4. RetSlots'
    BY <1>2, <1>e, RetKept, Zenon DEF Exact, RetLive
  <2>5. AnswerOnce'
    BY <1>0, <1>1, <1>2, <1>3, <1>6, <1>7, <1>e, AnswersKept, AwaitsCollects, Zenon DEF Exact, Calm, Steady, SamePhase, Locals, RetLive, Place
  <2>6. Signals'
    BY <1>0, <1>1, <1>2, <1>3, <1>6, <1>7, <1>e, SignalsKept, AwaitsCollects, Zenon DEF Exact, Calm, Steady, SamePhase, Locals, RetLive, Place
  <2>7. CallHasResult'
    BY <1>0, <1>1, <1>2, <1>3, <1>6, <1>7, <1>e, ResultKept, Zenon DEF Exact, Calm, Steady, SamePhase, Locals, RetLive, Place
  <2>. QED  BY <2>4, <2>5, <2>6, <2>7, Zenon DEF Exact
<1>10. Headers' /\ RetOne' /\ late' = late
  BY <1>0, <1>2, Zenon DEF Headers, RetOne, RetLive
<1>. QED  BY <1>4, <1>6, <1>8, <1>9, <1>e, <1>10, StepInv, Zenon

\* The CALL_ACK is late: the send fails.
LEMMA AckTimedOutInv ==
    ASSUME RpcIInv, NEW c \in Callers, AckTimedOut(c)
    PROVE  RpcIInv'
<1>0. /\ TNat /\ TFree /\ TWait /\ TCall /\ TRet /\ TBool /\ TPc /\ TLoc /\ TCase /\ TMips
      /\ Places /\ Place(c) /\ Headers /\ RetOne
  BY TypeGroups, Zenon DEF RpcIInv, Places
<1>1. /\ pc[c] = "ackwait" /\ Goto(c, IF wait[c] = None THEN "up" ELSE "unwait") /\ "ack" \in case.may
      /\ late' = late \cup {"ack"}
      /\ sent' = FALSE /\ status' = [status EXCEPT ![c] = "timeout"]
  BY Zenon DEF AckTimedOut
<1>2. UNCHANGED <<sendSem, ackSem, sid, freeWait, session, waitSem, waitList, freeCall, cmd, call,
                 hdr, ret, retHdr, retSent, ackSent, returns, retAck, callIrq, ackIrq, retIrq,
                 ackWork, retWork, retBusy, kind, slot, sess, wait, result, begun, case,
                 freeRet, todo, acks, unacked, taken>>
  BY Zenon DEF AckTimedOut, sockVars, waitVars, retVars, irqVars, mipsVars
<1>3. /\ pc'[c] = (IF wait[c] = None THEN "up" ELSE "unwait") /\ status'[c] = "timeout"
      /\ kind'[c] = kind[c] /\ slot'[c] = slot[c] /\ sess'[c] = sess[c]
      /\ wait'[c] = wait[c] /\ result'[c] = result[c]
      /\ \A d \in Callers : d # c => Same(d)
  BY <1>0, <1>1, <1>2, Goes, Zenon DEF TLoc, Same, Locals
<1>4. TypeOK'
  <2>1. TBool'
    BY <1>0, <1>1, <1>2, Zenon DEF TBool
  <2>2. TPc'
    BY <1>0, <1>1, Zenon DEF TPc, Goto, Sending
  <2>3. TLoc'
    BY <1>0, <1>1, <1>2, Zenon DEF TLoc
  <2>4. TCase'
    BY <1>0, <1>1, <1>2, Zenon DEF TCase
  <2>5. TNat' /\ TFree' /\ TWait' /\ TCall' /\ TRet' /\ TMips'
    BY <1>0, <1>2, TypesKept, Zenon
  <2>. QED  BY <2>1, <2>2, <2>3, <2>4, <2>5, TypeGroupsNext, Zenon
<1>5. Place(c)'
  <2>1. sess[c] # 0 /\ (kind[c] = "notify" => wait[c] = None)
    BY <1>0, <1>1, Zenon DEF Place, AtAck
  <2>2. CASE wait[c] = None
    BY <1>3, <2>1, <2>2, Zenon DEF Place, Fills, AtAck, Holding
  <2>3. CASE wait[c] # None
    BY <1>3, <2>1, <2>3, Zenon DEF Place, Fills, AtAck, Holding
  <2>. QED  BY <2>2, <2>3
<1>6. Places' /\ \A d \in Callers : d # c => SamePhase(d) /\ Quiet(d) /\ Calm(d)
  BY <1>0, <1>3, <1>5, OthersSame, Zenon
<1>7. /\ ~Fills(c)' /\ ~Fills(c) /\ (Holding(c)' <=> Holding(c))
  <2>1. CASE wait[c] = None
    BY <1>1, <1>3, <2>1, Zenon DEF Fills, Holding
  <2>2. CASE wait[c] # None
    BY <1>1, <1>3, <2>2, Zenon DEF Fills, Holding
  <2>. QED  BY <2>1, <2>2
<1>8. ASSUME NoBypass, Shared PROVE Shared'
  <2>1. SemDown'
    BY <1>0, <1>1, <1>2, <1>3, <1>6, <1>7, <1>8, SemKept, Zenon DEF Shared, Quiet, Locals, Sending, TNat
  <2>2. Numbers'
    BY <1>0, <1>1, <1>2, <1>3, <1>6, <1>7, <1>8, NumbersKept, Zenon DEF Shared, Quiet, Locals, Sending, TNat
  <2>3. WaitsHeld' /\ WaitsConserved'
    BY <1>0, <1>1, <1>2, <1>3, <1>6, <1>7, <1>8, WaitsKept, Zenon DEF Shared, Quiet, Locals, Sending, TNat
  <2>4. SlotsHeld'
    BY <1>1, <1>2, <1>3, <1>6, <1>8, Zenon DEF Shared, SlotsHeld, Quiet
  <2>5. SlotExclusive'
    <3>1. SlotExclusive /\ todo' = todo /\ FreeCalls' = FreeCalls /\ WithMips' = WithMips /\ freeCall' = freeCall
      BY <1>2, <1>8, Zenon DEF Shared, FreeCalls, WithMips
    <3>2. ASSUME NEW x, x \in WithSender' PROVE x \in WithSender
      <4>1. PICK d \in Callers : Fills(d)' /\ slot'[d] = x
        BY <1>1, <3>2, SenderSlotsNext, Zenon
      <4>2. Fills(d) /\ slot[d] = x
        BY <1>6, <1>7, <4>1, Zenon DEF Quiet
      <4>. QED  BY <4>2, SenderSlots, Zenon
    <3>. QED  BY <3>1, <3>2 DEF SlotExclusive
  <2>. QED  BY <2>1, <2>2, <2>3, <2>4, <2>5, Zenon DEF Shared
<1>9. "ack" \in {"sem", "ack", "ret"} /\ "ack" # "ret"
  BY SMT
<1>10. Headers' /\ RetOne'
  BY <1>0, <1>1, <1>2, Zenon DEF Headers, RetOne, RetLive
<1>. QED  BY <1>1, <1>4, <1>6, <1>8, <1>9, <1>10, TimeoutInv, Zenon

\* The wait entry of a send that failed is given back; the entry taken off the active
\* list is the same.
LEMMA ReleaseTimedOutInv ==
    ASSUME RpcIInv, NEW c \in Callers, ReleaseTimedOut(c)
    PROVE  RpcIInv'
<1>0. /\ TNat /\ TFree /\ TWait /\ TCall /\ TRet /\ TBool /\ TPc /\ TLoc /\ TCase /\ TMips
      /\ Places /\ Place(c) /\ Headers /\ RetOne
  BY TypeGroups, Zenon DEF RpcIInv, Places
<1>1. /\ pc[c] = "unwait" /\ Goto(c, "up") /\ Unlist(session[wait[c]])
      /\ freeWait' = Append(freeWait, wait[c])
  BY Zenon DEF ReleaseTimedOut
<1>2. UNCHANGED <<sendSem, ackSem, sid, session, waitSem, freeCall, cmd, call, hdr, sent, ret,
                 retHdr, retSent, ackSent, returns, retAck, callIrq, ackIrq, retIrq, ackWork,
                 retWork, retBusy, kind, slot, sess, wait, status, result, begun, case, late,
                 freeRet, todo, acks, unacked, taken>>
  BY Zenon DEF ReleaseTimedOut, sockVars, callVars, retVars, irqVars, locals, mipsVars
<1>3. /\ pc'[c] = "up" /\ Locals(c) /\ wait[c] # None /\ wait[c] \in Waits /\ status[c] # "ok"
      /\ \A d \in Callers : d # c => Same(d)
  <2>1. wait[c] # None /\ wait[c] \in Waits /\ status[c] # "ok"
    BY <1>0, <1>1, Zenon DEF Place, TLoc, Waitings
  <2>. QED  BY <1>0, <1>1, <1>2, <2>1, Goes, Zenon DEF Same, Locals
<1>4. TypeOK'
  <2>1. TFree'
    BY <1>0, <1>1, <1>2, <1>3, AppendFacts, Zenon DEF TFree
  <2>2. TWait'
    <3>1. waitList' \subseteq waitList
      BY <1>1, Zenon DEF Unlist
    <3>. QED  BY <1>0, <1>2, <3>1, Zenon DEF TWait
  <2>3. TPc'
    BY <1>0, <1>1, Zenon DEF TPc, Goto, Sending
  <2>4. TNat' /\ TCall' /\ TRet' /\ TBool' /\ TLoc' /\ TCase' /\ TMips'
    BY <1>0, <1>2, TypesKept, Zenon
  <2>. QED  BY <2>1, <2>2, <2>3, <2>4, TypeGroupsNext, Zenon
<1>5. Place(c)'
  BY <1>0, <1>1, <1>3, Zenon DEF Place, Fills, AtAck, Holding, Locals
<1>6. Places' /\ \A d \in Callers : d # c => SamePhase(d) /\ Quiet(d) /\ Calm(d)
  BY <1>0, <1>3, <1>5, OthersSame, Zenon
<1>7. /\ ~Fills(c) /\ ~AtAck(c) /\ Holding(c)
      /\ ~Fills(c)' /\ ~AtAck(c)' /\ ~Holding(c)'
  BY <1>0, <1>1, <1>3, Zenon DEF Place, Fills, AtAck, Holding, Awaits, Collects, Locals
<1>8. ASSUME NoBypass, Shared PROVE Shared'
  <2>1. SemDown'
    BY <1>0, <1>1, <1>2, <1>3, <1>6, <1>7, <1>8, SemKept, Zenon DEF Shared, Quiet, Locals, Sending, TNat
  <2>2. Numbers'
    BY <1>0, <1>1, <1>2, <1>3, <1>6, <1>7, <1>8, NumbersKept, Zenon DEF Shared, Quiet, Locals, Sending, TNat
  <2>3. WaitsHeld' /\ WaitsConserved'
    <3>1. Numbers /\ WaitsHeld /\ WaitsConserved
      BY <1>8, Zenon DEF Shared
    <3>2. wait[c] \in waitList /\ session[wait[c]] = sess[c]
      BY <1>7, <3>1, Zenon DEF WaitsHeld
    <3>3. waitList' = waitList \ {wait[c]}
      BY <1>0, <1>1, <1>7, <3>1, <3>2, OwnEntry, Zenon DEF Unlist
    <3>4. \A d \in Callers : Holding(d)' <=> Holding(d) /\ d # c
      BY <1>6, <1>7, Zenon DEF Quiet
    <3>5. \A d \in Callers : pc'[d] = "addwait" => pc[d] = "addwait"
      BY <1>3, Zenon DEF Same
    <3>. QED  BY <1>0, <1>1, <1>2, <1>7, <3>1, <3>3, <3>4, <3>5, EntryReleased, Zenon
  <2>4. SlotsHeld'
    BY <1>0, <1>1, <1>2, <1>3, <1>6, <1>7, <1>8, SlotsHeldKept, Zenon DEF Shared, Quiet, Locals, Sending, TNat
  <2>5. SlotExclusive'
    BY <1>0, <1>1, <1>2, <1>3, <1>6, <1>7, <1>8, SlotsKeptSame, Zenon DEF Shared, Quiet, Locals, Sending, TNat
  <2>. QED  BY <2>1, <2>2, <2>3, <2>4, <2>5, Zenon DEF Shared
<1>9. ASSUME NoAckTimeout, Shared, Acked PROVE Acked'
  BY <1>1, <1>9, Zenon DEF Acked, AckPending
<1>e. ASSUME NoTimeout, Shared, Acked, Exact PROVE Exact'
  BY <1>1, <1>e, Zenon DEF Acked, AckPending
<1>10. Headers' /\ RetOne' /\ late' = late
  BY <1>0, <1>2, Zenon DEF Headers, RetOne, RetLive
<1>. QED  BY <1>4, <1>6, <1>8, <1>9, <1>e, <1>10, StepInv, Zenon

\* The send is over, and nobody sends.
LEMMA ReleaseSendInv ==
    ASSUME RpcIInv, NEW c \in Callers, ReleaseSend(c)
    PROVE  RpcIInv'
<1>0. /\ TNat /\ TFree /\ TWait /\ TCall /\ TRet /\ TBool /\ TPc /\ TLoc /\ TCase /\ TMips
      /\ Places /\ Place(c) /\ Headers /\ RetOne
  BY TypeGroups, Zenon DEF RpcIInv, Places
<1>1. /\ pc[c] = "up" /\ sendSem' = sendSem + 1
      /\ Goto(c, IF kind[c] = "call" /\ status[c] = "ok" THEN "retwait" ELSE "idle")
  BY Zenon DEF ReleaseSend
<1>2. UNCHANGED <<ackSem, sid, freeWait, session, waitSem, waitList, freeCall, cmd, call, hdr, sent,
                 ret, retHdr, retSent, ackSent, returns, retAck, callIrq, ackIrq, retIrq,
                 ackWork, retWork, retBusy, kind, slot, sess, wait, status, result, begun,
                 case, late, freeRet, todo, acks, unacked, taken>>
  BY Zenon DEF ReleaseSend, waitVars, callVars, retVars, irqVars, locals, mipsVars
<1>3. /\ pc'[c] = (IF kind[c] = "call" /\ status[c] = "ok" THEN "retwait" ELSE "idle") /\ Locals(c)
      /\ kind[c] = "call" \/ kind[c] = "notify"
      /\ \A d \in Callers : d # c => Same(d)
  <2>1. kind[c] = "call" \/ kind[c] = "notify"
    BY <1>0, Zenon DEF TLoc
  <2>. QED  BY <1>0, <1>1, <1>2, <2>1, Goes, Zenon DEF Same, Locals
<1>4. TypeOK'
  <2>1. TNat'
    BY <1>0, <1>1, <1>2 DEF TNat
  <2>2. TPc'
    BY <1>0, <1>1, Zenon DEF TPc, Goto, Sending
  <2>3. TFree' /\ TWait' /\ TCall' /\ TRet' /\ TBool' /\ TLoc' /\ TCase' /\ TMips'
    BY <1>0, <1>2, TypesKept, Zenon
  <2>. QED  BY <2>1, <2>2, <2>3, TypeGroupsNext, Zenon
<1>5. Place(c)'
  <2>1. CASE kind[c] = "call" /\ status[c] = "ok"
    <3>1. /\ pc'[c] = "retwait" /\ wait'[c] = wait[c] /\ status'[c] = "ok" /\ kind'[c] = "call"
          /\ sess'[c] = sess[c] /\ wait[c] # None /\ sess[c] # 0
      BY <1>0, <1>3, <2>1, Zenon DEF Place, Locals
    <3>. QED  BY <3>1, Zenon DEF Place, Fills, AtAck
  <2>2. CASE ~(kind[c] = "call" /\ status[c] = "ok")
    <3>1. pc'[c] = "idle"
      BY <1>3, <2>2, Zenon
    <3>. QED  BY <1>0, <1>3, <3>1, Zenon DEF Place, Fills, AtAck, Holding, Locals
  <2>. QED  BY <2>1, <2>2
<1>6. Places' /\ \A d \in Callers : d # c => SamePhase(d) /\ Quiet(d) /\ Calm(d)
  BY <1>0, <1>3, <1>5, OthersSame, Zenon
<1>7. /\ ~Fills(c) /\ ~AtAck(c) /\ ~Fills(c)' /\ ~AtAck(c)' /\ (Holding(c)' <=> Holding(c))
      /\ (Awaits(c)' <=> Awaits(c)) /\ (Collects(c)' <=> Collects(c))
  <2>1. CASE kind[c] = "call" /\ status[c] = "ok"
    <3>1. pc'[c] = "retwait" /\ wait'[c] = wait[c] /\ status'[c] = "ok"
      BY <1>3, <2>1, Zenon DEF Locals
    <3>. QED  BY <1>1, <2>1, <3>1, Zenon DEF Fills, AtAck, Holding, Awaits, Collects
  <2>2. CASE ~(kind[c] = "call" /\ status[c] = "ok")
    <3>1. pc'[c] = "idle" /\ (wait[c] = None \/ status[c] # "ok")
      BY <1>0, <1>3, <2>2, Zenon DEF Place
    <3>. QED  BY <1>1, <3>1, Zenon DEF Fills, AtAck, Holding, Awaits, Collects
  <2>. QED  BY <2>1, <2>2
<1>c. Calm(c)
  BY <1>0, <1>1, <1>3, <1>7, Zenon DEF Calm, Steady, SamePhase, Sending, Locals, Place
<1>8. ASSUME NoBypass, Shared PROVE Shared'
  <2>0. \A d \in Callers : d # c => pc[d] \notin Sending
    BY <1>1, <1>8, Zenon DEF Shared, SemDown, Sending
  <2>1. SemDown'
    <3>1. sendSem = 0
      BY <1>1, <1>8, Zenon DEF Shared, SemDown, Sending
    <3>2. sendSem' = 1
      BY <1>1, <3>1
    <3>3. \A d \in Callers : pc'[d] \notin Sending
      BY <1>3, <2>0, Zenon DEF Same, Sending
    <3>. QED  BY <3>2, <3>3 DEF SemDown
  <2>2. Numbers'
    <3>1. \A d \in Callers : pc[d] = "store" <=> pc'[d] = "store"
      BY <1>1, <1>3, Zenon DEF Same
    <3>. QED  BY <1>0, <1>2, <1>8, <3>1, NumbersKept, Zenon DEF Shared, TNat
  <2>3. WaitsHeld' /\ WaitsConserved'
    <3>1. \A d \in Callers : pc'[d] = "addwait" => pc[d] = "addwait"
      BY <1>3, Zenon DEF Same
    <3>. QED  BY <1>2, <1>6, <1>7, <1>8, <3>1, WaitsKept, Zenon DEF Shared, Quiet
  <2>4. SlotsHeld'
    BY <1>0, <1>1, <1>2, <1>3, <1>6, <1>7, <1>8, SlotsHeldKept, Zenon DEF Shared, Quiet, Locals, Sending, TNat
  <2>5. SlotExclusive'
    BY <1>0, <1>1, <1>2, <1>3, <1>6, <1>7, <1>8, SlotsKeptSame, Zenon DEF Shared, Quiet, Locals, Sending, TNat
  <2>. QED  BY <2>1, <2>2, <2>3, <2>4, <2>5, Zenon DEF Shared
<1>9. ASSUME NoAckTimeout, Shared, Acked PROVE Acked'
  BY <1>2, <1>6, <1>c, <1>9, AckedKept, Zenon DEF Calm
<1>e. ASSUME NoTimeout, Shared, Acked, Exact PROVE Exact'
  BY <1>2, <1>6, <1>c, <1>e, ExactKept, Zenon
<1>10. Headers' /\ RetOne' /\ late' = late
  BY <1>0, <1>2, Zenon DEF Headers, RetOne, RetLive
<1>. QED  BY <1>4, <1>6, <1>8, <1>9, <1>e, <1>10, StepInv, Zenon

\* The thread is woken: the entry it waits on is its own, and its RETURN is there.
LEMMA WaitReturnInv ==
    ASSUME RpcIInv, NEW c \in Callers, WaitReturn(c)
    PROVE  RpcIInv'
<1>0. /\ TNat /\ TFree /\ TWait /\ TCall /\ TRet /\ TBool /\ TPc /\ TLoc /\ TCase /\ TMips
      /\ Places /\ Place(c) /\ Headers /\ RetOne
  BY TypeGroups, Zenon DEF RpcIInv, Places
<1>1. /\ pc[c] = "retwait" /\ Goto(c, "getret")
      /\ \E w \in waitList : /\ session[w] = sess[c] /\ waitSem[w] > 0
                           /\ waitSem' = [waitSem EXCEPT ![w] = @ - 1]
  BY Zenon DEF WaitReturn
<1>2. UNCHANGED <<sendSem, ackSem, sid, freeWait, session, waitList, freeCall, cmd, call, hdr, sent,
                 ret, retHdr, retSent, ackSent, returns, retAck, callIrq, ackIrq, retIrq,
                 ackWork, retWork, retBusy, kind, slot, sess, wait, status, result, begun,
                 case, late, freeRet, todo, acks, unacked, taken>>
  BY Zenon DEF WaitReturn, sockVars, callVars, retVars, irqVars, locals, mipsVars
<1>3. /\ pc'[c] = "getret" /\ Locals(c) /\ wait[c] # None /\ sess[c] # 0
      /\ \A d \in Callers : d # c => Same(d)
  <2>1. wait[c] # None /\ sess[c] # 0
    BY <1>0, <1>1, Zenon DEF Place
  <2>. QED  BY <1>0, <1>1, <1>2, <2>1, Goes, Zenon DEF Same, Locals
<1>4. TypeOK'
  <2>1. TWait'
    <3>1. PICK w \in waitList : waitSem[w] > 0 /\ waitSem' = [waitSem EXCEPT ![w] = @ - 1]
      BY <1>1, Zenon
    <3>2. w \in Waits /\ waitSem[w] \in Nat
      BY <1>0, Zenon DEF TWait
    <3>3. waitSem[w] - 1 \in Nat
      BY <3>1, <3>2
    <3>. QED  BY <1>0, <1>2, <3>1, <3>2, <3>3, Zenon DEF TWait
  <2>2. TPc'
    BY <1>0, <1>1, Zenon DEF TPc, Goto, Sending
  <2>3. TNat' /\ TFree' /\ TCall' /\ TRet' /\ TBool' /\ TLoc' /\ TCase' /\ TMips'
    BY <1>0, <1>2, TypesKept, Zenon
  <2>. QED  BY <2>1, <2>2, <2>3, TypeGroupsNext, Zenon
<1>5. Place(c)'
  BY <1>0, <1>1, <1>3, Zenon DEF Place, Fills, AtAck, Holding, Locals
<1>6. Places' /\ \A d \in Callers : d # c => SamePhase(d) /\ Quiet(d) /\ Calm(d)
  BY <1>0, <1>3, <1>5, OthersSame, Zenon
<1>7. /\ ~Fills(c) /\ ~AtAck(c) /\ ~Fills(c)' /\ ~AtAck(c)' /\ Holding(c) /\ Holding(c)'
      /\ Awaits(c) /\ Collects(c) /\ ~Awaits(c)' /\ Collects(c)'
  BY <1>0, <1>1, <1>3, Zenon DEF Place, Fills, AtAck, Holding, Awaits, Collects, Locals
<1>q. Quiet(c)
  BY <1>0, <1>1, <1>3, <1>7, Zenon DEF Quiet, SamePhase, Sending, Locals, Place
<1>8. ASSUME NoBypass, Shared PROVE Shared'
  BY <1>0, <1>2, <1>6, <1>q, <1>8, SharedKept, Zenon
<1>9. ASSUME NoAckTimeout, Shared, Acked PROVE Acked'
  <2>1. AckPending'
    BY <1>0, <1>1, <1>2, <1>3, <1>6, <1>7, <1>9, AckKept, Zenon DEF Acked, Calm, Steady, SamePhase, Locals, RetLive, Place
  <2>2. AckIsOwn'
    BY <1>0, <1>1, <1>2, <1>3, <1>6, <1>7, <1>9, OwnKept, Zenon DEF Acked, Calm, Steady, SamePhase, Locals, RetLive, Place
  <2>3. SlotsKept'
    BY <1>0, <1>1, <1>2, <1>3, <1>6, <1>7, <1>9, SlotsKeptSame, Zenon DEF Acked, Calm, Steady, SamePhase, Locals, RetLive, Place
  <2>. QED  BY <2>1, <2>2, <2>3, Zenon DEF Acked
<1>e. ASSUME NoTimeout, Shared, Acked, Exact PROVE Exact'
  <2>a. PICK w \in waitList : /\ session[w] = sess[c] /\ waitSem[w] > 0
                              /\ waitSem' = [waitSem EXCEPT ![w] = @ - 1]
    BY <1>1, Zenon
  <2>b. w = wait[c] /\ w \in Waits /\ waitSem[w] \in Nat
    BY <1>0, <1>7, <1>e, <2>a, OwnEntry, Zenon DEF Shared, TWait
  <2>c. waitSem[w] # 0
    BY <2>a
  <2>d. waitSem[w] = 1 /\ Ready(sess[c])
    <3>1. PICK d \in Callers : Awaits(d) /\ wait[d] = w /\ Ready(sess[d])
      BY <1>e, <2>b, <2>c, Zenon DEF Exact, Signals
    <3>2. d = c
      BY <1>0, <1>7, <1>e, <2>b, <3>1, OneHolder, Zenon DEF Shared, Awaits
    <3>. QED  BY <1>e, <2>b, <2>c, <3>1, <3>2, Zenon DEF Exact, Signals
  <2>e. Returned(sess[c])
    BY <2>d, Zenon DEF Ready, Returned
  <2>f. \A d \in Callers : Awaits(d) /\ d # c => Awaits(d)'
    BY <1>6, Zenon DEF SamePhase
  <2>g. sess' = sess /\ wait' = wait /\ returns' = returns /\ ret' = ret /\ retBusy' = retBusy
    BY <1>2, Zenon
  <2>4. RetSlots'
    BY <1>2, <1>e, RetKept, Zenon DEF Exact, RetLive
  <2>5. AnswerOnce'
    <3>1. \A s : (Returned(s)' <=> Returned(s)) /\ (Asked(s)' <=> Asked(s))
      BY <1>2, Zenon DEF Returned, Asked
    <3>2. AskedOnce'
      <4>1. AskedOnce /\ todo' = todo
        BY <1>2, <1>e, Zenon DEF Exact, AnswerOnce
      <4>2. ASSUME NEW m \in todo, ~m.notify
            PROVE  \E d \in Callers : Awaits(d)' /\ sess[d] = m.session /\ wait[d] = m.wait
        <5>1. PICK d \in Callers : Awaits(d) /\ sess[d] = m.session /\ wait[d] = m.wait
          BY <4>1, <4>2, Zenon DEF AskedOnce
        <5>2. ~Returned(m.session)
          BY <4>1, <4>2, Zenon DEF AskedOnce
        <5>. QED  BY <2>e, <2>f, <5>1, <5>2, Zenon
      <4>. QED  BY <2>g, <3>1, <4>1, <4>2, Zenon DEF AskedOnce
    <3>3. ArrivesOnce'
      <4>1. ArrivesOnce /\ retHdr' = retHdr /\ (RetLive' <=> RetLive)
        BY <1>2, <1>e, Zenon DEF Exact, AnswerOnce, RetLive
      <4>. QED  BY <2>e, <2>f, <2>g, <3>1, <4>1, Zenon DEF ArrivesOnce
    <3>4. ReturnedOnce'
      <4>1. \A d \in Callers : Collects(d) => Collects(d)'
        BY <1>6, <1>7, Zenon DEF SamePhase
      <4>. QED  BY <1>e, <2>g, <4>1, Zenon DEF Exact, AnswerOnce, ReturnedOnce
    <3>5. NotYetAsked'
      <4>1. \A d \in Callers : sent' /\ AtAck(d)' => sent /\ AtAck(d)
        BY <1>2, <1>6, <1>7, Zenon DEF SamePhase
      <4>2. \A s : NoAnswer(s) => NoAnswer(s)'
        BY <1>2, <3>1, Zenon DEF NoAnswer, RetLive
      <4>. QED  BY <1>e, <2>g, <4>1, <4>2, Zenon DEF Exact, AnswerOnce, NotYetAsked
    <3>. QED  BY <3>2, <3>3, <3>4, <3>5, Zenon DEF AnswerOnce
  <2>6. Signals'
    <3>1. waitSem'[w] = 0 /\ \A v \in Waits : v # w => waitSem'[v] = waitSem[v]
      <4>1. waitSem[w] - 1 = 0
        BY <2>d
      <4>. QED  BY <1>0, <2>a, <2>b, <4>1, Zenon DEF TWait
    <3>2. \A d \in Callers : Ready(sess[d])' <=> Ready(sess[d])
      BY <2>g, Zenon DEF Ready
    <3>3. ASSUME NEW v \in Waits, waitSem'[v] # 0
          PROVE  waitSem'[v] = 1 /\ \E d \in Callers : Awaits(d)' /\ wait'[d] = v /\ Ready(sess[d])'
      <4>1. v # w /\ waitSem'[v] = waitSem[v]
        BY <3>1, <3>3, Zenon
      <4>2. waitSem[v] = 1 /\ \E d \in Callers : Awaits(d) /\ wait[d] = v /\ Ready(sess[d])
        BY <1>e, <3>3, <4>1, Zenon DEF Exact, Signals
      <4>. QED  BY <2>b, <2>f, <2>g, <3>2, <4>1, <4>2, Zenon
    <3>4. \A d \in Callers : pc'[d] = "getret" => Ready(sess[d])'
      BY <1>3, <1>e, <2>d, <3>2, Zenon DEF Exact, Signals, Same
    <3>5. \A d \in Callers : pc'[d] = "relwait" => result'[d] = sess'[d]
      BY <1>3, <1>e, ZenonT(60) DEF Exact, Signals, Same, Locals
    <3>. QED  BY <3>3, <3>4, <3>5, Zenon DEF Signals
  <2>7. CallHasResult'
    BY <1>0, <1>1, <1>2, <1>3, <1>6, <1>7, <1>e, ResultKept, Zenon DEF Exact, Calm, Steady, SamePhase, Locals, RetLive, Place
  <2>. QED  BY <2>4, <2>5, <2>6, <2>7, Zenon DEF Exact
<1>10. Headers' /\ RetOne' /\ late' = late
  BY <1>0, <1>2, Zenon DEF Headers, RetOne, RetLive
<1>. QED  BY <1>4, <1>6, <1>8, <1>9, <1>e, <1>10, StepInv, Zenon

\* The RETURN is late, and the wait is given up.
LEMMA WaitReturnTimedOutInv ==
    ASSUME RpcIInv, NEW c \in Callers, WaitReturnTimedOut(c)
    PROVE  RpcIInv'
<1>0. /\ TNat /\ TFree /\ TWait /\ TCall /\ TRet /\ TBool /\ TPc /\ TLoc /\ TCase /\ TMips
      /\ Places /\ Place(c) /\ Headers /\ RetOne
  BY TypeGroups, Zenon DEF RpcIInv, Places
<1>1. /\ pc[c] = "retwait" /\ Goto(c, "getret")
      /\ "ret" \in case.may /\ late' = late \cup {"ret"}
  BY Zenon DEF WaitReturnTimedOut
<1>2. UNCHANGED <<sendSem, ackSem, sid, freeWait, session, waitSem, waitList, freeCall, cmd, call,
                 hdr, sent, ret, retHdr, retSent, ackSent, returns, retAck, callIrq, ackIrq,
                 retIrq, ackWork, retWork, retBusy, kind, slot, sess, wait, status, result,
                 begun, case, freeRet, todo, acks, unacked, taken>>
  BY Zenon DEF WaitReturnTimedOut, sockVars, waitVars, callVars, retVars, irqVars, mipsVars
<1>3. /\ pc'[c] = "getret" /\ Locals(c) /\ wait[c] # None /\ sess[c] # 0
      /\ \A d \in Callers : d # c => Same(d)
  <2>1. wait[c] # None /\ sess[c] # 0
    BY <1>0, <1>1, Zenon DEF Place
  <2>. QED  BY <1>0, <1>1, <1>2, <2>1, Goes, Zenon DEF Same, Locals
<1>4. TypeOK'
  <2>1. TPc'
    BY <1>0, <1>1, Zenon DEF TPc, Goto, Sending
  <2>2. TCase'
    BY <1>0, <1>1, <1>2, Zenon DEF TCase
  <2>3. TNat' /\ TFree' /\ TWait' /\ TCall' /\ TRet' /\ TBool' /\ TLoc' /\ TMips'
    BY <1>0, <1>2, TypesKept, Zenon
  <2>. QED  BY <2>1, <2>2, <2>3, TypeGroupsNext, Zenon
<1>5. Place(c)'
  BY <1>0, <1>1, <1>3, Zenon DEF Place, Fills, AtAck, Holding, Locals
<1>6. Places' /\ \A d \in Callers : d # c => SamePhase(d) /\ Quiet(d) /\ Calm(d)
  BY <1>0, <1>3, <1>5, OthersSame, Zenon
<1>7. /\ ~Fills(c) /\ ~AtAck(c) /\ ~Fills(c)' /\ ~AtAck(c)' /\ Holding(c) /\ Holding(c)'
  BY <1>0, <1>1, <1>3, Zenon DEF Place, Fills, AtAck, Holding, Awaits, Collects, Locals
<1>s. Steady(c)
  BY <1>0, <1>1, <1>3, <1>7, Zenon DEF Steady, Locals, Place
<1>q. Quiet(c)
  BY <1>0, <1>1, <1>3, <1>7, Zenon DEF Quiet, SamePhase, Sending, Locals, Place
<1>8. ASSUME NoBypass, Shared PROVE Shared'
  BY <1>0, <1>2, <1>6, <1>q, <1>8, SharedKept, Zenon
<1>9. ASSUME NoAckTimeout, Shared, Acked PROVE Acked'
  BY <1>2, <1>6, <1>s, <1>9, AckedKept, Zenon DEF Calm
<1>10. Headers' /\ RetOne'
  BY <1>0, <1>2, Zenon DEF Headers, RetOne, RetLive
<1>11. "ret" \in {"sem", "ack", "ret"} /\ "ret" # "sem"
  BY SMT
<1>. QED  BY <1>1, <1>4, <1>6, <1>8, <1>9, <1>10, <1>11, TimeoutInv, Zenon

\* No entry of the session is listed: only after a bypass, since the thread holds one.
LEMMA WaitNotListedInv ==
    ASSUME RpcIInv, NEW c \in Callers, WaitNotListed(c)
    PROVE  RpcIInv'
<1>0. /\ TNat /\ TFree /\ TWait /\ TCall /\ TRet /\ TBool /\ TPc /\ TLoc /\ TCase /\ TMips
      /\ Places /\ Place(c) /\ Headers /\ RetOne
  BY TypeGroups, Zenon DEF RpcIInv, Places
<1>1. /\ pc[c] = "retwait" /\ Goto(c, "getret")
      /\ \A w \in waitList : session[w] # sess[c]
  BY Zenon DEF WaitNotListed
<1>2. UNCHANGED <<sendSem, ackSem, sid, freeWait, session, waitSem, waitList, freeCall, cmd, call,
                 hdr, sent, ret, retHdr, retSent, ackSent, returns, retAck, callIrq, ackIrq,
                 retIrq, ackWork, retWork, retBusy, kind, slot, sess, wait, status, result,
                 begun, case, late, freeRet, todo, acks, unacked, taken>>
  BY Zenon DEF WaitNotListed, sockVars, waitVars, callVars, retVars, irqVars, locals, mipsVars
<1>3. /\ pc'[c] = "getret" /\ Locals(c) /\ wait[c] # None /\ sess[c] # 0
      /\ \A d \in Callers : d # c => Same(d)
  <2>1. wait[c] # None /\ sess[c] # 0
    BY <1>0, <1>1, Zenon DEF Place
  <2>. QED  BY <1>0, <1>1, <1>2, <2>1, Goes, Zenon DEF Same, Locals
<1>4. TypeOK'
  <2>1. TPc'
    BY <1>0, <1>1, Zenon DEF TPc, Goto, Sending
  <2>2. TNat' /\ TFree' /\ TWait' /\ TCall' /\ TRet' /\ TBool' /\ TLoc' /\ TCase' /\ TMips'
    BY <1>0, <1>2, TypesKept, Zenon
  <2>. QED  BY <2>1, <2>2, TypeGroupsNext, Zenon
<1>5. Place(c)'
  BY <1>0, <1>1, <1>3, Zenon DEF Place, Fills, AtAck, Holding, Locals
<1>6. Places' /\ \A d \in Callers : d # c => SamePhase(d) /\ Quiet(d) /\ Calm(d)
  BY <1>0, <1>3, <1>5, OthersSame, Zenon
<1>7. /\ ~Fills(c) /\ ~AtAck(c) /\ ~Fills(c)' /\ ~AtAck(c)' /\ Holding(c) /\ Holding(c)'
  BY <1>0, <1>1, <1>3, Zenon DEF Place, Fills, AtAck, Holding, Awaits, Collects, Locals
<1>8. Shared => FALSE
  BY <1>1, <1>7, Zenon DEF Shared, WaitsHeld
<1>10. Headers' /\ RetOne' /\ late' = late
  BY <1>0, <1>2, Zenon DEF Headers, RetOne, RetLive
<1>. QED  BY <1>4, <1>6, <1>8, <1>10, StepInv, Zenon

\* There is no RETURN of this session.
LEMMA NullReturnInv ==
    ASSUME RpcIInv, NEW c \in Callers, NullReturn(c)
    PROVE  RpcIInv'
<1>0. /\ TNat /\ TFree /\ TWait /\ TCall /\ TRet /\ TBool /\ TPc /\ TLoc /\ TCase /\ TMips
      /\ Places /\ Place(c) /\ Headers /\ RetOne
  BY TypeGroups, Zenon DEF RpcIInv, Places
<1>1. /\ pc[c] = "getret" /\ Goto(c, "relwait")
      /\ \A r \in returns : ret[r].session # sess[c]
  BY Zenon DEF NullReturn
<1>2. UNCHANGED <<sendSem, ackSem, sid, freeWait, session, waitSem, waitList, freeCall, cmd, call,
                 hdr, sent, ret, retHdr, retSent, ackSent, returns, retAck, callIrq, ackIrq,
                 retIrq, ackWork, retWork, retBusy, kind, slot, sess, wait, status, result,
                 begun, case, late, freeRet, todo, acks, unacked, taken>>
  BY Zenon DEF NullReturn, sockVars, waitVars, callVars, retVars, irqVars, locals, mipsVars
<1>3. /\ pc'[c] = "relwait" /\ Locals(c) /\ wait[c] # None /\ sess[c] # 0
      /\ \A d \in Callers : d # c => Same(d)
  <2>1. wait[c] # None /\ sess[c] # 0
    BY <1>0, <1>1, Zenon DEF Place
  <2>. QED  BY <1>0, <1>1, <1>2, <2>1, Goes, Zenon DEF Same, Locals
<1>4. TypeOK'
  <2>1. TPc'
    BY <1>0, <1>1, Zenon DEF TPc, Goto, Sending
  <2>2. TNat' /\ TFree' /\ TWait' /\ TCall' /\ TRet' /\ TBool' /\ TLoc' /\ TCase' /\ TMips'
    BY <1>0, <1>2, TypesKept, Zenon
  <2>. QED  BY <2>1, <2>2, TypeGroupsNext, Zenon
<1>5. Place(c)'
  BY <1>0, <1>1, <1>3, Zenon DEF Place, Fills, AtAck, Holding, Locals
<1>6. Places' /\ \A d \in Callers : d # c => SamePhase(d) /\ Quiet(d) /\ Calm(d)
  BY <1>0, <1>3, <1>5, OthersSame, Zenon
<1>7. /\ ~Fills(c) /\ ~AtAck(c) /\ ~Fills(c)' /\ ~AtAck(c)' /\ Holding(c) /\ Holding(c)'
  BY <1>0, <1>1, <1>3, Zenon DEF Place, Fills, AtAck, Holding, Awaits, Collects, Locals
<1>s. Steady(c)
  BY <1>0, <1>1, <1>3, <1>7, Zenon DEF Steady, Locals, Place
<1>q. Quiet(c)
  BY <1>0, <1>1, <1>3, <1>7, Zenon DEF Quiet, SamePhase, Sending, Locals, Place
<1>8. ASSUME NoBypass, Shared PROVE Shared'
  BY <1>0, <1>2, <1>6, <1>q, <1>8, SharedKept, Zenon
<1>9. ASSUME NoAckTimeout, Shared, Acked PROVE Acked'
  BY <1>2, <1>6, <1>s, <1>9, AckedKept, Zenon DEF Calm
<1>e. ASSUME NoTimeout, Shared, Acked, Exact PROVE Exact'
  BY <1>1, <1>e, Zenon DEF Exact, Signals, Ready
<1>10. Headers' /\ RetOne' /\ late' = late
  BY <1>0, <1>2, Zenon DEF Headers, RetOne, RetLive
<1>. QED  BY <1>4, <1>6, <1>8, <1>9, <1>e, <1>10, StepInv, Zenon

\* The thread takes the RETURN of its session, which is its own and the only one.
LEMMA GetReturnInv ==
    ASSUME RpcIInv, NEW c \in Callers, GetReturnbySessionId(c)
    PROVE  RpcIInv'
<1>0. /\ TNat /\ TFree /\ TWait /\ TCall /\ TRet /\ TBool /\ TPc /\ TLoc /\ TCase /\ TMips
      /\ Places /\ Place(c) /\ Headers /\ RetOne
  BY TypeGroups, Zenon DEF RpcIInv, Places
<1>1. /\ pc[c] = "getret" /\ Goto(c, "relwait")
      /\ \E r \in returns : /\ ret[r].session = sess[c] /\ returns' = returns \ {r}
                           /\ freeRet' = Append(freeRet, r)
                           /\ result' = [result EXCEPT ![c] = ret[r].session]
  BY Zenon DEF GetReturnbySessionId
<1>2. UNCHANGED <<sendSem, ackSem, sid, freeWait, session, waitSem, waitList, freeCall, cmd, call,
                 hdr, sent, ret, retHdr, retSent, ackSent, retAck, callIrq, ackIrq, retIrq, ackWork,
                 retWork, retBusy, kind, slot, sess, wait, status, begun, case, late, todo,
                 acks, unacked, taken>>
  BY Zenon DEF GetReturnbySessionId, sockVars, waitVars, callVars, irqVars
<1>3. /\ pc'[c] = "relwait" /\ kind'[c] = kind[c] /\ slot'[c] = slot[c] /\ sess'[c] = sess[c]
      /\ wait'[c] = wait[c] /\ status'[c] = status[c] /\ result'[c] = sess[c]
      /\ wait[c] # None /\ sess[c] # 0 /\ sess[c] \in Nat
      /\ \A d \in Callers : d # c => Same(d)
  <2>1. wait[c] # None /\ sess[c] # 0 /\ sess[c] \in Nat
    BY <1>0, <1>1, Zenon DEF Place, TLoc
  <2>2. result' = [result EXCEPT ![c] = sess[c]]
    BY <1>1, Zenon
  <2>. QED  BY <1>0, <1>1, <1>2, <2>1, <2>2, Goes, Zenon DEF TLoc, Same, Locals
<1>4. TypeOK'
  <2>1. TFree'
    <3>1. PICK r \in returns : freeRet' = Append(freeRet, r)
      BY <1>1, Zenon
    <3>2. r \in Rets /\ freeRet \in Seq(Rets)
      BY <1>0, Zenon DEF TFree, TRet
    <3>3. freeRet' \in Seq(Rets)
      BY <3>1, <3>2, AppendFacts, Zenon
    <3>. QED  BY <1>0, <1>2, <3>3, Zenon DEF TFree
  <2>2. TRet'
    BY <1>0, <1>1, <1>2, Zenon DEF TRet
  <2>3. TPc'
    BY <1>0, <1>1, Zenon DEF TPc, Goto, Sending
  <2>4. TLoc'
    BY <1>0, <1>1, <1>2, <1>3, Zenon DEF TLoc
  <2>5. TNat' /\ TWait' /\ TCall' /\ TBool' /\ TCase' /\ TMips'
    BY <1>0, <1>2, TypesKept, Zenon
  <2>. QED  BY <2>1, <2>2, <2>3, <2>4, <2>5, TypeGroupsNext, Zenon
<1>5. Place(c)'
  BY <1>0, <1>1, <1>3, Zenon DEF Place, Fills, AtAck, Holding, Locals
<1>6. Places' /\ \A d \in Callers : d # c => SamePhase(d) /\ Quiet(d) /\ Calm(d)
  BY <1>0, <1>3, <1>5, OthersSame, Zenon
<1>7. /\ ~Fills(c) /\ ~AtAck(c) /\ ~Fills(c)' /\ ~AtAck(c)' /\ Holding(c) /\ Holding(c)'
      /\ ~Awaits(c) /\ Collects(c) /\ ~Awaits(c)' /\ ~Collects(c)'
  BY <1>0, <1>1, <1>3, Zenon DEF Place, Fills, AtAck, Holding, Awaits, Collects, Locals
<1>q. Quiet(c)
  BY <1>0, <1>1, <1>3, <1>7, Zenon DEF Quiet, SamePhase, Sending, Locals, Place
<1>8. ASSUME NoBypass, Shared PROVE Shared'
  BY <1>0, <1>2, <1>6, <1>q, <1>8, SharedKept, Zenon
<1>9. ASSUME NoAckTimeout, Shared, Acked PROVE Acked'
  <2>1. AckPending'
    BY <1>0, <1>1, <1>2, <1>3, <1>6, <1>7, <1>9, AckKept, Zenon DEF Acked, Calm, Steady, SamePhase, Locals, RetLive, Place
  <2>2. AckIsOwn'
    BY <1>0, <1>1, <1>2, <1>3, <1>6, <1>7, <1>9, OwnKept, Zenon DEF Acked, Calm, Steady, SamePhase, Locals, RetLive, Place
  <2>3. SlotsKept'
    BY <1>0, <1>1, <1>2, <1>3, <1>6, <1>7, <1>9, SlotsKeptSame, Zenon DEF Acked, Calm, Steady, SamePhase, Locals, RetLive, Place
  <2>. QED  BY <2>1, <2>2, <2>3, Zenon DEF Acked
<1>e. ASSUME NoTimeout, Shared, Acked, Exact PROVE Exact'
  <2>a. PICK r \in returns : /\ ret[r].session = sess[c] /\ returns' = returns \ {r}
                              /\ freeRet' = Append(freeRet, r)
    BY <1>1, Zenon
  <2>0. \A s \in returns : ret[s].session = sess[c] => s = r
    BY <1>e, <2>a DEF Exact, AnswerOnce, ReturnedOnce
  <2>b. r # retBusy
    BY <1>1, <1>e, <2>0, Zenon DEF Exact, Signals, Ready
  <2>c. /\ sess' = sess /\ wait' = wait /\ ret' = ret /\ retBusy' = retBusy /\ todo' = todo
        /\ retHdr' = retHdr /\ (RetLive' <=> RetLive)
    BY <1>2, Zenon DEF RetLive
  <2>d. \A d \in Callers : (Awaits(d) => Awaits(d)' /\ d # c) /\ (Collects(d) /\ d # c => Collects(d)')
    BY <1>6, <1>7, Zenon DEF SamePhase
  <2>e. \A s : (Returned(s)' => Returned(s)) /\ (Asked(s)' <=> Asked(s))
    BY <2>a, <2>c, Zenon DEF Returned, Asked
  <2>f. \A s \in returns' : ret[s].session # sess[c]
    BY <2>0, <2>a, Zenon
  <2>4. RetSlots'
    <3>1. RetSlots /\ r \in Rets /\ r \notin FreeRets
      BY <1>0, <1>e, <2>a, Zenon DEF Exact, RetSlots, TRet
    <3>2. Distinct(freeRet) /\ FreeRets = Entries(freeRet) /\ FreeRets' = Entries(Append(freeRet, r))
      BY <2>a, <3>1, Zenon DEF RetSlots, FreeRets, Entries
    <3>3. Distinct(freeRet') /\ FreeRets' = FreeRets \cup {r}
      <4>1. freeRet \in Seq(Rets) /\ r \in Rets /\ Distinct(freeRet) /\ r \notin Entries(freeRet)
        BY <1>0, <3>1, <3>2, Zenon DEF TFree
      <4>2. /\ Distinct(Append(freeRet, r))
            /\ Entries(Append(freeRet, r)) = Entries(freeRet) \cup {r}
        BY <4>1, PutFree
      <4>. QED  BY <2>a, <3>2, <4>2, Zenon
    <3>. QED  BY <2>a, <2>b, <2>c, <3>1, <3>3 DEF RetSlots
  <2>5. AnswerOnce'
    <3>1. AskedOnce'
      BY <1>e, <2>c, <2>d, <2>e, Zenon DEF Exact, AnswerOnce, AskedOnce
    <3>2. ArrivesOnce'
      BY <1>e, <2>c, <2>d, <2>e, Zenon DEF Exact, AnswerOnce, ArrivesOnce
    <3>3. ReturnedOnce'
      <4>1. ReturnedOnce /\ returns' \subseteq returns
        BY <1>e, <2>a, Zenon DEF Exact, AnswerOnce
      <4>2. ASSUME NEW s \in returns'
            PROVE  \E d \in Callers : Collects(d)' /\ sess[d] = ret[s].session /\ wait[d] = ret[s].wait
        <5>1. PICK d \in Callers : Collects(d) /\ sess[d] = ret[s].session /\ wait[d] = ret[s].wait
          BY <4>1, Zenon DEF ReturnedOnce
        <5>. QED  BY <2>d, <2>f, <5>1, Zenon
      <4>. QED  BY <2>c, <4>1, <4>2, Zenon DEF ReturnedOnce
    <3>4. NotYetAsked'
      <4>1. \A d \in Callers : sent' /\ AtAck(d)' => sent /\ AtAck(d)
        BY <1>2, <1>6, <1>7, Zenon DEF SamePhase
      <4>2. \A s : NoAnswer(s) => NoAnswer(s)'
        BY <2>c, <2>e, Zenon DEF NoAnswer
      <4>. QED  BY <1>e, <2>c, <4>1, <4>2, Zenon DEF Exact, AnswerOnce, NotYetAsked
    <3>. QED  BY <3>1, <3>2, <3>3, <3>4, Zenon DEF AnswerOnce
  <2>6. Signals'
    <3>1. \A d \in Callers : d # c /\ Ready(sess[d]) /\ sess[d] # 0 => Ready(sess[d])'
      <4>1. \A d \in Callers : d # c /\ sess[d] # 0 => sess[d] # sess[c]
        BY <1>e, Zenon DEF Shared, Numbers
      <4>. QED  BY <2>a, <2>c, <4>1, Zenon DEF Ready
    <3>2. \A d \in Callers : Awaits(d) \/ pc[d] = "getret" => sess[d] # 0
      BY <1>0, Zenon DEF Places, Place, Awaits
    <3>3. waitSem' = waitSem
      BY <1>2, Zenon
    <3>4. ASSUME NEW v \in Waits, waitSem'[v] # 0
          PROVE  waitSem'[v] = 1 /\ \E d \in Callers : Awaits(d)' /\ wait'[d] = v /\ Ready(sess[d])'
      <4>1. waitSem[v] = 1 /\ \E d \in Callers : Awaits(d) /\ wait[d] = v /\ Ready(sess[d])
        BY <1>e, <3>3, <3>4, Zenon DEF Exact, Signals
      <4>. QED  BY <2>c, <2>d, <3>1, <3>2, <3>3, <4>1, Zenon
    <3>5. \A d \in Callers : pc'[d] = "getret" => Ready(sess[d])'
      BY <1>3, <1>e, <3>1, <3>2, Zenon DEF Exact, Signals, Same
    <3>6. \A d \in Callers : pc'[d] = "relwait" => result'[d] = sess'[d]
      BY <1>3, <1>e, ZenonT(60) DEF Exact, Signals, Same, Locals
    <3>. QED  BY <3>4, <3>5, <3>6, Zenon DEF Signals
  <2>7. CallHasResult'
    BY <1>0, <1>1, <1>2, <1>3, <1>6, <1>7, <1>e, ResultKept, Zenon DEF Exact, Calm, Steady, SamePhase, Locals, RetLive, Place
  <2>. QED  BY <2>4, <2>5, <2>6, <2>7, Zenon DEF Exact
<1>10. Headers' /\ RetOne' /\ late' = late
  BY <1>0, <1>2, Zenon DEF Headers, RetOne, RetLive
<1>. QED  BY <1>4, <1>6, <1>8, <1>9, <1>e, <1>10, StepInv, Zenon

\* The call is over: the thread gives its wait entry back and has its own result.
LEMMA ReleaseWaitInv ==
    ASSUME RpcIInv, NEW c \in Callers, ReleaseWaitComm(c)
    PROVE  RpcIInv'
<1>0. /\ TNat /\ TFree /\ TWait /\ TCall /\ TRet /\ TBool /\ TPc /\ TLoc /\ TCase /\ TMips
      /\ Places /\ Place(c) /\ Headers /\ RetOne
  BY TypeGroups, Zenon DEF RpcIInv, Places
<1>1. /\ pc[c] = "relwait" /\ Goto(c, "idle")
      /\ IF \E w \in waitList : session[w] = sess[c]
         THEN \E w \in waitList : /\ session[w] = sess[c] /\ waitList' = waitList \ {w}
                                  /\ freeWait' = Append(freeWait, w)
         ELSE UNCHANGED <<waitList, freeWait>>
  BY Zenon DEF ReleaseWaitComm
<1>2. UNCHANGED <<sendSem, ackSem, sid, session, waitSem, freeCall, cmd, call, hdr, sent, ret,
                 retHdr, retSent, ackSent, returns, retAck, callIrq, ackIrq, retIrq, ackWork,
                 retWork, retBusy, kind, slot, sess, wait, status, result, begun, case, late,
                 freeRet, todo, acks, unacked, taken>>
  BY Zenon DEF ReleaseWaitComm, sockVars, callVars, retVars, irqVars, locals, mipsVars
<1>3. /\ pc'[c] = "idle" /\ Locals(c) /\ wait[c] # None
      /\ \A d \in Callers : d # c => Same(d)
  <2>1. wait[c] # None
    BY <1>0, <1>1, Zenon DEF Place
  <2>. QED  BY <1>0, <1>1, <1>2, <2>1, Goes, Zenon DEF Same, Locals
<1>4. TypeOK'
  <2>1. TFree'
    <3>1. CASE \E w \in waitList : session[w] = sess[c]
      <4>1. PICK w \in waitList : freeWait' = Append(freeWait, w)
        BY <1>1, <3>1, Zenon
      <4>. QED  BY <1>0, <1>2, <4>1, AppendFacts, Zenon DEF TFree, TWait
    <3>2. CASE ~\E w \in waitList : session[w] = sess[c]
      BY <1>0, <1>1, <1>2, <3>2, Zenon DEF TFree
    <3>. QED  BY <3>1, <3>2
  <2>2. TWait'
    <3>1. waitList' \subseteq waitList
      BY <1>1, Zenon
    <3>. QED  BY <1>0, <1>2, <3>1, Zenon DEF TWait
  <2>3. TPc'
    BY <1>0, <1>1, Zenon DEF TPc, Goto, Sending
  <2>4. TNat' /\ TCall' /\ TRet' /\ TBool' /\ TLoc' /\ TCase' /\ TMips'
    BY <1>0, <1>2, TypesKept, Zenon
  <2>. QED  BY <2>1, <2>2, <2>3, <2>4, TypeGroupsNext, Zenon
<1>5. Place(c)'
  BY <1>0, <1>1, <1>3, Zenon DEF Place, Fills, AtAck, Holding, Locals
<1>6. Places' /\ \A d \in Callers : d # c => SamePhase(d) /\ Quiet(d) /\ Calm(d)
  BY <1>0, <1>3, <1>5, OthersSame, Zenon
<1>7. /\ ~Fills(c) /\ ~AtAck(c) /\ Holding(c) /\ ~Awaits(c) /\ ~Collects(c)
      /\ ~Fills(c)' /\ ~AtAck(c)' /\ ~Holding(c)' /\ ~Awaits(c)' /\ ~Collects(c)'
  BY <1>0, <1>1, <1>3, Zenon DEF Place, Fills, AtAck, Holding, Awaits, Collects, Locals
<1>8. ASSUME NoBypass, Shared PROVE Shared'
  <2>1. SemDown'
    BY <1>0, <1>1, <1>2, <1>3, <1>6, <1>7, <1>8, SemKept, Zenon DEF Shared, Quiet, Locals, Sending, TNat
  <2>2. Numbers'
    BY <1>0, <1>1, <1>2, <1>3, <1>6, <1>7, <1>8, NumbersKept, Zenon DEF Shared, Quiet, Locals, Sending, TNat
  <2>3. WaitsHeld' /\ WaitsConserved'
    <3>1. Numbers /\ WaitsHeld /\ WaitsConserved
      BY <1>8, Zenon DEF Shared
    <3>2. wait[c] \in waitList /\ session[wait[c]] = sess[c]
      BY <1>7, <3>1, Zenon DEF WaitsHeld
    <3>3. waitList' = waitList \ {wait[c]} /\ freeWait' = Append(freeWait, wait[c])
      BY <1>0, <1>1, <1>7, <3>1, <3>2, OwnEntry, Zenon
    <3>4. \A d \in Callers : Holding(d)' <=> Holding(d) /\ d # c
      BY <1>6, <1>7, Zenon DEF Quiet
    <3>5. \A d \in Callers : pc'[d] = "addwait" => pc[d] = "addwait"
      BY <1>3, Zenon DEF Same
    <3>. QED  BY <1>0, <1>2, <1>7, <3>1, <3>3, <3>4, <3>5, EntryReleased, Zenon
  <2>4. SlotsHeld'
    BY <1>0, <1>1, <1>2, <1>3, <1>6, <1>7, <1>8, SlotsHeldKept, Zenon DEF Shared, Quiet, Locals, Sending, TNat
  <2>5. SlotExclusive'
    BY <1>0, <1>1, <1>2, <1>3, <1>6, <1>7, <1>8, SlotsKeptSame, Zenon DEF Shared, Quiet, Locals, Sending, TNat
  <2>. QED  BY <2>1, <2>2, <2>3, <2>4, <2>5, Zenon DEF Shared
<1>9. ASSUME NoAckTimeout, Shared, Acked PROVE Acked'
  <2>1. AckPending'
    BY <1>0, <1>1, <1>2, <1>3, <1>6, <1>7, <1>9, AckKept, Zenon DEF Acked, Calm, Steady, SamePhase, Locals, RetLive, Place
  <2>2. AckIsOwn'
    BY <1>0, <1>1, <1>2, <1>3, <1>6, <1>7, <1>9, OwnKept, Zenon DEF Acked, Calm, Steady, SamePhase, Locals, RetLive, Place
  <2>3. SlotsKept'
    BY <1>0, <1>1, <1>2, <1>3, <1>6, <1>7, <1>9, SlotsKeptSame, Zenon DEF Acked, Calm, Steady, SamePhase, Locals, RetLive, Place
  <2>. QED  BY <2>1, <2>2, <2>3, Zenon DEF Acked
<1>e. ASSUME NoTimeout, Shared, Acked, Exact PROVE Exact'
  <2>4. RetSlots'
    BY <1>2, <1>e, RetKept, Zenon DEF Exact, RetLive
  <2>5. AnswerOnce'
    BY <1>0, <1>1, <1>2, <1>3, <1>6, <1>7, <1>e, AnswersKept, AwaitsCollects, Zenon DEF Exact, Calm, Steady, SamePhase, Locals, RetLive, Place
  <2>6. Signals'
    BY <1>0, <1>1, <1>2, <1>3, <1>6, <1>7, <1>e, SignalsKept, AwaitsCollects, Zenon DEF Exact, Calm, Steady, SamePhase, Locals, RetLive, Place
  <2>7. CallHasResult'
    <3>1. result[c] = sess[c]
      BY <1>1, <1>e, Zenon DEF Exact, Signals
    <3>. QED  BY <1>3, <1>e, <3>1, ZenonT(60) DEF Exact, CallHasResult, Same, Locals
  <2>. QED  BY <2>4, <2>5, <2>6, <2>7, Zenon DEF Exact
<1>10. Headers' /\ RetOne' /\ late' = late
  BY <1>0, <1>2, Zenon DEF Headers, RetOne, RetLive
<1>. QED  BY <1>4, <1>6, <1>8, <1>9, <1>e, <1>10, StepInv, Zenon

-----------------------------------------------------------------------------
(***************************************************************************)
(* The steps of the interrupts and workers of the ARM, and of the MIPS.    *)
(***************************************************************************)
\* The doorbell of a CALL_ACK.
LEMMA CallAckInv ==
    ASSUME RpcIInv, handle_CPU2_callACK
    PROVE  RpcIInv'
<1>0. /\ TNat /\ TFree /\ TWait /\ TCall /\ TRet /\ TBool /\ TPc /\ TLoc /\ TCase /\ TMips
      /\ Places /\ Headers /\ RetOne
  BY TypeGroups, Zenon DEF RpcIInv
<1>1. /\ ackIrq' = FALSE /\ ackWork' = TRUE
  BY Zenon DEF handle_CPU2_callACK
<1>2. UNCHANGED <<sendSem, ackSem, sid, freeWait, session, waitSem, waitList, freeCall, cmd, call,
                 hdr, sent, ret, retHdr, retSent, ackSent, returns, retAck, callIrq, retIrq,
                 retWork, retBusy, pc, kind, slot, sess, wait, status, result, begun, case,
                 late, freeRet, todo, acks, unacked, taken>>
  BY Zenon DEF handle_CPU2_callACK, sockVars, waitVars, callVars, retVars, locals, mipsVars
<1>4. TypeOK'
  <2>1. TBool'
    BY <1>0, <1>1, <1>2, Zenon DEF TBool
  <2>2. TNat' /\ TFree' /\ TWait' /\ TCall' /\ TRet' /\ TPc' /\ TLoc' /\ TCase' /\ TMips'
    BY <1>0, <1>2, TypesKept, Zenon
  <2>. QED  BY <2>1, <2>2, TypeGroupsNext, Zenon
<1>6. Places' /\ \A d \in Callers : SamePhase(d) /\ Quiet(d) /\ Calm(d)
  BY <1>0, <1>2, AllSame, Zenon
<1>8. ASSUME NoBypass, Shared PROVE Shared'
  BY <1>0, <1>2, <1>6, <1>8, SharedKept, Zenon
<1>9. ASSUME NoAckTimeout, Shared, Acked PROVE Acked'
  BY <1>2, <1>6, <1>9, AckedKept, Zenon DEF Calm
<1>e. ASSUME NoTimeout, Shared, Acked, Exact PROVE Exact'
  BY <1>2, <1>6, <1>e, ExactKept, Zenon
<1>10. Headers' /\ RetOne' /\ late' = late
  BY <1>0, <1>2, Zenon DEF Headers, RetOne, RetLive
<1>. QED  BY <1>4, <1>6, <1>8, <1>9, <1>e, <1>10, StepInv, Zenon

\* The deposited CALL_ACK becomes a signal.
LEMMA AckActionInv ==
    ASSUME RpcIInv, ack_action
    PROVE  RpcIInv'
<1>0. /\ TNat /\ TFree /\ TWait /\ TCall /\ TRet /\ TBool /\ TPc /\ TLoc /\ TCase /\ TMips
      /\ Places /\ Headers /\ RetOne
  BY TypeGroups, Zenon DEF RpcIInv
<1>1. /\ ackWork' = FALSE /\ ackSent' = FALSE
      /\ ackSem' = IF ackSent THEN ackSem + 1 ELSE ackSem
  BY Zenon DEF ack_action
<1>2. UNCHANGED <<sendSem, sid, freeWait, session, waitSem, waitList, freeCall, cmd, call, hdr,
                 sent, ret, retHdr, retSent, returns, retAck, callIrq, ackIrq, retIrq,
                 retWork, retBusy, pc, kind, slot, sess, wait, status, result, begun, case,
                 late, freeRet, todo, acks, unacked, taken>>
  BY Zenon DEF ack_action, waitVars, callVars, locals, mipsVars
<1>4. TypeOK'
  <2>1. TNat'
    BY <1>0, <1>1, <1>2 DEF TNat
  <2>2. TBool'
    BY <1>0, <1>1, <1>2, Zenon DEF TBool
  <2>3. TFree' /\ TWait' /\ TCall' /\ TRet' /\ TPc' /\ TLoc' /\ TCase' /\ TMips'
    BY <1>0, <1>2, TypesKept, Zenon
  <2>. QED  BY <2>1, <2>2, <2>3, TypeGroupsNext, Zenon
<1>6. Places' /\ \A d \in Callers : SamePhase(d) /\ Quiet(d) /\ Calm(d)
  BY <1>0, <1>2, AllSame, Zenon
<1>8. ASSUME NoBypass, Shared PROVE Shared'
  BY <1>0, <1>2, <1>6, <1>8, SharedKept, Zenon
<1>9. ASSUME NoAckTimeout, Shared, Acked PROVE Acked'
  <2>1. AckPending'
    <3>1. InFlight' = InFlight
      <4>1. sent' = sent /\ acks' = acks
        BY <1>2, Zenon
      <4>. QED  BY <1>0, <1>1, <4>1 DEF InFlight, One, TNat
    <3>. QED  BY <1>2, <1>6, <1>9, <3>1, Zenon DEF Acked, AckPending, SamePhase
  <2>2. AckIsOwn'
    BY <1>1, <1>2, <1>6, <1>9, OwnKept, Zenon DEF Acked, Calm, Steady, SamePhase, RetLive
  <2>3. SlotsKept'
    BY <1>1, <1>2, <1>6, <1>9, SlotsKeptSame, Zenon DEF Acked, Calm, Steady, SamePhase, RetLive
  <2>. QED  BY <2>1, <2>2, <2>3, Zenon DEF Acked
<1>e. ASSUME NoTimeout, Shared, Acked, Exact PROVE Exact'
  <2>4. RetSlots'
    BY <1>2, <1>e, RetKept, Zenon DEF Exact, RetLive
  <2>5. AnswerOnce'
    BY <1>1, <1>2, <1>6, <1>e, AnswersKept, AwaitsCollects, Zenon DEF Exact, Calm, Steady, SamePhase, RetLive
  <2>6. Signals'
    BY <1>1, <1>2, <1>6, <1>e, SignalsKept, AwaitsCollects, Zenon DEF Exact, Calm, Steady, SamePhase, RetLive
  <2>7. CallHasResult'
    BY <1>1, <1>2, <1>6, <1>e, ResultKept, Zenon DEF Exact, Calm, Steady, SamePhase, RetLive
  <2>. QED  BY <2>4, <2>5, <2>6, <2>7, Zenon DEF Exact
<1>10. Headers' /\ RetOne' /\ late' = late
  BY <1>0, <1>2, Zenon DEF Headers, RetOne, RetLive
<1>. QED  BY <1>4, <1>6, <1>8, <1>9, <1>e, <1>10, StepInv, Zenon

\* The doorbell of a RETURN.
LEMMA ReturnBellInv ==
    ASSUME RpcIInv, handle_CPU2_return
    PROVE  RpcIInv'
<1>0. /\ TNat /\ TFree /\ TWait /\ TCall /\ TRet /\ TBool /\ TPc /\ TLoc /\ TCase /\ TMips
      /\ Places /\ Headers /\ RetOne
  BY TypeGroups, Zenon DEF RpcIInv
<1>1. /\ retIrq' = FALSE /\ retSent' = FALSE /\ retWork' = (retWork \/ retSent)
  BY Zenon DEF handle_CPU2_return
<1>2. UNCHANGED <<sendSem, ackSem, sid, freeWait, session, waitSem, waitList, freeCall, cmd, call,
                 hdr, sent, ret, retHdr, ackSent, returns, retAck, callIrq, ackIrq, ackWork,
                 retBusy, pc, kind, slot, sess, wait, status, result, begun, case, late,
                 freeRet, todo, acks, unacked, taken>>
  BY Zenon DEF handle_CPU2_return, sockVars, waitVars, callVars, locals, mipsVars
<1>4. TypeOK'
  <2>1. TBool'
    BY <1>0, <1>1, <1>2, Zenon DEF TBool
  <2>2. TNat' /\ TFree' /\ TWait' /\ TCall' /\ TRet' /\ TPc' /\ TLoc' /\ TCase' /\ TMips'
    BY <1>0, <1>2, TypesKept, Zenon
  <2>. QED  BY <2>1, <2>2, TypeGroupsNext, Zenon
<1>6. Places' /\ \A d \in Callers : SamePhase(d) /\ Quiet(d) /\ Calm(d)
  BY <1>0, <1>2, AllSame, Zenon
<1>7. RetLive' <=> RetLive
  BY <1>1, Zenon DEF RetLive
<1>8. ASSUME NoBypass, Shared PROVE Shared'
  BY <1>0, <1>2, <1>6, <1>8, SharedKept, Zenon
<1>9. ASSUME NoAckTimeout, Shared, Acked PROVE Acked'
  <2>1. AckPending'
    BY <1>1, <1>2, <1>6, <1>9, AckKept, Zenon DEF Acked, Calm, Steady, SamePhase, RetLive
  <2>2. AckIsOwn'
    BY <1>1, <1>2, <1>6, <1>9, OwnKept, Zenon DEF Acked, Calm, Steady, SamePhase, RetLive
  <2>3. SlotsKept'
    BY <1>1, <1>2, <1>6, <1>9, SlotsKeptSame, Zenon DEF Acked, Calm, Steady, SamePhase, RetLive
  <2>. QED  BY <2>1, <2>2, <2>3, Zenon DEF Acked
<1>e. ASSUME NoTimeout, Shared, Acked, Exact PROVE Exact'
  <2>4. RetSlots'
    BY <1>1, <1>2, <1>7, <1>e, Zenon DEF Exact, RetSlots, FreeRets
  <2>5. AnswerOnce'
    BY <1>2, <1>6, <1>7, <1>e, AnswersKept, AwaitsCollects, Zenon DEF Exact, Calm, Steady, SamePhase
  <2>6. Signals'
    BY <1>1, <1>2, <1>6, <1>e, SignalsKept, AwaitsCollects, Zenon DEF Exact, Calm, Steady, SamePhase, RetLive
  <2>7. CallHasResult'
    BY <1>1, <1>2, <1>6, <1>e, ResultKept, Zenon DEF Exact, Calm, Steady, SamePhase, RetLive
  <2>. QED  BY <2>4, <2>5, <2>6, <2>7, Zenon DEF Exact
<1>10. Headers' /\ RetOne' /\ late' = late
  BY <1>0, <1>1, <1>2, <1>7, Zenon DEF Headers, RetOne
<1>. QED  BY <1>4, <1>6, <1>8, <1>9, <1>e, <1>10, StepInv, Zenon

\* The RETURN is queued.
LEMMA AddReturn2FifoInv ==
    ASSUME RpcIInv, AddReturn2Fifo
    PROVE  RpcIInv'
<1>0. /\ TNat /\ TFree /\ TWait /\ TCall /\ TRet /\ TBool /\ TPc /\ TLoc /\ TCase /\ TMips
      /\ Places /\ Headers /\ RetOne
  BY TypeGroups, Zenon DEF RpcIInv
<1>1. /\ retWork /\ retBusy = None
      /\ retWork' = FALSE /\ returns' = returns \cup {retHdr} /\ retBusy' = retHdr
  BY Zenon DEF AddReturn2Fifo
<1>2. UNCHANGED <<sendSem, ackSem, sid, freeWait, session, waitSem, waitList, freeCall, cmd, call,
                 hdr, sent, ret, retHdr, retSent, ackSent, retAck, callIrq, ackIrq, retIrq, ackWork,
                 pc, kind, slot, sess, wait, status, result, begun, case, late, freeRet, todo,
                 acks, unacked, taken>>
  BY Zenon DEF AddReturn2Fifo, sockVars, waitVars, callVars, locals, mipsVars
<1>4. TypeOK'
  <2>1. TRet'
    <3>1. RetLive /\ retHdr \in Rets /\ returns \subseteq Rets
      BY <1>0, <1>1, Zenon DEF RetLive, Headers, TRet
    <3>2. returns' \subseteq Rets
      BY <1>1, <3>1, Zenon
    <3>. QED  BY <1>0, <1>1, <1>2, <3>1, <3>2, Zenon DEF TRet
  <2>2. TBool'
    BY <1>0, <1>1, <1>2, Zenon DEF TBool
  <2>3. TNat' /\ TFree' /\ TWait' /\ TCall' /\ TPc' /\ TLoc' /\ TCase' /\ TMips'
    BY <1>0, <1>2, TypesKept, Zenon
  <2>. QED  BY <2>1, <2>2, <2>3, TypeGroupsNext, Zenon
<1>6. Places' /\ \A d \in Callers : SamePhase(d) /\ Quiet(d) /\ Calm(d)
  BY <1>0, <1>2, AllSame, Zenon
<1>8. ASSUME NoBypass, Shared PROVE Shared'
  BY <1>0, <1>2, <1>6, <1>8, SharedKept, Zenon
<1>9. ASSUME NoAckTimeout, Shared, Acked PROVE Acked'
  <2>1. AckPending'
    BY <1>1, <1>2, <1>6, <1>9, AckKept, Zenon DEF Acked, Calm, Steady, SamePhase, RetLive
  <2>2. AckIsOwn'
    BY <1>1, <1>2, <1>6, <1>9, OwnKept, Zenon DEF Acked, Calm, Steady, SamePhase, RetLive
  <2>3. SlotsKept'
    BY <1>1, <1>2, <1>6, <1>9, SlotsKeptSame, Zenon DEF Acked, Calm, Steady, SamePhase, RetLive
  <2>. QED  BY <2>1, <2>2, <2>3, Zenon DEF Acked
<1>e. ASSUME NoTimeout, Shared, Acked, Exact PROVE Exact'
  <2>a. /\ RetLive /\ ~RetLive' /\ ~retSent /\ retHdr \in Rets /\ retHdr \notin FreeRets
        /\ retHdr \notin returns /\ None \notin Rets /\ returns \subseteq Rets
    BY <1>0, <1>1, <1>2, <1>e, RpcAssumption, Zenon DEF Headers, RetLive, RetOne, Exact, RetSlots, TRet
  <2>b. \A s : Returned(s)' <=> Returned(s) \/ ret[retHdr].session = s
    BY <1>1, <1>2, Zenon DEF Returned
  <2>c. \A s : Asked(s)' <=> Asked(s)
    BY <1>2, Zenon DEF Asked
  <2>d. AskedOnce /\ ArrivesOnce /\ ReturnedOnce /\ NotYetAsked
    BY <1>e, Zenon DEF Exact, AnswerOnce
  <2>4. RetSlots'
    <3>1. FreeRets \cap returns' = {}
      <4>1. FreeRets \cap returns = {}
        BY <1>e, Zenon DEF Exact, RetSlots
      <4>. QED  BY <1>1, <2>a, <4>1, Zenon
    <3>2. FreeRets' = FreeRets /\ freeRet' = freeRet
      BY <1>2, Zenon DEF FreeRets
    <3>. QED  BY <1>1, <1>2, <1>e, <2>a, <3>1, <3>2, Zenon DEF Exact, RetSlots
  <2>5. AnswerOnce'
    <3>1. AskedOnce'
      <4>1. ASSUME NEW m \in todo, ~m.notify PROVE ~Returned(m.session)'
        BY <2>a, <2>b, <2>d, <4>1, Zenon DEF AskedOnce, ArrivesOnce, Asked
      <4>. QED  BY <1>2, <1>6, <2>d, <4>1, Zenon DEF AskedOnce, SamePhase
    <3>2. ReturnedOnce'
      <4>1. ASSUME NEW r \in returns'
            PROVE  \E c \in Callers : Collects(c) /\ sess[c] = ret[r].session /\ wait[c] = ret[r].wait
        BY <1>1, <2>a, <2>d, AwaitsCollects, Zenon DEF ReturnedOnce, ArrivesOnce
      <4>2. ASSUME NEW r \in returns', NEW s \in returns', ret[r].session = ret[s].session
            PROVE  r = s
        BY <1>1, <2>a, <2>d, <4>2, Zenon DEF ReturnedOnce, ArrivesOnce, Returned
      <4>. QED  BY <1>2, <1>6, <4>1, <4>2, Zenon DEF ReturnedOnce, SamePhase
    <3>3. NotYetAsked'
      BY <1>2, <1>6, <2>a, <2>b, <2>c, <2>d, Zenon DEF NotYetAsked, NoAnswer, SamePhase
    <3>. QED  BY <2>a, <3>1, <3>2, <3>3, Zenon DEF AnswerOnce, ArrivesOnce
  <2>6. Signals'
    <3>1. returns' \ {retBusy'} = returns /\ returns \ {retBusy} = returns
      BY <1>1, <2>a, Zenon
    <3>2. \A s : Ready(s)' <=> Ready(s)
      BY <1>2, <3>1, Zenon DEF Ready
    <3>. QED  BY <1>2, <1>6, <1>e, <3>2, Zenon DEF Exact, Signals, SamePhase
  <2>7. CallHasResult'
    BY <1>1, <1>2, <1>6, <1>e, ResultKept, Zenon DEF Exact, Calm, Steady, SamePhase, RetLive
  <2>. QED  BY <2>4, <2>5, <2>6, <2>7, Zenon DEF Exact
<1>10. Headers' /\ RetOne' /\ late' = late
  <2>1. ~retSent /\ unacked /\ ~retAck
    BY <1>0, <1>1, Zenon DEF RetOne, RetLive
  <2>. QED  BY <1>0, <1>1, <1>2, <2>1, Zenon DEF Headers, RetOne, RetLive
<1>. QED  BY <1>4, <1>6, <1>8, <1>9, <1>e, <1>10, StepInv, Zenon

\* The entry named in the RETURN is signalled.
LEMMA SignalWaitInv ==
    ASSUME RpcIInv, SignalWait
    PROVE  RpcIInv'
<1>0. /\ TNat /\ TFree /\ TWait /\ TCall /\ TRet /\ TBool /\ TPc /\ TLoc /\ TCase /\ TMips
      /\ Places /\ Headers /\ RetOne
  BY TypeGroups, Zenon DEF RpcIInv
<1>1. /\ retBusy # None /\ retBusy' = None
      /\ IF ret[retBusy].wait # None /\ session[ret[retBusy].wait] = ret[retBusy].session
         THEN /\ waitSem' = [waitSem EXCEPT ![ret[retBusy].wait] = waitSem[ret[retBusy].wait] + 1]
              /\ retHdr' = None /\ retAck' = TRUE
         ELSE waitSem' = waitSem /\ retHdr' = retHdr /\ retAck' = retAck
  BY Zenon DEF SignalWait
<1>2. UNCHANGED <<sendSem, ackSem, sid, freeWait, session, waitList, freeCall, cmd, call, hdr, sent,
                 ret, retSent, ackSent, returns, callIrq, ackIrq, retIrq,
                 ackWork, retWork, pc, kind, slot, sess, wait, status, result, begun, case,
                 late, freeRet, todo, acks, unacked, taken>>
  BY Zenon DEF SignalWait, sockVars, callVars, locals, mipsVars
<1>3. ~RetLive /\ ~RetLive' /\ unacked /\ retBusy \in Rets
  BY <1>0, <1>1, <1>2, Zenon DEF RetOne, RetLive, TRet
<1>4. TypeOK'
  <2>1. TWait'
    <3>1. waitSem' \in [Waits -> Nat]
      <4>1. CASE waitSem' = waitSem
        BY <1>0, <4>1, Zenon DEF TWait
      <4>2. CASE waitSem' = [waitSem EXCEPT ![ret[retBusy].wait] = waitSem[ret[retBusy].wait] + 1]
        BY <1>0, <4>2, Bump, Zenon DEF TWait
      <4>. QED  BY <1>1, <4>1, <4>2, Zenon
    <3>. QED  BY <1>0, <1>2, <3>1, Zenon DEF TWait
  <2>2. TRet'
    BY <1>0, <1>1, <1>2, Zenon DEF TRet
  <2>3. TBool'
    BY <1>0, <1>1, <1>2, Zenon DEF TBool
  <2>4. TNat' /\ TFree' /\ TCall' /\ TPc' /\ TLoc' /\ TCase' /\ TMips'
    BY <1>0, <1>2, TypesKept, Zenon
  <2>. QED  BY <2>1, <2>2, <2>3, <2>4, TypeGroupsNext, Zenon
<1>6. Places' /\ \A d \in Callers : SamePhase(d) /\ Quiet(d) /\ Calm(d)
  BY <1>0, <1>2, AllSame, Zenon
<1>8. ASSUME NoBypass, Shared PROVE Shared'
  BY <1>0, <1>2, <1>6, <1>8, SharedKept, Zenon
<1>9. ASSUME NoAckTimeout, Shared, Acked PROVE Acked'
  <2>1. AckPending'
    BY <1>1, <1>2, <1>6, <1>9, AckKept, Zenon DEF Acked, Calm, Steady, SamePhase, RetLive
  <2>2. AckIsOwn'
    BY <1>1, <1>2, <1>6, <1>9, OwnKept, Zenon DEF Acked, Calm, Steady, SamePhase, RetLive
  <2>3. SlotsKept'
    BY <1>1, <1>2, <1>6, <1>9, SlotsKeptSame, Zenon DEF Acked, Calm, Steady, SamePhase, RetLive
  <2>. QED  BY <2>1, <2>2, <2>3, Zenon DEF Acked
<1>e. ASSUME NoTimeout, Shared, Acked, Exact PROVE Exact'
  <2>a. retBusy \in returns
    BY <1>1, <1>e, Zenon DEF Exact, RetSlots
  <2>b. PICK c \in Callers : /\ Collects(c) /\ sess[c] = ret[retBusy].session
                             /\ wait[c] = ret[retBusy].wait
    BY <1>e, <2>a, Zenon DEF Exact, AnswerOnce, ReturnedOnce
  <2>c. ~Ready(sess[c])
    BY <1>e, <2>a, <2>b, ZenonT(60) DEF Exact, AnswerOnce, ReturnedOnce, Ready
  <2>d. pc[c] # "getret" /\ Awaits(c) /\ Holding(c)
    BY <1>e, <2>b, <2>c, Zenon DEF Exact, Signals, Collects, Awaits
  <2>e. wait[c] # None /\ wait[c] \in Waits /\ session[wait[c]] = sess[c]
    BY <1>0, <1>e, <2>d, Zenon DEF Shared, WaitsHeld, TWait, Holding
  <2>f. waitSem' = [waitSem EXCEPT ![wait[c]] = waitSem[wait[c]] + 1]
    BY <1>1, <2>b, <2>e, Zenon
  <2>g. waitSem[wait[c]] = 0
    BY <1>0, <1>e, <2>c, <2>d, <2>e, OneHolder, Zenon DEF Exact, Shared, Signals, Awaits
  <2>h. waitSem'[wait[c]] = 1 /\ \A w \in Waits : w # wait[c] => waitSem'[w] = waitSem[w]
    <3>1. waitSem \in [Waits -> Nat]
      BY <1>0, Zenon DEF TWait
    <3>2. waitSem' = [waitSem EXCEPT ![wait[c]] = 1]
      BY <2>f, <2>g
    <3>. QED  BY <2>e, <3>1, <3>2, Store, Zenon
  <2>i. Ready(sess[c])' /\ \A s : Ready(s) => Ready(s)'
    <3>1. retBusy \in returns' \ {retBusy'} /\ returns \ {retBusy} \subseteq returns' \ {retBusy'}
      <4>1. None \notin returns
        BY <1>0, RpcAssumption, Zenon DEF TRet
      <4>. QED  BY <1>1, <1>2, <2>a, <4>1, Zenon
    <3>2. ret' = ret /\ sess' = sess
      BY <1>2, Zenon
    <3>. QED  BY <2>b, <3>1, <3>2, Zenon DEF Ready
  <2>4. RetSlots'
    BY <1>1, <1>2, <1>3, <1>e, Zenon DEF Exact, RetSlots, FreeRets
  <2>5. AnswerOnce'
    BY <1>2, <1>3, <1>6, <1>e, AnswersKept, AwaitsCollects, Zenon DEF Exact, Calm, Steady, SamePhase
  <2>6. Signals'
    <3>1. ASSUME NEW w \in Waits, waitSem'[w] # 0
          PROVE  waitSem'[w] = 1 /\ \E d \in Callers : Awaits(d)' /\ wait'[d] = w /\ Ready(sess[d])'
      <4>0. sess' = sess /\ wait' = wait
        BY <1>2, Zenon
      <4>1. CASE w = wait[c]
        BY <1>6, <2>d, <2>h, <2>i, <4>0, <4>1, Zenon DEF SamePhase
      <4>2. CASE w # wait[c]
        <5>1. waitSem[w] = waitSem'[w]
          BY <2>h, <4>2, Zenon
        <5>2. waitSem[w] = 1 /\ \E d \in Callers : Awaits(d) /\ wait[d] = w /\ Ready(sess[d])
          BY <1>e, <3>1, <5>1, Zenon DEF Exact, Signals
        <5>. QED  BY <1>6, <2>i, <4>0, <5>1, <5>2, Zenon DEF SamePhase
      <4>. QED  BY <4>1, <4>2
    <3>2. \A d \in Callers : pc'[d] = "getret" => Ready(sess[d])'
      BY <1>2, <1>e, <2>i, Zenon DEF Exact, Signals
    <3>3. \A d \in Callers : pc'[d] = "relwait" => result'[d] = sess'[d]
      BY <1>2, <1>e, Zenon DEF Exact, Signals
    <3>. QED  BY <3>1, <3>2, <3>3, Zenon DEF Signals
  <2>7. CallHasResult'
    BY <1>1, <1>2, <1>6, <1>e, ResultKept, Zenon DEF Exact, Calm, Steady, SamePhase, RetLive
  <2>. QED  BY <2>4, <2>5, <2>6, <2>7, Zenon DEF Exact
<1>10. Headers' /\ RetOne' /\ late' = late
  BY <1>0, <1>1, <1>2, <1>3, Zenon DEF Headers, RetOne
<1>. QED  BY <1>4, <1>6, <1>8, <1>9, <1>e, <1>10, StepInv, Zenon

\* The MIPS takes the call in the header.
LEMMA MipsTakeInv ==
    ASSUME RpcIInv, MipsTake
    PROVE  RpcIInv'
<1>0. /\ TNat /\ TFree /\ TWait /\ TCall /\ TRet /\ TBool /\ TPc /\ TLoc /\ TCase /\ TMips
      /\ Places /\ Headers /\ RetOne
  BY TypeGroups, Zenon DEF RpcIInv
<1>. DEFINE Taken == [slot |-> hdr, session |-> call[hdr].session, wait |-> call[hdr].wait,
                    notify |-> call[hdr].notify]
<1>1. /\ callIrq > 0 /\ callIrq' = callIrq - 1 /\ sent' = FALSE
      /\ sent => /\ todo' = todo \cup {Taken}
                 /\ acks' = acks + 1 /\ cmd' = cmd + 1 /\ taken' = taken \cup {call[hdr].session}
      /\ ~sent => todo' = todo /\ acks' = acks /\ cmd' = cmd /\ taken' = taken
  BY Zenon DEF MipsTake
<1>2. UNCHANGED <<sendSem, ackSem, sid, freeWait, session, waitSem, waitList, freeCall, call, hdr,
                 ret, retHdr, retSent, ackSent, returns, retAck, ackIrq, retIrq, ackWork,
                 retWork, retBusy, pc, kind, slot, sess, wait, status, result, begun, case,
                 late, freeRet, unacked>>
  BY Zenon DEF MipsTake, sockVars, waitVars, retVars, locals
<1>t. /\ Taken.slot = hdr /\ Taken.session = call[hdr].session /\ Taken.wait = call[hdr].wait
      /\ Taken.notify = call[hdr].notify
      /\ hdr \in Calls => Taken \in Message /\ call[hdr].session \in Nat
  <2>1. hdr \in Calls => call[hdr] \in [session : Nat, wait : Waitings, notify : BOOLEAN]
    BY <1>0, Zenon DEF TCall
  <2>2. /\ Taken.slot = hdr /\ Taken.session = call[hdr].session /\ Taken.wait = call[hdr].wait
        /\ Taken.notify = call[hdr].notify
    OBVIOUS
  <2>. QED  BY <2>1, <2>2 DEF Message
<1>. HIDE DEF Taken
<1>4. TypeOK'
  <2>1. TNat'
    <3>1. acks' \in Nat /\ cmd' \in Nat /\ callIrq' \in Nat
      <4>1. acks \in Nat /\ cmd \in Nat /\ callIrq \in Nat
        BY <1>0, Zenon DEF TNat
      <4>. QED  BY <1>1, <4>1
    <3>. QED  BY <1>0, <1>2, <3>1, Zenon DEF TNat
  <2>2. TBool'
    BY <1>0, <1>1, <1>2, Zenon DEF TBool
  <2>3. TMips'
    <3>1. CASE sent
      <4>1. Taken \in Message /\ call[hdr].session \in Nat
        BY <1>0, <1>t, <3>1, Zenon DEF Headers
      <4>. QED  BY <1>0, <1>1, <3>1, <4>1, Zenon DEF TMips
    <3>. QED  BY <1>0, <1>1, <3>1, Zenon DEF TMips
  <2>4. TFree' /\ TWait' /\ TCall' /\ TRet' /\ TPc' /\ TLoc' /\ TCase'
    BY <1>0, <1>2, TypesKept, Zenon
  <2>. QED  BY <2>1, <2>2, <2>3, <2>4, TypeGroupsNext, Zenon
<1>6. Places' /\ \A d \in Callers : SamePhase(d) /\ Quiet(d) /\ Calm(d)
  BY <1>0, <1>2, AllSame, Zenon
<1>7. /\ \A x : x \in WithMips' <=> x \in WithMips \/ (sent /\ x = hdr)
      /\ \A x : x \in WithSender' <=> \E d \in Callers : Fills(d) /\ slot[d] = x
      /\ FreeCalls' = FreeCalls
  <2>1. \A x : x \in WithMips' <=> x \in WithMips \/ (sent /\ x = hdr)
    BY <1>1, <1>t, Zenon DEF WithMips
  <2>2. \A x : x \in WithSender' <=> \E d \in Callers : Fills(d) /\ slot[d] = x
    BY <1>1, <1>2, <1>6, SenderSlotsNext, Zenon DEF SamePhase
  <2>3. FreeCalls' = FreeCalls
    BY <1>2, Zenon DEF FreeCalls
  <2>. QED  BY <2>1, <2>2, <2>3
<1>8. ASSUME NoBypass, Shared PROVE Shared'
  <2>1. SemDown'
    BY <1>0, <1>2, <1>6, <1>8, SemKept, Zenon DEF Shared, Quiet, TNat
  <2>2. Numbers'
    BY <1>0, <1>2, <1>6, <1>8, NumbersKept, Zenon DEF Shared, Quiet, TNat
  <2>3. WaitsHeld' /\ WaitsConserved'
    BY <1>0, <1>2, <1>6, <1>8, WaitsKept, Zenon DEF Shared, Quiet, TNat
  <2>4. SlotsHeld'
    BY <1>1, <1>2, <1>8, Zenon DEF Shared, SlotsHeld
  <2>5. SlotExclusive'
    <3>1. /\ Distinct(freeCall) /\ FreeCalls \cap WithMips = {} /\ FreeCalls \cap WithSender = {}
          /\ WithMips \cap WithSender = {} /\ \A m, n \in todo : m.slot = n.slot => m = n
      BY <1>8, Zenon DEF Shared, SlotExclusive
    <3>2. \A d \in Callers : Fills(d) /\ sent => slot[d] # hdr
      BY <1>8, Zenon DEF Shared, SlotsHeld
    <3>3. ASSUME NEW m \in todo', NEW n \in todo', m.slot = n.slot PROVE m = n
      <4>1. sent => hdr \notin WithMips
        BY <3>1, SenderSlots, Zenon
      <4>2. CASE sent
        <5>1. \A k \in todo : k.slot # hdr
          BY <4>1, <4>2, Zenon DEF WithMips
        <5>2. (m \in todo \/ m = Taken) /\ (n \in todo \/ n = Taken)
          BY <1>1, <4>2, Zenon
        <5>3. Taken.slot = hdr
          BY <1>t, Zenon
        <5>. QED  BY <3>1, <3>3, <5>1, <5>2, <5>3, Zenon
      <4>. QED  BY <1>1, <3>1, <3>3, <4>2, Zenon
    <3>4. FreeCalls' \cap WithMips' = {}
      BY <1>7, <3>1, SenderSlots, Zenon
    <3>5. FreeCalls' \cap WithSender' = {}
      BY <1>7, <3>1, SenderSlots, Zenon
    <3>6. WithMips' \cap WithSender' = {}
      BY <1>7, <3>1, <3>2, SenderSlots, Zenon
    <3>7. Distinct(freeCall')
      BY <1>2, <3>1, Zenon
    <3>. QED  BY <3>3, <3>4, <3>5, <3>6, <3>7, Zenon DEF SlotExclusive
  <2>. QED  BY <2>1, <2>2, <2>3, <2>4, <2>5, Zenon DEF Shared
<1>9. ASSUME NoAckTimeout, Shared, Acked PROVE Acked'
  <2>b. taken \subseteq taken'
    BY <1>1, Zenon
  <2>1. AckPending'
    <3>1. InFlight' = InFlight
      <4>1. ackSent' = ackSent /\ ackSem' = ackSem /\ acks \in Nat /\ ackSem \in Nat
        BY <1>0, <1>2, Zenon DEF TNat
      <4>. QED  BY <1>1, <4>1 DEF InFlight, One
    <3>2. ASSUME NEW d \in Callers, AtAck(d) PROVE sess[d] \in taken'
      <4>1. CASE sent
        <5>1. call[hdr] = [session |-> sess[d], wait |-> wait[d], notify |-> kind[d] = "notify"]
          BY <1>9, <3>2, <4>1, Zenon DEF Acked, AckPending
        <5>2. call[hdr].session = sess[d]
          BY <5>1
        <5>. QED  BY <1>1, <4>1, <5>2, Zenon
      <4>2. CASE ~sent
        BY <1>9, <2>b, <3>2, <4>2, Zenon DEF Acked, AckPending
      <4>. QED  BY <4>1, <4>2
    <3>. QED  BY <1>1, <1>2, <1>6, <1>9, <3>1, <3>2, Zenon DEF Acked, AckPending, SamePhase
  <2>2. AckIsOwn'
    BY <1>2, <1>9, <2>b, Zenon DEF Acked, AckIsOwn
  <2>3. SlotsKept'
    <3>1. \A x : x \in FreeCalls' \cup WithMips' \cup WithSender' <=>
                 x \in FreeCalls \cup WithMips \cup WithSender
      BY <1>7, SenderSlots, Zenon
    <3>. QED  BY <1>9, <3>1, Zenon DEF Acked, SlotsKept
  <2>. QED  BY <2>1, <2>2, <2>3, Zenon DEF Acked
<1>e. ASSUME NoTimeout, Shared, Acked, Exact PROVE Exact'
  <2>0. \A s : (Returned(s)' <=> Returned(s)) /\ (RetLive' <=> RetLive)
    BY <1>2, Zenon DEF Returned, RetLive
  <2>a. ASSUME sent
        PROVE  \E c \in Callers : /\ AtAck(c) /\ NoAnswer(sess[c])
                                  /\ Taken.session = sess[c] /\ Taken.wait = wait[c]
                                  /\ Taken.notify <=> kind[c] = "notify"
    <3>1. InFlight # 0
      <4>1. acks \in Nat /\ ackSem \in Nat
        BY <1>0, Zenon DEF TNat
      <4>. QED  BY <2>a, <4>1 DEF InFlight, One
    <3>2. PICK c \in Callers : AtAck(c)
      BY <1>e, <3>1, Zenon DEF Acked, Exact, AckPending
    <3>3. /\ NoAnswer(sess[c])
          /\ call[hdr] = [session |-> sess[c], wait |-> wait[c], notify |-> kind[c] = "notify"]
      BY <1>e, <2>a, <3>2, Zenon DEF Acked, Exact, AckPending, AnswerOnce, NotYetAsked
    <3>4. /\ call[hdr].session = sess[c] /\ call[hdr].wait = wait[c]
          /\ call[hdr].notify <=> kind[c] = "notify"
      <4>. DEFINE b == kind[c] = "notify"
      <4>1. call[hdr] = [session |-> sess[c], wait |-> wait[c], notify |-> b]
        BY <3>3, Zenon
      <4>. HIDE DEF b
      <4>2. call[hdr].session = sess[c] /\ call[hdr].wait = wait[c] /\ call[hdr].notify = b
        BY <4>1
      <4>. QED  BY <4>2, Zenon DEF b
    <3>. QED  BY <1>t, <3>2, <3>3, <3>4, Zenon
  <2>c. AskedOnce /\ ArrivesOnce /\ ReturnedOnce /\ NotYetAsked
    BY <1>e, Zenon DEF Exact, AnswerOnce
  <2>4. RetSlots'
    BY <1>2, <1>e, RetKept, Zenon DEF Exact, RetLive
  <2>5. AnswerOnce'
    <3>0. ASSUME sent, ~Taken.notify
          PROVE  /\ \E c \in Callers : Awaits(c) /\ sess[c] = Taken.session /\ wait[c] = Taken.wait
                 /\ NoAnswer(Taken.session)
      <4>1. PICK c \in Callers : /\ AtAck(c) /\ NoAnswer(sess[c])
                                 /\ Taken.session = sess[c] /\ Taken.wait = wait[c]
                                 /\ Taken.notify <=> kind[c] = "notify"
        BY <2>a, <3>0, Zenon
      <4>2. kind[c] = "call" /\ wait[c] # None
        BY <1>0, <3>0, <4>1, Zenon DEF TLoc, Places, Place, AtAck
      <4>3. Awaits(c)
        BY <4>1, <4>2, Zenon DEF Awaits, Holding, AtAck
      <4>. QED  BY <4>1, <4>3, Zenon
    <3>1. AskedOnce'
      <4>1. ASSUME NEW m \in todo', ~m.notify
            PROVE  /\ \E c \in Callers : Awaits(c) /\ sess[c] = m.session /\ wait[c] = m.wait
                   /\ ~Returned(m.session)
        BY <1>1, <2>c, <3>0, <4>1, Zenon DEF AskedOnce, NoAnswer
      <4>2. ASSUME NEW m \in todo', NEW n \in todo', ~m.notify, ~n.notify, m.session = n.session
            PROVE  m = n
        <5>1. CASE m \in todo /\ n \in todo
          BY <2>c, <4>2, <5>1, Zenon DEF AskedOnce
        <5>2. CASE sent /\ m = Taken /\ n \in todo
          BY <3>0, <4>2, <5>2, Zenon DEF NoAnswer, Asked
        <5>3. CASE sent /\ n = Taken /\ m \in todo
          BY <3>0, <4>2, <5>3, Zenon DEF NoAnswer, Asked
        <5>4. m \in todo \/ (sent /\ m = Taken)
          BY <1>1, Zenon
        <5>5. n \in todo \/ (sent /\ n = Taken)
          BY <1>1, Zenon
        <5>. QED  BY <5>1, <5>2, <5>3, <5>4, <5>5, Zenon
      <4>. QED  BY <1>2, <1>6, <2>0, <4>1, <4>2, Zenon DEF AskedOnce, SamePhase
    <3>2. ArrivesOnce'
      <4>1. ASSUME RetLive PROVE ~Asked(ret[retHdr].session)'
        <5>1. ~Asked(ret[retHdr].session) /\ ret' = ret /\ retHdr' = retHdr
          BY <1>2, <2>c, <4>1, Zenon DEF ArrivesOnce
        <5>. QED  BY <1>1, <3>0, <4>1, <5>1, Zenon DEF Asked, NoAnswer
      <4>. QED  BY <1>2, <1>6, <2>0, <2>c, <4>1, Zenon DEF ArrivesOnce, SamePhase
    <3>3. ReturnedOnce'
      BY <1>2, <1>6, <2>c, Zenon DEF ReturnedOnce, SamePhase
    <3>. QED  BY <1>1, <3>1, <3>2, <3>3, Zenon DEF AnswerOnce, NotYetAsked
  <2>6. Signals'
    BY <1>1, <1>2, <1>6, <1>e, SignalsKept, AwaitsCollects, Zenon DEF Exact, Calm, Steady, SamePhase, RetLive
  <2>7. CallHasResult'
    BY <1>1, <1>2, <1>6, <1>e, ResultKept, Zenon DEF Exact, Calm, Steady, SamePhase, RetLive
  <2>. QED  BY <2>4, <2>5, <2>6, <2>7, Zenon DEF Exact
<1>10. Headers' /\ RetOne' /\ late' = late
  BY <1>0, <1>1, <1>2, Zenon DEF Headers, RetOne, RetLive
<1>. QED  BY <1>4, <1>6, <1>8, <1>9, <1>e, <1>10, StepInv, Zenon

\* The MIPS deposits a CALL_ACK.
LEMMA MipsAckInv ==
    ASSUME RpcIInv, MipsAck
    PROVE  RpcIInv'
<1>0. /\ TNat /\ TFree /\ TWait /\ TCall /\ TRet /\ TBool /\ TPc /\ TLoc /\ TCase /\ TMips
      /\ Places /\ Headers /\ RetOne
  BY TypeGroups, Zenon DEF RpcIInv
<1>1. /\ acks > 0 /\ ~ackSent /\ acks' = acks - 1 /\ ackSent' = TRUE /\ ackIrq' = TRUE
  BY Zenon DEF MipsAck
<1>2. UNCHANGED <<sendSem, ackSem, sid, freeWait, session, waitSem, waitList, freeCall, cmd, call,
                 hdr, sent, ret, retHdr, retSent, returns, retAck, callIrq, retIrq, ackWork,
                 retWork, retBusy, pc, kind, slot, sess, wait, status, result, begun, case,
                 late, freeRet, todo, unacked, taken>>
  BY Zenon DEF MipsAck, sockVars, waitVars, callVars, locals
<1>4. TypeOK'
  <2>1. TNat'
    <3>1. acks' \in Nat
      BY <1>0, <1>1 DEF TNat
    <3>. QED  BY <1>0, <1>2, <3>1, Zenon DEF TNat
  <2>2. TBool'
    BY <1>0, <1>1, <1>2, Zenon DEF TBool
  <2>3. TFree' /\ TWait' /\ TCall' /\ TRet' /\ TPc' /\ TLoc' /\ TCase' /\ TMips'
    BY <1>0, <1>2, TypesKept, Zenon
  <2>. QED  BY <2>1, <2>2, <2>3, TypeGroupsNext, Zenon
<1>6. Places' /\ \A d \in Callers : SamePhase(d) /\ Quiet(d) /\ Calm(d)
  BY <1>0, <1>2, AllSame, Zenon
<1>8. ASSUME NoBypass, Shared PROVE Shared'
  BY <1>0, <1>2, <1>6, <1>8, SharedKept, Zenon
<1>9. ASSUME NoAckTimeout, Shared, Acked PROVE Acked'
  <2>1. AckPending'
    <3>1. InFlight' = InFlight
      <4>1. sent' = sent /\ ackSem' = ackSem /\ acks \in Nat /\ ackSem \in Nat
        BY <1>0, <1>2, Zenon DEF TNat
      <4>. QED  BY <1>1, <4>1 DEF InFlight, One
    <3>. QED  BY <1>2, <1>6, <1>9, <3>1, Zenon DEF Acked, AckPending, SamePhase
  <2>2. AckIsOwn'
    BY <1>1, <1>2, <1>6, <1>9, OwnKept, Zenon DEF Acked, Calm, Steady, SamePhase, RetLive
  <2>3. SlotsKept'
    BY <1>1, <1>2, <1>6, <1>9, SlotsKeptSame, Zenon DEF Acked, Calm, Steady, SamePhase, RetLive
  <2>. QED  BY <2>1, <2>2, <2>3, Zenon DEF Acked
<1>e. ASSUME NoTimeout, Shared, Acked, Exact PROVE Exact'
  <2>4. RetSlots'
    BY <1>2, <1>e, RetKept, Zenon DEF Exact, RetLive
  <2>5. AnswerOnce'
    BY <1>1, <1>2, <1>6, <1>e, AnswersKept, AwaitsCollects, Zenon DEF Exact, Calm, Steady, SamePhase, RetLive
  <2>6. Signals'
    BY <1>1, <1>2, <1>6, <1>e, SignalsKept, AwaitsCollects, Zenon DEF Exact, Calm, Steady, SamePhase, RetLive
  <2>7. CallHasResult'
    BY <1>1, <1>2, <1>6, <1>e, ResultKept, Zenon DEF Exact, Calm, Steady, SamePhase, RetLive
  <2>. QED  BY <2>4, <2>5, <2>6, <2>7, Zenon DEF Exact
<1>10. Headers' /\ RetOne' /\ late' = late
  BY <1>0, <1>2, Zenon DEF Headers, RetOne, RetLive
<1>. QED  BY <1>4, <1>6, <1>8, <1>9, <1>e, <1>10, StepInv, Zenon

\* The MIPS answers a call.
LEMMA MipsReturnInv ==
    ASSUME RpcIInv, NEW m \in todo, MipsReturn(m)
    PROVE  RpcIInv'
<1>0. /\ TNat /\ TFree /\ TWait /\ TCall /\ TRet /\ TBool /\ TPc /\ TLoc /\ TCase /\ TMips
      /\ Places /\ Headers /\ RetOne
  BY TypeGroups, Zenon DEF RpcIInv
<1>1. /\ ~unacked /\ ~m.notify /\ freeRet # << >> /\ freeRet' = Tail(freeRet)
      /\ freeCall' = Append(freeCall, m.slot) /\ todo' = todo \ {m}
      /\ ret' = [ret EXCEPT ![Head(freeRet)] = [session |-> m.session, wait |-> m.wait]]
      /\ retHdr' = Head(freeRet) /\ retSent' = TRUE /\ retIrq' = TRUE /\ unacked' = TRUE
  BY Zenon DEF MipsReturn
<1>2. UNCHANGED <<sendSem, ackSem, sid, freeWait, session, waitSem, waitList, cmd, call, hdr, sent,
                 ackSent, returns, retAck, callIrq, ackIrq, ackWork, retWork, retBusy, pc,
                 kind, slot, sess, wait, status, result, begun, case, late, acks, taken>>
  BY Zenon DEF MipsReturn, sockVars, waitVars, locals
<1>h. /\ Head(freeRet) \in Rets /\ Tail(freeRet) \in Seq(Rets)
      /\ ret' \in [Rets -> [session : Nat, wait : Waitings]]
      /\ ret'[Head(freeRet)].session = m.session /\ ret'[Head(freeRet)].wait = m.wait
      /\ \A r \in Rets : r # Head(freeRet) => ret'[r] = ret[r]
  <2>1. Head(freeRet) \in Rets /\ Tail(freeRet) \in Seq(Rets)
    <3>1. freeRet \in Seq(Rets) /\ freeRet # << >>
      BY <1>0, <1>1, Zenon DEF TFree
    <3>. QED  BY <3>1, SeqFacts, Zenon
  <2>. DEFINE v == [session |-> m.session, wait |-> m.wait]
  <2>2. v \in [session : Nat, wait : Waitings] /\ v.session = m.session /\ v.wait = m.wait
    <3>1. m.session \in Nat /\ m.wait \in Waitings
      BY <1>0, Zenon DEF TMips, Message
    <3>. QED  BY <3>1
  <2>3. ret' = [ret EXCEPT ![Head(freeRet)] = v] /\ ret \in [Rets -> [session : Nat, wait : Waitings]]
    BY <1>0, <1>1, Zenon DEF TRet
  <2>. HIDE DEF v
  <2>. QED  BY <2>1, <2>2, <2>3, Store, Zenon
<1>r. ~RetLive /\ ~retSent /\ ~retWork /\ retBusy = None /\ ~retAck
  BY <1>0, <1>1, Zenon DEF RetOne, RetLive
<1>4. TypeOK'
  <2>1. TFree'
    <3>1. freeCall' \in Seq(Calls)
      <4>1. freeCall \in Seq(Calls) /\ m.slot \in Calls
        BY <1>0, Zenon DEF TFree, TMips, Message
      <4>. QED  BY <1>1, <4>1, AppendFacts, Zenon
    <3>. QED  BY <1>0, <1>1, <1>2, <1>h, <3>1, Zenon DEF TFree
  <2>2. TRet'
    BY <1>0, <1>1, <1>2, <1>h, Zenon DEF TRet
  <2>3. TBool'
    BY <1>0, <1>1, <1>2, Zenon DEF TBool
  <2>4. TMips'
    BY <1>0, <1>1, <1>2, Zenon DEF TMips
  <2>5. TNat' /\ TWait' /\ TCall' /\ TPc' /\ TLoc' /\ TCase'
    BY <1>0, <1>2, TypesKept, Zenon
  <2>. QED  BY <2>1, <2>2, <2>3, <2>4, <2>5, TypeGroupsNext, Zenon
<1>6. Places' /\ \A d \in Callers : SamePhase(d) /\ Quiet(d) /\ Calm(d)
  BY <1>0, <1>2, AllSame, Zenon
<1>8. ASSUME NoBypass, Shared PROVE Shared'
  <2>1. SemDown'
    BY <1>0, <1>2, <1>6, <1>8, SemKept, Zenon DEF Shared, Quiet, TNat
  <2>2. Numbers'
    BY <1>0, <1>2, <1>6, <1>8, NumbersKept, Zenon DEF Shared, Quiet, TNat
  <2>3. WaitsHeld' /\ WaitsConserved'
    BY <1>0, <1>2, <1>6, <1>8, WaitsKept, Zenon DEF Shared, Quiet, TNat
  <2>4. SlotsHeld'
    BY <1>0, <1>1, <1>2, <1>8, SlotReturned, Zenon DEF Shared
  <2>5. SlotExclusive'
    BY <1>0, <1>1, <1>2, <1>8, SlotReturned, Zenon DEF Shared
  <2>. QED  BY <2>1, <2>2, <2>3, <2>4, <2>5, Zenon DEF Shared
<1>9. ASSUME NoAckTimeout, Shared, Acked PROVE Acked'
  <2>1. AckPending'
    BY <1>1, <1>2, <1>6, <1>9, AckKept, Zenon DEF Acked, Calm, Steady, SamePhase, RetLive
  <2>2. AckIsOwn'
    BY <1>1, <1>2, <1>6, <1>9, OwnKept, Zenon DEF Acked, Calm, Steady, SamePhase, RetLive
  <2>3. SlotsKept'
    BY <1>0, <1>1, <1>2, <1>9, SlotReturned, Zenon DEF Acked, Shared
  <2>. QED  BY <2>1, <2>2, <2>3, Zenon DEF Acked
<1>e. ASSUME NoTimeout, Shared, Acked, Exact PROVE Exact'
  <2>a. /\ Distinct(freeRet) /\ FreeRets \cap returns = {} /\ ~RetLive /\ retBusy = None
        /\ returns \subseteq Rets
    BY <1>0, <1>e, <1>r, Zenon DEF Exact, RetSlots, TRet
  <2>b. /\ Head(freeRet) \in FreeRets /\ FreeRets' = FreeRets \ {Head(freeRet)}
        /\ Distinct(freeRet')
    <3>1. freeRet \in Seq(Rets) /\ freeRet # << >> /\ Distinct(freeRet)
      BY <1>0, <1>1, <2>a, Zenon DEF TFree
    <3>2. /\ Head(freeRet) \in Entries(freeRet) /\ Distinct(Tail(freeRet))
          /\ Entries(Tail(freeRet)) = Entries(freeRet) \ {Head(freeRet)}
      BY <3>1, TakeFree, Zenon
    <3>3. FreeRets = Entries(freeRet) /\ FreeRets' = Entries(Tail(freeRet))
      BY <1>1, Zenon DEF FreeRets, Entries
    <3>. QED  BY <1>1, <3>2, <3>3, Zenon
  <2>c. Head(freeRet) \notin returns /\ \A r \in returns : ret'[r] = ret[r]
    BY <1>h, <2>a, <2>b, Zenon
  <2>d. \A s : Returned(s)' <=> Returned(s)
    BY <1>2, <2>c, Zenon DEF Returned
  <2>e. AskedOnce /\ ArrivesOnce /\ ReturnedOnce /\ NotYetAsked
    BY <1>e, Zenon DEF Exact, AnswerOnce
  <2>f. RetLive' /\ retHdr' = Head(freeRet) /\ ret'[retHdr'].session = m.session /\ ret'[retHdr'].wait = m.wait
    BY <1>1, <1>h, Zenon DEF RetLive
  <2>g. \A s : Asked(s)' <=> Asked(s) /\ s # m.session
    BY <1>1, <2>e, Zenon DEF Asked, AskedOnce
  <2>4. RetSlots'
    <3>1. FreeRets' \cap returns' = {} /\ retHdr' \notin FreeRets' \cup returns'
      BY <1>1, <1>2, <2>a, <2>b, <2>c, Zenon
    <3>. QED  BY <1>1, <1>2, <2>a, <2>b, <3>1, Zenon DEF RetSlots, RetLive
  <2>5. AnswerOnce'
    <3>1. AskedOnce'
      BY <1>1, <1>2, <1>6, <2>d, <2>e, Zenon DEF AskedOnce, SamePhase
    <3>2. ArrivesOnce'
      <4>1. /\ \E c \in Callers : Awaits(c) /\ sess[c] = m.session /\ wait[c] = m.wait
            /\ ~Returned(m.session)
        BY <1>1, <2>e, Zenon DEF AskedOnce
      <4>. QED  BY <1>2, <1>6, <2>d, <2>f, <2>g, <4>1, Zenon DEF ArrivesOnce, SamePhase
    <3>3. ReturnedOnce'
      <4>1. sess' = sess /\ wait' = wait /\ returns' = returns
        BY <1>2, Zenon
      <4>2. ASSUME NEW r \in returns
            PROVE  \E c \in Callers : /\ Collects(c)' /\ sess'[c] = ret'[r].session
                                      /\ wait'[c] = ret'[r].wait
        BY <1>6, <2>c, <2>e, <4>1, Zenon DEF ReturnedOnce, SamePhase
      <4>3. \A r, s \in returns : ret'[r].session = ret'[s].session => r = s
        BY <2>c, <2>e, ZenonT(60) DEF ReturnedOnce
      <4>. QED  BY <4>1, <4>2, <4>3, Zenon DEF ReturnedOnce
    <3>4. NotYetAsked'
      <4>1. \A s : NoAnswer(s) => s # m.session
        BY <1>1, Zenon DEF NoAnswer, Asked
      <4>2. \A s : NoAnswer(s) => NoAnswer(s)'
        BY <2>d, <2>f, <2>g, <4>1, Zenon DEF NoAnswer
      <4>. QED  BY <1>2, <1>6, <2>e, <4>2, Zenon DEF NotYetAsked, SamePhase
    <3>. QED  BY <3>1, <3>2, <3>3, <3>4, Zenon DEF AnswerOnce
  <2>6. Signals'
    <3>1. \A s : Ready(s)' <=> Ready(s)
      BY <1>2, <2>c, Zenon DEF Ready
    <3>. QED  BY <1>2, <1>6, <1>e, <3>1, Zenon DEF Exact, Signals, SamePhase
  <2>7. CallHasResult'
    BY <1>1, <1>2, <1>6, <1>e, ResultKept, Zenon DEF Exact, Calm, Steady, SamePhase, RetLive
  <2>. QED  BY <2>4, <2>5, <2>6, <2>7, Zenon DEF Exact
<1>10. Headers' /\ RetOne' /\ late' = late
  BY <1>0, <1>1, <1>2, <1>h, <1>r, Zenon DEF Headers, RetOne, RetLive
<1>. QED  BY <1>4, <1>6, <1>8, <1>9, <1>e, <1>10, StepInv, Zenon

\* The MIPS sees the RETURN_ACK.
LEMMA MipsRetAckedInv ==
    ASSUME RpcIInv, MipsRetAcked
    PROVE  RpcIInv'
<1>0. /\ TNat /\ TFree /\ TWait /\ TCall /\ TRet /\ TBool /\ TPc /\ TLoc /\ TCase /\ TMips
      /\ Places /\ Headers /\ RetOne
  BY TypeGroups, Zenon DEF RpcIInv
<1>1. retAck /\ retAck' = FALSE /\ unacked' = FALSE
  BY Zenon DEF MipsRetAcked
<1>2. UNCHANGED <<sendSem, ackSem, sid, freeWait, session, waitSem, waitList, freeCall, cmd, call,
                 hdr, sent, ret, retHdr, retSent, ackSent, returns, callIrq, ackIrq, retIrq,
                 ackWork, retWork, retBusy, pc, kind, slot, sess, wait, status, result, begun,
                 case, late, freeRet, todo, acks, taken>>
  BY Zenon DEF MipsRetAcked, sockVars, waitVars, callVars, irqVars, locals
<1>4. TypeOK'
  <2>1. TBool'
    BY <1>0, <1>1, <1>2, Zenon DEF TBool
  <2>2. TNat' /\ TFree' /\ TWait' /\ TCall' /\ TRet' /\ TPc' /\ TLoc' /\ TCase' /\ TMips'
    BY <1>0, <1>2, TypesKept, Zenon
  <2>. QED  BY <2>1, <2>2, TypeGroupsNext, Zenon
<1>6. Places' /\ \A d \in Callers : SamePhase(d) /\ Quiet(d) /\ Calm(d)
  BY <1>0, <1>2, AllSame, Zenon
<1>8. ASSUME NoBypass, Shared PROVE Shared'
  BY <1>0, <1>2, <1>6, <1>8, SharedKept, Zenon
<1>9. ASSUME NoAckTimeout, Shared, Acked PROVE Acked'
  BY <1>2, <1>6, <1>9, AckedKept, Zenon DEF Calm
<1>e. ASSUME NoTimeout, Shared, Acked, Exact PROVE Exact'
  BY <1>2, <1>6, <1>e, ExactKept, Zenon
<1>10. Headers' /\ RetOne' /\ late' = late
  BY <1>0, <1>1, <1>2, Zenon DEF Headers, RetOne, RetLive
<1>. QED  BY <1>4, <1>6, <1>8, <1>9, <1>e, <1>10, StepInv, Zenon

\* The MIPS is done with a notification.
LEMMA MipsDoneInv ==
    ASSUME RpcIInv, NEW m \in todo, MipsDone(m)
    PROVE  RpcIInv'
<1>0. /\ TNat /\ TFree /\ TWait /\ TCall /\ TRet /\ TBool /\ TPc /\ TLoc /\ TCase /\ TMips
      /\ Places /\ Headers /\ RetOne
  BY TypeGroups, Zenon DEF RpcIInv
<1>1. /\ m.notify
      /\ freeCall' = Append(freeCall, m.slot) /\ todo' = todo \ {m}
  BY Zenon DEF MipsDone
<1>2. UNCHANGED <<sendSem, ackSem, sid, freeWait, session, waitSem, waitList, cmd, call, hdr, sent,
                 ret, retHdr, retSent, ackSent, returns, retAck, callIrq, ackIrq, retIrq,
                 ackWork, retWork, retBusy, pc, kind, slot, sess, wait, status, result, begun,
                 case, late, freeRet, acks, unacked, taken>>
  BY Zenon DEF MipsDone, sockVars, waitVars, retVars, irqVars, locals
<1>4. TypeOK'
  <2>1. TFree'
    <3>1. freeCall' \in Seq(Calls)
      <4>1. freeCall \in Seq(Calls) /\ m.slot \in Calls
        BY <1>0, Zenon DEF TFree, TMips, Message
      <4>. QED  BY <1>1, <4>1, AppendFacts, Zenon
    <3>. QED  BY <1>0, <1>1, <1>2, <3>1, Zenon DEF TFree
  <2>2. TMips'
    BY <1>0, <1>1, <1>2, Zenon DEF TMips
  <2>3. TNat' /\ TWait' /\ TCall' /\ TRet' /\ TBool' /\ TPc' /\ TLoc' /\ TCase'
    BY <1>0, <1>2, TypesKept, Zenon
  <2>. QED  BY <2>1, <2>2, <2>3, TypeGroupsNext, Zenon
<1>6. Places' /\ \A d \in Callers : SamePhase(d) /\ Quiet(d) /\ Calm(d)
  BY <1>0, <1>2, AllSame, Zenon
<1>8. ASSUME NoBypass, Shared PROVE Shared'
  <2>1. SemDown'
    BY <1>0, <1>2, <1>6, <1>8, SemKept, Zenon DEF Shared, Quiet, TNat
  <2>2. Numbers'
    BY <1>0, <1>2, <1>6, <1>8, NumbersKept, Zenon DEF Shared, Quiet, TNat
  <2>3. WaitsHeld' /\ WaitsConserved'
    BY <1>0, <1>2, <1>6, <1>8, WaitsKept, Zenon DEF Shared, Quiet, TNat
  <2>4. SlotsHeld'
    BY <1>0, <1>1, <1>2, <1>8, SlotReturned, Zenon DEF Shared
  <2>5. SlotExclusive'
    BY <1>0, <1>1, <1>2, <1>8, SlotReturned, Zenon DEF Shared
  <2>. QED  BY <2>1, <2>2, <2>3, <2>4, <2>5, Zenon DEF Shared
<1>9. ASSUME NoAckTimeout, Shared, Acked PROVE Acked'
  <2>1. AckPending'
    BY <1>1, <1>2, <1>6, <1>9, AckKept, Zenon DEF Acked, Calm, Steady, SamePhase, RetLive
  <2>2. AckIsOwn'
    BY <1>1, <1>2, <1>6, <1>9, OwnKept, Zenon DEF Acked, Calm, Steady, SamePhase, RetLive
  <2>3. SlotsKept'
    BY <1>0, <1>1, <1>2, <1>9, SlotReturned, Zenon DEF Acked, Shared
  <2>. QED  BY <2>1, <2>2, <2>3, Zenon DEF Acked
<1>e. ASSUME NoTimeout, Shared, Acked, Exact PROVE Exact'
  <2>4. RetSlots'
    BY <1>2, <1>e, RetKept, Zenon DEF Exact, RetLive
  <2>5. AnswerOnce'
    <3>1. AskedOnce /\ ArrivesOnce /\ ReturnedOnce /\ NotYetAsked
      BY <1>e, Zenon DEF Exact, AnswerOnce
    <3>2. /\ \A s : (Returned(s)' <=> Returned(s)) /\ (Asked(s)' <=> Asked(s))
          /\ RetLive' <=> RetLive
      BY <1>1, <1>2, Zenon DEF Returned, Asked, RetLive
    <3>3. AskedOnce'
      BY <1>1, <1>2, <1>6, <3>1, <3>2, Zenon DEF AskedOnce, SamePhase
    <3>4. ArrivesOnce'
      BY <1>2, <1>6, <3>1, <3>2, Zenon DEF ArrivesOnce, SamePhase
    <3>5. ReturnedOnce'
      BY <1>2, <1>6, <3>1, Zenon DEF ReturnedOnce, SamePhase
    <3>6. NotYetAsked'
      BY <1>2, <1>6, <3>1, <3>2, Zenon DEF NotYetAsked, NoAnswer, SamePhase
    <3>. QED  BY <3>3, <3>4, <3>5, <3>6, Zenon DEF AnswerOnce
  <2>6. Signals'
    BY <1>1, <1>2, <1>6, <1>e, SignalsKept, AwaitsCollects, Zenon DEF Exact, Calm, Steady, SamePhase, RetLive
  <2>7. CallHasResult'
    BY <1>1, <1>2, <1>6, <1>e, ResultKept, Zenon DEF Exact, Calm, Steady, SamePhase, RetLive
  <2>. QED  BY <2>4, <2>5, <2>6, <2>7, Zenon DEF Exact
<1>10. Headers' /\ RetOne' /\ late' = late
  BY <1>0, <1>2, Zenon DEF Headers, RetOne, RetLive
<1>. QED  BY <1>4, <1>6, <1>8, <1>9, <1>e, <1>10, StepInv, Zenon

-----------------------------------------------------------------------------
(***************************************************************************)
(* The initial states.  The theorems on finite sets are used only here.    *)
(***************************************************************************)
FST == INSTANCE FiniteSetTheorems

\* The instance's notions are ours.
LEMMA SameFinite == \A S : FST!IsFiniteSet(S) <=> IsFiniteSet(S)
  BY Zenon DEF FST!IsFiniteSet, IsFiniteSet

\* The same for the cardinality.
LEMMA SameCardinality == \A S : FST!Cardinality(S) = Cardinality(S)
  BY Zenon DEF FST!Cardinality, Cardinality
\* InitCommSeqMem fills a pool with every entry, each once.
LEMMA PoolFull ==
    ASSUME NEW S, IsFiniteSet(S)
    PROVE  LET q == SetAsSeq(S) IN q \in Seq(S) /\ Distinct(q) /\ Entries(q) = S
<1>. DEFINE n == Cardinality(S)
            P(q) == {q[i] : i \in DOMAIN q} = S
<1>1. n \in Nat /\ FST!ExistsBijection(1 .. n, S)
  BY FST!FS_CardinalityType, SameFinite, SameCardinality, Zenon
<1>2. PICK f : f \in FST!Bijection(1 .. n, S)
  BY <1>1, Zenon DEF FST!ExistsBijection
<1>3. f \in [1 .. n -> S] /\ \A t \in S : \E i \in 1 .. n : f[i] = t
  BY <1>2, Zenon DEF FST!Bijection, FST!Surjection
<1>4. P(f)
  BY <1>3
<1>5. SetAsSeq(S) \in [1 .. n -> S] /\ P(SetAsSeq(S))
  <2>. HIDE DEF P
  <2>1. \E q \in [1 .. n -> S] : P(q)
    BY <1>3, <1>4, Zenon
  <2>2. SetAsSeq(S) = CHOOSE q \in [1 .. n -> S] : P(q)
    BY Zenon DEF SetAsSeq, P
  <2>. QED  BY <2>1, <2>2, Zenon
<1>. DEFINE q == SetAsSeq(S)
<1>6. q \in [1 .. n -> S] /\ DOMAIN q = 1 .. n /\ {q[i] : i \in 1 .. n} = S
  BY <1>5, Zenon
<1>. HIDE DEF q, n
<1>7. q \in FST!Surjection(1 .. n, S)
  BY <1>6 DEF FST!Surjection
<1>8. IsFiniteSet(1 .. n) /\ Cardinality(1 .. n) = n
  <2>1. 1 \in Int /\ n \in Int /\ (n >= 1 => n - 1 + 1 = n) /\ (1 > n => n = 0)
    BY <1>1
  <2>. QED  BY <1>1, <2>1, FST!FS_Interval, SameFinite, SameCardinality
<1>9. q \in FST!Injection(1 .. n, S)
  BY <1>7, <1>8, FST!FS_SurjSameCardinalityImpliesInj, SameFinite, SameCardinality, Zenon DEF n
<1>10. Distinct(q)
  BY <1>6, <1>9, Zenon DEF FST!Injection, FST!IsInjective, Distinct
<1>11. q \in Seq(S)
  BY <1>1, <1>6
<1>. QED  BY <1>5, <1>10, <1>11, Zenon DEF Entries, q

\* The three pools are full at first.
LEMMA PoolsFull ==
    ASSUME Init
    PROVE  /\ freeWait \in Seq(Waits) /\ Distinct(freeWait) /\ Entries(freeWait) = Waits
           /\ freeCall \in Seq(Calls) /\ Distinct(freeCall) /\ Entries(freeCall) = Calls
           /\ freeRet \in Seq(Rets) /\ Distinct(freeRet) /\ Entries(freeRet) = Rets
<1>1. freeWait = SetAsSeq(Waits) /\ freeCall = SetAsSeq(Calls) /\ freeRet = SetAsSeq(Rets)
  BY Zenon DEF Init
<1>2. IsFiniteSet(Waits) /\ IsFiniteSet(Calls) /\ IsFiniteSet(Rets)
  BY RpcAssumption, Zenon
<1>. QED  BY <1>1, <1>2, PoolFull, Zenon

\* Nothing is in use at first.
LEMMA InitInv == Init => RpcIInv
<1>. SUFFICES ASSUME Init PROVE RpcIInv
  OBVIOUS
<1>1. TypeOK
  <2>1. TNat /\ TBool
    <3>1. /\ sendSem = 1 /\ ackSem = 0 /\ sid = 0 /\ cmd = 0 /\ acks = 0 /\ callIrq = 0
          /\ sent = FALSE /\ retSent = FALSE /\ ackSent = FALSE /\ ackIrq = FALSE
          /\ retIrq = FALSE /\ ackWork = FALSE /\ retWork = FALSE /\ unacked = FALSE
          /\ retAck = FALSE
      BY Zenon DEF Init
    <3>2. TNat
      BY <3>1 DEF TNat
    <3>3. TBool
      BY <3>1, Zenon DEF TBool
    <3>. QED  BY <3>2, <3>3
  <2>2. TFree
    BY PoolsFull, Zenon DEF TFree
  <2>3. TWait
    <3>1. session = [w \in Waits |-> 0] /\ waitSem = [w \in Waits |-> 0] /\ waitList = {}
      BY Zenon DEF Init
    <3>. QED  BY <3>1 DEF TWait
  <2>4. TCall
    <3>1. call = [s \in Calls |-> [session |-> 0, wait |-> None, notify |-> FALSE]] /\ hdr = None
      BY Zenon DEF Init
    <3>. QED  BY <3>1 DEF TCall, Waitings
  <2>5. TRet
    <3>1. /\ ret = [r \in Rets |-> [session |-> 0, wait |-> None]] /\ retHdr = None
          /\ returns = {} /\ retBusy = None
      BY Zenon DEF Init
    <3>. QED  BY <3>1 DEF TRet, Waitings
  <2>6. TPc
    BY Zenon DEF Init, TPc
  <2>7. TLoc
    <3>1. /\ kind = [c \in Callers |-> "call"]
          /\ slot = [c \in Callers |-> None] /\ wait = [c \in Callers |-> None]
          /\ sess = [c \in Callers |-> 0]
          /\ status = [c \in Callers |-> "none"] /\ result = [c \in Callers |-> 0]
      BY Zenon DEF Init
    <3>. QED  BY <3>1 DEF TLoc, Waitings
  <2>8. TCase
    <3>1. case \in Cases /\ begun = 0 /\ late = {}
      BY Zenon DEF Init
    <3>2. case.calls \in Nat
      BY <3>1, RpcAssumption
    <3>. QED  BY <3>1, <3>2 DEF TCase
  <2>9. TMips
    BY Zenon DEF Init, TMips
  <2>. QED  BY <2>1, <2>2, <2>3, <2>4, <2>5, <2>6, <2>7, <2>8, <2>9, TypeGroups, Zenon
<1>2. \A c \in Callers : /\ pc[c] = "idle" /\ kind[c] = "call" /\ wait[c] = None /\ sess[c] = 0
                         /\ status[c] = "none"
  BY Zenon DEF Init
<1>3. \A c \in Callers : ~Fills(c) /\ ~AtAck(c) /\ ~Holding(c) /\ ~Awaits(c) /\ ~Collects(c)
  BY <1>2, Zenon DEF Fills, AtAck, Holding, Awaits, Collects
<1>4. Places
  BY <1>2, <1>3, Zenon DEF Places, Place
<1>5. ~RetLive /\ ~sent /\ todo = {} /\ returns = {} /\ retBusy = None /\ waitList = {}
  BY Zenon DEF Init, RetLive
<1>6. FreeCalls = Calls /\ WithMips = {} /\ WithSender = {} /\ FreeRets = Rets
  <2>1. FreeCalls = Calls /\ FreeRets = Rets
    BY PoolsFull, Zenon DEF FreeCalls, FreeRets, Entries
  <2>2. WithMips = {}
    BY <1>5, Zenon DEF WithMips
  <2>3. WithSender = {}
    BY <1>3, <1>5, SenderSlots, Zenon
  <2>. QED  BY <2>1, <2>2, <2>3
<1>7. Shared
  <2>1. SemDown
    <3>1. \A c \in Callers : pc[c] \notin Sending
      BY <1>2, Zenon DEF Sending
    <3>2. sendSem = 1
      BY Zenon DEF Init
    <3>. QED  BY <3>1, <3>2 DEF SemDown
  <2>2. Numbers
    <3>1. sid = 0
      BY Zenon DEF Init
    <3>. QED  BY <1>2, <3>1 DEF Numbers
  <2>3. WaitsHeld /\ SlotsHeld
    BY <1>2, <1>3, <1>5, Zenon DEF WaitsHeld, SlotsHeld
  <2>4. WaitsConserved
    <3>1. Waits \ waitList = Waits
      BY <1>5
    <3>. QED  BY <3>1, PoolsFull, Zenon DEF WaitsConserved, Entries
  <2>5. SlotExclusive
    <3>1. Distinct(freeCall)
      BY PoolsFull, Zenon
    <3>. QED  BY <1>5, <1>6, <3>1 DEF SlotExclusive
  <2>. QED  BY <2>1, <2>2, <2>3, <2>4, <2>5, Zenon DEF Shared
<1>8. Acked
  <2>1. AckPending
    <3>1. InFlight = 0
      <4>1. sent = FALSE /\ acks = 0 /\ ackSent = FALSE /\ ackSem = 0
        BY Zenon DEF Init
      <4>. QED  BY <4>1 DEF InFlight, One
    <3>. QED  BY <1>2, <1>3, <3>1, Zenon DEF AckPending
  <2>2. AckIsOwn
    BY <1>2, Zenon DEF AckIsOwn
  <2>3. SlotsKept
    BY <1>6 DEF SlotsKept
  <2>. QED  BY <2>1, <2>2, <2>3, Zenon DEF Acked
<1>e. Exact
  <2>1. CallHasResult
    BY <1>2, Zenon DEF CallHasResult
  <2>2. RetSlots
    <3>1. Distinct(freeRet) /\ FreeRets \cap returns = {}
      BY <1>5, PoolsFull
    <3>. QED  BY <1>5, <3>1, Zenon DEF RetSlots
  <2>3. AnswerOnce
    BY <1>3, <1>5, Zenon DEF AnswerOnce, AskedOnce, ArrivesOnce, ReturnedOnce, NotYetAsked
  <2>4. Signals
    <3>1. \A w \in Waits : waitSem[w] = 0
      BY Zenon DEF Init
    <3>. QED  BY <1>2, <3>1, Zenon DEF Signals
  <2>. QED  BY <2>1, <2>2, <2>3, <2>4, Zenon DEF Exact
<1>9. Headers /\ RetOne
  <2>1. retSent = FALSE /\ retAck = FALSE
    BY Zenon DEF Init
  <2>. QED  BY <1>5, <2>1, Zenon DEF Headers, RetOne
<1>. QED  BY <1>1, <1>4, <1>7, <1>8, <1>e, <1>9, Zenon DEF RpcIInv

-----------------------------------------------------------------------------
(***************************************************************************)
(* The theorems.                                                           *)
(***************************************************************************)
\* A step of a thread in a call preserves the inductive invariant.
LEMMA CallerInv == ASSUME RpcIInv, NEW c \in Callers, Caller(c) PROVE RpcIInv'
<1>1. ASSUME NEW k \in {"call", "notify"}, Begin(c, k) PROVE RpcIInv'
  BY <1>1, BeginInv, Zenon
<1>2. CASE AcquireSend(c)
  BY <1>2, AcquireSendInv, Zenon
<1>3. CASE SendBusy(c)
  BY <1>3, SendBusyInv, Zenon
<1>4. CASE Comm_GetFreeCall(c)
  BY <1>4, GetFreeCallInv, Zenon
<1>5. CASE LoadSession(c)
  BY <1>5, LoadSessionInv, Zenon
<1>6. CASE GetFreeWaitComm(c)
  BY <1>6, GetFreeWaitInv, Zenon
<1>7. CASE AddtoWaitComm(c)
  BY <1>7, AddtoWaitInv, Zenon
<1>8. CASE SendCommLow(c)
  BY <1>8, SendCommLowInv, Zenon
<1>9. CASE RingMips(c)
  BY <1>9, RingMipsInv, Zenon
<1>10. CASE AckReceived(c)
  BY <1>10, AckReceivedInv, Zenon
<1>11. CASE AckTimedOut(c)
  BY <1>11, AckTimedOutInv, Zenon
<1>12. CASE ReleaseTimedOut(c)
  BY <1>12, ReleaseTimedOutInv, Zenon
<1>13. CASE ReleaseSend(c)
  BY <1>13, ReleaseSendInv, Zenon
<1>14. CASE WaitReturn(c)
  BY <1>14, WaitReturnInv, Zenon
<1>15. CASE WaitReturnTimedOut(c)
  BY <1>15, WaitReturnTimedOutInv, Zenon
<1>16. CASE GetReturnbySessionId(c)
  BY <1>16, GetReturnInv, Zenon
<1>17. CASE NullReturn(c)
  BY <1>17, NullReturnInv, Zenon
<1>18. CASE ReleaseWaitComm(c)
  BY <1>18, ReleaseWaitInv, Zenon
<1>19. CASE BypassSend(c)
  BY <1>19, BypassSendInv, Zenon
<1>20. CASE StoreSession(c)
  BY <1>20, StoreSessionInv, Zenon
<1>21. CASE WaitNotListed(c)
  BY <1>21, WaitNotListedInv, Zenon
<1>. QED
  BY <1>1, <1>2, <1>3, <1>4, <1>5, <1>6, <1>7, <1>8, <1>9, <1>10, <1>11, <1>12, <1>13, <1>14,
     <1>15, <1>16, <1>17, <1>18, <1>19, <1>20, <1>21, Zenon DEF Caller

\* So does a step of the ARM's interrupts and workers, ...
LEMMA WorkerInv == ASSUME RpcIInv, Worker PROVE RpcIInv'
  BY CallAckInv, AckActionInv, ReturnBellInv, AddReturn2FifoInv, SignalWaitInv, Zenon DEF Worker

\* ... a step of the MIPS, ...
LEMMA MipsInv == ASSUME RpcIInv, Mips PROVE RpcIInv'
  BY MipsTakeInv, MipsAckInv, MipsRetAckedInv, MipsReturnInv, MipsDoneInv, Zenon DEF Mips

\* ... and a step that changes nothing.
LEMMA StutterInv == ASSUME RpcIInv, UNCHANGED vars PROVE RpcIInv'
<1>1. /\ TNat /\ TFree /\ TWait /\ TCall /\ TRet /\ TBool /\ TPc /\ TLoc /\ TCase /\ TMips
      /\ Places /\ Headers /\ RetOne
  BY TypeGroups, Zenon DEF RpcIInv
<1>2. UNCHANGED <<sendSem, ackSem, sid, freeWait, session, waitSem, waitList, freeCall, cmd,
                  call, hdr, sent, ret, retHdr, retSent, ackSent, returns, retAck, callIrq, ackIrq,
                  retIrq, ackWork, retWork, retBusy, pc, kind, slot, sess, wait, status, result,
                  begun, case, late, freeRet, todo, acks, unacked, taken>>
  BY Zenon DEF vars, sockVars, waitVars, callVars, retVars, irqVars, locals, mipsVars
<1>3. TypeOK'
  <2>1. /\ TNat' /\ TFree' /\ TWait' /\ TCall' /\ TRet'
    BY <1>1, <1>2, TypesKept, Zenon
  <2>2. /\ TBool' /\ TPc' /\ TLoc' /\ TCase' /\ TMips'
    BY <1>1, <1>2, TypesKept, Zenon
  <2>. QED  BY <2>1, <2>2, TypeGroupsNext, Zenon
<1>4. Places' /\ \A d \in Callers : SamePhase(d) /\ Quiet(d) /\ Calm(d)
  BY <1>1, <1>2, AllSame, Zenon
<1>5. ASSUME NoBypass, Shared PROVE Shared'
  BY <1>1, <1>2, <1>4, <1>5, SharedKept, Zenon
<1>6. ASSUME NoAckTimeout, Shared, Acked PROVE Acked'
  BY <1>2, <1>4, <1>6, AckedKept, Zenon DEF Calm
<1>7. ASSUME NoTimeout, Shared, Acked, Exact PROVE Exact'
  BY <1>2, <1>4, <1>7, ExactKept, Zenon
<1>8. Headers' /\ RetOne' /\ late' = late
  BY <1>1, <1>2, Zenon DEF Headers, RetOne, RetLive
<1>. QED  BY <1>3, <1>4, <1>5, <1>6, <1>7, <1>8, StepInv, Zenon

\* Through every interleaving of any number of callers with the workers of the ARM and
\* the MIPS, whatever the size of the pools and whichever timeouts run out, the protocol
\* state stays as consistent as the timeouts so far allow: the invariant that the two
\* properties below need.
THEOREM RpcInvariant == Spec => []RpcIInv
<1>1. ASSUME RpcIInv, [Next]_vars PROVE RpcIInv'
  <2>1. ASSUME NEW c \in Callers, Caller(c) PROVE RpcIInv'
    BY <1>1, <2>1, CallerInv, Zenon
  <2>2. CASE Worker
    BY <1>1, <2>2, WorkerInv, Zenon
  <2>3. CASE Mips
    BY <1>1, <2>3, MipsInv, Zenon
  <2>4. CASE UNCHANGED vars
    BY <1>1, <2>4, StutterInv, Zenon
  <2>. QED  BY <1>1, <2>1, <2>2, <2>3, <2>4, Zenon DEF Next
<1>. QED  BY <1>1, InitInv, PTL DEF Spec

\* AddtoWaitComm, ReleaseWaitComm, Comm_GetFreeCall and the FIFO puts of the MIPS: until
\* a caller goes past the send semaphore no wait entry is lost or used twice and no call
\* slot used twice, through CALL_ACKs and RETURNs that time out at any moment; and no call
\* slot is lost until a CALL_ACK does.
THEOREM EntriesConserved == Spec => []PoolsConserved
<1>1. RpcIInv => PoolsConserved
  BY Zenon DEF RpcIInv, Shared, Acked, PoolsConserved
<1>. QED  BY <1>1, RpcInvariant, PTL

\* SendComm2CPUEx and CPUComm_CallEx: until a CALL_ACK is given up, a send that returns 0
\* had its own message acknowledged; until any timeout runs out, a call that returns 0 has
\* its own RETURN.
THEOREM CallsOwn == Spec => []CallIsOwn
<1>1. RpcIInv => CallIsOwn
  BY Zenon DEF RpcIInv, Acked, Exact, CallIsOwn
<1>. QED  BY <1>1, RpcInvariant, PTL
==============================================================================
