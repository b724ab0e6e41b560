---------------------------- MODULE WifiCmd_proof ----------------------------
(***************************************************************************)
(* The command manager for any number of callers, slots and messages.      *)
(* CmdIInv says who holds which command slot and, for commands taken in    *)
(* turn, that the list is sorted and the mailbox and the firmware have the *)
(* request of the one command in progress.                                 *)
(***************************************************************************)
EXTENDS WifiCmd, TLAPS

(***************************************************************************)
(* Sequences.                                                              *)
(***************************************************************************)
\* Only the empty sequence has length 0.
LEMMA EmptySeq == ASSUME NEW S, NEW s \in Seq(S) PROVE s = << >> <=> Len(s) = 0
  OBVIOUS

\* The domain and the entries of a sequence.
LEMMA SeqEntries ==
    ASSUME NEW S, NEW s \in Seq(S)
    PROVE  Len(s) \in Nat /\ DOMAIN s = 1 .. Len(s) /\ \A i \in 1 .. Len(s) : s[i] \in S
  OBVIOUS

\* The head and the rest.
LEMMA HeadAndTail ==
    ASSUME NEW S, NEW s \in Seq(S), s # << >>
    PROVE  /\ Head(s) \in S /\ Head(s) = s[1]
           /\ Tail(s) \in Seq(S) /\ Len(Tail(s)) = Len(s) - 1
  OBVIOUS

\* One entry more at the end.
LEMMA OneAppended ==
    ASSUME NEW S, NEW s \in Seq(S), NEW e \in S
    PROVE  /\ Append(s, e) \in Seq(S) /\ Len(Append(s, e)) = Len(s) + 1
           /\ \A i \in 1 .. Len(s) : Append(s, e)[i] = s[i]
           /\ Append(s, e)[Len(s) + 1] = e
  OBVIOUS

\* One entry less: the entries behind it move up by one.
LEMMA OneDeleted ==
    ASSUME NEW S, NEW q \in Seq(S), NEW i \in 1 .. Len(q)
    PROVE  /\ list_del(q, i) \in Seq(S) /\ Len(list_del(q, i)) = Len(q) - 1
           /\ \A j \in 1 .. Len(q) - 1 :
                 list_del(q, i)[j] = IF j < i THEN q[j] ELSE q[j + 1]
<1>1. Len(q) \in Nat
  OBVIOUS
<1>. DEFINE x == SubSeq(q, 1, i - 1)
            y == SubSeq(q, i + 1, Len(q))
<1>2. x \in Seq(S) /\ Len(x) = i - 1 /\ \A j \in 1 .. i - 1 : x[j] = q[j]
  BY <1>1
<1>3. y \in Seq(S) /\ Len(y) = Len(q) - i /\ \A j \in 1 .. Len(q) - i : y[j] = q[j + i]
  BY <1>1
<1>4. list_del(q, i) = x \o y
  BY DEF list_del
<1>. HIDE DEF x, y
<1>5. /\ x \o y \in Seq(S) /\ Len(x \o y) = Len(x) + Len(y)
      /\ \A j \in 1 .. Len(x) + Len(y) :
            (x \o y)[j] = IF j <= Len(x) THEN x[j] ELSE y[j - Len(x)]
  <2>1. x \in Seq(S) /\ y \in Seq(S)
    BY <1>2, <1>3
  <2>2. x \o y \in Seq(S) /\ Len(x \o y) = Len(x) + Len(y)
    BY <2>1
  <2>3. \A j \in 1 .. Len(x) + Len(y) :
            (x \o y)[j] = IF j <= Len(x) THEN x[j] ELSE y[j - Len(x)]
    BY <2>1
  <2>. QED  BY <2>2, <2>3, Zenon
<1>6. ASSUME NEW j \in 1 .. Len(q) - 1
      PROVE  (x \o y)[j] = IF j < i THEN q[j] ELSE q[j + 1]
  <2>1. CASE j < i
    BY <1>1, <1>2, <1>3, <1>5, <2>1
  <2>2. CASE ~(j < i)
    <3>1. (x \o y)[j] = y[j - (i - 1)]
      BY <1>1, <1>2, <1>3, <1>5, <2>2
    <3>2. j - (i - 1) \in 1 .. Len(q) - i /\ (j - (i - 1)) + i = j + 1
      BY <1>1, <2>2
    <3>. QED  BY <1>3, <2>2, <3>1, <3>2
  <2>. QED  BY <2>1, <2>2, Zenon
<1>. QED  BY <1>1, <1>2, <1>3, <1>4, <1>5, <1>6

(***************************************************************************)
(* A step of one actor.                                                    *)
(***************************************************************************)
\* Only a moves, c is the only command it touches, and nobody else has c.
Only(a, c) ==
    /\ \A b \in Actors : b # a =>
          /\ actor'[b] = actor[b]
          /\ b # WORKER => todo'[b] = todo[b]
          /\ actor[b].cur # c \/ c = NoSlot
    /\ actor[a].cur \in {NoSlot, c} /\ actor'[a].cur \in {NoSlot, c}
    /\ \A s \in Slots : s # c => cmd'[s] = cmd[s] /\ (OnList(s)' <=> OnList(s))

\* NULL is no slot, and the worker is no task.
LEMMA Slot0 == NoSlot \notin Slots /\ WORKER \notin Callers
  BY CmdAssumption DEF NoSlot, Slots

\* An actor's current slot is a slot or NULL.
LEMMA CurType ==
    ASSUME CmdTypes, NEW a \in Actors
    PROVE  actor[a].cur \in Slots \cup {NoSlot} /\ (actor[a].cur # NoSlot => actor[a].cur \in Slots)
  BY DEF CmdTypes, ActorRec

\* What the others have in their hands is as it was.
LEMMA OthersKeep ==
    ASSUME CmdTypes, NEW a \in Actors, NEW c, Only(a, c),
           NEW b \in Actors, b # a, Place(b)
    PROVE  Place(b)'
<1>1. actor'[b] = actor[b] /\ (b # WORKER => todo'[b] = todo[b])
  BY Zenon DEF Only
<1>2. CASE actor[b].cur = NoSlot
  BY <1>1, <1>2, Zenon DEF Place
<1>3. CASE actor[b].cur # NoSlot
  <2>1. actor[b].cur \in Slots /\ actor[b].cur # c
    BY <1>3, CurType, Zenon DEF Only
  <2>2. /\ cmd'[actor[b].cur] = cmd[actor[b].cur]
        /\ actor[b].cur \in Range(cmd_mgr'.cmds) <=> actor[b].cur \in Range(cmd_mgr.cmds)
    BY <2>1, Zenon DEF Only, OnList
  <2>. QED  BY <1>1, <2>2, Zenon DEF Place, OnList
<1>. QED  BY <1>2, <1>3, Zenon

\* Nobody gets what another one has.
LEMMA StayApart ==
    ASSUME NEW a \in Actors, NEW c, Only(a, c), Apart
    PROVE  Apart'
<1>1. ASSUME NEW d \in Actors, NEW b \in Actors, d # b, actor'[d].cur = actor'[b].cur
      PROVE  actor'[d].cur = NoSlot
  <2>1. CASE d # a /\ b # a
    BY <1>1, <2>1, Zenon DEF Only, Apart
  <2>2. CASE d = a
    BY <1>1, <2>2, Zenon DEF Only
  <2>3. CASE b = a
    BY <1>1, <2>3, Zenon DEF Only
  <2>. QED  BY <2>1, <2>2, <2>3, Zenon
<1>. QED  BY <1>1, Zenon DEF Apart

\* The other commands are where they were.
LEMMA KeptKeeps ==
    ASSUME NEW a \in Actors, NEW c, Only(a, c), NEW s \in Slots, s # c, Kept(s)
    PROVE  Kept(s)'
<1>1. cmd'[s] = cmd[s] /\ (OnList(s)' <=> OnList(s))
  BY Zenon DEF Only
<1>2. ASSUME NEW b \in Actors, actor[b].cur = s PROVE actor'[b].cur = s
  <2>1. b # a
    BY <1>2, Slot0, Zenon DEF Only
  <2>. QED  BY <1>2, <2>1, Zenon DEF Only
<1>3. (\E b \in Actors : actor[b].cur = s) => \E b \in Actors : actor'[b].cur = s
  BY <1>2, Zenon
<1>. QED  BY <1>1, <1>3, Zenon DEF Kept

\* What is left to show of an actor's step: the command it touched, and its own place.
LEMMA ActorStep ==
    ASSUME CmdIInv, NEW a \in Actors, NEW c, Only(a, c),
           CmdTypes', IsInjective(cmd_mgr.cmds)', Place(a)', c \in Slots => Kept(c)'
    PROVE  CmdTypes' /\ Listed' /\ Apart' /\ \A b \in Actors : Place(b)'
<1>1. \A b \in Actors : Place(b)'
  <2>1. ASSUME NEW b \in Actors, b # a PROVE Place(b)'
    BY <2>1, OthersKeep, Zenon DEF CmdIInv
  <2>. QED  BY <2>1, Zenon
<1>2. Apart'
  BY StayApart, Zenon DEF CmdIInv
<1>3. \A s \in Slots : Kept(s)'
  <2>1. ASSUME NEW s \in Slots, s # c PROVE Kept(s)'
    BY <2>1, KeptKeeps, Zenon DEF CmdIInv, Listed
  <2>. QED  BY <2>1, Zenon
<1>. QED  BY <1>1, <1>2, <1>3, Zenon DEF Listed

\* As long as all is orderly, an actor's step leaves the other commands with their actors.
LEMMA HandKeeps ==
    ASSUME NEW a \in Actors, NEW c, Only(a, c), NEW s \in Slots, s # c, InHand(s)
    PROVE  InHand(s)'
<1>1. cmd'[s] = cmd[s] /\ (OnList(s)' <=> OnList(s))
  BY Zenon DEF Only
<1>2. ASSUME NEW b \in Actors PROVE actor[b].cur = s <=> actor'[b].cur = s
  <2>1. CASE b = a
    BY <2>1, Slot0, Zenon DEF Only
  <2>2. CASE b # a
    BY <2>2, Zenon DEF Only
  <2>. QED  BY <2>1, <2>2, Zenon
<1>3. WORKER \in Actors
  BY DEF Actors
<1>. QED  BY <1>1, <1>2, <1>3, Zenon DEF InHand

\* The others go on pushing what they pushed.
LEMMA PushesKeep ==
    ASSUME CmdTypes, NEW a \in Actors, NEW c, Only(a, c),
           NEW b \in Actors, b # a, Place(b), Pushes(b)
    PROVE  Pushes(b)'
<1>1. actor'[b] = actor[b]
  BY Zenon DEF Only
<1>2. CASE actor[b].cur = NoSlot
  <2>1. actor[b].pc \notin {"fill", "txmsg"}
    BY <1>2, Zenon DEF Place, Pushing
  <2>. QED  BY <1>1, <2>1, Zenon DEF Pushes
<1>3. CASE actor[b].cur # NoSlot
  <2>1. actor[b].cur \in Slots /\ actor[b].cur # c
    BY <1>3, CurType, Zenon DEF Only
  <2>2. cmd'[actor[b].cur] = cmd[actor[b].cur]
    BY <2>1, Zenon DEF Only
  <2>. QED  BY <1>1, <2>2, Zenon DEF Pushes, CurMsg, Active
<1>. QED  BY <1>2, <1>3, Zenon

\* What is left to show of the turns: their order, and the actor and its command.
LEMMA TurnStep ==
    ASSUME CmdIInv, InTurn, NEW a \in Actors, NEW c, Only(a, c),
           Sorted', Pushes(a)', c \in Slots => InHand(c)'
    PROVE  InTurn'
<1>1. ASSUME NEW b \in Actors, b # a PROVE Pushes(b)'
  BY <1>1, PushesKeep, Zenon DEF CmdIInv, InTurn
<1>2. ASSUME NEW s \in Slots, s # c PROVE InHand(s)'
  BY <1>2, HandKeeps, Zenon DEF InTurn
<1>. QED  BY <1>1, <1>2, Zenon DEF InTurn

\* A sender that waits for its confirmation goes on waiting when another one moves.
LEMMA AskedKeeps ==
    ASSUME CmdIInv, NEW a \in Actors, NEW c, Only(a, c), NEW e, Asked(e), e.slot # c
    PROVE  Asked(e)'
<1>1. PICK b \in Actors : /\ actor[b].pc \in Awaiting /\ actor[b].cur = e.slot
                          /\ CurMsg(b) = e.msg /\ Active(e.slot)
  BY Zenon DEF Asked
<1>2. actor[b].cur # NoSlot
  BY <1>1, Zenon DEF CmdIInv, Place, Pushing
<1>3. b # a /\ e.slot \in Slots
  BY <1>1, <1>2, CurType, Zenon DEF Only, CmdIInv
<1>4. actor'[b] = actor[b] /\ cmd'[e.slot] = cmd[e.slot]
  BY <1>3, Zenon DEF Only
<1>. QED  BY <1>1, <1>4, Zenon DEF Asked, CurMsg, Active

(***************************************************************************)
(* What the pieces of the actions do.                                      *)
(***************************************************************************)
\* The list is a sequence of slots.
LEMMA TheList ==
    ASSUME CmdTypes
    PROVE  /\ cmd_mgr.cmds \in Seq(Slots) /\ Len(cmd_mgr.cmds) \in Nat
           /\ DOMAIN cmd_mgr.cmds = 1 .. Len(cmd_mgr.cmds)
           /\ \A i \in 1 .. Len(cmd_mgr.cmds) : cmd_mgr.cmds[i] \in Slots /\ OnList(cmd_mgr.cmds[i])
           /\ \A s : OnList(s) => s \in Slots /\ \E i \in 1 .. Len(cmd_mgr.cmds) : cmd_mgr.cmds[i] = s
<1>1. cmd_mgr.cmds \in Seq(Slots)
  BY DEF CmdTypes
<1>2. /\ Len(cmd_mgr.cmds) \in Nat /\ DOMAIN cmd_mgr.cmds = 1 .. Len(cmd_mgr.cmds)
      /\ \A i \in 1 .. Len(cmd_mgr.cmds) : cmd_mgr.cmds[i] \in Slots
  BY <1>1, SeqEntries, Zenon
<1>. QED  BY <1>1, <1>2, Zenon DEF OnList, Range

\* The rest of a call: nothing in hand, and a message left unless the call is over.
LEMMA SendDoneFacts ==
    ASSUME CmdTypes, NEW t \in Callers, todo[t] # <<>>, SendDone(t)
    PROVE  /\ actor' \in [Actors -> ActorRec] /\ todo' \in [Callers -> Seq(Message)]
           /\ actor'[t].pc \in {"idle", "send"} /\ actor'[t].cur = NoSlot
           /\ actor'[t].pc # "idle" => todo'[t] # <<>>
           /\ \A b \in Actors : b # t => actor'[b] = actor[b]
           /\ \A b \in Callers : b # t => todo'[b] = todo[b]
<1>1. t \in Actors /\ todo[t] \in Seq(Message)
  BY DEF Actors, CmdTypes
<1>2. /\ Tail(todo[t]) \in Seq(Message) /\ Len(Tail(todo[t])) = Len(todo[t]) - 1
      /\ Len(todo[t]) \in Nat
  BY <1>1, HeadAndTail, SeqEntries
<1>3. Len(todo[t]) # 1 => Tail(todo[t]) # <<>>
  <2>1. Tail(todo[t]) = <<>> <=> Len(Tail(todo[t])) = 0
    BY <1>2, EmptySeq, Zenon
  <2>. QED  BY <1>2, <2>1
<1>4. /\ todo'[t] = Tail(todo[t]) /\ todo' \in [Callers -> Seq(Message)]
      /\ \A b \in Callers : b # t => todo'[b] = todo[b]
  BY <1>2 DEF SendDone, CmdTypes
<1>. DEFINE new == [pc |-> IF Len(todo[t]) = 1 THEN "idle" ELSE "send", cur |-> NoSlot, defer |-> FALSE]
<1>5. /\ new \in ActorRec /\ new.pc \in {"idle", "send"} /\ new.cur = NoSlot
      /\ new.pc # "idle" => Len(todo[t]) # 1
  <2>1. CASE Len(todo[t]) = 1
    <3>1. new = [pc |-> "idle", cur |-> NoSlot, defer |-> FALSE]
      BY <2>1, Zenon
    <3>. QED  BY <3>1, <2>1 DEF ActorRec, Pcs
  <2>2. CASE Len(todo[t]) # 1
    <3>1. new = [pc |-> "send", cur |-> NoSlot, defer |-> FALSE]
      BY <2>2, Zenon
    <3>. QED  BY <3>1, <2>2 DEF ActorRec, Pcs
  <2>. QED  BY <2>1, <2>2, Zenon
<1>6. actor' = [actor EXCEPT ![t] = new] /\ actor \in [Actors -> ActorRec]
  BY DEF SendDone, CmdTypes
<1>. HIDE DEF new
<1>7. /\ actor'[t] = new /\ actor' \in [Actors -> ActorRec]
      /\ \A b \in Actors : b # t => actor'[b] = actor[b]
  BY <1>1, <1>5, <1>6
<1>. QED  BY <1>3, <1>4, <1>5, <1>7, Zenon

\* Only the place of an actor changes.
LEMMA GotoFacts ==
    ASSUME CmdTypes, NEW a \in Actors, NEW p \in Pcs, Goto(a, p)
    PROVE  /\ actor' \in [Actors -> ActorRec]
           /\ actor'[a].pc = p /\ actor'[a].cur = actor[a].cur
           /\ \A b \in Actors : b # a => actor'[b] = actor[b]
  BY Zenon DEF CmdTypes, Goto, ActorRec

\* A released slot is as at the start.
LEMMA FreeFacts ==
    ASSUME CmdTypes, NEW s \in Slots, rwnx_cmd_free(s)
    PROVE  /\ cmd' \in [Slots -> CmdRec]
           /\ ~cmd'[s].used /\ ~cmd'[s].push /\ ~cmd'[s].wait /\ ~cmd'[s].comp /\ ~cmd'[s].msg.buf
           /\ \A r \in Slots : r # s => cmd'[r] = cmd[r]
<1>1. NoMsg \in Message /\ ~NoMsg.buf
  <2>1. NoMsg.buf = FALSE
    BY DEF NoMsg, Ntf
  <2>. QED  BY <2>1, Zenon DEF Message
<1>2. /\ NoCmd \in CmdRec /\ NoCmd.msg = NoMsg
      /\ ~NoCmd.used /\ ~NoCmd.push /\ ~NoCmd.wait /\ ~NoCmd.comp
  BY <1>1 DEF NoCmd, CmdRec, Actors
<1>3. cmd' = [cmd EXCEPT ![s] = NoCmd] /\ cmd \in [Slots -> CmdRec]
  BY DEF CmdTypes, rwnx_cmd_free
<1>4. cmd'[s] = NoCmd /\ cmd' \in [Slots -> CmdRec] /\ \A r \in Slots : r # s => cmd'[r] = cmd[r]
  BY <1>2, <1>3
<1>. QED  BY <1>1, <1>2, <1>4, Zenon

\* A slot is an entry of the list as long as the list stays.
LEMMA SameList ==
    ASSUME cmd_mgr'.cmds = cmd_mgr.cmds
    PROVE  /\ \A s : OnList(s)' <=> OnList(s)
           /\ IsInjective(cmd_mgr.cmds) => IsInjective(cmd_mgr.cmds)'
  BY Zenon DEF OnList

\* While the list stays, so does the order as long as no flag of it is set.
LEMMA SameOrder ==
    ASSUME CmdTypes, Sorted, cmd_mgr'.cmds = cmd_mgr.cmds,
           \A s \in Slots : OnList(s) => (cmd'[s].push <=> cmd[s].push) /\ (cmd'[s].wait => cmd[s].wait)
    PROVE  Sorted'
<1>1. \A i \in DOMAIN cmd_mgr.cmds : cmd_mgr.cmds[i] \in Slots /\ OnList(cmd_mgr.cmds[i])
  BY TheList, Zenon
<1>. QED  BY <1>1, Zenon DEF Sorted

\* Who waits for a confirmation has the command in its hands.
LEMMA AskedHolder ==
    ASSUME CmdIInv, NEW e, Asked(e)
    PROVE  /\ e.slot \in Slots
           /\ \A a \in Actors : actor[a].cur = e.slot =>
                 actor[a].pc \in Awaiting /\ CurMsg(a) = e.msg /\ Active(e.slot)
<1>1. PICK b \in Actors : /\ actor[b].pc \in Awaiting /\ actor[b].cur = e.slot
                          /\ CurMsg(b) = e.msg /\ Active(e.slot)
  BY Zenon DEF Asked
<1>2. actor[b].cur # NoSlot /\ e.slot \in Slots
  BY <1>1, CurType, Zenon DEF CmdIInv, Place, Pushing
<1>. QED  BY <1>1, <1>2, Zenon DEF CmdIInv, Apart

\* The mailbox when an actor moves that does not fill or send it.
LEMMA MailStep ==
    ASSUME CmdIInv, OneInMail, NEW a \in Actors, NEW c, Only(a, c), UNCHANGED <<mail, fw>>,
           actor[a].pc # "txmsg", actor'[a].pc # "txmsg",
           \A e \in fw \cup {mail.buf} : Asked(e) /\ e.slot = c => Asked(e)'
    PROVE  OneInMail'
<1>1. ASSUME NEW e \in fw \cup {mail.buf}, Asked(e) PROVE Asked(e)'
  BY <1>1, AskedKeeps, Zenon
<1>2. ASSUME NEW b \in Actors, At(b, "txmsg")'
      PROVE  /\ b # a /\ At(b, "txmsg") /\ actor'[b] = actor[b]
             /\ cmd'[actor[b].cur] = cmd[actor[b].cur]
  <2>1. b # a /\ At(b, "txmsg") /\ actor'[b] = actor[b]
    BY <1>2, Zenon DEF At, Only
  <2>2. actor[b].cur \in Slots /\ actor[b].cur # NoSlot
    BY <2>1, CurType, Zenon DEF At, CmdIInv, Place, Pushing
  <2>. QED  BY <2>1, <2>2, Zenon DEF Only
<1>3. ASSUME NEW b \in Actors, At(b, "txmsg")'
      PROVE  /\ mail'.buf = [slot |-> actor'[b].cur, msg |-> cmd'[actor'[b].cur].msg] /\ ~mail'.full
             /\ \A d \in Actors : At(d, "txmsg")' => b = d
  <2>1. At(b, "txmsg") /\ actor'[b] = actor[b] /\ cmd'[actor[b].cur] = cmd[actor[b].cur]
    BY <1>2, <1>3, Zenon
  <2>2. mail.buf = [slot |-> actor[b].cur, msg |-> cmd[actor[b].cur].msg] /\ ~mail.full
    BY <2>1, Zenon DEF OneInMail, CurMsg
  <2>3. mail'.buf = [slot |-> actor'[b].cur, msg |-> cmd'[actor'[b].cur].msg] /\ ~mail'.full
    BY <2>1, <2>2, Zenon
  <2>4. ASSUME NEW d \in Actors, At(d, "txmsg")' PROVE b = d
    BY <1>2, <2>1, <2>4, Zenon DEF OneInMail
  <2>. QED  BY <2>3, <2>4, Zenon
<1>4. mail'.full /\ mail'.buf.msg.reqcfm => Asked(mail.buf)' /\ fw' = {}
  BY <1>1, Zenon DEF OneInMail
<1>5. \A e \in fw' : Asked(e)'
  BY <1>1, Zenon DEF OneInMail
<1>. QED  BY <1>3, <1>4, <1>5, Zenon DEF OneInMail, CurMsg

(***************************************************************************)
(* The calls.                                                              *)
(***************************************************************************)
\* What is left to show of an actor's step.
LEMMA Assemble ==
    ASSUME CmdIInv, NEW a \in Actors, NEW c, Only(a, c),
           CmdTypes', IsInjective(cmd_mgr.cmds)', Place(a)', c \in Slots => Kept(c)',
           Orderly' => InTurn' /\ OneInMail' /\ NothingMixed'
    PROVE  CmdIInv'
<1>1. CmdTypes' /\ Listed' /\ Apart' /\ \A b \in Actors : Place(b)'
  BY ActorStep, Zenon
<1>. QED  BY <1>1, Zenon DEF CmdIInv

\* A task is an actor and not the worker.
LEMMA TaskActs == ASSUME NEW t \in Callers PROVE t \in Actors /\ t # WORKER
  BY Slot0, Zenon DEF Actors

\* A step of an actor with no command in its hands, before and after.
LEMMA QuietStep ==
    ASSUME CmdIInv, NEW t \in Actors, UNCHANGED <<cmd_mgr, cmd, mail, fw, ghost>>, CmdTypes',
           actor[t].cur = NoSlot, actor'[t].cur = NoSlot, Place(t)',
           \A b \in Actors : b # t => actor'[b] = actor[b],
           \A b \in Callers : b # t => todo'[b] = todo[b]
    PROVE  CmdIInv'
<1>2. cmd_mgr'.cmds = cmd_mgr.cmds
  BY Zenon
<1>3. (\A s : OnList(s)' <=> OnList(s)) /\ IsInjective(cmd_mgr.cmds)'
  BY <1>2, SameList, Zenon DEF CmdIInv, Listed
<1>4. Only(t, NoSlot)
  BY <1>3, Zenon DEF Only, Actors
<1>5. NoSlot \in Slots => Kept(NoSlot)'
  BY Slot0, Zenon
<1>6. ASSUME Orderly' PROVE InTurn' /\ OneInMail' /\ NothingMixed'
  <2>1. InTurn /\ OneInMail /\ NothingMixed
    BY <1>6, Zenon DEF Orderly, Crashed, CmdIInv
  <2>2. Sorted'
    BY <1>2, <2>1, SameOrder, Zenon DEF InTurn, CmdIInv
  <2>3. actor[t].pc \notin Queuing \cup Pushing /\ actor'[t].pc \notin Queuing \cup Pushing
    BY Zenon DEF CmdIInv, Place
  <2>4. Pushes(t)' /\ actor[t].pc # "txmsg" /\ actor'[t].pc # "txmsg"
    BY <2>3, Zenon DEF Pushes, Queuing, Pushing
  <2>5. InTurn'
    BY <1>4, <2>1, <2>2, <2>4, Slot0, TurnStep, Zenon
  <2>6. \A e \in fw \cup {mail.buf} : Asked(e) /\ e.slot = NoSlot => Asked(e)'
    BY AskedHolder, Slot0, Zenon
  <2>7. OneInMail'
    BY <1>4, <2>1, <2>4, <2>6, MailStep, Zenon
  <2>. QED  BY <2>1, <2>5, <2>7, Zenon DEF NothingMixed
<1>. QED  BY <1>3, <1>4, <1>5, <1>6, Assemble, Zenon

\* A task with nothing in hand is at one of four places.
LEMMA AtRest ==
    ASSUME CmdIInv, NEW t \in Callers, actor[t].pc \in {"idle", "send"}
    PROVE  /\ actor[t].cur = NoSlot /\ Place(t)
           /\ actor[t].pc = "send" => todo[t] # <<>>
<1>1. t \in Actors /\ t # WORKER
  BY TaskActs, Zenon
<1>2. Place(t) /\ actor[t].pc \notin Queuing \cup Pushing \cup {"freed"}
  BY <1>1, Zenon DEF CmdIInv, Queuing, Pushing, Awaiting
<1>. QED  BY <1>1, <1>2, Zenon DEF Place

\* The place of a task that has nothing in hand.
LEMMA RestPlace ==
    ASSUME NEW t \in Callers, actor'[t].cur = NoSlot, actor'[t].pc \in {"idle", "send", "oops"},
           actor'[t].pc # "idle" => todo'[t] # <<>>
    PROVE  Place(t)'
<1>1. t # WORKER /\ actor'[t].pc \notin Queuing \cup Pushing \cup {"freed"}
  BY TaskActs, Zenon DEF Queuing, Pushing, Awaiting
<1>. QED  BY <1>1, Zenon DEF Place

\* A call begins, or sends nothing.
LEMMA CallInv == ASSUME CmdIInv, NEW t \in Callers, Call(t) PROVE CmdIInv'
<1>1. t \in Actors /\ CmdTypes /\ At(t, "idle") /\ plan[t] # <<>>
  BY TaskActs, Zenon DEF CmdIInv, Call
<1>2. actor[t].cur = NoSlot
  BY <1>1, AtRest, Zenon DEF At
<1>3. plan[t] \in Seq(Seq(Message))
  BY <1>1 DEF CmdTypes
<1>4. Head(plan[t]) \in Seq(Message) /\ Tail(plan[t]) \in Seq(Seq(Message))
  BY <1>1, <1>3, HeadAndTail, Zenon
<1>5. /\ todo' \in [Callers -> Seq(Message)] /\ plan' \in [Callers -> Seq(Seq(Message))]
      /\ todo'[t] = Head(plan[t]) /\ \A b \in Callers : b # t => todo'[b] = todo[b]
  BY <1>1, <1>4 DEF Call, CmdTypes
<1>. DEFINE p == IF Head(plan[t]) = <<>> THEN "idle" ELSE "send"
<1>6. p \in Pcs /\ p \in {"idle", "send"} /\ (p # "idle" => Head(plan[t]) # <<>>)
  BY Zenon DEF Pcs
<1>7. Goto(t, p) /\ UNCHANGED <<cmd_mgr, cmd, woken, mail, fw, bus_up, ghost>>
  BY Zenon DEF Call
<1>. HIDE DEF p
<1>8. /\ actor' \in [Actors -> ActorRec]
      /\ actor'[t].pc = p /\ actor'[t].cur = actor[t].cur
      /\ \A b \in Actors : b # t => actor'[b] = actor[b]
  BY <1>1, <1>6, <1>7, GotoFacts, Zenon
<1>9. CmdTypes'
  BY <1>1, <1>5, <1>7, <1>8, Zenon DEF CmdTypes
<1>10. Place(t)'
  <2>1. actor'[t].cur = NoSlot
    BY <1>2, <1>8, Zenon
  <2>. QED  BY <1>5, <1>6, <1>8, <2>1, RestPlace, Zenon
<1>. QED  BY <1>2, <1>5, <1>7, <1>8, <1>9, <1>10, TaskActs, QuietStep, Zenon

\* rwnx_send_msg with the bus down, and with no slot free.
LEMMA SendNothingInv ==
    ASSUME CmdIInv, NEW t \in Callers, At(t, "send"),
           SendDone(t) \/ (Goto(t, "oops") /\ UNCHANGED todo),
           UNCHANGED <<cmd, cmd_mgr, plan, woken, mail, fw, bus_up, ghost>>
    PROVE  CmdIInv'
<1>1. t \in Actors /\ CmdTypes
  BY TaskActs, Zenon DEF CmdIInv
<1>2. actor[t].cur = NoSlot /\ todo[t] # <<>>
  BY AtRest, Zenon DEF At
<1>3. /\ actor' \in [Actors -> ActorRec] /\ todo' \in [Callers -> Seq(Message)]
      /\ actor'[t].pc \in {"idle", "send", "oops"} /\ actor'[t].cur = NoSlot
      /\ actor'[t].pc # "idle" => todo'[t] # <<>>
      /\ \A b \in Actors : b # t => actor'[b] = actor[b]
      /\ \A b \in Callers : b # t => todo'[b] = todo[b]
  <2>1. CASE SendDone(t)
    BY <1>1, <1>2, <2>1, SendDoneFacts, Zenon
  <2>2. CASE Goto(t, "oops") /\ UNCHANGED todo
    <3>1. "oops" \in Pcs
      BY Zenon DEF Pcs
    <3>2. todo' \in [Callers -> Seq(Message)] /\ todo'[t] # <<>>
      BY <1>1, <1>2, <2>2, Zenon DEF CmdTypes
    <3>. QED  BY <1>1, <1>2, <2>2, <3>1, <3>2, GotoFacts, Zenon
  <2>. QED  BY <2>1, <2>2, Zenon
<1>4. CmdTypes'
  BY <1>1, <1>3, Zenon DEF CmdTypes
<1>5. Place(t)'
  BY <1>3, RestPlace, Zenon
<1>. QED  BY <1>2, <1>3, <1>4, <1>5, TaskActs, QuietStep, Zenon

\* rwnx_send_msg takes a free slot for the message.
LEMMA SendAllocInv ==
    ASSUME CmdIInv, NEW t \in Callers, NEW s \in Slots, At(t, "send"), rwnx_cmd_malloc(s),
           Filled(t, Head(todo[t]), s),
           UNCHANGED <<todo, cmd_mgr, plan, woken, mail, fw, bus_up, ghost>>
    PROVE  CmdIInv'
<1>1. t \in Actors /\ t # WORKER /\ WORKER \in Actors /\ CmdTypes
  BY TaskActs, Zenon DEF CmdIInv, Actors
<1>2. actor[t].cur = NoSlot /\ todo[t] # <<>>
  BY AtRest, Zenon DEF At
<1>3. ~cmd[s].used /\ s # NoSlot
  BY Slot0, Zenon DEF rwnx_cmd_malloc
<1>. DEFINE m == Head(todo[t])
            p == CASE ~m.reqcfm -> "fill" [] m.reqcfm /\ m.buf -> "drain" [] m.reqcfm /\ ~m.buf -> "queue"
            new == [NoCmd EXCEPT !.used = TRUE, !.msg = m, !.task = t]
            at  == [pc |-> p, cur |-> s, defer |-> FALSE]
<1>4. m \in Message
  <2>1. todo[t] \in Seq(Message)
    BY <1>1, Zenon DEF CmdTypes
  <2>. QED  BY <1>2, <2>1, HeadAndTail, Zenon
<1>5. /\ p \in {"fill", "drain", "queue"} /\ p \in Pcs
      /\ p = "fill" => ~m.reqcfm
      /\ p # "fill" => m.reqcfm
      /\ p = "queue" => ~m.buf
  <2>1. CASE ~m.reqcfm
    <3>1. p = "fill"
      BY <2>1
    <3>. QED  BY <2>1, <3>1, Zenon DEF Pcs, Pushing
  <2>2. CASE m.reqcfm /\ m.buf
    <3>1. p = "drain"
      BY <2>2
    <3>. QED  BY <2>2, <3>1, Zenon DEF Pcs, Queuing
  <2>3. CASE m.reqcfm /\ ~m.buf
    <3>1. p = "queue"
      BY <2>3
    <3>. QED  BY <2>3, <3>1, Zenon DEF Pcs, Queuing
  <2>. QED  BY <2>1, <2>2, <2>3, Zenon
<1>6. /\ new \in CmdRec /\ new.used /\ new.msg = m /\ new.task = t
      /\ ~new.push /\ ~new.wait /\ ~new.comp
  BY <1>1, <1>4, Zenon DEF NoCmd, CmdRec
<1>7. /\ cmd' = [cmd EXCEPT ![s] = new] /\ cmd \in [Slots -> CmdRec]
      /\ actor' = [actor EXCEPT ![t] = at] /\ actor \in [Actors -> ActorRec]
  BY <1>1, Zenon DEF CmdTypes, Filled
<1>. HIDE DEF m, p
<1>a. at \in ActorRec /\ at.pc = p /\ at.cur = s
  BY <1>5 DEF ActorRec
<1>. HIDE DEF new, at
<1>8. /\ cmd' \in [Slots -> CmdRec] /\ cmd'[s] = new
      /\ \A r \in Slots : r # s => cmd'[r] = cmd[r]
  BY <1>6, <1>7
<1>9. /\ actor' \in [Actors -> ActorRec] /\ actor'[t].pc = p /\ actor'[t].cur = s
      /\ \A b \in Actors : b # t => actor'[b] = actor[b]
  <2>1. actor'[t] = at /\ actor' \in [Actors -> ActorRec] /\ \A b \in Actors : b # t => actor'[b] = actor[b]
    BY <1>1, <1>7, <1>a
  <2>. QED  BY <2>1, <1>a, Zenon
<1>10. CmdTypes'
  BY <1>1, <1>8, <1>9, Zenon DEF CmdTypes
<1>11. (\A r : OnList(r)' <=> OnList(r)) /\ IsInjective(cmd_mgr.cmds)'
  BY SameList, Zenon DEF CmdIInv, Listed
<1>12. ~OnList(s)'
  BY <1>3, <1>11, Zenon DEF CmdIInv, Listed, Kept
<1>13. \A b \in Actors : actor[b].cur # s
  BY <1>3, Zenon DEF CmdIInv, Place
<1>14. Only(t, s)
  BY <1>2, <1>8, <1>9, <1>11, <1>13, Zenon DEF Only, Actors
<1>15. Place(t)'
  <2>1. p \in Queuing \cup Pushing /\ p \in {"idle", "send", "oops"} \cup Queuing \cup Pushing \cup {"freed"}
    BY <1>5, Zenon DEF Queuing, Pushing
  <2>2. (p \in Pushing => ~m.reqcfm) /\ (p \in Queuing \cup Awaiting => m.reqcfm)
    BY <1>5, Zenon DEF Queuing, Pushing, Awaiting
  <2>3. s \notin Range(cmd_mgr.cmds)'
    BY <1>12, Zenon DEF OnList
  <2>. QED  BY <1>1, <1>2, <1>3, <1>5, <1>6, <1>8, <1>9, <2>1, <2>2, <2>3, Zenon DEF Place, OnList
<1>16. Kept(s)'
  BY <1>1, <1>6, <1>8, <1>9, <1>12, Zenon DEF Kept
<1>17. ASSUME Orderly' PROVE InTurn' /\ OneInMail' /\ NothingMixed'
  <2>1. InTurn /\ OneInMail /\ NothingMixed
    BY <1>17, Zenon DEF Orderly, Crashed, CmdIInv
  <2>2. Sorted'
    <3>1. \A r \in Slots : OnList(r) => cmd'[r] = cmd[r]
      BY <1>8, <1>11, <1>12, Zenon
    <3>. QED  BY <1>1, <2>1, <3>1, SameOrder, Zenon DEF InTurn
  <2>3. Pushes(t)'
    BY <1>5, <1>6, <1>8, <1>9, Zenon DEF Pushes, CurMsg
  <2>4. InHand(s)'
    BY <1>1, <1>6, <1>8, <1>9, <1>12, <1>13, Zenon DEF InHand
  <2>5. InTurn'
    BY <1>1, <1>14, <2>1, <2>2, <2>3, <2>4, TurnStep, Zenon
  <2>6. \A e \in fw \cup {mail.buf} : Asked(e) /\ e.slot = s => Asked(e)'
    BY <1>13, Zenon DEF Asked
  <2>7. actor[t].pc # "txmsg" /\ actor'[t].pc # "txmsg"
    BY <1>5, <1>9, Zenon DEF At
  <2>8. OneInMail'
    BY <1>1, <1>14, <2>1, <2>6, <2>7, MailStep, Zenon
  <2>. QED  BY <2>1, <2>5, <2>8, Zenon DEF NothingMixed
<1>. QED  BY <1>1, <1>10, <1>11, <1>14, <1>15, <1>16, <1>17, Assemble, Zenon

\* rwnx_send_msg.
LEMMA SendInv == ASSUME CmdIInv, NEW t \in Callers, rwnx_send_msg(t) PROVE CmdIInv'
<1>1. At(t, "send") /\ UNCHANGED <<cmd_mgr, plan, woken, mail, fw, bus_up, ghost>>
  BY Zenon DEF rwnx_send_msg
<1>2. CASE (SendDone(t) \/ (Goto(t, "oops") /\ UNCHANGED todo)) /\ UNCHANGED cmd
  BY <1>1, <1>2, SendNothingInv, Zenon
<1>3. ASSUME NEW s \in Slots, rwnx_cmd_malloc(s), Filled(t, Head(todo[t]), s), UNCHANGED todo
      PROVE  CmdIInv'
  BY <1>1, <1>3, SendAllocInv, Zenon
<1>4. \/ (SendDone(t) \/ (Goto(t, "oops") /\ UNCHANGED todo)) /\ UNCHANGED cmd
      \/ \E s \in Slots : rwnx_cmd_malloc(s) /\ Filled(t, Head(todo[t]), s) /\ UNCHANGED todo
  BY Zenon DEF rwnx_send_msg
<1>. QED  BY <1>2, <1>3, <1>4, Zenon

(***************************************************************************)
(* cmd_mgr_queue.                                                          *)
(***************************************************************************)
\* The task that has a slot releases it: a slot that is not on the list.
LEMMA DoneStep ==
    ASSUME CmdIInv, NEW t \in Callers, actor[t].pc \in Queuing \cup {"freed", "txmsg"},
           rwnx_cmd_free(actor[t].cur), SendDone(t), woken' \in BOOLEAN,
           UNCHANGED <<cmd_mgr, plan, fw, bus_up, ghost>>, mail' \in MailRec, mail'.buf = mail.buf,
           IF actor[t].pc = "txmsg" THEN ~CurMsg(t).reqcfm ELSE mail' = mail
    PROVE  CmdIInv'
<1>1. t \in Actors /\ t # WORKER /\ CmdTypes /\ Place(t)
  BY TaskActs, Zenon DEF CmdIInv
<1>2. /\ actor[t].pc # "idle" /\ actor[t].pc \notin Awaiting
      /\ actor[t].pc \in Pushing => actor[t].pc = "txmsg"
      /\ actor[t].pc \in Queuing \cup Pushing \cup {"freed"}
  BY Zenon DEF Queuing, Pushing, Awaiting
<1>3. actor[t].cur \in Slots
  BY <1>1, <1>2, CurType, Zenon DEF Place
<1>4. PICK s \in Slots : s = actor[t].cur
  BY <1>3, Zenon
<1>5. s # NoSlot /\ todo[t] # <<>> /\ ~OnList(s)
  BY <1>1, <1>2, <1>4, Slot0, Zenon DEF Place, CurMsg
<1>6. /\ actor' \in [Actors -> ActorRec] /\ todo' \in [Callers -> Seq(Message)]
      /\ actor'[t].pc \in {"idle", "send"} /\ actor'[t].cur = NoSlot
      /\ actor'[t].pc # "idle" => todo'[t] # <<>>
      /\ \A b \in Actors : b # t => actor'[b] = actor[b]
      /\ \A b \in Callers : b # t => todo'[b] = todo[b]
  BY <1>1, <1>5, SendDoneFacts, Zenon
<1>7. /\ cmd' \in [Slots -> CmdRec]
      /\ ~cmd'[s].used /\ ~cmd'[s].push /\ ~cmd'[s].wait /\ ~cmd'[s].comp /\ ~cmd'[s].msg.buf
      /\ \A r \in Slots : r # s => cmd'[r] = cmd[r]
  BY <1>1, <1>4, FreeFacts, Zenon
<1>8. CmdTypes'
  BY <1>1, <1>6, <1>7, Zenon DEF CmdTypes
<1>9. (\A r : OnList(r)' <=> OnList(r)) /\ IsInjective(cmd_mgr.cmds)'
  BY SameList, Zenon DEF CmdIInv, Listed
<1>10. \A b \in Actors : b # t => actor[b].cur # s
  BY <1>1, <1>4, <1>5, Zenon DEF CmdIInv, Apart
<1>11. Only(t, s)
  BY <1>4, <1>6, <1>7, <1>9, <1>10, Zenon DEF Only, Actors
<1>12. Place(t)'
  BY <1>6, RestPlace, Zenon
<1>13. ~OnList(s)'
  BY <1>5, <1>9, Zenon
<1>14. Kept(s)'
  BY <1>7, <1>13, Zenon DEF Kept
<1>15. ASSUME Orderly' PROVE InTurn' /\ OneInMail' /\ NothingMixed'
  <2>1. InTurn /\ OneInMail /\ NothingMixed
    BY <1>15, Zenon DEF Orderly, Crashed, CmdIInv
  <2>2. Sorted'
    <3>1. \A r \in Slots : OnList(r) => cmd'[r] = cmd[r]
      BY <1>7, <1>9, <1>13, Zenon
    <3>. QED  BY <1>1, <2>1, <3>1, SameOrder, Zenon DEF InTurn
  <2>3. Pushes(t)' /\ actor'[t].pc # "txmsg"
    BY <1>6, Zenon DEF Pushes
  <2>4. InHand(s)'
    BY <1>7, <1>13, Zenon DEF InHand
  <2>5. InTurn'
    BY <1>1, <1>11, <2>1, <2>2, <2>3, <2>4, TurnStep, Zenon
  <2>6. \A e : Asked(e) => e.slot # s
    BY <1>1, <1>2, <1>4, AskedHolder, Zenon
  <2>7. OneInMail'
    <3>1. CASE actor[t].pc # "txmsg"
      <4>1. \A e \in fw \cup {mail.buf} : Asked(e) /\ e.slot = s => Asked(e)'
        BY <2>6, Zenon
      <4>. QED  BY <1>1, <1>11, <2>1, <2>3, <3>1, <4>1, MailStep, Zenon
    <3>2. CASE actor[t].pc = "txmsg"
      <4>1. \A b \in Actors : ~At(b, "txmsg")'
        BY <1>1, <1>6, <2>1, <2>3, <3>2, Zenon DEF OneInMail, At
      <4>2. ~mail'.buf.msg.reqcfm
        <5>1. mail.buf = [slot |-> actor[t].cur, msg |-> CurMsg(t)]
          BY <1>1, <2>1, <3>2, Zenon DEF OneInMail, At
        <5>2. mail.buf.msg = CurMsg(t)
          BY <5>1
        <5>. QED  BY <3>2, <5>2, Zenon
      <4>3. ASSUME NEW e \in fw PROVE Asked(e)'
        BY <1>1, <1>11, <2>1, <2>6, <4>3, AskedKeeps, Zenon DEF OneInMail
      <4>. QED  BY <4>1, <4>2, <4>3, Zenon DEF OneInMail
    <3>. QED  BY <3>1, <3>2, Zenon
  <2>. QED  BY <2>1, <2>5, <2>7, Zenon DEF NothingMixed
<1>. QED  BY <1>1, <1>8, <1>9, <1>11, <1>12, <1>14, <1>15, Assemble, Zenon

\* A refused command.
LEMMA RefuseInv ==
    ASSUME CmdIInv, NEW t \in Callers, actor[t].pc \in Queuing, Refuse(t)
    PROVE  CmdIInv'
<1>1. woken' \in BOOLEAN /\ mail' \in MailRec /\ mail' = mail
  BY Zenon DEF Refuse, CmdIInv, CmdTypes
<1>2. actor[t].pc # "txmsg"
  BY Zenon DEF Queuing
<1>. QED  BY <1>1, <1>2, DoneStep, Zenon DEF Refuse

\* A slot at the end of the list.
LEMMA ListAppend ==
    ASSUME CmdTypes, IsInjective(cmd_mgr.cmds), NEW s \in Slots, ~OnList(s),
           cmd_mgr'.cmds = Append(cmd_mgr.cmds, s)
    PROVE  /\ Append(cmd_mgr.cmds, s) \in Seq(Slots) /\ IsInjective(cmd_mgr.cmds)' /\ OnList(s)'
           /\ \A r \in Slots : r # s => (OnList(r)' <=> OnList(r))
           /\ DOMAIN cmd_mgr'.cmds = 1 .. Len(cmd_mgr.cmds) + 1
           /\ \A i \in 1 .. Len(cmd_mgr.cmds) : cmd_mgr'.cmds[i] = cmd_mgr.cmds[i]
           /\ cmd_mgr'.cmds[Len(cmd_mgr.cmds) + 1] = s
<1>. DEFINE q == cmd_mgr.cmds
            n == Len(q)
<1>1. /\ q \in Seq(Slots) /\ n \in Nat /\ DOMAIN q = 1 .. n
      /\ \A i \in 1 .. n : q[i] \in Slots /\ q[i] # s
  BY TheList, Zenon
<1>4. cmd_mgr'.cmds = Append(q, s) /\ \A i, j \in 1 .. n : q[i] = q[j] => i = j
  BY <1>1, Zenon DEF IsInjective
<1>. HIDE DEF q
<1>2. /\ Append(q, s) \in Seq(Slots) /\ Len(Append(q, s)) = n + 1
      /\ \A i \in 1 .. n : Append(q, s)[i] = q[i]
      /\ Append(q, s)[n + 1] = s
  <2>1. q \in Seq(Slots)
    BY <1>1, Zenon
  <2>. QED  BY <2>1, OneAppended, Zenon
<1>. HIDE DEF n
<1>3. DOMAIN Append(q, s) = 1 .. n + 1
  <2>1. Append(q, s) \in Seq(Slots) /\ Len(Append(q, s)) = n + 1
    BY <1>2, Zenon
  <2>. QED  BY <2>1, SeqEntries, Zenon
<1>5. \A i \in 1 .. n + 1 : i \in 1 .. n \/ i = n + 1
  BY <1>1
<1>6. n + 1 \in 1 .. n + 1 /\ \A i \in 1 .. n : i \in 1 .. n + 1
  BY <1>1
<1>7. \A i, j \in 1 .. n + 1 : cmd_mgr'.cmds[i] = cmd_mgr'.cmds[j] => i = j
  BY <1>1, <1>2, <1>4, <1>5, Zenon
<1>8. IsInjective(cmd_mgr.cmds)'
  BY <1>3, <1>4, <1>7, Zenon DEF IsInjective
<1>9. \A r : OnList(r)' <=> OnList(r) \/ r = s
  <2>1. \A r : OnList(r)' <=> \E i \in 1 .. n + 1 : cmd_mgr'.cmds[i] = r
    BY <1>3, <1>4, Zenon DEF OnList, Range
  <2>2. \A r : OnList(r) <=> \E i \in 1 .. n : q[i] = r
    BY <1>1, Zenon DEF OnList, Range, q
  <2>. QED  BY <1>2, <1>4, <1>5, <1>6, <2>1, <2>2, Zenon
<1>. QED  BY <1>2, <1>3, <1>4, <1>8, <1>9, Zenon DEF q, n

\* The command at the end of the list has its turn after the others.
LEMMA SortedAppend ==
    ASSUME CmdTypes, IsInjective(cmd_mgr.cmds), Sorted, NEW s \in Slots, ~OnList(s),
           cmd_mgr'.cmds = Append(cmd_mgr.cmds, s),
           \A r \in Slots : r # s => cmd'[r] = cmd[r],
           LastWaits => cmd'[s].push
    PROVE  Sorted'
<1>. DEFINE q == cmd_mgr.cmds
            n == Len(q)
<1>1. /\ q \in Seq(Slots) /\ n \in Nat /\ DOMAIN q = 1 .. n
      /\ \A i \in 1 .. n : q[i] \in Slots /\ q[i] # s
  BY TheList, Zenon
<1>2. /\ DOMAIN cmd_mgr'.cmds = 1 .. n + 1 /\ cmd_mgr'.cmds[n + 1] = s
      /\ \A i \in 1 .. n : cmd_mgr'.cmds[i] = q[i]
  BY ListAppend, Zenon
<1>3. \A i \in 1 .. n : cmd'[q[i]] = cmd[q[i]]
  BY <1>1, Zenon
<1>4. \A i, j \in 1 .. n : i < j /\ (cmd[q[i]].push \/ cmd[q[i]].wait) => cmd[q[j]].push
  BY <1>1, Zenon DEF Sorted
<1>5. n \in 1 .. n /\ (cmd[q[n]].push \/ cmd[q[n]].wait) => cmd'[s].push
  <2>1. n \in 1 .. n => q # <<>>
    BY <1>1, EmptySeq
  <2>. QED  BY <2>1, Zenon DEF LastWaits
<1>. HIDE DEF q, n
<1>6. ASSUME NEW i \in 1 .. n + 1, NEW j \in 1 .. n + 1, i < j,
             cmd'[cmd_mgr'.cmds[i]].push \/ cmd'[cmd_mgr'.cmds[i]].wait
      PROVE  cmd'[cmd_mgr'.cmds[j]].push
  <2>1. i \in 1 .. n /\ (j \in 1 .. n \/ j = n + 1) /\ n \in 1 .. n /\ (i < n \/ i = n)
    <3>1. n \in Nat /\ i \in 1 .. n + 1 /\ j \in 1 .. n + 1 /\ i < j
      BY <1>1, <1>6, Zenon
    <3>. QED  BY ONLY <3>1
  <2>2. cmd[q[i]].push \/ cmd[q[i]].wait
    BY <1>2, <1>3, <1>6, <2>1, Zenon
  <2>3. CASE j \in 1 .. n
    BY <1>2, <1>3, <1>4, <1>6, <2>2, <2>1, <2>3, Zenon
  <2>4. CASE j = n + 1
    <3>1. cmd[q[n]].push \/ cmd[q[n]].wait
      BY <1>4, <2>1, <2>2, Zenon
    <3>. QED  BY <1>2, <1>5, <2>1, <2>4, <3>1, Zenon
  <2>. QED  BY <2>1, <2>3, <2>4, Zenon
<1>. QED  BY <1>2, <1>6, Zenon DEF Sorted

\* list_add_tail, and what follows it.
LEMMA AppendInv ==
    ASSUME CmdIInv, NEW t \in Callers, actor[t].pc \in Queuing, NEW busy \in BOOLEAN,
           Append_(t, busy),
           Orderly => (busy <=> LastWaits) /\ (actor[t].pc = "drain" => cmd_mgr.cmds = <<>>)
    PROVE  CmdIInv'
<1>1. t \in Actors /\ t # WORKER /\ WORKER \in Actors /\ CmdTypes /\ Place(t)
  BY TaskActs, Zenon DEF CmdIInv, Actors
<1>2. actor[t].pc # "idle" /\ actor[t].pc \notin Pushing
  BY Zenon DEF Queuing, Pushing, Awaiting
<1>3. actor[t].cur \in Slots
  BY <1>1, CurType, Zenon DEF Place
<1>4. PICK s \in Slots : s = actor[t].cur
  BY <1>3, Zenon
<1>5. /\ s # NoSlot /\ todo[t] # <<>> /\ ~OnList(s)
      /\ cmd[s].used /\ cmd[s].task = t /\ cmd[s].msg.reqcfm /\ ~cmd[s].comp
      /\ actor[t].pc = "queue" => ~cmd[s].msg.buf
  BY <1>1, <1>2, <1>4, Slot0, Zenon DEF Place
<1>6. PICK d \in BOOLEAN : d = (busy \/ cmd[s].msg.id \in AlwaysDeferred)
  BY Zenon
<1>7. /\ cmd' = [cmd EXCEPT ![s].push = d, ![s].wait = TRUE]
      /\ cmd_mgr' = [cmd_mgr EXCEPT !.cmds = Append(@, s)]
      /\ (d /\ woken' = (woken \/ cmd_mgr.cmds = <<>>) /\ SendDone(t))
         \/ (~d /\ Goto(t, "fill") /\ UNCHANGED <<woken, todo>>)
      /\ UNCHANGED <<plan, mail, fw, bus_up, ghost>>
  BY <1>4, <1>6, Zenon DEF Append_
<1>8. /\ cmd' \in [Slots -> CmdRec] /\ cmd'[s].push = d /\ cmd'[s].wait
      /\ cmd'[s].used = cmd[s].used /\ cmd'[s].task = cmd[s].task /\ cmd'[s].msg = cmd[s].msg
      /\ cmd'[s].comp = cmd[s].comp
      /\ \A r \in Slots : r # s => cmd'[r] = cmd[r]
  BY <1>1, <1>7, Zenon DEF CmdTypes, CmdRec
<1>9. cmd_mgr'.cmds = Append(cmd_mgr.cmds, s) /\ cmd_mgr'.state = cmd_mgr.state
  BY <1>1, <1>7 DEF CmdTypes
<1>10. /\ Append(cmd_mgr.cmds, s) \in Seq(Slots) /\ IsInjective(cmd_mgr.cmds)' /\ OnList(s)'
       /\ \A r \in Slots : r # s => (OnList(r)' <=> OnList(r))
  BY <1>1, <1>5, <1>9, ListAppend, Zenon DEF CmdIInv, Listed
<1>11. cmd_mgr' \in [state : {"INITED", "CRASHED"}, cmds : Seq(Slots)]
  BY <1>1, <1>7, <1>10, Zenon DEF CmdTypes
<1>12. /\ actor' \in [Actors -> ActorRec] /\ todo' \in [Callers -> Seq(Message)] /\ woken' \in BOOLEAN
       /\ \A b \in Actors : b # t => actor'[b] = actor[b]
       /\ \A b \in Callers : b # t => todo'[b] = todo[b]
       /\ d => /\ actor'[t].pc \in {"idle", "send"} /\ actor'[t].cur = NoSlot
               /\ actor'[t].pc # "idle" => todo'[t] # <<>>
       /\ ~d => actor'[t].pc = "fill" /\ actor'[t].cur = s /\ todo'[t] = todo[t]
  <2>1. CASE d
    <3>1. SendDone(t) /\ woken' \in BOOLEAN
      BY <1>7, <2>1, Zenon
    <3>. QED  BY <1>1, <1>5, <2>1, <3>1, SendDoneFacts, Zenon
  <2>2. CASE ~d
    <3>1. Goto(t, "fill") /\ "fill" \in Pcs /\ todo' = todo /\ woken' = woken
      BY <1>7, <2>2, Zenon DEF Pcs, Pushing
    <3>. QED  BY <1>1, <1>4, <2>2, <3>1, GotoFacts, Zenon DEF CmdTypes
  <2>. QED  BY <2>1, <2>2, Zenon
<1>13. CmdTypes'
  BY <1>1, <1>7, <1>8, <1>11, <1>12, Zenon DEF CmdTypes
<1>14. \A b \in Actors : b # t => actor[b].cur # s
  BY <1>1, <1>4, <1>5, Zenon DEF CmdIInv, Apart
<1>15. Only(t, s)
  BY <1>4, <1>8, <1>10, <1>12, <1>14, Zenon DEF Only, Actors
<1>16. Place(t)'
  <2>1. CASE d
    BY <1>12, <2>1, RestPlace, Zenon
  <2>2. CASE ~d
    <3>1. /\ actor'[t].pc = "fill" /\ actor'[t].cur = s /\ todo'[t] # <<>>
          /\ s \in Range(cmd_mgr.cmds)'
      BY <1>5, <1>10, <1>12, <2>2, Zenon DEF OnList
    <3>2. "fill" \in Pushing /\ "fill" \notin Queuing \cup Awaiting
      BY Zenon DEF Pushing, Queuing, Awaiting
    <3>. QED  BY <1>1, <1>5, <1>8, <2>2, <3>1, <3>2, Zenon DEF Place, OnList
  <2>. QED  BY <2>1, <2>2, Zenon
<1>17. Kept(s)'
  BY <1>5, <1>8, <1>10, Zenon DEF Kept
<1>18. ASSUME Orderly' PROVE InTurn' /\ OneInMail' /\ NothingMixed'
  <2>1. Orderly /\ InTurn /\ OneInMail /\ NothingMixed
    BY <1>7, <1>9, <1>18, Zenon DEF Orderly, Crashed, CmdIInv
  <2>2. Sorted'
    <3>1. LastWaits => cmd'[s].push
      BY <1>6, <1>8, <2>1, Zenon
    <3>. QED  BY <1>1, <1>5, <1>8, <1>9, <2>1, <3>1, SortedAppend, Zenon DEF InTurn, CmdIInv, Listed
  <2>3. Pushes(t)' /\ actor[t].pc # "txmsg" /\ actor'[t].pc # "txmsg"
    <3>1. actor[t].pc # "txmsg" /\ actor'[t].pc # "txmsg"
      BY <1>2, <1>12, Zenon DEF Pushing
    <3>2. Pushes(t)'
      BY <1>8, <1>12, Zenon DEF Pushes, Active
    <3>. QED  BY <3>1, <3>2, Zenon
  <2>4. InHand(s)'
    <3>1. d => ~cmd[s].msg.buf
      <4>1. actor[t].pc \in {"queue", "drain"}
        BY <1>1, <2>1, Zenon DEF InTurn, Pushes, Queuing
      <4>2. CASE actor[t].pc = "queue"
        BY <1>5, <4>2, Zenon
      <4>3. CASE actor[t].pc = "drain"
        <5>1. ~busy
          BY <2>1, <4>3, Zenon DEF LastWaits
        <5>2. cmd[s].msg \in Message
          BY <1>1 DEF CmdTypes, CmdRec
        <5>. QED  BY <1>6, <5>1, <5>2, CmdAssumption, Zenon
      <4>. QED  BY <4>1, <4>2, <4>3, Zenon
    <3>2. actor'[WORKER].cur # s
      BY <1>1, <1>12, <1>14, Zenon
    <3>. QED  BY <1>1, <1>8, <1>12, <3>1, <3>2, Zenon DEF InHand
  <2>5. InTurn'
    BY <1>1, <1>15, <2>1, <2>2, <2>3, <2>4, TurnStep, Zenon
  <2>6. \A e \in fw \cup {mail.buf} : Asked(e) /\ e.slot = s => Asked(e)'
    BY <1>1, <1>2, <1>4, AskedHolder, Zenon DEF Pushing
  <2>7. OneInMail'
    BY <1>1, <1>7, <1>15, <2>1, <2>3, <2>6, MailStep, Zenon
  <2>. QED  BY <1>7, <2>1, <2>5, <2>7, Zenon DEF NothingMixed
<1>. QED  BY <1>1, <1>10, <1>13, <1>15, <1>16, <1>17, <1>18, Assemble, Zenon

\* cmd_mgr_queue, under the lock of the manager.
LEMMA QueueInv == ASSUME CmdIInv, NEW t \in Callers, cmd_mgr_queue(t) PROVE CmdIInv'
<1>1. /\ actor[t].pc \in Queuing
      /\ actor[t].pc = "drain" => Crashed \/ cmd_mgr.cmds = <<>>
  BY Zenon DEF cmd_mgr_queue, MayQueue, At, Queuing
<1>2. CASE Refuse(t)
  BY <1>1, <1>2, RefuseInv, Zenon
<1>3. CASE Append_(t, LastWaits) /\ ~Crashed
  <2>1. LastWaits \in BOOLEAN
    BY Zenon DEF LastWaits
  <2>. QED  BY <1>1, <1>3, <2>1, AppendInv, Zenon
<1>. QED  BY <1>2, <1>3, Zenon DEF cmd_mgr_queue

\* An actor goes on with the command it has.
LEMMA MoveStep ==
    ASSUME CmdIInv, NEW a \in Actors, NEW s \in Slots, actor[a].cur = s,
           UNCHANGED <<cmd, cmd_mgr, todo>>, CmdTypes',
           actor'[a].cur = s, \A b \in Actors : b # a => actor'[b] = actor[b],
           \/ actor[a].pc \in Queuing /\ actor'[a].pc \in Queuing \ {"queue"}
           \/ /\ actor[a].pc \in Pushing /\ actor'[a].pc \in Pushing
              /\ actor'[a].pc \in Awaiting => cmd[s].msg.reqcfm,
           Orderly' => InTurn /\ Pushes(a)' /\ OneInMail' /\ NothingMixed'
    PROVE  CmdIInv' /\ Only(a, s)
<1>1. s # NoSlot /\ CmdTypes /\ Place(a)
  BY Slot0, Zenon DEF CmdIInv
<1>2. (\A r : OnList(r)' <=> OnList(r)) /\ IsInjective(cmd_mgr.cmds)'
  BY SameList, Zenon DEF CmdIInv, Listed
<1>3. \A b \in Actors : b # a => actor[b].cur # s
  BY <1>1, Zenon DEF CmdIInv, Apart
<1>4. Only(a, s)
  BY <1>2, <1>3, Zenon DEF Only, Actors
<1>5. Place(a)'
  <2>1. cmd'[s] = cmd[s] /\ (s \in Range(cmd_mgr'.cmds) <=> s \in Range(cmd_mgr.cmds))
    BY Zenon
  <2>2. /\ actor[a].pc # "idle" /\ actor'[a].pc # "idle"
        /\ actor[a].pc \in Pushing <=> actor'[a].pc \in Pushing
        /\ actor[a].pc \in Queuing <=> actor'[a].pc \in Queuing
        /\ actor'[a].pc # "queue"
        /\ actor[a].pc \in Queuing \cup Pushing /\ actor'[a].pc \in Queuing \cup Pushing
    BY Zenon DEF Queuing, Pushing, Awaiting
  <2>3. actor'[a].pc \in Queuing \cup Awaiting => cmd[s].msg.reqcfm
    <3>1. actor'[a].pc \in Queuing => cmd[s].msg.reqcfm
      BY <1>1, <2>2, Zenon DEF Place
    <3>2. actor'[a].pc \in Awaiting => actor'[a].pc \in Pushing /\ actor'[a].pc \notin Queuing
      BY Zenon DEF Pushing, Queuing, Awaiting
    <3>. QED  BY <2>2, <3>1, <3>2, Zenon
  <2>4. a = WORKER => actor'[a].pc \in Pushing
    <3>1. a = WORKER => actor[a].pc \in {"idle", "scan"} \cup Pushing \cup {"freed"}
      BY <1>1, Zenon DEF Place
    <3>. QED  BY <2>2, <3>1, Zenon DEF Queuing, Pushing, Awaiting
  <2>5. todo' = todo
    BY Zenon
  <2>. QED  BY <1>1, <2>1, <2>2, <2>3, <2>4, <2>5, Zenon DEF Place, OnList
<1>6. Kept(s)'
  BY <1>2, Zenon DEF CmdIInv, Listed, Kept
<1>7. ASSUME Orderly' PROVE InTurn' /\ OneInMail' /\ NothingMixed'
  <2>1. InTurn /\ Pushes(a)' /\ OneInMail' /\ NothingMixed'
    BY <1>7, Zenon
  <2>2. Sorted'
    BY <1>1, <2>1, SameOrder, Zenon DEF InTurn
  <2>3. InHand(s)'
    <3>1. InHand(s) /\ (actor'[WORKER].cur = s <=> actor[WORKER].cur = s)
      BY <2>1, Zenon DEF InTurn, Actors
    <3>. QED  BY <1>2, <3>1, Zenon DEF InHand
  <2>. QED  BY <1>4, <2>1, <2>2, <2>3, TurnStep, Zenon
<1>. QED  BY <1>2, <1>4, <1>5, <1>6, <1>7, Assemble, Zenon

\* The list did not drain: from here on nothing is orderly.
LEMMA DrainTimeoutInv == ASSUME CmdIInv, NEW t \in Callers, DrainTimeout(t) PROVE CmdIInv'
<1>1. t \in Actors /\ CmdTypes /\ Place(t)
  BY TaskActs, Zenon DEF CmdIInv
<1>2. actor[t].pc = "drain" /\ Goto(t, "forced") /\ "forced" \in Pcs
      /\ ghost' = [ghost EXCEPT !.forced = TRUE]
      /\ UNCHANGED <<cmd_mgr, cmd, todo, plan, woken, mail, fw, bus_up>>
  BY Zenon DEF DrainTimeout, At, Pcs, Queuing
<1>3. actor[t].cur \in Slots
  BY <1>1, <1>2, CurType, Zenon DEF Place, Queuing
<1>4. PICK s \in Slots : s = actor[t].cur
  BY <1>3, Zenon
<1>5. /\ actor' \in [Actors -> ActorRec] /\ actor'[t].pc = "forced" /\ actor'[t].cur = s
      /\ \A b \in Actors : b # t => actor'[b] = actor[b]
  BY <1>1, <1>2, <1>4, GotoFacts, Zenon
<1>6. ghost' \in GhostRec /\ ghost'.forced
  BY <1>1, <1>2, Zenon DEF CmdTypes, GhostRec
<1>7. CmdTypes'
  BY <1>1, <1>2, <1>5, <1>6, Zenon DEF CmdTypes
<1>8. actor[t].pc \in Queuing /\ actor'[t].pc \in Queuing \ {"queue"} /\ ~Orderly'
  BY <1>2, <1>5, <1>6, Zenon DEF Queuing, Orderly
<1>. QED  BY <1>1, <1>2, <1>4, <1>5, <1>7, <1>8, MoveStep, Zenon

\* The unlocked look at the list: not while all is orderly.
LEMMA ForcedCheckInv == ASSUME CmdIInv, NEW t \in Callers, ForcedCheck(t) PROVE CmdIInv'
<1>1. t \in Actors /\ CmdTypes /\ Place(t)
  BY TaskActs, Zenon DEF CmdIInv
<1>2. actor[t].pc = "forced" /\ actor[t].pc \in Queuing
  BY Zenon DEF ForcedCheck, At, Queuing
<1>3. CASE Refuse(t)
  BY <1>2, <1>3, RefuseInv, Zenon
<1>4. CASE /\ actor' = [actor EXCEPT ![t].pc = "insert", ![t].defer = LastWaits]
           /\ UNCHANGED <<cmd_mgr, cmd, todo, plan, woken, mail, fw, bus_up, ghost>>
  <2>1. actor[t].cur \in Slots
    BY <1>1, <1>2, CurType, Zenon DEF Place
  <2>2. PICK s \in Slots : s = actor[t].cur
    BY <2>1, Zenon
  <2>3. PICK d \in BOOLEAN : d = LastWaits
    BY Zenon DEF LastWaits
  <2>4. actor' = [actor EXCEPT ![t].pc = "insert", ![t].defer = d] /\ "insert" \in Pcs
    BY <1>4, <2>3, Zenon DEF Pcs, Queuing
  <2>5. /\ actor' \in [Actors -> ActorRec] /\ actor'[t].pc = "insert" /\ actor'[t].cur = s
        /\ \A b \in Actors : b # t => actor'[b] = actor[b]
    BY <1>1, <2>2, <2>4, Zenon DEF CmdTypes, ActorRec
  <2>6. CmdTypes'
    BY <1>1, <1>4, <2>5, Zenon DEF CmdTypes
  <2>7. ~Orderly'
    BY <1>1, <1>2, <1>4, Zenon DEF CmdIInv, InTurn, Pushes, Orderly, Crashed
  <2>8. actor'[t].pc \in Queuing \ {"queue"}
    BY <2>5, Zenon DEF Queuing
  <2>. QED  BY <1>1, <1>2, <1>4, <2>2, <2>5, <2>6, <2>7, <2>8, MoveStep, Zenon
<1>. QED  BY <1>3, <1>4, Zenon DEF ForcedCheck

\* The unlocked insertion: not while all is orderly.
LEMMA ForcedInsertInv == ASSUME CmdIInv, NEW t \in Callers, ForcedInsert(t) PROVE CmdIInv'
<1>1. t \in Actors /\ CmdTypes /\ actor[t].pc = "insert" /\ actor[t].pc \in Queuing
  BY TaskActs, Zenon DEF CmdIInv, ForcedInsert, At, Queuing
<1>2. actor[t].defer \in BOOLEAN
  BY <1>1, Zenon DEF CmdTypes, ActorRec
<1>3. ~Orderly
  BY <1>1, Zenon DEF CmdIInv, InTurn, Pushes
<1>. QED  BY <1>1, <1>2, <1>3, AppendInv, Zenon DEF ForcedInsert

(***************************************************************************)
(* Pushing a command.                                                      *)
(***************************************************************************)
\* While all is orderly at most one command is active.
LEMMA OneActive ==
    ASSUME CmdTypes, InTurn, NEW r, NEW s, OnList(r), OnList(s), Active(r), Active(s)
    PROVE  r = s
<1>1. PICK i \in 1 .. Len(cmd_mgr.cmds) : cmd_mgr.cmds[i] = r
  BY TheList, Zenon
<1>2. PICK j \in 1 .. Len(cmd_mgr.cmds) : cmd_mgr.cmds[j] = s
  BY TheList, Zenon
<1>3. i < j \/ j < i \/ i = j
  <2>1. Len(cmd_mgr.cmds) \in Nat
    BY TheList, Zenon
  <2>. QED  BY <2>1
<1>4. ~(i < j) /\ ~(j < i)
  BY <1>1, <1>2, TheList, Zenon DEF InTurn, Sorted, Active
<1>. QED  BY <1>1, <1>2, <1>3, <1>4, Zenon

\* Who has a request to send has an active command of the list.
LEMMA Sends ==
    ASSUME CmdIInv, InTurn, NEW a \in Actors, actor[a].pc \in {"fill", "txmsg"}, CurMsg(a).reqcfm
    PROVE  OnList(actor[a].cur) /\ Active(actor[a].cur)
<1>1. actor[a].pc \in Pushing /\ Place(a) /\ Pushes(a)
  BY Zenon DEF Pushing, CmdIInv, InTurn
<1>. QED  BY <1>1, Zenon DEF Place, Pushes, CurMsg

\* A request that was sent is an active command of the list.
LEMMA AskedOnList ==
    ASSUME CmdIInv, NEW e, Asked(e)
    PROVE  OnList(e.slot) /\ Active(e.slot)
<1>1. PICK b \in Actors : actor[b].pc \in Awaiting /\ actor[b].cur = e.slot /\ Active(e.slot)
  BY Zenon DEF Asked
<1>2. actor[b].pc \in Pushing /\ Place(b)
  BY <1>1, Zenon DEF CmdIInv, Pushing
<1>. QED  BY <1>1, <1>2, Zenon DEF Place

\* While an actor has a request to send, no other request is on its way.
LEMMA NothingAsked ==
    ASSUME CmdIInv, InTurn, NEW a \in Actors, actor[a].pc \in {"fill", "txmsg"}, CurMsg(a).reqcfm
    PROVE  /\ \A e : ~Asked(e)
           /\ \A b \in Actors : b # a /\ actor[b].pc = "txmsg" => ~CurMsg(b).reqcfm
<1>1. OnList(actor[a].cur) /\ Active(actor[a].cur) /\ CmdTypes /\ actor[a].pc \notin Awaiting
  BY Sends, Zenon DEF CmdIInv, Awaiting
<1>2. ASSUME NEW e, Asked(e) PROVE FALSE
  <2>1. e.slot = actor[a].cur
    BY <1>1, <1>2, AskedOnList, OneActive, Zenon
  <2>. QED  BY <1>1, <1>2, <2>1, AskedHolder, Zenon
<1>3. ASSUME NEW b \in Actors, b # a, actor[b].pc = "txmsg", CurMsg(b).reqcfm PROVE FALSE
  <2>1. OnList(actor[b].cur) /\ Active(actor[b].cur)
    BY <1>3, Sends, Zenon
  <2>2. actor[b].cur = actor[a].cur
    BY <1>1, <2>1, OneActive, Zenon
  <2>3. actor[b].cur = NoSlot
    BY <1>3, <2>2, Zenon DEF CmdIInv, Apart
  <2>4. actor[b].cur \in Slots
    BY <1>1, <2>1, TheList, Zenon
  <2>. QED  BY <2>3, <2>4, Slot0, Zenon
<1>. QED  BY <1>2, <1>3, Zenon

\* An actor that pushes has a slot.
LEMMA PushingSlot ==
    ASSUME CmdIInv, NEW a \in Actors, actor[a].pc \in Pushing \cup {"freed"}
    PROVE  actor[a].cur \in Slots /\ Place(a) /\ (a # WORKER => a \in Callers /\ todo[a] # <<>>)
<1>1. Place(a) /\ CmdTypes /\ actor[a].pc # "idle"
  BY Zenon DEF CmdIInv, Pushing, Awaiting
<1>. QED  BY <1>1, CurType, Zenon DEF Place, Actors

\* aicwf_set_cmd_tx: while all is orderly the mailbox is free.
LEMMA SetCmdInv == ASSUME CmdIInv, NEW a \in Actors, aicwf_set_cmd_tx(a) PROVE CmdIInv'
<1>1. actor[a].pc = "fill" /\ actor[a].pc \in Pushing \ Awaiting /\ CmdTypes
  BY Zenon DEF aicwf_set_cmd_tx, At, Pushing, Awaiting, CmdIInv
<1>2. actor[a].cur \in Slots /\ Place(a)
  BY <1>1, PushingSlot, Zenon
<1>3. PICK s \in Slots : s = actor[a].cur
  BY <1>2, Zenon
<1>4. PICK u \in BOOLEAN : u = (\E m \in InMail \cup {CurMsg(a)} : ~m.reqcfm)
  BY Zenon
<1>5. /\ mail' = [mail EXCEPT !.buf = [slot |-> s, msg |-> cmd[s].msg]]
      /\ ghost' = [ghost EXCEPT !.over = @ \/ (InMail # {} /\ ~u), !.ntf = @ \/ (InMail # {} /\ u)]
      /\ Goto(a, "txmsg") /\ "txmsg" \in Pcs
      /\ UNCHANGED <<cmd_mgr, cmd, todo, plan, woken, fw, bus_up>>
  BY <1>3, <1>4, Zenon DEF aicwf_set_cmd_tx, CurMsg, Pcs, Pushing
<1>6. /\ actor' \in [Actors -> ActorRec] /\ actor'[a].pc = "txmsg" /\ actor'[a].cur = s
      /\ \A b \in Actors : b # a => actor'[b] = actor[b]
  BY <1>1, <1>3, <1>5, GotoFacts, Zenon
<1>7. cmd[s] \in CmdRec /\ cmd[s].msg \in Message
  BY <1>1, Zenon DEF CmdTypes, CmdRec
<1>8. /\ mail' \in MailRec /\ mail'.full = mail.full
      /\ mail'.buf = [slot |-> s, msg |-> cmd[s].msg]
  <2>1. PICK e : e = [slot |-> s, msg |-> cmd[s].msg]
    BY Zenon
  <2>2. e \in [slot : Slots \cup {NoSlot}, msg : Message] /\ e.slot \in Slots
    BY <1>7, <2>1
  <2>3. mail' = [mail EXCEPT !.buf = e] /\ mail \in MailRec
    BY <1>1, <1>5, <2>1, Zenon DEF CmdTypes
  <2>4. mail' \in MailRec /\ mail'.full = mail.full /\ mail'.buf = e
    BY <2>2, <2>3, Zenon DEF MailRec
  <2>. QED  BY <2>1, <2>4, Zenon
<1>9. /\ ghost' \in GhostRec /\ ghost'.forced = ghost.forced /\ ghost'.mixed = ghost.mixed
      /\ ghost'.dead = ghost.dead
      /\ ghost'.over = (ghost.over \/ (InMail # {} /\ ~u))
      /\ ghost'.ntf = (ghost.ntf \/ (InMail # {} /\ u))
  <2>1. PICK x \in BOOLEAN : x = (ghost.over \/ (InMail # {} /\ ~u))
    BY Zenon
  <2>2. PICK y \in BOOLEAN : y = (ghost.ntf \/ (InMail # {} /\ u))
    BY Zenon
  <2>3. ghost' = [ghost EXCEPT !.over = x, !.ntf = y] /\ ghost \in GhostRec
    BY <1>1, <1>5, <2>1, <2>2, Zenon DEF CmdTypes
  <2>. QED  BY <2>1, <2>2, <2>3, Zenon DEF GhostRec
<1>10. CmdTypes'
  BY <1>1, <1>5, <1>6, <1>8, <1>9, Zenon DEF CmdTypes
<1>11. ASSUME Orderly' PROVE InTurn /\ Pushes(a)' /\ OneInMail' /\ NothingMixed'
  <2>1. InTurn /\ OneInMail /\ NothingMixed
    BY <1>5, <1>9, <1>11, Zenon DEF Orderly, Crashed, CmdIInv
  <2>2. InMail # {} => ~u
    BY <1>9, <1>11, Zenon DEF Orderly
  <2>3. InMail = {}
    <3>1. SUFFICES ASSUME NEW x \in InMail PROVE FALSE
      BY Zenon
    <3>2. x.reqcfm /\ CurMsg(a).reqcfm
      BY <1>4, <2>2, <3>1, Zenon
    <3>3. (\A e : ~Asked(e)) /\ \A b \in Actors : b # a /\ actor[b].pc = "txmsg" => ~CurMsg(b).reqcfm
      BY <1>1, <2>1, <3>2, NothingAsked, Zenon
    <3>4. CASE \E b \in Actors : At(b, "txmsg") /\ x = CurMsg(b)
      BY <1>1, <3>2, <3>3, <3>4, Zenon DEF At
    <3>5. CASE mail.full /\ x = mail.buf.msg
      BY <2>1, <3>2, <3>3, <3>5, Zenon DEF OneInMail
    <3>. QED  BY <3>1, <3>4, <3>5, Zenon DEF InMail
  <2>4. ~mail.full /\ \A b \in Actors : ~At(b, "txmsg")
    BY <2>3, Zenon DEF InMail
  <2>5. NothingMixed'
    BY <1>9, <2>1, <2>3, Zenon DEF NothingMixed
  <2>6. Pushes(a)'
    <3>1. cmd[s].msg.reqcfm => Active(s)
      BY <1>1, <1>3, <2>1, Zenon DEF InTurn, Pushes, CurMsg
    <3>. QED  BY <1>5, <1>6, <3>1, Zenon DEF Pushes, CurMsg, Active
  <2>7. \A e : Asked(e) => Asked(e)'
    <3>1. ASSUME NEW e, NEW b \in Actors, actor[b].pc \in Awaiting, actor[b].cur = e.slot,
                 CurMsg(b) = e.msg, Active(e.slot)
          PROVE  Asked(e)'
      <4>1. b # a /\ actor'[b] = actor[b]
        BY <1>1, <1>6, <3>1, Zenon
      <4>. QED  BY <1>5, <3>1, <4>1, Zenon DEF Asked, CurMsg, Active
    <3>. QED  BY <3>1, Zenon DEF Asked
  <2>8. OneInMail'
    <3>1. ASSUME NEW b \in Actors, At(b, "txmsg")' PROVE b = a
      BY <1>6, <2>4, <3>1, Zenon DEF At
    <3>2. mail'.buf = [slot |-> actor'[a].cur, msg |-> CurMsg(a)']
      BY <1>5, <1>6, <1>8, Zenon DEF CurMsg
    <3>3. ~mail'.full /\ \A e \in fw' : Asked(e)'
      BY <1>5, <1>8, <2>1, <2>4, <2>7, Zenon DEF OneInMail
    <3>. QED  BY <3>1, <3>2, <3>3, Zenon DEF OneInMail
  <2>. QED  BY <2>1, <2>5, <2>6, <2>8, Zenon
<1>12. actor'[a].pc \in Pushing /\ actor'[a].pc \notin Awaiting
  BY <1>6, Zenon DEF Pushing, Awaiting
<1>. QED  BY <1>1, <1>3, <1>5, <1>6, <1>10, <1>11, <1>12, MoveStep, Zenon

\* aicwf_sdio_bus_txmsg: the one message in cmd_buf is the sender's own.
LEMMA TxmsgInv == ASSUME CmdIInv, NEW a \in Actors, aicwf_sdio_bus_txmsg(a) PROVE CmdIInv'
<1>1. actor[a].pc = "txmsg" /\ actor[a].pc \in Pushing /\ CmdTypes
  BY Zenon DEF aicwf_sdio_bus_txmsg, At, Pushing, CmdIInv
<1>2. PICK s \in Slots : s = actor[a].cur
  BY <1>1, PushingSlot, Zenon
<1>3. Place(a) /\ s # NoSlot
  BY <1>1, Slot0, Zenon DEF CmdIInv
<1>4. mail' \in MailRec /\ mail'.buf = mail.buf
  <2>1. mail' = [mail EXCEPT !.full = TRUE, !.trgg = mail.trgg \/ bus_up] /\ mail \in MailRec
    BY <1>1, Zenon DEF aicwf_sdio_bus_txmsg, CmdTypes
  <2>. QED  BY <2>1, Zenon DEF MailRec
<1>5. CASE ~CurMsg(a).reqcfm
  <2>1. a \in Callers
    BY <1>2, <1>3, <1>5, Zenon DEF Place, Actors, CurMsg
  <2>. QED  BY <1>1, <1>4, <1>5, <2>1, DoneStep, Zenon DEF aicwf_sdio_bus_txmsg, CmdTypes
<1>6. CASE CurMsg(a).reqcfm
  <2>1. /\ Goto(a, "wait") /\ "wait" \in Pcs
        /\ UNCHANGED <<cmd, todo, cmd_mgr, plan, woken, fw, bus_up, ghost>>
    BY <1>6, Zenon DEF aicwf_sdio_bus_txmsg, Pcs, Pushing, Awaiting
  <2>2. /\ actor' \in [Actors -> ActorRec] /\ actor'[a].pc = "wait" /\ actor'[a].cur = s
        /\ \A b \in Actors : b # a => actor'[b] = actor[b]
    BY <1>1, <1>2, <2>1, GotoFacts, Zenon
  <2>3. CmdTypes'
    BY <1>1, <1>4, <2>1, <2>2, Zenon DEF CmdTypes
  <2>4. ASSUME Orderly' PROVE InTurn /\ Pushes(a)' /\ OneInMail' /\ NothingMixed'
    <3>1. InTurn /\ OneInMail /\ NothingMixed
      BY <2>1, <2>4, Zenon DEF Orderly, Crashed, CmdIInv
    <3>2. fw' = {}
      <4>1. \A e : ~Asked(e)
        BY <1>1, <1>6, <3>1, NothingAsked, Zenon
      <4>. QED  BY <2>1, <3>1, <4>1, Zenon DEF OneInMail
    <3>3. ASSUME NEW b \in Actors PROVE ~At(b, "txmsg")'
      BY <1>1, <2>2, <3>1, Zenon DEF OneInMail, At
    <3>4. mail.buf = [slot |-> s, msg |-> cmd[s].msg]
      BY <1>1, <1>2, <3>1, Zenon DEF OneInMail, At, CurMsg
    <3>5. mail.buf.slot = s /\ mail.buf.msg = cmd[s].msg
      BY <3>4
    <3>6. cmd[s].wait /\ ~cmd[s].push
      BY <1>1, <1>2, <1>6, <3>1, Zenon DEF InTurn, Pushes, Active
    <3>7. Asked(mail.buf)'
      BY <1>4, <2>1, <2>2, <3>5, <3>6, Zenon DEF Asked, CurMsg, Active, Awaiting
    <3>8. OneInMail'
      BY <3>2, <3>3, <3>7, Zenon DEF OneInMail
    <3>9. Pushes(a)' /\ NothingMixed'
      BY <2>1, <2>2, <3>1, Zenon DEF Pushes, NothingMixed
    <3>. QED  BY <3>1, <3>8, <3>9, Zenon
  <2>5. actor'[a].pc \in Pushing /\ cmd[s].msg.reqcfm
    BY <1>2, <1>6, <2>2, Zenon DEF Pushing, Awaiting, CurMsg
  <2>. QED  BY <1>1, <1>2, <2>1, <2>2, <2>3, <2>4, <2>5, MoveStep, Zenon
<1>. QED  BY <1>5, <1>6, Zenon

\* A wait that times out: nothing is lost yet.
LEMMA TimesOutInv == ASSUME CmdIInv, NEW a \in Actors, TimesOut(a) PROVE CmdIInv'
<1>1. actor[a].pc = "wait" /\ actor[a].pc \in Pushing /\ actor[a].pc \in Awaiting /\ CmdTypes
  BY Zenon DEF TimesOut, At, Pushing, Awaiting, CmdIInv
<1>2. PICK s \in Slots : s = actor[a].cur
  BY <1>1, PushingSlot, Zenon
<1>3. Place(a) /\ s # NoSlot /\ cmd[s].msg.reqcfm
  BY <1>1, <1>2, Slot0, Zenon DEF CmdIInv, Place
<1>4. /\ Goto(a, "expired") /\ "expired" \in Pcs
      /\ UNCHANGED <<cmd_mgr, cmd, todo, plan, woken, mail, fw, bus_up, ghost>>
  BY Zenon DEF TimesOut, Pcs, Pushing, Awaiting
<1>5. /\ actor' \in [Actors -> ActorRec] /\ actor'[a].pc = "expired" /\ actor'[a].cur = s
      /\ \A b \in Actors : b # a => actor'[b] = actor[b]
  BY <1>1, <1>2, <1>4, GotoFacts, Zenon
<1>6. CmdTypes'
  BY <1>1, <1>4, <1>5, Zenon DEF CmdTypes
<1>7. actor'[a].pc \in Pushing /\ actor'[a].pc \in Awaiting /\ actor'[a].pc # "txmsg"
  BY <1>5, Zenon DEF Pushing, Awaiting
<1>8. Only(a, s)
  <2>1. \A b \in Actors : b # a => actor[b].cur # s
    BY <1>2, <1>3, Zenon DEF CmdIInv, Apart
  <2>2. \A r : OnList(r)' <=> OnList(r)
    BY <1>4, SameList, Zenon
  <2>. QED  BY <1>2, <1>4, <1>5, <2>1, <2>2, Zenon DEF Only, Actors
<1>9. ASSUME Orderly' PROVE InTurn /\ Pushes(a)' /\ OneInMail' /\ NothingMixed'
  <2>1. InTurn /\ OneInMail /\ NothingMixed
    BY <1>4, <1>9, Zenon DEF Orderly, Crashed, CmdIInv
  <2>2. ASSUME NEW e, Asked(e), e.slot = s PROVE Asked(e)'
    <3>1. CurMsg(a) = e.msg /\ Active(e.slot)
      BY <1>2, <2>2, AskedHolder, Zenon
    <3>. QED  BY <1>2, <1>4, <1>5, <1>7, <2>2, <3>1, Zenon DEF Asked, CurMsg, Active
  <2>3. OneInMail'
    <3>1. actor[a].pc # "txmsg"
      BY <1>1, Zenon
    <3>. QED  BY <1>4, <1>7, <1>8, <2>1, <2>2, <3>1, MailStep, Zenon
  <2>4. Pushes(a)' /\ NothingMixed'
    BY <1>4, <1>5, <2>1, Zenon DEF Pushes, NothingMixed
  <2>. QED  BY <2>1, <2>3, <2>4, Zenon
<1>. QED  BY <1>1, <1>2, <1>3, <1>4, <1>5, <1>6, <1>7, <1>9, MoveStep, Zenon

(***************************************************************************)
(* The end of a command.                                                   *)
(***************************************************************************)
\* list_del takes one command off the list and keeps the order of the others.
LEMMA ListDelete ==
    ASSUME CmdTypes, IsInjective(cmd_mgr.cmds), NEW i \in 1 .. Len(cmd_mgr.cmds),
           cmd_mgr'.cmds = list_del(cmd_mgr.cmds, i)
    PROVE  /\ cmd_mgr'.cmds \in Seq(Slots) /\ IsInjective(cmd_mgr.cmds)'
           /\ cmd_mgr.cmds[i] \notin Range(cmd_mgr'.cmds)
           /\ \A r : r # cmd_mgr.cmds[i] => (OnList(r)' <=> OnList(r))
           /\ Sorted /\ cmd' = cmd => Sorted'
<1>. DEFINE q == cmd_mgr.cmds
            n == Len(q)
            k(j) == IF j < i THEN j ELSE j + 1
<1>1. /\ q \in Seq(Slots) /\ n \in Nat /\ DOMAIN q = 1 .. n
  BY TheList, Zenon
<1>2. /\ list_del(q, i) \in Seq(Slots) /\ Len(list_del(q, i)) = n - 1
      /\ \A j \in 1 .. n - 1 : list_del(q, i)[j] = q[k(j)]
  BY <1>1, OneDeleted, Zenon
<1>3. /\ cmd_mgr'.cmds \in Seq(Slots) /\ DOMAIN cmd_mgr'.cmds = 1 .. n - 1
      /\ \A j \in 1 .. n - 1 : cmd_mgr'.cmds[j] = q[k(j)]
  <2>1. DOMAIN list_del(q, i) = 1 .. n - 1
    BY <1>2, SeqEntries, Zenon
  <2>. QED  BY <1>2, <2>1, Zenon
<1>4. /\ \A j \in 1 .. n - 1 : k(j) \in 1 .. n /\ k(j) # i
      /\ \A j, l \in 1 .. n - 1 : (j < l <=> k(j) < k(l)) /\ (j # l => k(j) # k(l))
      /\ \A m \in 1 .. n : m # i => \E j \in 1 .. n - 1 : k(j) = m
  <2>1. \A j \in 1 .. n - 1 : k(j) \in 1 .. n /\ k(j) # i
    BY ONLY <1>1, i \in 1 .. n
  <2>2. \A j, l \in 1 .. n - 1 : (j < l <=> k(j) < k(l)) /\ (j # l => k(j) # k(l))
    BY ONLY <1>1, i \in 1 .. n
  <2>3. ASSUME NEW m \in 1 .. n, m # i PROVE \E j \in 1 .. n - 1 : k(j) = m
    <3>1. CASE m < i
      BY ONLY <1>1, i \in 1 .. n, <2>3, <3>1
    <3>2. CASE ~(m < i)
      <4>1. m - 1 \in 1 .. n - 1 /\ k(m - 1) = m
        BY ONLY <1>1, i \in 1 .. n, <2>3, <3>2
      <4>. QED  BY <4>1
    <3>. QED  BY <3>1, <3>2
  <2>. QED  BY <2>1, <2>2, <2>3
<1>. HIDE DEF k, n, q
<1>5. \A j, l \in 1 .. n : q[j] = q[l] => j = l
  BY <1>1, Zenon DEF IsInjective, q
<1>6. IsInjective(cmd_mgr.cmds)'
  <2>1. ASSUME NEW j \in 1 .. n - 1, NEW l \in 1 .. n - 1, cmd_mgr'.cmds[j] = cmd_mgr'.cmds[l]
        PROVE  j = l
    <3>1. k(j) \in 1 .. n /\ k(l) \in 1 .. n /\ q[k(j)] = q[k(l)]
      BY <1>3, <1>4, <2>1, Zenon
    <3>2. k(j) = k(l)
      BY <1>5, <3>1, Zenon
    <3>. QED  BY <1>4, <2>1, <3>2, Zenon
  <2>. QED  BY <1>3, <2>1, Zenon DEF IsInjective
<1>7. q[i] \notin Range(cmd_mgr'.cmds)
  <2>1. i \in 1 .. n
    BY Zenon DEF n, q
  <2>2. ASSUME NEW j \in 1 .. n - 1, cmd_mgr'.cmds[j] = q[i] PROVE FALSE
    <3>1. k(j) \in 1 .. n /\ k(j) # i /\ q[k(j)] = q[i]
      BY <1>3, <1>4, <2>2, Zenon
    <3>. QED  BY <1>5, <2>1, <3>1, Zenon
  <2>. QED  BY <1>3, <2>2, Zenon DEF Range
<1>8. ASSUME NEW r, r # q[i] PROVE r \in Range(cmd_mgr'.cmds) <=> r \in Range(q)
  <2>1. ASSUME r \in Range(cmd_mgr'.cmds) PROVE r \in Range(q)
    BY <1>1, <1>3, <1>4, <2>1, Zenon DEF Range
  <2>2. ASSUME r \in Range(q) PROVE r \in Range(cmd_mgr'.cmds)
    <3>1. PICK m \in 1 .. n : q[m] = r
      BY <1>1, <2>2, Zenon DEF Range
    <3>2. PICK j \in 1 .. n - 1 : k(j) = m
      BY <1>4, <1>8, <3>1, Zenon
    <3>. QED  BY <1>3, <3>1, <3>2, Zenon DEF Range
  <2>. QED  BY <2>1, <2>2, Zenon
<1>9. ASSUME Sorted, cmd' = cmd PROVE Sorted'
  <2>1. ASSUME NEW j \in 1 .. n - 1, NEW l \in 1 .. n - 1, j < l,
               cmd[q[k(j)]].push \/ cmd[q[k(j)]].wait
        PROVE  cmd[q[k(l)]].push
    <3>1. k(j) \in 1 .. n /\ k(l) \in 1 .. n /\ k(j) < k(l)
      BY <1>4, <2>1, Zenon
    <3>. QED  BY <1>1, <1>9, <2>1, <3>1, Zenon DEF Sorted, q
  <2>. QED  BY <1>3, <1>9, <2>1, Zenon DEF Sorted
<1>. QED  BY <1>3, <1>6, <1>7, <1>8, <1>9, Zenon DEF q, OnList

\* The completion came: the command leaves the list and stays in its actor's hands.
LEMMA ReleaseInv == ASSUME CmdIInv, NEW a \in Actors, Release(a) PROVE CmdIInv'
<1>1. actor[a].pc = "wait" /\ actor[a].pc \in Pushing /\ CmdTypes /\ IsInjective(cmd_mgr.cmds)
  BY Zenon DEF Release, At, Pushing, Awaiting, CmdIInv, Listed
<1>2. PICK s \in Slots : s = actor[a].cur
  BY <1>1, PushingSlot, Zenon
<1>3. PICK i \in 1 .. Len(cmd_mgr.cmds) :
          /\ cmd_mgr.cmds[i] = s
          /\ cmd_mgr' = [cmd_mgr EXCEPT !.cmds = list_del(cmd_mgr.cmds, i)]
  BY <1>1, <1>2, TheList, Zenon DEF Release
<1>4. /\ Goto(a, "freed") /\ "freed" \in Pcs /\ cmd[s].comp
      /\ UNCHANGED <<cmd, todo, plan, woken, mail, fw, bus_up, ghost>>
  BY <1>2, Zenon DEF Release, Pcs
<1>5. cmd_mgr'.cmds = list_del(cmd_mgr.cmds, i) /\ cmd_mgr'.state = cmd_mgr.state
  <2>1. cmd_mgr \in [state : {"INITED", "CRASHED"}, cmds : Seq(Slots)]
    BY <1>1, Zenon DEF CmdTypes
  <2>. QED  BY <1>3, <2>1, Zenon
<1>6. /\ cmd_mgr'.cmds \in Seq(Slots) /\ IsInjective(cmd_mgr.cmds)' /\ ~OnList(s)'
      /\ \A r : r # s => (OnList(r)' <=> OnList(r))
      /\ Sorted => Sorted'
  <2>1. cmd' = cmd
    BY <1>4, Zenon
  <2>. QED  BY <1>1, <1>3, <1>5, <2>1, ListDelete, Zenon DEF OnList
<1>7. /\ actor' \in [Actors -> ActorRec] /\ actor'[a].pc = "freed" /\ actor'[a].cur = s
      /\ \A b \in Actors : b # a => actor'[b] = actor[b]
  BY <1>1, <1>2, <1>4, GotoFacts, Zenon
<1>8. CmdTypes'
  <2>1. cmd_mgr' \in [state : {"INITED", "CRASHED"}, cmds : Seq(Slots)]
    <3>1. cmd_mgr \in [state : {"INITED", "CRASHED"}, cmds : Seq(Slots)]
      BY <1>1, Zenon DEF CmdTypes
    <3>2. list_del(cmd_mgr.cmds, i) \in Seq(Slots)
      BY <1>5, <1>6, Zenon
    <3>. QED  BY <1>3, <3>1, <3>2, Zenon
  <2>. QED  BY <1>1, <1>4, <1>7, <2>1, Zenon DEF CmdTypes
<1>9. Place(a) /\ s # NoSlot /\ Kept(s)
  BY <1>1, Slot0, Zenon DEF CmdIInv, Listed
<1>10. Only(a, s)
  <2>1. \A b \in Actors : b # a => actor[b].cur # s
    BY <1>2, <1>9, Zenon DEF CmdIInv, Apart
  <2>. QED  BY <1>2, <1>4, <1>6, <1>7, <2>1, Zenon DEF Only, Actors
<1>11. Place(a)'
  <2>1. /\ cmd[s].used /\ ~cmd[s].push /\ (a # WORKER => todo[a] # <<>>)
        /\ IF a = WORKER THEN cmd[s].msg.reqcfm ELSE cmd[s].task = a
    BY <1>1, <1>2, <1>9, Zenon DEF Place
  <2>2. /\ actor'[a].pc \notin Queuing \cup Pushing \cup Awaiting /\ actor'[a].pc # "queue"
        /\ actor'[a].pc = "freed"
    BY <1>7, Zenon DEF Queuing, Pushing, Awaiting
  <2>3. s \notin Range(cmd_mgr'.cmds) /\ cmd' = cmd /\ todo' = todo
    BY <1>4, <1>6, Zenon DEF OnList
  <2>. QED  BY <1>7, <1>9, <2>1, <2>2, <2>3, Zenon DEF Place, OnList
<1>12. ~cmd[s].wait /\ ~cmd[s].push
  BY <1>2, <1>4, <1>9, Zenon DEF Kept, Place
<1>13. Kept(s)'
  BY <1>4, <1>6, <1>7, <1>12, Zenon DEF Kept
<1>14. ASSUME Orderly' PROVE InTurn' /\ OneInMail' /\ NothingMixed'
  <2>1. InTurn /\ OneInMail /\ NothingMixed
    BY <1>4, <1>5, <1>14, Zenon DEF Orderly, Crashed, CmdIInv
  <2>2. Pushes(a)' /\ actor'[a].pc # "txmsg" /\ actor[a].pc # "txmsg"
    BY <1>1, <1>7, Zenon DEF Pushes
  <2>3. InHand(s)'
    <3>1. actor[WORKER].cur = s => ~cmd[s].msg.buf
      BY <2>1, Zenon DEF InTurn, InHand
    <3>2. actor'[WORKER].cur = s => actor[WORKER].cur = s
      BY <1>2, <1>7, Zenon DEF Actors
    <3>. QED  BY <1>4, <1>6, <1>12, <3>1, <3>2, Zenon DEF InHand
  <2>4. InTurn'
    BY <1>6, <1>10, <2>1, <2>2, <2>3, TurnStep, Zenon DEF InTurn
  <2>5. \A e : Asked(e) => e.slot # s
    BY <1>12, Zenon DEF Asked, Active
  <2>6. OneInMail'
    BY <1>4, <1>10, <2>1, <2>2, <2>5, MailStep, Zenon
  <2>. QED  BY <1>4, <2>1, <2>4, <2>6, Zenon DEF NothingMixed
<1>. QED  BY <1>6, <1>8, <1>10, <1>11, <1>13, <1>14, Assemble, Zenon

\* The worker is done with its command.
LEMMA WorkerRests ==
    ASSUME CmdTypes, actor' = [actor EXCEPT ![WORKER].pc = "scan", ![WORKER].cur = NoSlot]
    PROVE  /\ actor' \in [Actors -> ActorRec] /\ actor'[WORKER].cur = NoSlot
           /\ actor'[WORKER].pc = "scan" /\ Place(WORKER)'
           /\ \A b \in Actors : b # WORKER => actor'[b] = actor[b]
<1>1. actor \in [Actors -> ActorRec] /\ WORKER \in Actors /\ "scan" \in Pcs
  BY Zenon DEF CmdTypes, Actors, Pcs
<1>2. /\ actor' \in [Actors -> ActorRec] /\ actor'[WORKER].cur = NoSlot /\ actor'[WORKER].pc = "scan"
      /\ \A b \in Actors : b # WORKER => actor'[b] = actor[b]
  BY <1>1, Zenon DEF ActorRec
<1>3. actor'[WORKER].pc \notin Queuing \cup Pushing \cup {"freed"}
  BY <1>2, Zenon DEF Queuing, Pushing, Awaiting
<1>4. actor'[WORKER].pc \in {"idle", "scan"} \cup Pushing \cup {"freed"} /\ ~(WORKER # WORKER)
  BY <1>2, Zenon
<1>5. Place(WORKER)'
  BY <1>2, <1>3, <1>4, Zenon DEF Place
<1>. QED  BY <1>2, <1>5, Zenon

\* rwnx_cmd_free after the confirmation.
LEMMA FreedInv == ASSUME CmdIInv, NEW a \in Actors, Freed(a) PROVE CmdIInv'
<1>1. actor[a].pc = "freed" /\ actor[a].pc \in Pushing \cup {"freed"} /\ CmdTypes
  BY Zenon DEF Freed, At, CmdIInv
<1>2. CASE a # WORKER
  <2>1. a \in Callers /\ mail' = mail /\ mail' \in MailRec /\ woken' \in BOOLEAN
    BY <1>1, <1>2, Zenon DEF Freed, Actors, CmdTypes
  <2>. QED  BY <1>1, <1>2, <2>1, DoneStep, Zenon DEF Freed
<1>3. CASE a = WORKER
  <2>1. PICK s \in Slots : s = actor[a].cur
    BY <1>1, PushingSlot, Zenon
  <2>2. /\ rwnx_cmd_free(s) /\ actor' = [actor EXCEPT ![WORKER].pc = "scan", ![WORKER].cur = NoSlot]
        /\ UNCHANGED <<todo, woken, cmd_mgr, plan, mail, fw, bus_up, ghost>>
    BY <1>3, <2>1, Zenon DEF Freed
  <2>3. Place(a) /\ s # NoSlot /\ actor[a].pc \notin Pushing /\ actor[a].pc \notin Awaiting
    BY <1>1, Slot0, Zenon DEF CmdIInv, Pushing, Awaiting
  <2>4. ~OnList(s)
    BY <2>1, <2>3, Zenon DEF Place
  <2>5. /\ cmd' \in [Slots -> CmdRec]
        /\ ~cmd'[s].used /\ ~cmd'[s].push /\ ~cmd'[s].wait /\ ~cmd'[s].comp /\ ~cmd'[s].msg.buf
        /\ \A r \in Slots : r # s => cmd'[r] = cmd[r]
    BY <1>1, <2>2, FreeFacts, Zenon
  <2>6. /\ actor' \in [Actors -> ActorRec] /\ actor'[WORKER].cur = NoSlot
        /\ actor'[WORKER].pc = "scan" /\ Place(WORKER)'
        /\ \A b \in Actors : b # WORKER => actor'[b] = actor[b]
    BY <1>1, <2>2, WorkerRests, Zenon
  <2>7. CmdTypes'
    BY <1>1, <2>2, <2>5, <2>6, Zenon DEF CmdTypes
  <2>8. (\A r : OnList(r)' <=> OnList(r)) /\ IsInjective(cmd_mgr.cmds)'
    BY <2>2, SameList, Zenon DEF CmdIInv, Listed
  <2>9. Only(WORKER, s)
    <3>1. \A b \in Actors : b # a => actor[b].cur # s
      BY <2>1, <2>3, Zenon DEF CmdIInv, Apart
    <3>. QED  BY <1>3, <2>1, <2>2, <2>5, <2>6, <2>8, <3>1, Zenon DEF Only, Actors
  <2>10. ~OnList(s)' /\ Kept(s)'
    BY <2>4, <2>5, <2>8, Zenon DEF Kept
  <2>11. ASSUME Orderly' PROVE InTurn' /\ OneInMail' /\ NothingMixed'
    <3>1. InTurn /\ OneInMail /\ NothingMixed
      BY <2>2, <2>11, Zenon DEF Orderly, Crashed, CmdIInv
    <3>2. Sorted'
      <4>1. \A r \in Slots : OnList(r) => cmd'[r] = cmd[r]
        BY <2>4, <2>5, Zenon
      <4>. QED  BY <1>1, <2>2, <3>1, <4>1, SameOrder, Zenon DEF InTurn
    <3>3. Pushes(WORKER)' /\ actor'[WORKER].pc # "txmsg" /\ actor[WORKER].pc # "txmsg"
      BY <1>1, <1>3, <2>6, Zenon DEF Pushes
    <3>4. InHand(s)'
      BY <2>5, <2>10, Zenon DEF InHand
    <3>5. InTurn'
      BY <1>3, <2>9, <3>1, <3>2, <3>3, <3>4, TurnStep, Zenon
    <3>6. \A e : Asked(e) => e.slot # s
      BY <2>1, <2>3, AskedHolder, Zenon
    <3>7. OneInMail'
      BY <1>3, <2>2, <2>9, <3>1, <3>3, <3>6, MailStep, Zenon
    <3>. QED  BY <2>2, <3>1, <3>5, <3>7, Zenon DEF NothingMixed
  <2>. QED  BY <1>3, <2>6, <2>7, <2>8, <2>9, <2>10, <2>11, Assemble, Zenon
<1>. QED  BY <1>2, <1>3, Zenon

\* A wait that has timed out crashes the manager: nothing is orderly any more.
LEMMA ExpiredInv == ASSUME CmdIInv, NEW a \in Actors, Expired(a) PROVE CmdIInv'
<1>1. /\ actor[a].pc = "expired" /\ actor[a].pc \in Pushing /\ actor[a].pc \in Awaiting
      /\ actor[a].pc \in Pushing \cup {"freed"} /\ CmdTypes
  BY Zenon DEF Expired, At, Pushing, Awaiting, CmdIInv
<1>2. PICK s \in Slots : s = actor[a].cur
  BY <1>1, PushingSlot, Zenon
<1>3. /\ cmd_mgr' = [cmd_mgr EXCEPT !.state = "CRASHED"]
      /\ cmd' = [cmd EXCEPT ![s].done = TRUE]
      /\ UNCHANGED <<plan, woken, mail, fw, bus_up, ghost>>
  BY <1>2, Zenon DEF Expired
<1>4. /\ cmd_mgr' \in [state : {"INITED", "CRASHED"}, cmds : Seq(Slots)]
      /\ cmd_mgr'.cmds = cmd_mgr.cmds /\ cmd_mgr'.state = "CRASHED"
  <2>1. cmd_mgr \in [state : {"INITED", "CRASHED"}, cmds : Seq(Slots)]
    BY <1>1, Zenon DEF CmdTypes
  <2>. QED  BY <1>3, <2>1, Zenon
<1>5. /\ cmd' \in [Slots -> CmdRec]
      /\ cmd'[s].used = cmd[s].used /\ cmd'[s].push = cmd[s].push /\ cmd'[s].wait = cmd[s].wait
      /\ cmd'[s].comp = cmd[s].comp /\ cmd'[s].msg = cmd[s].msg
      /\ \A r \in Slots : r # s => cmd'[r] = cmd[r]
  <2>1. cmd \in [Slots -> CmdRec]
    BY <1>1, Zenon DEF CmdTypes
  <2>. QED  BY <1>3, <2>1, Zenon DEF CmdRec
<1>6. Place(a) /\ s # NoSlot /\ Kept(s) /\ OnList(s)
  BY <1>1, <1>2, Slot0, Zenon DEF CmdIInv, Listed, Place
<1>7. /\ actor' \in [Actors -> ActorRec] /\ actor'[a].cur = NoSlot /\ Place(a)'
      /\ todo' \in [Callers -> Seq(Message)]
      /\ \A b \in Actors : b # a => actor'[b] = actor[b]
      /\ \A b \in Callers : b # a => todo'[b] = todo[b]
  <2>1. CASE a = WORKER
    <3>1. /\ actor' = [actor EXCEPT ![WORKER].pc = "scan", ![WORKER].cur = NoSlot]
          /\ todo' = todo
      BY <2>1, Zenon DEF Expired
    <3>. QED  BY <1>1, <2>1, <3>1, WorkerRests, Zenon DEF CmdTypes
  <2>2. CASE a # WORKER
    <3>1. a \in Callers /\ todo[a] # <<>> /\ SendDone(a)
      BY <1>1, <2>2, PushingSlot, Zenon DEF Expired
    <3>2. /\ actor' \in [Actors -> ActorRec] /\ todo' \in [Callers -> Seq(Message)]
          /\ actor'[a].pc \in {"idle", "send"} /\ actor'[a].cur = NoSlot
          /\ actor'[a].pc # "idle" => todo'[a] # <<>>
          /\ \A b \in Actors : b # a => actor'[b] = actor[b]
          /\ \A b \in Callers : b # a => todo'[b] = todo[b]
      BY <1>1, <3>1, SendDoneFacts, Zenon
    <3>3. Place(a)'
      BY <3>1, <3>2, RestPlace, Zenon
    <3>. QED  BY <3>2, <3>3, Zenon
  <2>. QED  BY <2>1, <2>2, Zenon
<1>8. CmdTypes'
  BY <1>1, <1>3, <1>4, <1>5, <1>7, Zenon DEF CmdTypes
<1>9. (\A r : OnList(r)' <=> OnList(r)) /\ IsInjective(cmd_mgr.cmds)'
  BY <1>4, SameList, Zenon DEF CmdIInv, Listed
<1>10. Only(a, s)
  <2>1. \A b \in Actors : b # a => actor[b].cur # s
    BY <1>2, <1>6, Zenon DEF CmdIInv, Apart
  <2>. QED  BY <1>2, <1>5, <1>7, <1>9, <2>1, Zenon DEF Only, Actors
<1>11. Kept(s)'
  BY <1>5, <1>6, <1>9, Zenon DEF Kept
<1>12. ~Orderly'
  BY <1>4, Zenon DEF Orderly, Crashed
<1>. QED  BY <1>7, <1>8, <1>9, <1>10, <1>11, <1>12, Assemble, Zenon

(***************************************************************************)
(* The worker.                                                             *)
(***************************************************************************)
\* The worker takes the first command of the list, which waits to be pushed.
LEMMA TakeHeadInv ==
    ASSUME CmdIInv, actor[WORKER].pc \in {"idle", "scan"}, woken' \in BOOLEAN,
           cmd_mgr.cmds # <<>>, NEW h, h = Head(cmd_mgr.cmds), cmd[h].push,
           actor' = [actor EXCEPT ![WORKER] = [actor[WORKER] EXCEPT !.pc = "fill", !.cur = h]],
           cmd' = [cmd EXCEPT ![h].push = FALSE],
           UNCHANGED <<cmd_mgr, todo, plan, mail, fw, bus_up, ghost>>
    PROVE  CmdIInv'
<1>1. CmdTypes /\ WORKER \in Actors /\ Place(WORKER) /\ "fill" \in Pcs
  BY Zenon DEF CmdIInv, Actors, Pcs, Pushing
<1>2. /\ DOMAIN cmd_mgr.cmds = 1 .. Len(cmd_mgr.cmds) /\ Len(cmd_mgr.cmds) \in Nat
      /\ 1 \in 1 .. Len(cmd_mgr.cmds) /\ h = cmd_mgr.cmds[1] /\ h \in Slots /\ OnList(h)
  <2>1. cmd_mgr.cmds \in Seq(Slots) /\ Len(cmd_mgr.cmds) \in Nat
    BY <1>1, TheList, Zenon
  <2>2. Len(cmd_mgr.cmds) # 0 /\ h = cmd_mgr.cmds[1]
    BY <2>1, EmptySeq, HeadAndTail, Zenon
  <2>3. 1 \in 1 .. Len(cmd_mgr.cmds)
    BY ONLY <2>1, <2>2
  <2>. QED  BY <1>1, <2>1, <2>2, <2>3, TheList, Zenon
<1>3. actor[WORKER].cur = NoSlot /\ h # NoSlot /\ Kept(h)
  <2>1. actor[WORKER].pc \notin Queuing \cup Pushing \cup {"freed"}
    BY Zenon DEF Queuing, Pushing, Awaiting
  <2>. QED  BY <1>1, <1>2, <2>1, Slot0, Zenon DEF CmdIInv, Listed, Place
<1>4. /\ actor' \in [Actors -> ActorRec] /\ actor'[WORKER].pc = "fill" /\ actor'[WORKER].cur = h
      /\ \A b \in Actors : b # WORKER => actor'[b] = actor[b]
  <2>1. actor \in [Actors -> ActorRec] /\ h \in Slots \cup {NoSlot}
    BY <1>1, <1>2, Zenon DEF CmdTypes
  <2>. QED  BY <1>1, <2>1, Zenon DEF ActorRec
<1>5. /\ cmd' \in [Slots -> CmdRec] /\ ~cmd'[h].push
      /\ cmd'[h].used = cmd[h].used /\ cmd'[h].wait = cmd[h].wait
      /\ cmd'[h].comp = cmd[h].comp /\ cmd'[h].msg = cmd[h].msg
      /\ \A r \in Slots : r # h => cmd'[r] = cmd[r]
  <2>1. cmd \in [Slots -> CmdRec]
    BY <1>1, Zenon DEF CmdTypes
  <2>. QED  BY <1>2, <2>1, Zenon DEF CmdRec
<1>6. CmdTypes'
  BY <1>1, <1>4, <1>5, Zenon DEF CmdTypes
<1>7. (\A r : OnList(r)' <=> OnList(r)) /\ IsInjective(cmd_mgr.cmds)'
  BY SameList, Zenon DEF CmdIInv, Listed
<1>8. Only(WORKER, h)
  <2>1. \A b \in Actors : b # WORKER => actor[b].cur # h
    BY <1>3, Zenon DEF CmdIInv, Place
  <2>. QED  BY <1>3, <1>4, <1>5, <1>7, <2>1, Zenon DEF Only, Actors
<1>9. cmd[h].used /\ cmd[h].msg.reqcfm /\ OnList(h)'
  BY <1>2, <1>3, <1>7, Zenon DEF Kept
<1>10. Place(WORKER)'
  <2>1. /\ actor'[WORKER].pc \in {"idle", "scan"} \cup Pushing \cup {"freed"} /\ ~(WORKER # WORKER)
        /\ actor'[WORKER].pc \in Pushing /\ actor'[WORKER].pc \notin Queuing
        /\ actor'[WORKER].pc # "queue"
    BY <1>4, Zenon DEF Pushing, Queuing
  <2>2. h \in Range(cmd_mgr'.cmds)
    BY <1>9, Zenon DEF OnList
  <2>. QED  BY <1>3, <1>4, <1>5, <1>9, <2>1, <2>2, Zenon DEF Place, OnList
<1>11. Kept(h)'
  BY <1>3, <1>5, <1>9, Zenon DEF Kept
<1>12. ASSUME Orderly' PROVE InTurn' /\ OneInMail' /\ NothingMixed'
  <2>1. InTurn /\ OneInMail /\ NothingMixed
    BY <1>12, Zenon DEF Orderly, Crashed, CmdIInv
  <2>2. Sorted'
    <3>1. ASSUME NEW i \in DOMAIN cmd_mgr.cmds, NEW j \in DOMAIN cmd_mgr.cmds, i < j,
                 cmd'[cmd_mgr.cmds[i]].push \/ cmd'[cmd_mgr.cmds[i]].wait
          PROVE  cmd'[cmd_mgr.cmds[j]].push
      <4>1. cmd_mgr.cmds[i] \in Slots /\ cmd_mgr.cmds[j] \in Slots
        BY <1>1, <1>2, <3>1, TheList, Zenon
      <4>2. j # 1
        BY ONLY <1>2, <3>1
      <4>3. cmd_mgr.cmds[j] # h
        BY <1>2, <3>1, <4>2, Zenon DEF CmdIInv, Listed, IsInjective
      <4>4. cmd[cmd_mgr.cmds[i]].push \/ cmd[cmd_mgr.cmds[i]].wait
        BY <1>5, <3>1, <4>1, Zenon
      <4>5. cmd[cmd_mgr.cmds[j]].push
        BY <2>1, <3>1, <4>4, Zenon DEF InTurn, Sorted
      <4>. QED  BY <1>5, <4>1, <4>3, <4>5, Zenon
    <3>. QED  BY <3>1, Zenon DEF Sorted
  <2>3. cmd[h].wait /\ ~cmd[h].msg.buf
    BY <1>2, <2>1, Zenon DEF InTurn, InHand
  <2>4. Pushes(WORKER)' /\ actor'[WORKER].pc # "txmsg" /\ actor[WORKER].pc # "txmsg"
    BY <1>4, <1>5, <2>3, Zenon DEF Pushes, Active
  <2>5. InHand(h)'
    BY <1>1, <1>4, <1>5, <2>3, Zenon DEF InHand
  <2>6. InTurn'
    BY <1>1, <1>8, <2>1, <2>2, <2>4, <2>5, TurnStep, Zenon
  <2>7. \A e : Asked(e) => e.slot # h
    BY Zenon DEF Asked, Active
  <2>8. OneInMail'
    BY <1>1, <1>8, <2>1, <2>4, <2>7, MailStep, Zenon
  <2>. QED  BY <2>1, <2>6, <2>8, Zenon DEF NothingMixed
<1>. QED  BY <1>1, <1>6, <1>7, <1>8, <1>10, <1>11, <1>12, Assemble, Zenon

\* cmd_mgr_task_process.
LEMMA TaskProcessInv == ASSUME CmdIInv, cmd_mgr_task_process PROVE CmdIInv'
<1>1. /\ CmdTypes /\ WORKER \in Actors /\ Place(WORKER) /\ "idle" \in Pcs
      /\ actor[WORKER].pc \in {"idle", "scan"} /\ woken' \in BOOLEAN
      /\ UNCHANGED <<cmd_mgr, todo, plan, mail, fw, bus_up, ghost>>
  BY Zenon DEF CmdIInv, Actors, Pcs, cmd_mgr_task_process, At, CmdTypes
<1>2. CASE cmd_mgr.cmds # <<>> /\ cmd[Head(cmd_mgr.cmds)].push
  BY <1>1, <1>2, TakeHeadInv, Zenon DEF cmd_mgr_task_process
<1>3. CASE ~(cmd_mgr.cmds # <<>> /\ cmd[Head(cmd_mgr.cmds)].push)
  <2>1. Goto(WORKER, "idle") /\ cmd' = cmd
    BY <1>3, Zenon DEF cmd_mgr_task_process
  <2>2. /\ actor' \in [Actors -> ActorRec]
        /\ actor'[WORKER].pc = "idle" /\ actor'[WORKER].cur = actor[WORKER].cur
        /\ \A b \in Actors : b # WORKER => actor'[b] = actor[b]
    BY <1>1, <2>1, GotoFacts, Zenon
  <2>3. CmdTypes'
    BY <1>1, <2>1, <2>2, Zenon DEF CmdTypes
  <2>4. actor[WORKER].cur = NoSlot
    <3>1. actor[WORKER].pc \notin Queuing \cup Pushing \cup {"freed"}
      BY <1>1, Zenon DEF Queuing, Pushing, Awaiting
    <3>. QED  BY <1>1, <3>1, Zenon DEF Place
  <2>5. Place(WORKER)'
    <3>1. /\ actor'[WORKER].pc \notin Queuing \cup Pushing \cup {"freed"}
          /\ actor'[WORKER].pc \in {"idle", "scan"} \cup Pushing \cup {"freed"} /\ ~(WORKER # WORKER)
      BY <2>2, Zenon DEF Queuing, Pushing, Awaiting
    <3>. QED  BY <2>2, <2>4, <3>1, Zenon DEF Place
  <2>. QED  BY <1>1, <2>1, <2>2, <2>3, <2>4, <2>5, QuietStep, Zenon
<1>. QED  BY <1>2, <1>3, Zenon

(***************************************************************************)
(* The bus and the firmware.                                               *)
(***************************************************************************)
\* A step that leaves the tasks, the slots and the list alone.
LEMMA NobodyMoves ==
    ASSUME CmdIInv, UNCHANGED <<cmd_mgr, cmd, actor, todo>>
    PROVE  /\ Listed' /\ Apart' /\ \A a \in Actors : Place(a)'
           /\ InTurn => InTurn'
           /\ \A e : Asked(e)' <=> Asked(e)
<1>1. \A s : OnList(s)' <=> OnList(s)
  BY SameList, Zenon
<1>2. Listed'
  <2>1. \A s \in Slots : Kept(s)'
    BY <1>1, Zenon DEF CmdIInv, Listed, Kept
  <2>. QED  BY <2>1, SameList, Zenon DEF CmdIInv, Listed
<1>3. Apart'
  BY Zenon DEF CmdIInv, Apart
<1>4. \A a \in Actors : Place(a)'
  BY Zenon DEF CmdIInv, Place, OnList
<1>5. ASSUME InTurn PROVE InTurn'
  <2>1. \A s \in Slots : InHand(s)'
    BY <1>1, <1>5, Zenon DEF InTurn, InHand
  <2>2. \A a \in Actors : Pushes(a)'
    BY <1>5, Zenon DEF InTurn, Pushes, CurMsg, Active
  <2>3. Sorted'
    BY <1>5, Zenon DEF InTurn, Sorted
  <2>. QED  BY <2>1, <2>2, <2>3, Zenon DEF InTurn
<1>6. \A e : Asked(e)' <=> Asked(e)
  BY Zenon DEF Asked, CurMsg, Active
<1>. QED  BY <1>2, <1>3, <1>4, <1>5, <1>6, Zenon

\* aicwf_sdio_tx_msg: the request the mailbox held is with the firmware or lost.
LEMMA TxMsgInv == ASSUME CmdIInv, aicwf_sdio_tx_msg PROVE CmdIInv'
<1>1. /\ CmdTypes /\ mail' = [mail EXCEPT !.trgg = FALSE, !.full = FALSE]
      /\ UNCHANGED <<cmd_mgr, cmd, actor, todo, plan, woken, bus_up, ghost>>
      /\ fw' = fw \/ (mail.full /\ mail.buf.msg.reqcfm /\ fw' = fw \cup {mail.buf})
  BY Zenon DEF aicwf_sdio_tx_msg, CmdIInv
<1>2. mail' \in MailRec /\ ~mail'.full /\ mail'.buf = mail.buf
  <2>1. mail \in MailRec
    BY <1>1, Zenon DEF CmdTypes
  <2>. QED  BY <1>1, <2>1, Zenon DEF MailRec
<1>3. fw' \in SUBSET [slot : Slots, msg : Message]
  <2>1. mail.buf.msg.reqcfm => mail.buf \in [slot : Slots, msg : Message]
    <3>1. PICK e : e = mail.buf
      BY Zenon
    <3>2. e \in [slot : Slots \cup {NoSlot}, msg : Message] /\ (e.msg.reqcfm => e.slot \in Slots)
      BY <1>1, <3>1, Zenon DEF CmdTypes, MailRec
    <3>3. e.msg.reqcfm => e \in [slot : Slots, msg : Message]
      BY ONLY <3>2
    <3>. QED  BY <3>1, <3>3, Zenon
  <2>. QED  BY <1>1, <2>1, Zenon DEF CmdTypes
<1>4. CmdTypes'
  BY <1>1, <1>2, <1>3, Zenon DEF CmdTypes
<1>5. /\ Listed' /\ Apart' /\ \A a \in Actors : Place(a)'
      /\ InTurn => InTurn'
      /\ \A e : Asked(e)' <=> Asked(e)
  BY <1>1, NobodyMoves, Zenon
<1>6. ASSUME Orderly' PROVE InTurn' /\ OneInMail' /\ NothingMixed'
  <2>1. InTurn /\ OneInMail /\ NothingMixed
    BY <1>1, <1>6, Zenon DEF Orderly, Crashed, CmdIInv
  <2>2. \A e \in fw' : Asked(e)'
    BY <1>1, <1>5, <2>1, Zenon DEF OneInMail
  <2>3. \A a \in Actors : At(a, "txmsg")' =>
          /\ mail'.buf = [slot |-> actor'[a].cur, msg |-> CurMsg(a)']
          /\ \A b \in Actors : At(b, "txmsg")' => a = b
    BY <1>1, <1>2, <2>1, Zenon DEF OneInMail, At, CurMsg
  <2>4. OneInMail'
    BY <1>2, <2>2, <2>3, Zenon DEF OneInMail
  <2>. QED  BY <1>1, <1>5, <2>1, <2>4, Zenon DEF NothingMixed
<1>. QED  BY <1>4, <1>5, <1>6, Zenon DEF CmdIInv

\* aicwf_sdio_bus_stop, and a step that changes nothing.
LEMMA BusStopInv ==
    ASSUME CmdIInv, bus_up' \in BOOLEAN,
           UNCHANGED <<cmd_mgr, cmd, actor, todo, plan, woken, mail, fw, ghost>>
    PROVE  CmdIInv'
<1>1. CmdTypes'
  BY Zenon DEF CmdIInv, CmdTypes
<1>2. /\ Listed' /\ Apart' /\ \A a \in Actors : Place(a)'
      /\ InTurn => InTurn'
      /\ \A e : Asked(e)' <=> Asked(e)
  BY NobodyMoves, Zenon
<1>3. ASSUME Orderly' PROVE InTurn' /\ OneInMail' /\ NothingMixed'
  <2>1. InTurn /\ OneInMail /\ NothingMixed
    BY <1>3, Zenon DEF Orderly, Crashed, CmdIInv
  <2>2. \A a \in Actors : At(a, "txmsg")' =>
          /\ mail'.buf = [slot |-> actor'[a].cur, msg |-> CurMsg(a)'] /\ ~mail'.full
          /\ \A b \in Actors : At(b, "txmsg")' => a = b
    BY <2>1, Zenon DEF OneInMail, At, CurMsg
  <2>3. mail'.full /\ mail'.buf.msg.reqcfm => Asked(mail.buf)' /\ fw' = {}
    BY <1>2, <2>1, Zenon DEF OneInMail
  <2>4. \A e \in fw' : Asked(e)'
    BY <1>2, <2>1, Zenon DEF OneInMail
  <2>5. OneInMail'
    BY <2>2, <2>3, <2>4, Zenon DEF OneInMail
  <2>. QED  BY <1>2, <2>1, <2>5, Zenon DEF NothingMixed
<1>. QED  BY <1>1, <1>2, <1>3, Zenon DEF CmdIInv

\* A command is completed: whoever has it goes on as before.
LEMMA Completed ==
    ASSUME CmdIInv, NEW s \in Slots, OnList(s), UNCHANGED <<cmd_mgr, actor, todo>>,
           cmd' = [cmd EXCEPT ![s].wait = FALSE, ![s].done = TRUE, ![s].comp = TRUE]
    PROVE  /\ cmd' \in [Slots -> CmdRec] /\ ~cmd'[s].wait
           /\ cmd'[s].push = cmd[s].push /\ cmd'[s].msg = cmd[s].msg
           /\ \A r \in Slots : r # s => cmd'[r] = cmd[r]
           /\ Listed' /\ Apart' /\ \A a \in Actors : Place(a)'
<1>1. CmdTypes /\ cmd \in [Slots -> CmdRec]
  BY Zenon DEF CmdIInv, CmdTypes
<1>2. /\ cmd' \in [Slots -> CmdRec] /\ ~cmd'[s].wait /\ cmd'[s].used = cmd[s].used
      /\ cmd'[s].push = cmd[s].push /\ cmd'[s].msg = cmd[s].msg /\ cmd'[s].task = cmd[s].task
      /\ \A r \in Slots : r # s => cmd'[r] = cmd[r]
  BY <1>1, Zenon DEF CmdRec
<1>3. (\A r : OnList(r)' <=> OnList(r)) /\ IsInjective(cmd_mgr.cmds)'
  BY SameList, Zenon DEF CmdIInv, Listed
<1>4. \A r \in Slots : Kept(r)'
  <2>1. ASSUME NEW r \in Slots, r # s PROVE Kept(r)'
    <3>1. cmd'[r] = cmd[r] /\ Kept(r)
      BY <1>2, <2>1, Zenon DEF CmdIInv, Listed
    <3>. QED  BY <1>3, <3>1, Zenon DEF Kept
  <2>2. Kept(s)'
    BY <1>2, <1>3, Zenon DEF CmdIInv, Listed, Kept
  <2>. QED  BY <2>1, <2>2, Zenon
<1>5. Apart'
  BY Zenon DEF CmdIInv, Apart
<1>6. ASSUME NEW a \in Actors PROVE Place(a)'
  <2>1. Place(a) /\ actor'[a] = actor[a] /\ todo' = todo /\ cmd_mgr' = cmd_mgr
    BY Zenon DEF CmdIInv
  <2>2. CASE actor[a].cur # s
    <3>1. actor[a].cur # NoSlot => cmd'[actor[a].cur] = cmd[actor[a].cur]
      BY <1>1, <1>2, <2>2, CurType, Zenon
    <3>. QED  BY <2>1, <3>1, Zenon DEF Place, OnList
  <2>3. CASE actor[a].cur = s
    <3>1. s # NoSlot /\ actor[a].pc \in Pushing /\ actor[a].pc \notin Queuing
      BY <2>1, <2>3, Slot0, Zenon DEF Place, Pushing, Queuing, Awaiting
    <3>2. actor[a].pc # "queue"
      BY <3>1, Zenon DEF Queuing
    <3>. QED  BY <1>2, <2>1, <2>3, <3>1, <3>2, Zenon DEF Place, OnList
  <2>. QED  BY <2>2, <2>3, Zenon
<1>. QED  BY <1>2, <1>3, <1>4, <1>5, <1>6, Zenon DEF Listed

\* The command of a request on its way waits for the confirmation of the request.
LEMMA AskedHit ==
    ASSUME CmdIInv, NEW e, Asked(e)
    PROVE  \E k \in DOMAIN cmd_mgr.cmds :
              /\ cmd_mgr.cmds[k] = e.slot /\ cmd[cmd_mgr.cmds[k]].wait
              /\ cmd[cmd_mgr.cmds[k]].msg.reqid = Confirmation(e.msg.id)
<1>1. CmdTypes /\ OnList(e.slot) /\ Active(e.slot)
  BY AskedOnList, Zenon DEF CmdIInv
<1>2. PICK k \in DOMAIN cmd_mgr.cmds : cmd_mgr.cmds[k] = e.slot
  BY <1>1, TheList, Zenon
<1>3. cmd[e.slot].msg.reqid = Confirmation(e.msg.id)
  <2>1. cmd[e.slot].msg = e.msg
    BY Zenon DEF Asked, CurMsg
  <2>2. e.slot \in Slots /\ cmd[e.slot].msg.reqcfm
    BY <1>1, TheList, Zenon DEF CmdIInv, Listed, Kept
  <2>3. cmd[e.slot].msg \in Message
    BY <1>1, <2>2, Zenon DEF CmdTypes, CmdRec
  <2>. QED  BY <2>1, <2>2, <2>3, CmdAssumption, Zenon
<1>. QED  BY <1>1, <1>2, <1>3, Zenon DEF Active

\* While all is orderly, the command the firmware answers is the first that waits for
\* this confirmation.
LEMMA FirstHit ==
    ASSUME CmdIInv, InTurn, NEW e, Asked(e),
           NEW i \in DOMAIN cmd_mgr.cmds,
           cmd[cmd_mgr.cmds[i]].wait,
           \A j \in DOMAIN cmd_mgr.cmds :
              /\ cmd[cmd_mgr.cmds[j]].wait
              /\ cmd[cmd_mgr.cmds[j]].msg.reqid = Confirmation(e.msg.id)
              => i <= j
    PROVE  cmd_mgr.cmds[i] = e.slot
<1>1. CmdTypes /\ Active(e.slot)
  BY AskedOnList, Zenon DEF CmdIInv
<1>2. PICK k \in DOMAIN cmd_mgr.cmds :
          /\ cmd_mgr.cmds[k] = e.slot /\ cmd[cmd_mgr.cmds[k]].wait
          /\ cmd[cmd_mgr.cmds[k]].msg.reqid = Confirmation(e.msg.id)
  BY AskedHit, Zenon
<1>3. i <= k
  BY <1>2, Zenon
<1>4. ~(i < k)
  BY <1>1, <1>2, Zenon DEF InTurn, Sorted, Active
<1>5. i = k
  <2>1. DOMAIN cmd_mgr.cmds = 1 .. Len(cmd_mgr.cmds) /\ Len(cmd_mgr.cmds) \in Nat
    BY <1>1, TheList, Zenon
  <2>. QED  BY ONLY <1>3, <1>4, <2>1, i \in DOMAIN cmd_mgr.cmds, k \in DOMAIN cmd_mgr.cmds
<1>. QED  BY <1>2, <1>5, Zenon

\* While all is orderly the firmware has one request, and it is answered to its sender.
LEMMA AnswerInTurn ==
    ASSUME CmdIInv, InTurn, OneInMail, NothingMixed, NEW e \in fw, Asked(e), NEW s \in Slots,
           s = e.slot, UNCHANGED <<cmd_mgr, actor, todo, mail>>, fw' = fw \ {e},
           ~cmd'[s].wait, cmd'[s].push = cmd[s].push, cmd'[s].msg = cmd[s].msg,
           \A r \in Slots : r # s => cmd'[r] = cmd[r]
    PROVE  InTurn' /\ OneInMail' /\ (cmd[s].msg.buf => actor[cmd[s].task].cur = s)
<1>1. CmdTypes /\ OnList(s) /\ Active(s) /\ cmd[s].wait /\ ~cmd[s].push
  BY AskedOnList, Zenon DEF CmdIInv, Active
<1>2. Sorted'
  <2>1. \A r \in Slots : (cmd'[r].push <=> cmd[r].push) /\ (cmd'[r].wait => cmd[r].wait)
    BY Zenon
  <2>. QED  BY <1>1, <2>1, SameOrder, Zenon DEF InTurn
<1>3. ASSUME NEW r \in Slots PROVE InHand(r)'
  <2>1. (OnList(r)' <=> OnList(r)) /\ InHand(r)
    BY SameList, Zenon DEF InTurn
  <2>2. CASE r # s
    BY <2>1, <2>2, Zenon DEF InHand
  <2>3. CASE r = s
    BY <1>1, <2>1, <2>3, Zenon DEF InHand
  <2>. QED  BY <2>2, <2>3, Zenon
<1>4. ASSUME NEW b \in Actors PROVE CurMsg(b)' = CurMsg(b) \/ actor[b].cur = NoSlot
  BY <1>1, CurType, Zenon DEF CurMsg
<1>5. ASSUME NEW b \in Actors PROVE Pushes(b)'
  <2>1. Pushes(b) /\ actor'[b] = actor[b]
    BY Zenon DEF InTurn
  <2>2. CASE actor[b].pc \in {"fill", "txmsg"}
    <3>1. ~CurMsg(b).reqcfm
      BY <2>2, NothingAsked, Zenon
    <3>2. actor[b].cur # NoSlot
      BY <2>2, Zenon DEF CmdIInv, Place, Pushing
    <3>. QED  BY <1>4, <2>1, <3>1, <3>2, Zenon DEF Pushes
  <2>3. CASE actor[b].pc \notin {"fill", "txmsg"}
    BY <2>1, <2>3, Zenon DEF Pushes
  <2>. QED  BY <2>2, <2>3, Zenon
<1>6. fw' = {}
  <2>1. ASSUME NEW f \in fw PROVE f = e
    <3>1. Asked(f) /\ OnList(f.slot) /\ Active(f.slot)
      BY AskedOnList, Zenon DEF OneInMail
    <3>2. f.slot = e.slot
      BY <1>1, <3>1, OneActive, Zenon
    <3>3. cmd[f.slot].msg = f.msg /\ cmd[e.slot].msg = e.msg
      BY <3>1, Zenon DEF Asked, CurMsg
    <3>4. f \in [slot : Slots, msg : Message] /\ e \in [slot : Slots, msg : Message]
      BY <1>1, Zenon DEF CmdTypes
    <3>5. f.msg = e.msg
      BY <3>2, <3>3, Zenon
    <3>. QED  BY ONLY <3>2, <3>4, <3>5
  <2>. QED  BY <2>1, Zenon
<1>7. OneInMail'
  <2>1. ASSUME NEW a \in Actors, At(a, "txmsg")'
        PROVE  /\ mail'.buf = [slot |-> actor'[a].cur, msg |-> CurMsg(a)'] /\ ~mail'.full
               /\ \A b \in Actors : At(b, "txmsg")' => a = b
    <3>1. At(a, "txmsg") /\ actor' = actor /\ mail' = mail
      BY <2>1, Zenon DEF At
    <3>2. /\ mail.buf = [slot |-> actor[a].cur, msg |-> CurMsg(a)] /\ ~mail.full
          /\ \A b \in Actors : At(b, "txmsg") => a = b
      BY <3>1, Zenon DEF OneInMail
    <3>3. actor[a].cur # NoSlot
      BY <3>1, Zenon DEF CmdIInv, Place, Pushing, At
    <3>4. CurMsg(a)' = CurMsg(a)
      BY <1>4, <3>3, Zenon
    <3>5. mail'.buf = [slot |-> actor'[a].cur, msg |-> CurMsg(a)']
      BY <3>1, <3>2, <3>4, Zenon
    <3>. QED  BY <3>1, <3>2, <3>5, Zenon DEF At
  <2>2. ~(mail'.full /\ mail'.buf.msg.reqcfm)
    BY Zenon DEF OneInMail
  <2>. QED  BY <1>6, <2>1, <2>2, Zenon DEF OneInMail
<1>8. ASSUME cmd[s].msg.buf PROVE actor[cmd[s].task].cur = s
  <2>1. PICK b \in Actors : actor[b].cur = s
    BY Zenon DEF Asked
  <2>2. b # WORKER
    BY <1>8, <2>1, Zenon DEF InTurn, InHand
  <2>3. Place(b) /\ actor[b].cur # NoSlot
    BY <2>1, Slot0, Zenon DEF CmdIInv
  <2>4. cmd[s].task = b
    BY <2>1, <2>2, <2>3, Zenon DEF Place
  <2>. QED  BY <2>1, <2>4, Zenon
<1>. QED  BY <1>2, <1>3, <1>5, <1>7, <1>8, Zenon DEF InTurn

\* cmd_mgr_msgind.
LEMMA MsgIndInv == ASSUME CmdIInv, NEW e \in fw, cmd_mgr_msgind(e) PROVE CmdIInv'
<1>. DEFINE hit(i) == /\ cmd[cmd_mgr.cmds[i]].wait
                      /\ cmd[cmd_mgr.cmds[i]].msg.reqid = Confirmation(e.msg.id)
<1>1. /\ CmdTypes /\ fw' = fw \ {e}
      /\ UNCHANGED <<cmd_mgr, actor, todo, plan, woken, mail, bus_up>>
  BY Zenon DEF cmd_mgr_msgind, CmdIInv
<1>2. \/ /\ ~\E i \in DOMAIN cmd_mgr.cmds : hit(i)
         /\ ghost' = [ghost EXCEPT !.mixed = ghost.mixed \/ cmd[e.slot].wait]
         /\ cmd' = cmd
      \/ \E i \in DOMAIN cmd_mgr.cmds :
            /\ hit(i) /\ \A j \in DOMAIN cmd_mgr.cmds : hit(j) => i <= j
            /\ cmd' = [cmd EXCEPT ![cmd_mgr.cmds[i]].wait = FALSE, ![cmd_mgr.cmds[i]].done = TRUE,
                                  ![cmd_mgr.cmds[i]].comp = TRUE]
            /\ ghost' = [ghost EXCEPT
                  !.dead = ghost.dead \/ (/\ cmd[cmd_mgr.cmds[i]].msg.buf
                                          /\ actor[cmd[cmd_mgr.cmds[i]].task].cur # cmd_mgr.cmds[i]),
                  !.mixed = ghost.mixed \/ cmd_mgr.cmds[i] # e.slot]
  BY Zenon DEF cmd_mgr_msgind
<1>3. ghost \in GhostRec /\ fw' \in SUBSET [slot : Slots, msg : Message]
  BY <1>1, Zenon DEF CmdTypes
<1>4. CASE /\ ~\E i \in DOMAIN cmd_mgr.cmds : hit(i)
           /\ ghost' = [ghost EXCEPT !.mixed = ghost.mixed \/ cmd[e.slot].wait]
           /\ cmd' = cmd
  <2>1. ghost' \in GhostRec /\ ghost'.forced = ghost.forced /\ ghost'.ntf = ghost.ntf
    <3>1. PICK x \in BOOLEAN : x = (ghost.mixed \/ cmd[e.slot].wait)
      BY Zenon
    <3>2. ghost' = [ghost EXCEPT !.mixed = x]
      BY <1>4, <3>1, Zenon
    <3>. QED  BY <1>3, <3>2, Zenon DEF GhostRec
  <2>2. CmdTypes'
    BY <1>1, <1>3, <1>4, <2>1, Zenon DEF CmdTypes
  <2>3. Listed' /\ Apart' /\ \A a \in Actors : Place(a)'
    BY <1>1, <1>4, NobodyMoves, Zenon
  <2>4. ~Orderly'
    <3>1. ASSUME Orderly' PROVE FALSE
      <4>1. Asked(e)
        BY <1>1, <2>1, <3>1, Zenon DEF Orderly, Crashed, CmdIInv, OneInMail
      <4>. QED  BY <1>4, <4>1, AskedHit, Zenon
    <3>. QED  BY <3>1, Zenon
  <2>. QED  BY <2>2, <2>3, <2>4, Zenon DEF CmdIInv
<1>5. ASSUME NEW i \in DOMAIN cmd_mgr.cmds,
             hit(i), \A j \in DOMAIN cmd_mgr.cmds : hit(j) => i <= j,
             NEW s, s = cmd_mgr.cmds[i],
             cmd' = [cmd EXCEPT ![s].wait = FALSE, ![s].done = TRUE, ![s].comp = TRUE],
             ghost' = [ghost EXCEPT
                !.dead = ghost.dead \/ (cmd[s].msg.buf /\ actor[cmd[s].task].cur # s),
                !.mixed = ghost.mixed \/ s # e.slot]
      PROVE  CmdIInv'
  <2>1. s \in Slots /\ OnList(s)
    BY <1>1, <1>5, TheList, Zenon
  <2>2. /\ cmd' \in [Slots -> CmdRec] /\ ~cmd'[s].wait
        /\ cmd'[s].push = cmd[s].push /\ cmd'[s].msg = cmd[s].msg
        /\ \A r \in Slots : r # s => cmd'[r] = cmd[r]
        /\ Listed' /\ Apart' /\ \A a \in Actors : Place(a)'
    BY <1>1, <1>5, <2>1, Completed, Zenon
  <2>3. /\ ghost' \in GhostRec /\ ghost'.forced = ghost.forced /\ ghost'.ntf = ghost.ntf
        /\ ghost'.over = ghost.over
        /\ ghost'.dead = (ghost.dead \/ (cmd[s].msg.buf /\ actor[cmd[s].task].cur # s))
        /\ ghost'.mixed = (ghost.mixed \/ s # e.slot)
    <3>1. PICK x \in BOOLEAN : x = (ghost.dead \/ (cmd[s].msg.buf /\ actor[cmd[s].task].cur # s))
      BY Zenon
    <3>2. PICK y \in BOOLEAN : y = (ghost.mixed \/ s # e.slot)
      BY Zenon
    <3>3. ghost' = [ghost EXCEPT !.dead = x, !.mixed = y]
      BY <1>5, <3>1, <3>2, Zenon
    <3>. QED  BY <1>3, <3>1, <3>2, <3>3, Zenon DEF GhostRec
  <2>4. CmdTypes'
    BY <1>1, <1>3, <2>2, <2>3, Zenon DEF CmdTypes
  <2>5. ASSUME Orderly' PROVE InTurn' /\ OneInMail' /\ NothingMixed'
    <3>1. InTurn /\ OneInMail /\ NothingMixed
      BY <1>1, <2>3, <2>5, Zenon DEF Orderly, Crashed, CmdIInv
    <3>2. Asked(e)
      BY <3>1, Zenon DEF OneInMail
    <3>3. s = e.slot
      BY <1>5, <3>1, <3>2, FirstHit, Zenon
    <3>4. InTurn' /\ OneInMail' /\ (cmd[s].msg.buf => actor[cmd[s].task].cur = s)
      BY <1>1, <2>1, <2>2, <3>1, <3>2, <3>3, AnswerInTurn, Zenon
    <3>. QED  BY <2>3, <3>1, <3>3, <3>4, Zenon DEF NothingMixed
  <2>. QED  BY <2>2, <2>4, <2>5, Zenon DEF CmdIInv
<1>. QED  BY <1>2, <1>4, <1>5, Zenon

(***************************************************************************)
(* The theorems.                                                           *)
(***************************************************************************)
\* rwnx_cmd_mgr_init, rwnx_init_cmd_array and aicwf_bus_init: no command anywhere.
LEMMA CmdInitInv == ASSUME CmdInit PROVE CmdIInv
<1>1. WORKER \in Actors /\ NoMsg \in Message /\ ~NoMsg.reqcfm /\ ~NoMsg.buf
  BY DEF Actors, Message, NoMsg, Ntf
<1>2. NoCmd \in CmdRec /\ ~NoCmd.used /\ ~NoCmd.push /\ ~NoCmd.wait /\ ~NoCmd.comp /\ ~NoCmd.msg.buf
  BY <1>1 DEF NoCmd, CmdRec
<1>3. CmdTypes
  <2>1. cmd_mgr \in [state : {"INITED", "CRASHED"}, cmds : Seq(Slots)]
    BY DEF CmdInit
  <2>2. cmd \in [Slots -> CmdRec]
    BY <1>2, Zenon DEF CmdInit
  <2>3. actor \in [Actors -> ActorRec]
    <3>1. [pc |-> "idle", cur |-> NoSlot, defer |-> FALSE] \in ActorRec
      BY DEF ActorRec, Pcs
    <3>. QED  BY <3>1, Zenon DEF CmdInit
  <2>4. todo \in [Callers -> Seq(Message)] /\ plan \in [Callers -> Seq(Seq(Message))]
    <3>1. << >> \in Seq(Message)
      OBVIOUS
    <3>. QED  BY <3>1, CmdAssumption, Zenon DEF CmdInit
  <2>5. mail \in MailRec
    <3>1. Empty \in [slot : Slots \cup {NoSlot}, msg : Message] /\ Empty.msg = NoMsg
      BY <1>1 DEF Empty
    <3>2. Empty \in {e \in [slot : Slots \cup {NoSlot}, msg : Message] : e.msg.reqcfm => e.slot \in Slots}
      BY <1>1, <3>1, Zenon
    <3>3. mail = [full |-> FALSE, buf |-> Empty, trgg |-> FALSE]
      BY Zenon DEF CmdInit
    <3>. QED  BY <3>2, <3>3 DEF MailRec
  <2>6. ghost \in GhostRec
    BY DEF CmdInit, GhostRec
  <2>7. fw \in SUBSET [slot : Slots, msg : Message] /\ woken \in BOOLEAN /\ bus_up \in BOOLEAN
    BY Zenon DEF CmdInit
  <2>. QED  BY <2>1, <2>2, <2>3, <2>4, <2>5, <2>6, <2>7, Zenon DEF CmdTypes
<1>4. /\ \A s \in Slots : cmd[s] = NoCmd
      /\ \A a \in Actors : actor[a].pc = "idle" /\ actor[a].cur = NoSlot
      /\ ghost.over = FALSE /\ ghost.mixed = FALSE /\ ghost.dead = FALSE
      /\ mail.full = FALSE /\ fw = {}
  BY DEF CmdInit
<1>5. DOMAIN cmd_mgr.cmds = {} /\ \A s : ~OnList(s)
  <2>1. cmd_mgr.cmds = << >>
    BY DEF CmdInit
  <2>2. DOMAIN cmd_mgr.cmds = {}
    BY <2>1
  <2>. QED  BY <2>2, Zenon DEF OnList, Range
<1>6. Listed
  BY <1>2, <1>4, <1>5, Zenon DEF Listed, Kept, IsInjective
<1>7. Apart
  BY <1>4, Zenon DEF Apart
<1>8. ASSUME NEW a \in Actors PROVE Place(a)
  <2>1. actor[a].pc = "idle" /\ actor[a].cur = NoSlot
    BY <1>4, Zenon
  <2>2. actor[a].pc \notin Queuing \cup Pushing \cup {"freed"}
    BY <2>1, Zenon DEF Queuing, Pushing, Awaiting
  <2>. QED  BY <2>1, <2>2, Zenon DEF Place
<1>9. InTurn
  <2>1. \A s \in Slots : InHand(s)
    BY <1>2, <1>4, <1>5, Zenon DEF InHand
  <2>2. \A a \in Actors : Pushes(a)
    BY <1>4, Zenon DEF Pushes
  <2>. QED  BY <1>5, <2>1, <2>2, Zenon DEF InTurn, Sorted
<1>10. OneInMail /\ NothingMixed
  BY <1>4, Zenon DEF OneInMail, NothingMixed, At
<1>. QED  BY <1>3, <1>6, <1>7, <1>8, <1>9, <1>10, Zenon DEF CmdIInv

\* Every step of the tasks, the worker, the bus and the firmware keeps the invariant.
LEMMA CmdNextInv == ASSUME CmdIInv, [CmdNext]_cmdVars PROVE CmdIInv'
<1>1. ASSUME NEW t \in Callers, Call(t) PROVE CmdIInv'
  BY <1>1, CallInv, Zenon
<1>2. ASSUME NEW t \in Callers, CallerNext(t) PROVE CmdIInv'
  BY <1>2, SendInv, QueueInv, DrainTimeoutInv, ForcedCheckInv, ForcedInsertInv, Zenon DEF CallerNext
<1>3. ASSUME NEW a \in Actors, PushNext(a) PROVE CmdIInv'
  BY <1>3, SetCmdInv, TxmsgInv, ReleaseInv, FreedInv, TimesOutInv, ExpiredInv, Zenon DEF PushNext
<1>4. CASE cmd_mgr_task_process
  BY <1>4, TaskProcessInv, Zenon
<1>5. CASE aicwf_sdio_tx_msg
  BY <1>5, TxMsgInv, Zenon
<1>6. ASSUME NEW e \in fw, cmd_mgr_msgind(e) PROVE CmdIInv'
  BY <1>6, MsgIndInv, Zenon
<1>7. CASE aicwf_sdio_bus_stop
  BY <1>7, BusStopInv, Zenon DEF aicwf_sdio_bus_stop
<1>8. CASE UNCHANGED cmdVars
  BY <1>8, BusStopInv, Zenon DEF cmdVars, CmdIInv, CmdTypes
<1>. QED  BY <1>1, <1>2, <1>3, <1>4, <1>5, <1>6, <1>7, <1>8, Zenon DEF CmdNext

\* In every behaviour of the command manager, whatever the calls of the tasks and the
\* sizes of the array and the queue, every command is where the step of its task or of
\* the worker says, and as long as nothing was forced, crashed or met a message without
\* confirmation, commands take turns.
THEOREM CmdInvariant == CmdSpec => []CmdIInv
<1>1. CmdInit => CmdIInv
  BY CmdInitInv, Zenon
<1>2. CmdIInv /\ [CmdNext]_cmdVars => CmdIInv'
  BY CmdNextInv, Zenon
<1>. QED  BY <1>1, <1>2, PTL DEF CmdSpec

FST == INSTANCE FiniteSetTheorems

\* A list without repetition is not longer than the array.
LEMMA ListFits ==
    ASSUME CmdIInv
    PROVE  Len(cmd_mgr.cmds) <= RWNX_CMD_ARRAY_SIZE
<1>. DEFINE q == cmd_mgr.cmds
            n == Len(q)
            m == RWNX_CMD_ARRAY_SIZE
<1>1. CmdTypes /\ IsInjective(q)
  BY Zenon DEF CmdIInv, Listed
<1>2. q \in Seq(Slots) /\ n \in Nat /\ DOMAIN q = 1 .. n /\ m \in Nat
  BY <1>1, TheList, CmdAssumption, Zenon
<1>. HIDE DEF q, n, m
<1>3. q \in [1 .. n -> 1 .. m]
  BY <1>2 DEF Slots, n, m
<1>4. q \in FST!Injection(1 .. n, 1 .. m)
  BY <1>1, <1>2, <1>3, Zenon DEF FST!Injection, FST!IsInjective, IsInjective
<1>5. /\ FST!IsFiniteSet(1 .. m) /\ FST!Cardinality(1 .. m) = m
      /\ FST!Cardinality(1 .. n) = n
  <2>1. FST!IsFiniteSet(1 .. m) /\ FST!Cardinality(1 .. m) = IF 1 > m THEN 0 ELSE m - 1 + 1
    BY <1>2, FST!FS_Interval
  <2>2. FST!Cardinality(1 .. n) = IF 1 > n THEN 0 ELSE n - 1 + 1
    BY <1>2, FST!FS_Interval
  <2>. QED  BY <1>2, <2>1, <2>2
<1>6. FST!Cardinality(1 .. n) <= FST!Cardinality(1 .. m)
  BY <1>4, <1>5, FST!FS_Injection, Zenon
<1>. QED  BY <1>5, <1>6, Zenon DEF n, q, m

\* No path of the command manager leaks a slot, lists one twice or hands it to two tasks.
THEOREM SlotsKept == CmdSpec => []SlotsAccounted
<1>1. ASSUME CmdIInv PROVE SlotsAccounted
  <2>1. CmdTypes /\ Listed /\ Apart
    BY <1>1, Zenon DEF CmdIInv
  <2>2. CmdTypeOK
    <3>1. cmd_mgr.state \in {"INITED", "CRASHED"} /\ cmd_mgr.cmds \in Seq(Slots)
      BY <2>1, Zenon DEF CmdTypes
    <3>2. \A s \in Slots : {cmd[s].used, cmd[s].push, cmd[s].wait, cmd[s].done, cmd[s].comp} \subseteq BOOLEAN
      BY <2>1, Zenon DEF CmdTypes, CmdRec
    <3>3. \A a \in Actors : actor[a].cur \in Slots \cup {NoSlot}
      BY <2>1, CurType, Zenon
    <3>4. mail.buf.slot \in Slots \cup {NoSlot} /\ {woken, bus_up, mail.full, mail.trgg} \subseteq BOOLEAN
      BY <2>1, Zenon DEF CmdTypes, MailRec
    <3>. QED  BY <1>1, <3>1, <3>2, <3>3, <3>4, ListFits, Zenon DEF CmdTypeOK
  <2>3. \A s \in Slots : cmd[s].used <=> OnList(s) \/ \E a \in Actors : actor[a].cur = s
    <3>1. ASSUME NEW s \in Slots, NEW a \in Actors, actor[a].cur = s PROVE cmd[s].used
      <4>1. Place(a) /\ s # NoSlot
        BY <1>1, Slot0, Zenon DEF CmdIInv
      <4>. QED  BY <3>1, <4>1, Zenon DEF Place
    <3>. QED  BY <2>1, <3>1, Zenon DEF Listed, Kept
  <2>4. {s \in Slots : cmd[s].used} =
        Range(cmd_mgr.cmds) \cup ({actor[a].cur : a \in Actors} \ {NoSlot})
    <3>1. \A s : OnList(s) => s \in Slots
      BY <2>1, TheList, Zenon
    <3>2. \A a \in Actors : actor[a].cur # NoSlot => actor[a].cur \in Slots
      BY <2>1, CurType, Zenon
    <3>3. \A s : s \in Slots /\ cmd[s].used <=>
                 OnList(s) \/ (s # NoSlot /\ \E a \in Actors : s = actor[a].cur)
      BY <2>3, <3>1, <3>2, Slot0, Zenon
    <3>. QED  BY ONLY <3>3 DEF OnList
  <2>5. \A t, u \in Callers : t # u /\ actor[t].cur = actor[u].cur => actor[t].cur = NoSlot
    BY <2>1, TaskActs, Zenon DEF Apart
  <2>. QED  BY <2>1, <2>2, <2>4, <2>5, Zenon DEF SlotsAccounted, Listed
<1>. QED  BY <1>1, CmdInvariant, PTL

\* While no wait has timed out, no wait for an empty list was forced and no message
\* without confirmation has met another in the mailbox, one command at a time is with the
\* firmware, cmd_buf is never rewritten unsent, and a confirmation completes its own
\* command and no caller that is gone.
THEOREM TakesTurns == CmdSpec => []OneAtATime
<1>1. ASSUME CmdIInv PROVE OneAtATime
  <2>1. ASSUME Orderly PROVE InTurn /\ NothingMixed /\ CmdTypes
    BY <1>1, <2>1, Zenon DEF CmdIInv
  <2>2. ASSUME Orderly, NEW r \in Range(cmd_mgr.cmds), NEW s \in Range(cmd_mgr.cmds),
               Active(r), Active(s)
        PROVE  r = s
    BY <2>1, <2>2, OneActive, Zenon DEF OnList
  <2>. QED  BY <2>1, <2>2, Zenon DEF OneAtATime, Orderly, NothingMixed
<1>. QED  BY <1>1, CmdInvariant, PTL
====
