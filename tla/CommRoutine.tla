------------------------------ MODULE CommRoutine ------------------------------
(***************************************************************************)
(* The routine table of drivers/cpu_comm/cpu_comm_rpc.c: a hash table in   *)
(* shared memory with Primary hashed slots and Overflow chained ones.      *)
(* FindRoutineEx walks it without spinlock 2, so AddInRoutine and          *)
(* RemoveRoutine change it store by store; the copy of an entry is one     *)
(* store.  The two sweeps are one step each, and so are a walk and the     *)
(* first store after it made with the lock held.                           *)
(* Spinlock 2 is a mutex here: what it is when two tasks are in            *)
(* enterCritical together is the subject of CommSpinLock.                  *)
(***************************************************************************)
EXTENDS Integers, FiniteSets

CONSTANTS Clients,     \* processes that use /dev/cpu_comm
          Ids,         \* comp_ids (never 0)
          Cpu,         \* the word at +2 of each id's descriptor: [Ids -> Nat]
          Word,        \* the word at +92 of a caller's descriptor
          Primary,     \* RT_PRIMARY_SLOTS
          Overflow,    \* overflow slots
          Ops,         \* which of "remove", "reset", "release", "find" happen
          MaxAdds      \* bound: calls of AddInRoutine

ASSUME TableAssumption == /\ Ids \subseteq Nat \ {0}
                          /\ Cpu \in [Ids -> Nat] /\ Word \in Int
                          /\ Primary \in Nat \ {0} /\ Overflow \in Nat
                          /\ MaxAdds \in Nat /\ {"free", "leaked"} \cap Clients = {}

MaxIndex == Primary + Overflow - 1           \* RT_MAX_INDEX
Slots    == 0 .. MaxIndex
Free     == "free"                           \* nobody holds spinlock 2
Leaked   == "leaked"                         \* RemoveRoutine returned with it
NameWord == "name"                           \* four bytes of a routine's name

VARIABLES table,       \* id (+8), cpu (+2), pid (+4), word28 (+28), next (+92)
          rtCount,     \* RT_COUNT_OFF
          lock,        \* holder of spinlock 2
          rtpc, arg,   \* per client: where it is, the comp_id it is about
          cur, nxt,    \* per client: cur_idx, next_idx (prev_idx of an insertion)
          op,          \* per client: who called FindRoutineEx, "add" or "find"
          registered,  \* ids added with result 0 and not removed since
          solid,       \* clients whose arg was registered all along their find
          lost,        \* TRUE once a find returned 1 for such a client
          released,    \* clients that do not have the device open
          adds, removed \* AddInRoutine calls made; TRUE after any removal

tableVars == <<table, rtCount>>
walkVars  == <<arg, cur, nxt, op>>
rtGhosts  == <<registered, solid, lost, released, adds, removed>>
rtVars    == <<tableVars, lock, rtpc, walkVars, rtGhosts>>

Empty == [id |-> 0, cpu |-> 0, pid |-> Free, word28 |-> NameWord, next |-> -1]

\* The routine table part of InitCommMem
RtInit == /\ table = [i \in Slots |-> Empty]
          /\ rtCount = 0
          /\ lock = Free
          /\ rtpc = [c \in Clients |-> "idle"]
          /\ arg = [c \in Clients |-> 0]
          /\ cur = [c \in Clients |-> 0]
          /\ nxt = [c \in Clients |-> -1]
          /\ op = [c \in Clients |-> "find"]
          /\ registered = {} /\ solid = {} /\ lost = FALSE
          /\ released \in SUBSET Clients
          /\ adds = 0 /\ removed = FALSE

RtGoto(c, s) == rtpc' = [rtpc EXCEPT ![c] = s]

\* The call of c returns: its locals are gone.
Return(c) == /\ RtGoto(c, "idle")
             /\ arg' = [arg EXCEPT ![c] = 0]
             /\ cur' = [cur EXCEPT ![c] = 0]
             /\ nxt' = [nxt EXCEPT ![c] = -1]
             /\ op' = [op EXCEPT ![c] = "find"]

Hash(id) == id % Primary

Idle(c) == rtpc[c] = "idle" /\ c \notin released

-----------------------------------------------------------------------------
(* FindRoutineEx                                                           *)

\* A lookup, or the duplicate check AddInRoutine makes before it locks.
FindRoutineEx(c, id, o) ==
    /\ Idle(c)
    /\ rtCount <= MaxIndex
    /\ o = "add" => adds < MaxAdds
    /\ o = "find" => o \in Ops
    /\ arg' = [arg EXCEPT ![c] = id]
    /\ cur' = [cur EXCEPT ![c] = Hash(id)]
    /\ op' = [op EXCEPT ![c] = o]
    /\ solid' = IF o = "find" /\ id \in registered THEN solid \cup {c} ELSE solid
    /\ adds' = IF o = "add" THEN adds + 1 ELSE adds
    /\ RtGoto(c, "match")
    /\ UNCHANGED <<tableVars, lock, nxt, registered, lost, released, removed>>

\* A count above RT_MAX_INDEX: "not found" without a look.
FindRefused(c, id) ==
    /\ Idle(c)
    /\ "find" \in Ops
    /\ rtCount > MaxIndex
    /\ lost' = (lost \/ id \in registered)
    /\ UNCHANGED <<tableVars, lock, rtpc, walkVars, registered, solid, released, adds, removed>>

\* Found: a lookup returns 0; AddInRoutine returns 0, "already registered".
FindMatch(c) ==
    /\ rtpc[c] = "match"
    /\ IF table[cur[c]].id = arg[c]
       THEN Return(c) /\ solid' = solid \ {c}
       ELSE RtGoto(c, "follow") /\ UNCHANGED <<walkVars, solid>>
    /\ UNCHANGED <<tableVars, lock, registered, lost, released, adds, removed>>

\* The end of the chain, or a link out of the table: a lookup returns 1 and
\* AddInRoutine goes on to insert.
FindFollow(c) ==
    LET n == table[cur[c]].next IN
    /\ rtpc[c] = "follow"
    /\ CASE n \in Slots -> /\ cur' = [cur EXCEPT ![c] = n] /\ RtGoto(c, "match")
                          /\ UNCHANGED <<arg, nxt, op, solid, lost>>
         [] n \notin Slots /\ op[c] = "add" -> RtGoto(c, "insert")
                                                /\ UNCHANGED <<walkVars, solid, lost>>
         [] n \notin Slots /\ op[c] = "find" -> /\ Return(c)
                                                 /\ lost' = (lost \/ c \in solid)
                                                 /\ solid' = solid \ {c}
    /\ UNCHANGED <<tableVars, lock, registered, released, adds, removed>>

-----------------------------------------------------------------------------
(* AddInRoutine, from comm_SpinLock(2) on                                  *)

\* The walk along the chain of hash h: to the first free slot, off the end, or to an
\* entry whose cpu is above 1.
ChainEnd(h) ==
    LET Walk[k \in 0 .. Cardinality(Slots)] ==
            IF k = 0 THEN [cur |-> h, prev |-> -1]
            ELSE LET w == Walk[k - 1]
                 IN  IF w.cur < 0 \/ table[w.cur].id = 0 \/ table[w.cur].cpu > 1 THEN w
                     ELSE [cur |-> table[w.cur].next, prev |-> w.cur]
    IN  Walk[Cardinality(Slots)]

\* The walk ends in a free slot without a link: the entry goes there.  If it ends off
\* the chain or in a slot with a link, an overflow slot is wanted.
EndsFree(e) == e.cur >= 0 /\ table[e.cur].id = 0 /\ table[e.cur].next = -1
WantsOverflow(e) == e.cur >= 0 => table[e.cur].id = 0 /\ table[e.cur].next # -1

FreeOverflow == {i \in Primary .. MaxIndex : table[i].id = 0}

FirstFree == CHOOSE i \in FreeOverflow : \A j \in FreeOverflow : i <= j

\* The caller's 96 bytes are copied to slot i, the word at +92 with them.
CopyTo(c, i, prev) ==
    /\ table' = [table EXCEPT ![i] = [id |-> arg[c], cpu |-> Cpu[arg[c]], pid |-> c,
                                      word28 |-> NameWord, next |-> Word]]
    /\ cur' = [cur EXCEPT ![c] = i]
    /\ nxt' = [nxt EXCEPT ![c] = prev]
    /\ lock' = c
    /\ RtGoto(c, "settle")
    /\ UNCHANGED <<arg, op>>

\* -2 (no free overflow slot) or -EINVAL (the free one has a link, or the walk met a
\* cpu above 1): unlocked again.
AddFails(c, e) ==
    /\ ~EndsFree(e)
    /\ WantsOverflow(e) /\ FreeOverflow # {} => table[FirstFree].next # -1
    /\ Return(c)
    /\ UNCHANGED <<table, lock>>

\* Lock, walk and copy.  An entry in an overflow slot is linked only from a
\* predecessor: there is none when the hashed slot is free and has a link.
AddInRoutine(c) ==
    LET e == ChainEnd(Hash(arg[c])) IN
    /\ rtpc[c] = "insert"
    /\ lock = Free
    /\ \/ EndsFree(e) /\ CopyTo(c, e.cur, -1)
       \/ /\ WantsOverflow(e)
          /\ FreeOverflow # {}
          /\ table[FirstFree].next = -1
          /\ CopyTo(c, FirstFree, e.prev)
       \/ AddFails(c, e)
    /\ UNCHANGED <<rtCount, rtGhosts>>

\* Mutant: the new entry's link is set to its predecessor.
BugLinksBack(c) ==
    /\ rtpc[c] = "settle"
    /\ table' = [table EXCEPT ![cur[c]].next = nxt[c]]
    /\ RtGoto(c, IF nxt[c] >= 0 THEN "link" ELSE "count")
    /\ UNCHANGED <<rtCount, lock, walkVars, rtGhosts>>

\* The entry ends the chain...
AddSettle(c) ==
    /\ rtpc[c] = "settle"
    /\ table' = [table EXCEPT ![cur[c]].next = -1]
    /\ RtGoto(c, IF nxt[c] >= 0 THEN "link" ELSE "count")
    /\ UNCHANGED <<rtCount, lock, walkVars, rtGhosts>>

\* Mutant: the predecessor is not linked to the new entry.
BugNoLink(c) ==
    /\ rtpc[c] = "link"
    /\ RtGoto(c, "count")
    /\ UNCHANGED <<tableVars, lock, walkVars, rtGhosts>>

\* ... its predecessor is linked to it...
AddLink(c) ==
    /\ rtpc[c] = "link"
    /\ table' = [table EXCEPT ![nxt[c]].next = cur[c]]
    /\ RtGoto(c, "count")
    /\ UNCHANGED <<rtCount, lock, walkVars, rtGhosts>>

\* ... it is counted, and AddInRoutine unlocks and returns 0.
AddCount(c) ==
    /\ rtpc[c] = "count"
    /\ rtCount' = rtCount + 1
    /\ registered' = registered \cup {arg[c]}
    /\ lock' = Free
    /\ Return(c)
    /\ UNCHANGED <<table, solid, lost, released, adds, removed>>

-----------------------------------------------------------------------------
(* RemoveRoutine                                                           *)

\* The slot of id on its own chain, or -1.
Locate(id) ==
    LET Walk[k \in 0 .. Cardinality(Slots)] ==
            IF k = 0 THEN Hash(id)
            ELSE LET i == Walk[k - 1]
                 IN  IF i < 0 \/ table[i].id = id THEN i ELSE table[i].next
    IN  Walk[Cardinality(Slots)]

\* Lock, find the entry and clear its comp_id.  (-1 if there is none.)
RemoveRoutine(c, id) ==
    LET i == Locate(id) IN
    /\ "remove" \in Ops
    /\ Idle(c)
    /\ rtCount <= MaxIndex
    /\ lock = Free
    /\ i >= 0
    /\ table[i].cpu <= 1
    /\ lock' = c
    /\ cur' = [cur EXCEPT ![c] = i]
    /\ nxt' = [nxt EXCEPT ![c] = table[i].next]
    /\ table' = [table EXCEPT ![i].id = 0]
    /\ registered' = registered \ {id}
    /\ solid' = {d \in solid : arg[d] # id}
    /\ removed' = TRUE
    /\ RtGoto(c, IF table[i].next >= 0 THEN "relink" ELSE "uncount")
    /\ UNCHANGED <<rtCount, arg, op, lost, released, adds>>

\* An entry whose cpu is above 1: -EFAULT, with spinlock 2 still taken.  From here on
\* it excludes nobody (its owner's process takes it again, the others go on after
\* 10000 retries): no writer moves any more in the model, and no property but the
\* type invariant speaks of such a state.
RemoveFaults(c, id) ==
    /\ "remove" \in Ops
    /\ Idle(c)
    /\ rtCount <= MaxIndex
    /\ lock = Free
    /\ Locate(id) >= 0
    /\ table[Locate(id)].cpu > 1
    /\ lock' = Leaked
    /\ UNCHANGED <<tableVars, rtpc, walkVars, rtGhosts>>

\* The next entry is copied into the slot with its link...
RemoveRelink(c) ==
    /\ rtpc[c] = "relink"
    /\ table' = [table EXCEPT ![cur[c]] = table[nxt[c]]]
    /\ RtGoto(c, "clear")
    /\ UNCHANGED <<rtCount, lock, walkVars, rtGhosts>>

\* ... the comp_id of the slot it came from is cleared, then its link...
RemoveClear(c) ==
    /\ rtpc[c] = "clear"
    /\ table' = [table EXCEPT ![nxt[c]].id = 0]
    /\ RtGoto(c, "unlink")
    /\ UNCHANGED <<rtCount, lock, walkVars, rtGhosts>>

RemoveUnlink(c) ==
    /\ rtpc[c] = "unlink"
    /\ table' = [table EXCEPT ![nxt[c]].next = -1]
    /\ RtGoto(c, "uncount")
    /\ UNCHANGED <<rtCount, lock, walkVars, rtGhosts>>

\* ... and the count goes down.
RemoveCount(c) ==
    /\ rtpc[c] = "uncount"
    /\ rtCount' = rtCount - 1
    /\ lock' = Free
    /\ Return(c)
    /\ UNCHANGED <<table, rtGhosts>>

-----------------------------------------------------------------------------
(* The two sweeps over the table: they clear comp_ids and touch no link.   *)

\* Mutant: the count is left alone.
BugSweepNoCount(gone) ==
    /\ lock = Free
    /\ table' = [i \in Slots |-> IF i \in gone THEN [table[i] EXCEPT !.id = 0] ELSE table[i]]
    /\ UNCHANGED rtCount
    /\ removed' = TRUE

Sweep(gone) ==
    /\ lock = Free
    /\ table' = [i \in Slots |-> IF i \in gone THEN [table[i] EXCEPT !.id = 0] ELSE table[i]]
    /\ rtCount' = rtCount - Cardinality(gone)
    /\ removed' = TRUE

\* Called by setCPUReset.
RoutineCleanupInCPUReset(cpu) ==
    LET gone == {i \in Slots : table[i].id # 0 /\ table[i].cpu = cpu} IN
    /\ "reset" \in Ops
    /\ gone # {}
    /\ Sweep(gone)
    /\ registered' = {id \in registered : Cpu[id] # cpu}
    /\ solid' = {c \in solid : Cpu[arg[c]] # cpu}
    /\ UNCHANGED <<lock, rtpc, walkVars, lost, released, adds>>

\* cpu_comm_release: the word compared with the pid is the one at +28.
RemovePidRoutines(c) ==
    LET gone == {i \in Slots : table[i].id # 0 /\ table[i].word28 = c} IN
    /\ "release" \in Ops
    /\ Idle(c)
    /\ Sweep(gone)
    /\ registered' = registered \ {table[i].id : i \in gone}
    /\ solid' = {d \in solid : arg[d] \in registered'}
    /\ released' = released \cup {c}
    /\ UNCHANGED <<lock, rtpc, walkVars, lost, adds>>

RtNext == \/ \E c \in Clients :
               \/ \E id \in Ids : \/ \E o \in {"add", "find"} : FindRoutineEx(c, id, o)
                                  \/ FindRefused(c, id)
                                  \/ RemoveRoutine(c, id) \/ RemoveFaults(c, id)
               \/ FindMatch(c) \/ FindFollow(c)
               \/ AddInRoutine(c) \/ AddSettle(c) \/ AddLink(c) \/ AddCount(c)
               \/ RemoveRelink(c) \/ RemoveClear(c) \/ RemoveUnlink(c) \/ RemoveCount(c)
               \/ RemovePidRoutines(c)
          \/ \E cpu \in 0 .. 1 : RoutineCleanupInCPUReset(cpu)

RtSpec == RtInit /\ [][RtNext]_rtVars

-----------------------------------------------------------------------------
(* Properties                                                              *)

\* Every link is -1 or a slot of the table, but for the word a caller left at +92
\* until AddInRoutine has replaced it, and every walk stays inside the table; the
\* count is never negative and never above the number of slots.
RtTypeOK == /\ table \in [Slots -> [id : Ids \cup {0}, cpu : Nat, pid : Clients \cup {Free},
                                    word28 : {NameWord}, next : Slots \cup {-1, Word}]]
            /\ \A i \in Slots : \/ table[i].next \in Slots \cup {-1}
                               \/ \E c \in Clients : rtpc[c] = "settle" /\ cur[c] = i
            /\ rtCount \in 0 .. Cardinality(Slots)
            /\ lock \in Clients \cup {Free, Leaked}
            /\ rtpc \in [Clients -> {"idle", "match", "follow", "insert", "settle", "link",
                                     "count", "relink", "clear", "unlink", "uncount"}]
            /\ arg \in [Clients -> Ids \cup {0}] /\ op \in [Clients -> {"add", "find"}]
            /\ cur \in [Clients -> Slots] /\ nxt \in [Clients -> Slots \cup {-1}]
            /\ registered \subseteq Ids /\ solid \subseteq Clients /\ lost \in BOOLEAN
            /\ released \subseteq Clients /\ adds \in 0 .. MaxAdds /\ removed \in BOOLEAN

Live == {i \in Slots : table[i].id # 0}

\* The table's count, which every operation compares with RT_MAX_INDEX, is the
\* number of occupied slots whenever no writer is inside spinlock 2.
CountAccurate == lock = Free => rtCount = Cardinality(Live)

\* The slots that do not hold a caller's own word at +92 as their link.
Settled == {i \in Slots : ~\E c \in Clients : rtpc[c] = "settle" /\ cur[c] = i}

\* No chain of settled slots loops, whatever was added, removed or swept, and also
\* between the stores of an insertion or a removal: of any such slots there is one
\* whose link does not lead to one of them, so the while (1) of FindRoutineEx and
\* RemoveRoutine comes to an end.
ChainsAcyclic == lock # Leaked =>
    \A S \in SUBSET Settled : S # {} => \E i \in S : table[i].next \notin S

\* An id AddInRoutine accepted and nobody removed is found on its chain.
RegisteredFindable == lock = Free => \A id \in registered : Locate(id) >= 0

\* As long as nothing has been removed or swept, every id AddInRoutine accepted is on
\* its chain; and FindRoutineEx, which walks without the lock while AddInRoutine fills
\* slots and links them, finds an id that was registered from its first step to its
\* last.  Once the table is full, and only then, it finds nothing: the count is above
\* RT_MAX_INDEX.
FindableUntilRemoval ==
    ~removed /\ lock # Leaked => /\ \A id \in registered : Locate(id) >= 0
                                 /\ lost => rtCount > MaxIndex
-----------------------------------------------------------------------------
(* The inductive invariant                                                 *)

Adding(c)   == rtpc[c] \in {"settle", "link", "count"}
Removing(c) == rtpc[c] \in {"relink", "clear", "unlink", "uncount"}
Walking(c)  == rtpc[c] \in {"match", "follow"}

\* What a client has in hand: where it is says whether it has the lock, and a writer has
\* the links to itself.
InHand(c) ==
    /\ Adding(c) \/ Removing(c) <=> lock = c
    /\ Walking(c) \/ Adding(c) \/ rtpc[c] = "insert" => arg[c] \in Ids
    /\ Adding(c) => table[cur[c]].id # 0
    /\ rtpc[c] = "settle" => nxt[c] # cur[c]
    /\ rtpc[c] = "link" => table[cur[c]].next = -1
    /\ rtpc[c] = "relink" => table[cur[c]].id = 0 /\ table[cur[c]].next = nxt[c]
    /\ rtpc[c] \in {"link", "relink", "clear", "unlink"} => nxt[c] \in Slots \ {cur[c]}
Holds == \A c \in Clients : InHand(c)

\* An insertion's entry is not counted before its end; the entry a removal has cleared
\* is still counted, and the one it moves once.
CountOf(c) ==
    /\ Adding(c) => rtCount + 1 = Cardinality(Live)
    /\ rtpc[c] \in {"relink", "unlink", "uncount"} => rtCount = Cardinality(Live) + 1
    /\ rtpc[c] = "clear" => rtCount = Cardinality(Live \ {nxt[c]}) + 1
Counted == /\ lock \in {Free, Leaked} => rtCount = Cardinality(Live)
           /\ \A c \in Clients : CountOf(c)

\* A walk from slot i comes to id: it is in every set of slots that holds i and the
\* successor of each of its slots that has another id.
Closed(S, id) == \A j \in S : table[j].id # id /\ table[j].next # -1 => table[j].next \in S
Finds(i, id) ==
    \A S \in SUBSET Slots : i \in S /\ Closed(S, id) => \E j \in S : table[j].id = id

\* A lookup of an id that was registered when it began comes to it.
OnItsWay(c) == /\ Walking(c) /\ op[c] = "find" /\ Finds(cur[c], arg[c])
               /\ rtpc[c] = "follow" => table[cur[c]].id # arg[c]

\* The slot an insertion fills is on nobody's way until it is linked, and the chain of
\* its id leads to it, or to the slot that will be linked to it.
OffTheWay(k) == /\ \A id \in registered : Hash(id) # k
                /\ \A d \in solid : cur[d] # k
                /\ \A i \in Slots \ {k} : table[i].next # k
Inserts(c) ==
    /\ rtpc[c] = "settle" => OffTheWay(cur[c])
    /\ rtpc[c] \in {"settle", "link"} /\ nxt[c] # -1 =>
          table[nxt[c]].next = -1 /\ table[nxt[c]].id # 0
    /\ Adding(c) =>
          /\ table[cur[c]].id = arg[c]
          /\ \A S \in SUBSET Slots : Hash(arg[c]) \in S /\ Closed(S, arg[c]) =>
                 \/ \E j \in S : table[j].id = arg[c]
                 \/ rtpc[c] # "count" /\ nxt[c] \in S

\* Before the first removal the free slots are not linked and every chain is full.
Grown ==
    /\ \A c \in Clients : ~Removing(c)
    /\ \A i \in Slots : table[i].id = 0 => table[i].next = -1
    /\ \A i \in Settled : table[i].next # -1 => table[table[i].next].id # 0
    /\ \A id \in registered : Finds(Hash(id), id)
    /\ \A c \in solid : OnItsWay(c)
    /\ \A c \in Clients : Inserts(c)
    /\ lost => rtCount > MaxIndex

RtIInv == RtTypeOK /\ Holds /\ Counted /\ ChainsAcyclic /\ (~removed => Grown)
===============================================================================
