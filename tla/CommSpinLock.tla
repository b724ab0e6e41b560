----------------------------- MODULE CommSpinLock -----------------------------
(***************************************************************************)
(* The software spinlocks of drivers/cpu_comm/cpu_comm_hw.c: entries of    *)
(* shared memory claimed by kernel tasks of the ARM.  A step is one store  *)
(* to an entry, or the loads of one decision.  The hardware spinlock taken *)
(* inside enterCritical covers one byte store and is given up before       *)
(* enterCritical returns, and on timeout the store is made without it, so  *)
(* on either path enterCritical is that store.  From enterCritical to      *)
(* leaveCritical a task is in its "window".                                *)
(***************************************************************************)
EXTENDS Integers, FiniteSets

CONSTANTS Tasks,       \* kernel threads that use the locks
          Tgid,        \* current->tgid of each: [Tasks -> thread groups]
          Locks,       \* the ids 5..11 comm_ReqestSpinLock scans, in order
          Overlap,     \* TRUE: the windows of two tasks may overlap, as on SMP
          GivesUp,     \* TRUE: spinLock may exhaust its 10000 retries
          MaxHold,     \* bound: lock calls of one task not yet unlocked
          MaxGrant     \* bound: grants of one lock id

FREE == 2              \* SPINLOCK_FREE
ARM  == 0              \* getCurCPUID(0)
NONE == 255            \* SPINLOCK_HWID_NONE

ASSUME LockAssumption == /\ Locks \subseteq Nat
                         /\ \A t \in Tasks : Tgid[t] # NONE
                         /\ Overlap \in BOOLEAN /\ GivesUp \in BOOLEAN
                         /\ MaxHold \in Nat /\ MaxGrant \in Nat

VARIABLES owner,       \* entry[3]
          ref,         \* entry[4..7]
          tid,         \* entry[8..11]
          pc,          \* where each task is
          lk,          \* the lock id of its current call
          val,         \* ref_count as each task loaded it
          try,         \* TRUE: the current call is comm_TrySpinLock (mode 0)
          held,        \* held[t][l]: lock calls of t on l that took the lock
          owed,        \* owed[t][l]: comm_SpinUnLock calls t has still to make
          granted,     \* granted[l]: times comm_ReqestSpinLock handed out l
          gaveUp       \* TRUE once a lock call failed and its caller went on

entryVars == <<owner, ref, tid>>
callVars  == <<lk, try>>
userVars  == <<held, owed, granted, gaveUp>>
vars      == <<entryVars, pc, val, callVars, userVars>>

Window == {"check", "claim", "reclaim", "count", "store", "acquired", "backoff",
           "ucheck", "uload", "udec", "urelease", "uclear", "unlocked"}

\* comm_InitSpinLock
Init == /\ owner = [l \in Locks |-> FREE]
        /\ ref = [l \in Locks |-> 0]
        /\ tid = [l \in Locks |-> NONE]
        /\ pc = [t \in Tasks |-> "idle"]
        /\ lk \in [Tasks -> Locks]
        /\ val = [t \in Tasks |-> 0]
        /\ try = [t \in Tasks |-> FALSE]
        /\ held = [t \in Tasks |-> [l \in Locks |-> 0]]
        /\ owed = [t \in Tasks |-> [l \in Locks |-> 0]]
        /\ granted = [l \in Locks |-> 0]
        /\ gaveUp = FALSE

Goto(t, s) == pc' = [pc EXCEPT ![t] = s]

MayEnter(t) == Overlap \/ \A u \in Tasks \ {t} : pc[u] \notin Window

-----------------------------------------------------------------------------
(* spinLock                                                                *)

\* A client calls comm_SpinLock/comm_SpinLockMutex, or comm_TrySpinLock.
Call(t, l, m) ==
    /\ pc[t] = "idle"
    /\ owed[t][l] < MaxHold
    /\ lk' = [lk EXCEPT ![t] = l]
    /\ try' = [try EXCEPT ![t] = m]
    /\ Goto(t, "lock")
    /\ UNCHANGED <<entryVars, val, userVars>>

\* enterCritical: owner = our CPU, whatever it was.
enterCritical(t, from, to) ==
    /\ pc[t] = from
    /\ MayEnter(t)
    /\ owner' = [owner EXCEPT ![lk[t]] = ARM]
    /\ Goto(t, to)
    /\ UNCHANGED <<ref, tid, val, callVars, userVars>>

\* leaveCritical: owner = free.
leaveCritical(t, from, to) ==
    /\ pc[t] = from
    /\ owner' = [owner EXCEPT ![lk[t]] = FREE]
    /\ Goto(t, to)
    /\ UNCHANGED <<ref, tid, val, callVars, granted, gaveUp>>

\* spinLock's decision.  An owner that reads free and an entry without thread_id
\* are claimed; thread_id = own tgid is a recursive lock; otherwise back off.
spinLock(t) ==
    LET l == lk[t] IN
    /\ pc[t] = "check"
    /\ Goto(t, CASE owner[l] = FREE -> "reclaim"
                 [] owner[l] = ARM /\ tid[l] = NONE -> "claim"
                 [] owner[l] = ARM /\ tid[l] = Tgid[t] -> "count"
                 [] OTHER -> "backoff")
    /\ UNCHANGED <<entryVars, val, callVars, userVars>>

\* thread_id = tgid; the branch for an owner that read free stores the owner first.
Claim(t) ==
    /\ pc[t] \in {"claim", "reclaim"}
    /\ IF pc[t] = "reclaim"
       THEN owner' = [owner EXCEPT ![lk[t]] = ARM] /\ Goto(t, "claim") /\ UNCHANGED tid
       ELSE tid' = [tid EXCEPT ![lk[t]] = Tgid[t]] /\ Goto(t, "count") /\ UNCHANGED owner
    /\ UNCHANGED <<ref, val, callVars, userVars>>

\* ref_count++ and --ref_count are a load and a store.
Load(t, from, to) ==
    /\ pc[t] = from
    /\ val' = [val EXCEPT ![t] = ref[lk[t]]]
    /\ Goto(t, to)
    /\ UNCHANGED <<entryVars, callVars, userVars>>

Count(t) ==
    /\ pc[t] = "store"
    /\ ref' = [ref EXCEPT ![lk[t]] = val[t] + 1]
    /\ Goto(t, "acquired")
    /\ UNCHANGED <<owner, tid, val, callVars, userVars>>

\* spinLock returns 1 or 2: the caller is in its critical section.
Acquired(t) ==
    /\ leaveCritical(t, "acquired", "idle")
    /\ held' = [held EXCEPT ![t][lk[t]] = @ + 1]
    /\ owed' = [owed EXCEPT ![t][lk[t]] = @ + 1]

\* Somebody else holds it: mode 0 fails, the other modes retry.
BackOff(t) ==
    /\ leaveCritical(t, "backoff", IF try[t] THEN "idle" ELSE "retry")
    /\ UNCHANGED <<held, owed>>

\* spinLock fails with -EIO (negative ref_count) or -EBUSY (too many retries).
\* comm_SpinLock drops the result and comm_TrySpinLock turns it into 1: the
\* caller goes on as if it had the lock, and will unlock it.
FailIgnored(t) ==
    /\ pc[t] \in {"lock", "retry"}
    /\ pc[t] = "lock" => ref[lk[t]] < 0
    /\ pc[t] = "retry" => GivesUp
    /\ owed' = [owed EXCEPT ![t][lk[t]] = @ + 1]
    /\ gaveUp' = TRUE
    /\ Goto(t, "idle")
    /\ UNCHANGED <<entryVars, val, callVars, held, granted>>

comm_SpinLock(t) ==
    \/ \E l \in Locks, m \in BOOLEAN : Call(t, l, m)
    \/ ref[lk[t]] >= 0 /\ enterCritical(t, "lock", "check")
    \/ enterCritical(t, "retry", "check")
    \/ spinLock(t) \/ Claim(t) \/ Load(t, "count", "store") \/ Count(t)
    \/ Acquired(t) \/ BackOff(t) \/ FailIgnored(t)

-----------------------------------------------------------------------------
(* comm_SpinUnLock: nothing checks that the caller is the holder.          *)

UnlockCall(t, l) ==
    /\ pc[t] = "idle"
    /\ owed[t][l] > 0
    /\ owed' = [owed EXCEPT ![t][l] = @ - 1]
    /\ held' = [held EXCEPT ![t][l] = IF @ > 0 THEN @ - 1 ELSE 0]
    /\ lk' = [lk EXCEPT ![t] = l]
    /\ Goto(t, "unlock")
    /\ UNCHANGED <<entryVars, val, try, granted, gaveUp>>

UnlockCheck(t) ==
    LET l == lk[t] IN
    /\ pc[t] = "ucheck"
    /\ Goto(t, IF ref[l] <= 0 \/ owner[l] = FREE \/ tid[l] = NONE THEN "unlocked"
               ELSE "uload")
    /\ UNCHANGED <<entryVars, val, callVars, userVars>>

\* Mutant: any unlock releases the entry.
BugReleaseAlways(t) ==
    /\ pc[t] = "udec"
    /\ ref' = [ref EXCEPT ![lk[t]] = val[t] - 1]
    /\ Goto(t, "urelease")
    /\ UNCHANGED <<owner, tid, val, callVars, userVars>>

UnlockCount(t) ==
    /\ pc[t] = "udec"
    /\ ref' = [ref EXCEPT ![lk[t]] = val[t] - 1]
    /\ Goto(t, IF ref'[lk[t]] = 0 THEN "urelease" ELSE "unlocked")
    /\ UNCHANGED <<owner, tid, val, callVars, userVars>>

\* The last unlock frees the owner byte, then clears thread_id.
UnlockRelease(t) ==
    /\ leaveCritical(t, "urelease", "uclear")
    /\ UNCHANGED <<held, owed>>

UnlockClear(t) ==
    /\ pc[t] = "uclear"
    /\ tid' = [tid EXCEPT ![lk[t]] = NONE]
    /\ Goto(t, "unlocked")
    /\ UNCHANGED <<owner, ref, val, callVars, userVars>>

comm_SpinUnLock(t) ==
    \/ \E l \in Locks : UnlockCall(t, l)
    \/ enterCritical(t, "unlock", "ucheck")
    \/ UnlockCheck(t) \/ Load(t, "uload", "udec") \/ UnlockCount(t)
    \/ UnlockRelease(t) \/ UnlockClear(t)
    \/ leaveCritical(t, "unlocked", "idle") /\ UNCHANGED <<held, owed>>

-----------------------------------------------------------------------------
(* The pool of application locks, under hardware lock 1                    *)

Available(l) == owner[l] = FREE /\ ref[l] = 0 /\ tid[l] = NONE

comm_ReqestSpinLock(t) ==
    /\ pc[t] = "idle"
    /\ \E l \in Locks : /\ Available(l)
                        /\ \A k \in Locks : k < l => ~Available(k)
                        /\ granted[l] < MaxGrant
                        /\ owner' = [owner EXCEPT ![l] = ARM]
                        /\ granted' = [granted EXCEPT ![l] = @ + 1]
    /\ UNCHANGED <<ref, tid, pc, val, callVars, held, owed, gaveUp>>

Next == \E t \in Tasks : comm_SpinLock(t) \/ comm_SpinUnLock(t) \/ comm_ReqestSpinLock(t)

Spec == Init /\ [][Next]_vars

-----------------------------------------------------------------------------
(* Properties                                                              *)

\* Every entry holds values the code gives a meaning to: an owner byte that is a
\* CPU or SPINLOCK_FREE, a thread_id that is a tgid or SPINLOCK_HWID_NONE.
TypeOK == /\ owner \in [Locks -> {ARM, FREE}]
          /\ ref \in [Locks -> Int]
          /\ tid \in [Locks -> {Tgid[t] : t \in Tasks} \cup {NONE}]
          /\ pc \in [Tasks -> Window \cup {"idle", "lock", "retry", "unlock"}]
          /\ lk \in [Tasks -> Locks] /\ try \in [Tasks -> BOOLEAN]
          /\ held \in [Tasks -> [Locks -> 0 .. MaxHold]]
          /\ owed \in [Tasks -> [Locks -> 0 .. MaxHold]] /\ val \in [Tasks -> Int]
          /\ granted \in [Locks -> 0 .. MaxGrant] /\ gaveUp \in BOOLEAN

\* comm_SpinLock is exclusive between thread groups: two tasks of different
\* tgid are never both between a lock call that took the lock and its unlock.
MutualExclusion ==
    \A l \in Locks : \A t, u \in Tasks :
        held[t][l] > 0 /\ held[u][l] > 0 => Tgid[t] = Tgid[u]

\* The lock calls on l that took the lock and are not yet unlocked.
Outstanding(l) == {p \in Tasks \X (1 .. MaxHold) : p[2] <= held[p[1]][l]}

\* With no call in progress, an entry says who holds the lock and how often: the
\* ref_count is the number of outstanding lock calls, thread_id is the thread group
\* of every holder, and "nobody" exactly when there is none.  After a call that gave
\* up this is no longer so, but once nobody holds the lock its entry is clear and it
\* can be taken again.  It is about windows that do not overlap (Overlap = FALSE).
EntryMatchesHolders ==
    /\ TypeOK
    /\ (\A t \in Tasks : pc[t] = "idle") =>
        \A l \in Locks :
            /\ ~gaveUp => /\ ref[l] = Cardinality(Outstanding(l))
                          /\ tid[l] = NONE <=> \A t \in Tasks : held[t][l] = 0
                          /\ \A t \in Tasks : held[t][l] > 0 => tid[l] = Tgid[t]
            /\ (\A t \in Tasks : held[t][l] = 0) => ref[l] = 0 /\ tid[l] = NONE

-----------------------------------------------------------------------------
(* The strengthening the proofs need, for windows that do not overlap.     *)

\* A call that has counted itself, or has yet to uncount itself, owns a token <<t, 0>>
\* of the lock, and each outstanding call one: ref_count is the number of tokens.
Counted == {"acquired", "unlock", "ucheck", "uload", "udec"}
Tokens(l) == {p \in Tasks \X (0 .. MaxHold) :
                IF p[2] = 0 THEN pc[p[1]] \in Counted /\ lk[p[1]] = l
                ELSE p[2] <= held[p[1]][l]}

Locking == {"lock", "retry", "check", "claim", "reclaim", "count", "store", "acquired", "backoff"}

SerialWindows == \A t, u \in Tasks : pc[t] \in Window /\ pc[u] \in Window => t = u
CallsBounded == \A t \in Tasks : /\ \A l \in Locks : held[t][l] <= owed[t][l]
                                 /\ pc[t] \in Locking => owed[t][lk[t]] < MaxHold
OwnsAt(t) ==
    /\ pc[t] # "reclaim"
    /\ pc[t] \in Window \ {"uclear", "unlocked"} => owner[lk[t]] = ARM
    /\ pc[t] \in {"store", "udec"} => val[t] = ref[lk[t]]
    /\ pc[t] \in {"uload", "udec"} => ref[lk[t]] > 0
    /\ pc[t] \in {"urelease", "uclear"} => ref[lk[t]] = 0
    /\ pc[t] = "claim" => tid[lk[t]] = NONE
    /\ pc[t] \in {"count", "store", "acquired"} => tid[lk[t]] = Tgid[t]
WindowOwns == \A t \in Tasks : OwnsAt(t)
EntrySound == \A l \in Locks :
    /\ ref[l] >= 0
    /\ ref[l] > 0 => tid[l] # NONE
    /\ ref[l] = 0 /\ tid[l] # NONE =>
          \E t \in Tasks : lk[t] = l /\ pc[t] \in {"count", "store", "urelease", "uclear"}
    /\ IsFiniteSet(Tokens(l)) /\ ref[l] <= Cardinality(Tokens(l))
HoldersNamed == ~gaveUp =>
    /\ held = owed
    /\ \A l \in Locks : ref[l] = Cardinality(Tokens(l))
    /\ \A l \in Locks, t \in Tasks :
          held[t][l] > 0 \/ (pc[t] \in Counted /\ lk[t] = l) => tid[l] = Tgid[t]

LockIInv == /\ TypeOK /\ SerialWindows /\ CallsBounded /\ WindowOwns /\ EntrySound
            /\ HoldersNamed
==============================================================================
