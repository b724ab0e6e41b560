--------------------------- MODULE Platform_proof ---------------------------
(***************************************************************************)
(* Proofs about the spinlocks of cpu_comm_hw.c (CommSpinLock), the start   *)
(* of the two CPUs (CommBoot) and the queue of the keystone motor          *)
(* (KeystoneMotor).                                                        *)
(*                                                                         *)
(* The spinlocks are for any number of tasks, thread groups and locks,     *)
(* provided that no two enterCritical..leaveCritical windows overlap.  The *)
(* inductive invariant LockIInv counts tokens: ref_count is the number of  *)
(* lock calls that have counted themselves, and as long as nobody gave up  *)
(* each of them has its thread group in the entry.                         *)
(*                                                                         *)
(* BootSound holds for every content of the status words at power-on and   *)
(* any number of resets: the inductive invariant BootIInv says how far the *)
(* MIPS can be while the ARM is still setting up, and what the bits of its *)
(* word mean once the ARM has wiped it.                                    *)
(*                                                                         *)
(* MotorQueueSound holds for any number of writers and any queue length:   *)
(* the inductive invariant MotorIInv keeps room for every writer that      *)
(* passed the test of motor_enqueue, and a writer for every command that   *)
(* no work item will run.                                                  *)
(***************************************************************************)
EXTENDS CommBoot, KeystoneMotor, CommSpinLock, FiniteSetTheorems, TLAPS

-----------------------------------------------------------------------------
(* The spinlocks. *)

\* While a task is inside its window, no other task is.
LEMMA Alone ==
    ASSUME LockIInv, NEW t \in Tasks, pc[t] \in Window
    PROVE  \A u \in Tasks : u # t => pc[u] \notin Window
BY Zenon DEF LockIInv, SerialWindows

\* If only t may be inside a window after a step, only t can break WindowOwns.
LEMMA OwnsKept ==
    ASSUME NEW t \in Tasks, \A u \in Tasks : u # t => pc'[u] \notin Window, OwnsAt(t)'
    PROVE  WindowOwns'
<1>. SUFFICES ASSUME NEW u \in Tasks, u # t PROVE OwnsAt(u)'
  BY Zenon DEF WindowOwns
<1>1. /\ pc'[u] \notin Window \ {"uclear", "unlocked"} /\ pc'[u] \notin {"store", "udec", "uload"}
      /\ pc'[u] \notin {"reclaim", "claim", "urelease", "uclear"}
      /\ pc'[u] \notin {"count", "store", "acquired"}
  BY DEF Window
<1>. QED  BY <1>1 DEF OwnsAt

\* The tokens depend on the calls in progress and the locks held.
LEMMA TokensSame ==
    ASSUME lk' = lk, held' = held, \A u \in Tasks : pc'[u] \in Counted <=> pc[u] \in Counted
    PROVE  \A k \in Locks : Tokens(k)' = Tokens(k)
BY Zenon DEF Tokens

\* A call of t on lk[t] that is no longer in progress gives up its token.
LEMMA TokensLess ==
    ASSUME NEW t \in Tasks, lk' = lk, held' = held, pc[t] \in Counted, pc'[t] \notin Counted,
           \A u \in Tasks : u # t => pc'[u] = pc[u]
    PROVE  /\ Tokens(lk[t])' = Tokens(lk[t]) \ {<<t, 0>>}
           /\ \A k \in Locks : k # lk[t] => Tokens(k)' = Tokens(k)
<1>1. ASSUME NEW p \in Tasks \X (0 .. MaxHold), p # <<t, 0>>, NEW k
      PROVE  p \in Tokens(k)' <=> p \in Tokens(k)
  <2>1. p[1] \in Tasks /\ (p[1] = t => p[2] # 0)
    BY <1>1
  <2>. QED  BY <2>1 DEF Tokens
<1>2. <<t, 0>> \notin Tokens(lk[t])' /\ \A k : k # lk[t] => <<t, 0>> \notin Tokens(k) /\ <<t, 0>> \notin Tokens(k)'
  BY DEF Tokens
<1>3. \A k : Tokens(k) \subseteq Tasks \X (0 .. MaxHold) /\ Tokens(k)' \subseteq Tasks \X (0 .. MaxHold)
  BY Zenon DEF Tokens
<1>4. Tokens(lk[t])' = Tokens(lk[t]) \ {<<t, 0>>}
  BY <1>1, <1>2, <1>3
<1>5. ASSUME NEW k \in Locks, k # lk[t] PROVE Tokens(k)' = Tokens(k)
  <2>1. ASSUME NEW p \in Tasks \X (0 .. MaxHold) PROVE p \in Tokens(k)' <=> p \in Tokens(k)
    BY <1>1, <1>2, <1>5, Zenon
  <2>. QED  BY <2>1, <1>3
<1>. QED  BY <1>4, <1>5, Zenon

\* comm_InitSpinLock: every entry is clear.
LEMMA LockInitInv == Init => LockIInv
<1>. SUFFICES ASSUME Init PROVE LockIInv
  BY Zenon
<1>1. TypeOK
  <2>1. 0 \in 0 .. MaxHold /\ 0 \in 0 .. MaxGrant
    BY LockAssumption
  <2>2. /\ owner \in [Locks -> {ARM, FREE}] /\ ref \in [Locks -> Int]
        /\ tid \in [Locks -> {Tgid[t] : t \in Tasks} \cup {NONE}]
        /\ lk \in [Tasks -> Locks] /\ val \in [Tasks -> Int]
    BY DEF Init, ARM, FREE, NONE
  <2>3. pc \in [Tasks -> Window \cup {"idle", "lock", "retry", "unlock"}]
    BY Zenon DEF Init
  <2>4. /\ held \in [Tasks -> [Locks -> 0 .. MaxHold]] /\ owed \in [Tasks -> [Locks -> 0 .. MaxHold]]
        /\ granted \in [Locks -> 0 .. MaxGrant]
    BY <2>1, Zenon DEF Init
  <2>5. try \in [Tasks -> BOOLEAN] /\ gaveUp \in BOOLEAN
    BY Zenon DEF Init
  <2>. QED  BY <2>2, <2>3, <2>4, <2>5, Zenon DEF TypeOK
<1>2. \A t \in Tasks : pc[t] = "idle"
  BY Zenon DEF Init
<1>3. \A l \in Locks : Tokens(l) = {}
  <2>. SUFFICES ASSUME NEW l \in Locks, NEW p \in Tokens(l) PROVE FALSE
    BY Zenon
  <2>1. p \in Tasks \X (0 .. MaxHold)
    BY Zenon DEF Tokens
  <2>2. p[1] \in Tasks /\ p[2] \in 0 .. MaxHold
    BY <2>1, Zenon
  <2>3. held[p[1]][l] = 0 /\ pc[p[1]] = "idle"
    BY <2>2, <1>2, Zenon DEF Init
  <2>. QED  BY <2>2, <2>3, LockAssumption DEF Tokens, Counted
<1>4. \A l \in Locks : IsFiniteSet(Tokens(l)) /\ Cardinality(Tokens(l)) = 0
  BY <1>3, FS_EmptySet, Zenon
<1>5. SerialWindows /\ CallsBounded /\ WindowOwns
  BY <1>2, LockAssumption DEF Init, SerialWindows, CallsBounded, WindowOwns, OwnsAt, Window, Locking
<1>6. EntrySound /\ HoldersNamed
  BY <1>2, <1>4 DEF Init, EntrySound, HoldersNamed, Counted
<1>. QED  BY <1>1, <1>5, <1>6, Zenon DEF LockIInv

\* A step that leaves ref_count, thread_id and the tokens alone keeps every entry
\* sound, if the task that explains a thread_id without count stays where it is.
LEMMA EntryStable ==
    ASSUME LockIInv, ref' = ref, tid' = tid, \A l \in Locks : Tokens(l)' = Tokens(l),
           \A u \in Tasks : pc[u] \in {"count", "store", "urelease", "uclear"} =>
                pc'[u] \in {"count", "store", "urelease", "uclear"} /\ lk'[u] = lk[u]
    PROVE  EntrySound'
BY DEF LockIInv, EntrySound

\* A task starts comm_SpinLock or comm_TrySpinLock.
LEMMA CallInv ==
    ASSUME LockIInv, NEW t \in Tasks, NEW l \in Locks, NEW m \in BOOLEAN, Call(t, l, m)
    PROVE  LockIInv'
<1>. USE DEF LockIInv
<1>0. /\ pc[t] = "idle" /\ pc'[t] = "lock" /\ lk'[t] = l /\ owed[t][l] < MaxHold
      /\ \A u \in Tasks : u # t => pc'[u] = pc[u] /\ lk'[u] = lk[u]
      /\ UNCHANGED <<owner, ref, tid, val, held, owed, granted, gaveUp>>
  BY Zenon DEF Call, Goto, TypeOK, entryVars, userVars
<1>1. TypeOK'
  BY Zenon DEF Call, Goto, TypeOK, entryVars, userVars
<1>2. SerialWindows'
  BY <1>0, Zenon DEF SerialWindows, Window
<1>3. CallsBounded'
  BY <1>0, Zenon DEF CallsBounded, Locking
<1>4. WindowOwns'
  BY <1>0, ZenonT(30) DEF WindowOwns, OwnsAt, Window
<1>5. \A k \in Locks : Tokens(k)' = Tokens(k)
  BY <1>0, Zenon DEF Tokens, Counted
<1>6. EntrySound'
  BY <1>0, <1>5, EntryStable, Zenon
<1>7. HoldersNamed'
  BY <1>0, <1>5 DEF HoldersNamed, Counted
<1>. QED  BY <1>1, <1>2, <1>3, <1>4, <1>6, <1>7, Zenon

\* enterCritical opens a window when no other is open.
LEMMA EnterInv ==
    ASSUME Overlap = FALSE, LockIInv, NEW t \in Tasks,
           \/ enterCritical(t, "lock", "check") \/ enterCritical(t, "retry", "check")
           \/ enterCritical(t, "unlock", "ucheck")
    PROVE  LockIInv'
<1>. USE DEF LockIInv
<1>0. /\ \/ pc[t] \in {"lock", "retry"} /\ pc'[t] = "check"
         \/ pc[t] = "unlock" /\ pc'[t] = "ucheck"
      /\ \A u \in Tasks : u # t => pc'[u] = pc[u] /\ pc[u] \notin Window
      /\ owner' = [owner EXCEPT ![lk[t]] = ARM]
      /\ UNCHANGED <<ref, tid, val, lk, try, held, owed, granted, gaveUp>>
  BY Zenon DEF enterCritical, MayEnter, Goto, TypeOK, callVars, userVars
<1>1. TypeOK'
  BY <1>0, Zenon DEF enterCritical, Goto, TypeOK, Window
<1>2. SerialWindows'
  BY <1>0, Zenon DEF SerialWindows
<1>3. CallsBounded'
  BY <1>0, Zenon DEF CallsBounded, Locking
<1>4. WindowOwns'
  <2>1. lk[t] \in Locks /\ owner'[lk[t]] = ARM
    BY <1>0 DEF TypeOK
  <2>2. OwnsAt(t)'
    BY <1>0, <2>1 DEF OwnsAt
  <2>. QED  BY <1>0, <2>2, OwnsKept
<1>5. \A k \in Locks : Tokens(k)' = Tokens(k)
  BY <1>0, TokensSame DEF Counted
<1>6. EntrySound'
  BY <1>0, <1>5, EntryStable, Zenon
<1>7. HoldersNamed'
  BY <1>0, <1>5 DEF HoldersNamed, Counted
<1>. QED  BY <1>1, <1>2, <1>3, <1>4, <1>6, <1>7, Zenon

\* The steps inside a window that touch neither the count nor the thread_id: the
\* decision of spinLock, the load of ref_count and the stores of the owner byte.
LEMMA WindowInv ==
    ASSUME LockIInv, NEW t \in Tasks,
           \/ spinLock(t) \/ Load(t, "count", "store") \/ Load(t, "uload", "udec") \/ BackOff(t)
           \/ UnlockRelease(t)
           \/ leaveCritical(t, "unlocked", "idle") /\ UNCHANGED <<held, owed>>
    PROVE  LockIInv'
<1>. USE DEF LockIInv
<1>0. /\ \/ pc[t] = "check" /\ pc'[t] \in {"claim", "backoff"} /\ owner' = owner /\ val' = val
            /\ (pc'[t] = "claim" => tid[lk[t]] = NONE)
         \/ pc[t] = "check" /\ pc'[t] = "count" /\ owner' = owner /\ val' = val
            /\ tid[lk[t]] = Tgid[t]
         \/ pc[t] = "count" /\ pc'[t] = "store" /\ owner' = owner /\ val'[t] = ref[lk[t]]
         \/ pc[t] = "uload" /\ pc'[t] = "udec" /\ owner' = owner /\ val'[t] = ref[lk[t]]
         \/ pc[t] = "backoff" /\ pc'[t] \in {"idle", "retry"} /\ val' = val
         \/ pc[t] = "urelease" /\ pc'[t] = "uclear" /\ val' = val
         \/ pc[t] = "unlocked" /\ pc'[t] = "idle" /\ val' = val
      /\ \A u \in Tasks : u # t => pc'[u] = pc[u]
      /\ UNCHANGED <<ref, tid, lk, try, held, owed, granted, gaveUp>>
  <2>1. CASE spinLock(t)
    <3>1. owner[lk[t]] = ARM /\ owner[lk[t]] # FREE
      BY <2>1 DEF spinLock, WindowOwns, OwnsAt, Window, ARM, FREE
    <3>. QED  BY <2>1, <3>1 DEF spinLock, Goto, TypeOK, entryVars, callVars, userVars
  <2>2. CASE Load(t, "count", "store") \/ Load(t, "uload", "udec")
    BY <2>2, Zenon DEF Load, Goto, TypeOK, entryVars, callVars, userVars
  <2>3. CASE BackOff(t)
    BY <2>3, Zenon DEF BackOff, leaveCritical, Goto, TypeOK, callVars
  <2>4. CASE leaveCritical(t, "unlocked", "idle") /\ UNCHANGED <<held, owed>>
    BY <2>4, Zenon DEF leaveCritical, Goto, TypeOK, callVars
  <2>5. CASE UnlockRelease(t)
    BY <2>5, Zenon DEF UnlockRelease, leaveCritical, Goto, TypeOK, callVars
  <2>. QED  BY <2>1, <2>2, <2>3, <2>4, <2>5, Zenon
<1>9. \A u \in Tasks : u # t => pc[u] \notin Window
  BY <1>0, Alone, Zenon DEF Window
<1>1. TypeOK'
  <2>1. pc' \in [Tasks -> Window \cup {"idle", "lock", "retry", "unlock"}]
    BY <1>0, Zenon DEF spinLock, Load, BackOff, UnlockRelease, leaveCritical, Goto, TypeOK, Window
  <2>2. owner' \in [Locks -> {ARM, FREE}]
    BY Zenon DEF spinLock, Load, BackOff, UnlockRelease, leaveCritical, TypeOK, entryVars
  <2>3. val' \in [Tasks -> Int]
    BY DEF spinLock, Load, BackOff, UnlockRelease, leaveCritical, TypeOK
  <2>. QED  BY <1>0, <2>1, <2>2, <2>3, Zenon DEF TypeOK
<1>2. SerialWindows'
  BY <1>0, <1>9, Zenon DEF SerialWindows
<1>3. CallsBounded'
  BY <1>0, Zenon DEF CallsBounded, Locking
<1>4. WindowOwns'
  <2>1. OwnsAt(t)'
    BY <1>0 DEF WindowOwns, OwnsAt, Window
  <2>. QED  BY <1>0, <1>9, <2>1, OwnsKept
<1>5. \A k \in Locks : Tokens(k)' = Tokens(k)
  BY <1>0, TokensSame DEF Counted
<1>6. EntrySound'
  BY <1>0, <1>5, EntryStable, Zenon
<1>7. HoldersNamed'
  BY <1>0, <1>5, ZenonT(30) DEF HoldersNamed, Counted
<1>. QED  BY <1>1, <1>2, <1>3, <1>4, <1>6, <1>7, Zenon

\* A claim puts the thread group into an entry that names nobody.
LEMMA ClaimInv == ASSUME LockIInv, NEW t \in Tasks, Claim(t) PROVE LockIInv'
<1>. USE DEF LockIInv
<1>0. /\ pc[t] = "claim" /\ pc'[t] = "count" /\ owner' = owner
      /\ lk[t] \in Locks /\ tid[lk[t]] = NONE /\ tid' = [tid EXCEPT ![lk[t]] = Tgid[t]]
      /\ pc' = [pc EXCEPT ![t] = "count"] /\ \A u \in Tasks : u # t => pc'[u] = pc[u]
      /\ UNCHANGED <<ref, val, lk, try, held, owed, granted, gaveUp>>
  BY Zenon DEF Claim, Goto, TypeOK, WindowOwns, OwnsAt, callVars, userVars
<1>9. \A u \in Tasks : u # t => pc[u] \notin Window
  BY <1>0, Alone, Zenon DEF Window
<1>8. tid'[lk[t]] = Tgid[t] /\ Tgid[t] # NONE /\ \A k \in Locks : k # lk[t] => tid'[k] = tid[k]
  BY <1>0, LockAssumption, Zenon DEF TypeOK
<1>1. TypeOK'
  <2>1. /\ tid' \in [Locks -> {Tgid[u] : u \in Tasks} \cup {NONE}]
        /\ pc' \in [Tasks -> Window \cup {"idle", "lock", "retry", "unlock"}]
    <3>1. /\ Tgid[t] \in {Tgid[u] : u \in Tasks} \cup {NONE}
          /\ "count" \in Window \cup {"idle", "lock", "retry", "unlock"}
      BY Zenon DEF Window
    <3>. QED  BY <1>0, <3>1, Zenon DEF TypeOK
  <2>. QED  BY <1>0, <2>1, Zenon DEF TypeOK
<1>2. SerialWindows'
  BY <1>0, <1>9, Zenon DEF SerialWindows
<1>3. CallsBounded'
  BY <1>0, Zenon DEF CallsBounded, Locking
<1>4. WindowOwns'
  <2>1. owner[lk[t]] = ARM
    BY <1>0 DEF WindowOwns, OwnsAt, Window
  <2>2. OwnsAt(t)'
    BY <1>0, <1>8, <2>1 DEF OwnsAt
  <2>. QED  BY <1>0, <1>9, <2>2, OwnsKept
<1>5. \A k \in Locks : Tokens(k)' = Tokens(k)
  BY <1>0, Zenon DEF Tokens, Counted
<1>6. EntrySound'
  BY <1>0, <1>5, <1>8, <1>9, ZenonT(30) DEF EntrySound, Window
<1>7. HoldersNamed'
  <2>1. \A u \in Tasks : pc'[u] \in Counted <=> pc[u] \in Counted
    BY <1>0 DEF Counted
  <2>2. ASSUME ~gaveUp, NEW k \in Locks, NEW u \in Tasks,
               held[u][k] > 0 \/ (pc[u] \in Counted /\ lk[u] = k)
        PROVE  tid'[k] = Tgid[u]
    <3>1. tid[k] = Tgid[u] /\ Tgid[u] # NONE
      BY <2>2, LockAssumption, Zenon DEF HoldersNamed
    <3>. QED  BY <3>1, <1>0, <1>8, Zenon
  <2>. QED  BY <1>0, <1>5, <2>1, <2>2 DEF HoldersNamed
<1>. QED  BY <1>1, <1>2, <1>3, <1>4, <1>6, <1>7, Zenon

\* The count of a lock call: ref_count grows with the tokens.
LEMMA CountInv == ASSUME LockIInv, NEW t \in Tasks, Count(t) PROVE LockIInv'
<1>. USE DEF LockIInv
<1>. PICK l \in Locks : l = lk[t]
  BY Zenon DEF TypeOK
<1>0. /\ pc[t] = "store" /\ pc'[t] = "acquired" /\ l = lk[t]
      /\ val[t] = ref[l] /\ ref[l] \in Int /\ ref' = [ref EXCEPT ![l] = ref[l] + 1]
      /\ \A u \in Tasks : u # t => pc'[u] = pc[u]
      /\ UNCHANGED <<owner, tid, val, lk, try, held, owed, granted, gaveUp>>
  BY Zenon DEF Count, Goto, TypeOK, WindowOwns, OwnsAt, callVars, userVars
<1>9. \A u \in Tasks : u # t => pc[u] \notin Window
  BY <1>0, Alone, Zenon DEF Window
<1>8. ref'[l] = ref[l] + 1 /\ \A k \in Locks : k # l => ref'[k] = ref[k]
  BY <1>0, Zenon DEF TypeOK
<1>1. TypeOK'
  BY <1>0 DEF Count, Goto, TypeOK, Window
<1>2. SerialWindows'
  BY <1>0, <1>9, Zenon DEF SerialWindows
<1>3. CallsBounded'
  BY <1>0, Zenon DEF CallsBounded, Locking
<1>4. WindowOwns'
  <2>1. owner[lk[t]] = ARM /\ tid[lk[t]] = Tgid[t]
    BY <1>0 DEF WindowOwns, OwnsAt, Window
  <2>2. OwnsAt(t)'
    BY <1>0, <2>1 DEF OwnsAt
  <2>. QED  BY <1>0, <1>9, <2>2, OwnsKept
<1>5. /\ Tokens(l)' = Tokens(l) \cup {<<t, 0>>} /\ <<t, 0>> \notin Tokens(l)
      /\ \A k \in Locks : k # l => Tokens(k)' = Tokens(k)
  BY <1>0, LockAssumption DEF Tokens, Counted
<1>6. IsFiniteSet(Tokens(l)') /\ Cardinality(Tokens(l)') = Cardinality(Tokens(l)) + 1
  <2>1. IsFiniteSet(Tokens(l))
    BY Zenon DEF EntrySound
  <2>2. /\ IsFiniteSet(Tokens(l) \cup {<<t, 0>>})
        /\ Cardinality(Tokens(l) \cup {<<t, 0>>}) = Cardinality(Tokens(l)) + 1
    BY <2>1, <1>5, FS_AddElement, Zenon
  <2>. QED  BY <2>2, <1>5, Zenon
<1>7. EntrySound'
  <2>. SUFFICES ASSUME NEW k \in Locks
                PROVE  /\ ref'[k] >= 0
                       /\ ref'[k] > 0 => tid'[k] # NONE
                       /\ ref'[k] = 0 /\ tid'[k] # NONE =>
                            \E u \in Tasks : lk'[u] = k /\ pc'[u] \in {"count", "store", "urelease", "uclear"}
                       /\ IsFiniteSet(Tokens(k)') /\ ref'[k] <= Cardinality(Tokens(k)')
    BY Zenon DEF EntrySound
  <2>1. CASE k = l
    <3>1. ref[l] >= 0 /\ ref[l] <= Cardinality(Tokens(l)) /\ Cardinality(Tokens(l)) \in Nat
      BY <1>0, FS_CardinalityType, Zenon DEF EntrySound
    <3>2. tid'[l] # NONE
      BY <1>0, LockAssumption DEF WindowOwns, OwnsAt
    <3>. QED  BY <2>1, <3>1, <3>2, <1>0, <1>6, <1>8
  <2>2. CASE k # l
    BY <2>2, <1>0, <1>5, <1>8, <1>9 DEF EntrySound
  <2>. QED  BY <2>1, <2>2, Zenon
<1>10. HoldersNamed'
  <2>1. ~gaveUp => \A k \in Locks : ref'[k] = Cardinality(Tokens(k)')
    BY <1>0, <1>5, <1>6, <1>8, Zenon DEF HoldersNamed
  <2>2. tid[l] = Tgid[t]
    BY <1>0, Zenon DEF WindowOwns, OwnsAt
  <2>. QED  BY <1>0, <2>1, <2>2 DEF HoldersNamed, Counted
<1>. QED  BY <1>1, <1>2, <1>3, <1>4, <1>7, <1>10, Zenon

\* Exchanging a member of a finite set for a new one keeps the cardinality.
LEMMA Exchange ==
    ASSUME NEW S, IsFiniteSet(S), NEW x \in S, NEW y, y \notin S
    PROVE  IsFiniteSet((S \ {x}) \cup {y}) /\ Cardinality((S \ {x}) \cup {y}) = Cardinality(S)
<1>1. IsFiniteSet(S \ {x}) /\ Cardinality(S \ {x}) = Cardinality(S) - 1
  BY FS_RemoveElement, Zenon
<1>2. y \notin S \ {x} /\ Cardinality(S) \in Nat
  BY FS_CardinalityType, Zenon
<1>3. /\ IsFiniteSet((S \ {x}) \cup {y})
      /\ Cardinality((S \ {x}) \cup {y}) = Cardinality(S \ {x}) + 1
  BY <1>1, <1>2, FS_AddElement, Zenon
<1>. QED  BY <1>1, <1>2, <1>3

\* The tokens of every lock are counted as before, so every entry stays sound.
LEMMA EntryKept ==
    ASSUME LockIInv, ref' = ref, tid' = tid,
           \A l \in Locks : IsFiniteSet(Tokens(l)') /\ Cardinality(Tokens(l)') = Cardinality(Tokens(l)),
           \A u \in Tasks : pc[u] \in {"count", "store", "urelease", "uclear"} =>
                pc'[u] \in {"count", "store", "urelease", "uclear"} /\ lk'[u] = lk[u]
    PROVE  EntrySound'
BY DEF LockIInv, EntrySound

\* The end of spinLock: the token of the call in progress becomes that of an
\* outstanding one.
LEMMA AcquiredInv == ASSUME LockIInv, NEW t \in Tasks, Acquired(t) PROVE LockIInv'
<1>. USE DEF LockIInv
<1>. PICK l \in Locks : l = lk[t]
  BY Zenon DEF TypeOK
<1>. PICK h \in 0 .. MaxHold : h = held[t][l]
  BY Zenon DEF TypeOK
<1>0. /\ pc[t] = "acquired" /\ pc'[t] = "idle" /\ l = lk[t]
      /\ \A u \in Tasks : u # t => pc'[u] = pc[u]
      /\ UNCHANGED <<ref, tid, val, lk, try, granted, gaveUp>>
  BY Zenon DEF Acquired, leaveCritical, Goto, TypeOK, callVars
<1>9. \A u \in Tasks : u # t => pc[u] \notin Window
  BY <1>0, Alone, Zenon DEF Window
<1>8. h + 1 \in 0 .. MaxHold /\ h <= owed[t][l] /\ owed[t][l] + 1 \in 0 .. MaxHold
  BY <1>0, LockAssumption DEF TypeOK, CallsBounded, Locking
<1>11. /\ held'[t][l] = h + 1 /\ owed'[t][l] = owed[t][l] + 1
       /\ \A u \in Tasks, k \in Locks : u # t \/ k # l =>
             held'[u][k] = held[u][k] /\ owed'[u][k] = owed[u][k]
  BY <1>0, Zenon DEF Acquired, TypeOK
<1>1. TypeOK'
  <2>1. held' \in [Tasks -> [Locks -> 0 .. MaxHold]] /\ owed' \in [Tasks -> [Locks -> 0 .. MaxHold]]
    BY <1>0, <1>8, Zenon DEF Acquired, TypeOK
  <2>2. owner' \in [Locks -> {ARM, FREE}] /\ pc' \in [Tasks -> Window \cup {"idle", "lock", "retry", "unlock"}]
    BY Zenon DEF Acquired, leaveCritical, Goto, TypeOK
  <2>. QED  BY <1>0, <2>1, <2>2, Zenon DEF TypeOK
<1>2. SerialWindows'
  BY <1>0, <1>9, Zenon DEF SerialWindows, Window
<1>3. CallsBounded'
  <2>1. \A u \in Tasks, k \in Locks : held'[u][k] <= owed'[u][k]
    <3>1. h + 1 <= owed[t][l] + 1
      BY <1>8 DEF TypeOK
    <3>. QED  BY <1>11, <3>1, ZenonT(30) DEF CallsBounded
  <2>2. \A u \in Tasks : pc'[u] \in Locking => owed'[u][lk'[u]] < MaxHold
    <3>1. pc'[t] \notin Locking /\ \A u \in Tasks : lk[u] \in Locks
      BY <1>0 DEF Locking, TypeOK
    <3>. QED  BY <1>0, <1>11, <3>1, Zenon DEF CallsBounded
  <2>. QED  BY <2>1, <2>2, Zenon DEF CallsBounded
<1>4. WindowOwns'
  BY <1>0, <1>9 DEF WindowOwns, OwnsAt, Window
<1>5. /\ <<t, 0>> \in Tokens(l) /\ <<t, h + 1>> \notin Tokens(l)
      /\ Tokens(l)' = (Tokens(l) \ {<<t, 0>>}) \cup {<<t, h + 1>>}
  <2>1. <<t, 0>> \in Tokens(l) /\ <<t, h + 1>> \notin Tokens(l)
    BY <1>0, <1>8, LockAssumption DEF Tokens, Counted
  <2>2. ASSUME NEW u \in Tasks, NEW n \in 0 .. MaxHold
        PROVE  <<u, n>> \in Tokens(l)' <=> <<u, n>> \in (Tokens(l) \ {<<t, 0>>}) \cup {<<t, h + 1>>}
    <3>1. CASE u = t
      BY <3>1, <1>0, <1>8, <1>11, LockAssumption DEF Tokens, Counted
    <3>2. CASE u # t
      BY <3>2, <1>0, <1>11, Zenon DEF Tokens, Counted
    <3>. QED  BY <3>1, <3>2, Zenon
  <2>3. /\ Tokens(l)' \subseteq Tasks \X (0 .. MaxHold)
        /\ (Tokens(l) \ {<<t, 0>>}) \cup {<<t, h + 1>>} \subseteq Tasks \X (0 .. MaxHold)
    BY <1>8 DEF Tokens
  <2>. QED  BY <2>1, <2>2, <2>3
<1>6. \A k \in Locks : k # l => Tokens(k)' = Tokens(k)
  <2>. SUFFICES ASSUME NEW k \in Locks, k # l PROVE Tokens(k)' = Tokens(k)
    OBVIOUS
  <2>1. ASSUME NEW u \in Tasks, NEW n \in 0 .. MaxHold
        PROVE  <<u, n>> \in Tokens(k)' <=> <<u, n>> \in Tokens(k)
    <3>1. held'[u][k] = held[u][k]
      BY <1>11, Zenon
    <3>2. pc'[u] \in Counted /\ lk'[u] = k <=> pc[u] \in Counted /\ lk[u] = k
      BY <1>0, Zenon DEF Counted
    <3>. QED  BY <3>1, <3>2, Zenon DEF Tokens
  <2>2. Tokens(k)' \subseteq Tasks \X (0 .. MaxHold) /\ Tokens(k) \subseteq Tasks \X (0 .. MaxHold)
    BY Zenon DEF Tokens
  <2>. QED  BY ONLY <2>1, <2>2
<1>7. \A k \in Locks : IsFiniteSet(Tokens(k)') /\ Cardinality(Tokens(k)') = Cardinality(Tokens(k))
  BY <1>5, <1>6, Exchange DEF EntrySound
<1>12. EntrySound'
  BY <1>0, <1>7, EntryKept, Zenon
<1>13. HoldersNamed'
  <2>. SUFFICES ASSUME ~gaveUp PROVE HoldersNamed'
    BY <1>0, Zenon DEF HoldersNamed
  <2>1. held' = owed'
    BY <1>0, Zenon DEF HoldersNamed, Acquired
  <2>2. \A k \in Locks : ref'[k] = Cardinality(Tokens(k)')
    BY <1>0, <1>7, Zenon DEF HoldersNamed
  <2>3. ASSUME NEW k \in Locks, NEW u \in Tasks,
               held'[u][k] > 0 \/ (pc'[u] \in Counted /\ lk'[u] = k)
        PROVE  tid'[k] = Tgid[u]
    BY <2>3, <1>0, <1>11, ZenonT(30) DEF HoldersNamed, Counted
  <2>. QED  BY <2>1, <2>2, <2>3, Zenon DEF HoldersNamed
<1>. QED  BY <1>1, <1>2, <1>3, <1>4, <1>12, <1>13, Zenon

\* A call that gives up leaves the entry alone; its caller owes an unlock.
LEMMA FailInv == ASSUME LockIInv, NEW t \in Tasks, FailIgnored(t) PROVE LockIInv'
<1>. USE DEF LockIInv
<1>0. /\ pc[t] \in {"lock", "retry"} /\ pc'[t] = "idle" /\ gaveUp' = TRUE
      /\ \A u \in Tasks : u # t => pc'[u] = pc[u]
      /\ UNCHANGED <<owner, ref, tid, val, lk, try, held, granted>>
  BY Zenon DEF FailIgnored, Goto, TypeOK, entryVars, callVars
<1>8. owed[t][lk[t]] + 1 \in 0 .. MaxHold
  <2>1. lk[t] \in Locks /\ owed[t][lk[t]] \in 0 .. MaxHold
    BY DEF TypeOK
  <2>2. owed[t][lk[t]] < MaxHold
    BY <1>0, Zenon DEF CallsBounded, Locking
  <2>. QED  BY <2>1, <2>2, LockAssumption
<1>11. /\ owed'[t][lk[t]] = owed[t][lk[t]] + 1
       /\ \A u \in Tasks, k \in Locks : u # t \/ k # lk[t] => owed'[u][k] = owed[u][k]
  BY <1>0, Zenon DEF FailIgnored, TypeOK
<1>1. TypeOK'
  <2>1. owed' \in [Tasks -> [Locks -> 0 .. MaxHold]]
    BY <1>0, <1>8, Zenon DEF FailIgnored, TypeOK
  <2>2. pc' \in [Tasks -> Window \cup {"idle", "lock", "retry", "unlock"}]
    BY Zenon DEF FailIgnored, Goto, TypeOK
  <2>. QED  BY <1>0, <2>1, <2>2, Zenon DEF TypeOK
<1>2. SerialWindows'
  BY <1>0, Zenon DEF SerialWindows, Window
<1>3. CallsBounded'
  <2>1. \A u \in Tasks, k \in Locks : held'[u][k] <= owed'[u][k]
    <3>1. lk[t] \in Locks /\ held[t][lk[t]] \in 0 .. MaxHold /\ owed[t][lk[t]] \in 0 .. MaxHold
      BY DEF TypeOK
    <3>2. held[t][lk[t]] <= owed[t][lk[t]] + 1
      BY <3>1, LockAssumption DEF CallsBounded
    <3>. QED  BY <1>0, <1>11, <3>2, Zenon DEF CallsBounded
  <2>2. \A u \in Tasks : pc'[u] \in Locking => owed'[u][lk'[u]] < MaxHold
    <3>1. pc'[t] \notin Locking /\ \A u \in Tasks : lk[u] \in Locks
      BY <1>0 DEF Locking, TypeOK
    <3>. QED  BY <1>0, <1>11, <3>1, Zenon DEF CallsBounded
  <2>. QED  BY <2>1, <2>2, Zenon DEF CallsBounded
<1>4. WindowOwns'
  BY <1>0 DEF WindowOwns, OwnsAt, Window
<1>5. \A k \in Locks : Tokens(k)' = Tokens(k)
  BY <1>0, Zenon DEF Tokens, Counted
<1>6. EntrySound'
  BY <1>0, <1>5, EntryStable, Zenon
<1>7. HoldersNamed'
  BY <1>0, Zenon DEF HoldersNamed
<1>. QED  BY <1>1, <1>2, <1>3, <1>4, <1>6, <1>7, Zenon

\* comm_SpinUnLock is called: an outstanding call is in progress again.  A caller that
\* gave up has none, and its unlock adds a token nobody counted.
LEMMA UnlockCallInv ==
    ASSUME LockIInv, NEW t \in Tasks, NEW l \in Locks, UnlockCall(t, l)
    PROVE  LockIInv'
<1>. USE DEF LockIInv
<1>. PICK h \in 0 .. MaxHold : h = held[t][l]
  BY Zenon DEF TypeOK
<1>. DEFINE g == IF h > 0 THEN h - 1 ELSE 0
<1>0. /\ pc[t] = "idle" /\ pc'[t] = "unlock" /\ lk'[t] = l
      /\ \A u \in Tasks : u # t => pc'[u] = pc[u] /\ lk'[u] = lk[u]
      /\ UNCHANGED <<owner, ref, tid, val, try, granted, gaveUp>>
  BY Zenon DEF UnlockCall, Goto, TypeOK, entryVars
<1>8. /\ g \in 0 .. MaxHold /\ owed[t][l] \in 1 .. MaxHold /\ owed[t][l] - 1 \in 0 .. MaxHold
      /\ g <= owed[t][l] - 1
  <2>1. owed[t][l] \in 0 .. MaxHold /\ owed[t][l] > 0 /\ h <= owed[t][l]
    BY Zenon DEF UnlockCall, TypeOK, CallsBounded
  <2>. QED  BY <2>1, LockAssumption
<1>11. /\ held'[t][l] = g /\ owed'[t][l] = owed[t][l] - 1
       /\ \A u \in Tasks, k \in Locks : u # t \/ k # l =>
             held'[u][k] = held[u][k] /\ owed'[u][k] = owed[u][k]
  BY <1>0 DEF UnlockCall, TypeOK
<1>1. TypeOK'
  <2>1. held' \in [Tasks -> [Locks -> 0 .. MaxHold]] /\ owed' \in [Tasks -> [Locks -> 0 .. MaxHold]]
    BY <1>8, Zenon DEF UnlockCall, TypeOK
  <2>2. pc' \in [Tasks -> Window \cup {"idle", "lock", "retry", "unlock"}] /\ lk' \in [Tasks -> Locks]
    BY Zenon DEF UnlockCall, Goto, TypeOK
  <2>. QED  BY <1>0, <2>1, <2>2, Zenon DEF TypeOK
<1>2. SerialWindows'
  BY <1>0, Zenon DEF SerialWindows, Window
<1>3. CallsBounded'
  <2>1. \A u \in Tasks, k \in Locks : held'[u][k] <= owed'[u][k]
    BY <1>8, <1>11, ZenonT(30) DEF CallsBounded
  <2>2. \A u \in Tasks : pc'[u] \in Locking => owed'[u][lk'[u]] < MaxHold
    <3>1. pc'[t] \notin Locking /\ \A u \in Tasks : lk[u] \in Locks
      BY <1>0 DEF Locking, TypeOK
    <3>2. ASSUME NEW u \in Tasks, pc'[u] \in Locking PROVE owed'[u][lk'[u]] < MaxHold
      <4>1. u # t /\ lk[u] \in Locks
        BY <3>1, <3>2, Zenon
      <4>2. pc'[u] = pc[u] /\ lk'[u] = lk[u] /\ owed'[u][lk[u]] = owed[u][lk[u]]
        BY <1>0, <1>11, <4>1, Zenon
      <4>. QED  BY <3>2, <4>2, Zenon DEF CallsBounded
    <3>. QED  BY <3>2, Zenon
  <2>. QED  BY <2>1, <2>2, Zenon DEF CallsBounded
<1>4. WindowOwns'
  <2>1. OwnsAt(t)'
    BY <1>0, Zenon DEF OwnsAt, Window
  <2>2. ASSUME NEW u \in Tasks, u # t PROVE OwnsAt(u)'
    BY <1>0, <2>2, ZenonT(30) DEF WindowOwns, OwnsAt
  <2>. QED  BY <2>1, <2>2, Zenon DEF WindowOwns
<1>5. <<t, 0>> \notin Tokens(l)
  BY <1>0, Zenon DEF Tokens, Counted
<1>6. \A k \in Locks : k # l => Tokens(k)' = Tokens(k)
  <2>. SUFFICES ASSUME NEW k \in Locks, k # l PROVE Tokens(k)' = Tokens(k)
    OBVIOUS
  <2>1. ASSUME NEW u \in Tasks, NEW n \in 0 .. MaxHold
        PROVE  <<u, n>> \in Tokens(k)' <=> <<u, n>> \in Tokens(k)
    <3>1. held'[u][k] = held[u][k]
      BY <1>11, Zenon
    <3>2. pc'[u] \in Counted /\ lk'[u] = k <=> pc[u] \in Counted /\ lk[u] = k
      BY <1>0, Zenon DEF Counted
    <3>. QED  BY <3>1, <3>2, Zenon DEF Tokens
  <2>2. Tokens(k)' \subseteq Tasks \X (0 .. MaxHold) /\ Tokens(k) \subseteq Tasks \X (0 .. MaxHold)
    BY Zenon DEF Tokens
  <2>. QED  BY ONLY <2>1, <2>2
<1>7. CASE h > 0
  <2>1. <<t, h>> \in Tokens(l)
    BY <1>7, LockAssumption DEF Tokens
  <2>2. Tokens(l)' = (Tokens(l) \ {<<t, h>>}) \cup {<<t, 0>>}
    <3>1. ASSUME NEW u \in Tasks, NEW n \in 0 .. MaxHold
          PROVE  <<u, n>> \in Tokens(l)' <=> <<u, n>> \in (Tokens(l) \ {<<t, h>>}) \cup {<<t, 0>>}
      <4>1. CASE u = t
        <5>1. CASE n = 0
          <6>1. <<t, 0>> \in Tokens(l)'
            BY <1>0, <5>1, Zenon DEF Tokens, Counted
          <6>. QED  BY <4>1, <5>1, <6>1, Zenon
        <5>2. CASE n # 0
          <6>1. n <= g <=> n <= h /\ n # h
            BY ONLY h \in 0 .. MaxHold, n \in 0 .. MaxHold, <1>7, LockAssumption
          <6>2. <<u, n>> \in Tokens(l)' <=> n <= held'[t][l]
            BY <4>1, <5>2, Zenon DEF Tokens
          <6>3. <<u, n>> \in Tokens(l) <=> n <= h
            BY <4>1, <5>2, Zenon DEF Tokens
          <6>. QED  BY <1>11, <4>1, <5>2, <6>1, <6>2, <6>3, Zenon
        <5>. QED  BY <5>1, <5>2, Zenon
      <4>2. CASE u # t
        BY <4>2, <1>0, <1>11, Zenon DEF Tokens, Counted
      <4>. QED  BY <4>1, <4>2, Zenon
    <3>2. /\ Tokens(l)' \subseteq Tasks \X (0 .. MaxHold)
          /\ (Tokens(l) \ {<<t, h>>}) \cup {<<t, 0>>} \subseteq Tasks \X (0 .. MaxHold)
      BY LockAssumption DEF Tokens
    <3>. QED  BY <3>1, <3>2
  <2>3. \A k \in Locks : IsFiniteSet(Tokens(k)') /\ Cardinality(Tokens(k)') = Cardinality(Tokens(k))
    BY <1>5, <1>6, <2>1, <2>2, Exchange DEF EntrySound
  <2>4. EntrySound'
    BY <1>0, <2>3, EntryKept, Zenon
  <2>5. HoldersNamed'
    <3>. SUFFICES ASSUME ~gaveUp PROVE HoldersNamed'
      BY <1>0, Zenon DEF HoldersNamed
    <3>1. held' = owed'
      BY <1>7, <1>0, Zenon DEF HoldersNamed, UnlockCall, TypeOK
    <3>2. \A k \in Locks : ref'[k] = Cardinality(Tokens(k)')
      BY <1>0, <2>3, Zenon DEF HoldersNamed
    <3>3. ASSUME NEW k \in Locks, NEW u \in Tasks,
                 held'[u][k] > 0 \/ (pc'[u] \in Counted /\ lk'[u] = k)
          PROVE  tid'[k] = Tgid[u]
      <4>1. held[u][k] > 0 \/ (pc[u] \in Counted /\ lk[u] = k)
        <5>1. CASE u = t /\ k = l
          BY <1>7, <5>1, Zenon
        <5>2. CASE u = t /\ k # l
          BY <1>0, <1>11, <3>3, <5>2, Zenon
        <5>3. CASE u # t
          BY <1>0, <1>11, <3>3, <5>3, Zenon
        <5>. QED  BY <5>1, <5>2, <5>3, Zenon
      <4>. QED  BY <1>0, <4>1, Zenon DEF HoldersNamed
    <3>. QED  BY <3>1, <3>2, <3>3, Zenon DEF HoldersNamed
  <2>. QED  BY <1>1, <1>2, <1>3, <1>4, <2>4, <2>5, Zenon
<1>12. CASE h = 0
  <2>1. gaveUp
    <3>1. ~gaveUp => owed[t][l] = h
      BY Zenon DEF HoldersNamed
    <3>2. owed[t][l] # 0
      BY <1>8, LockAssumption
    <3>. QED  BY <3>1, <3>2, <1>12, Zenon
  <2>2. Tokens(l)' = Tokens(l) \cup {<<t, 0>>}
    <3>1. ASSUME NEW u \in Tasks, NEW n \in 0 .. MaxHold
          PROVE  <<u, n>> \in Tokens(l)' <=> <<u, n>> \in Tokens(l) \cup {<<t, 0>>}
      <4>1. CASE u = t
        <5>1. held'[t][l] = 0 /\ held[t][l] = 0
          BY <1>11, <1>12
        <5>2. n = 0 \/ ~(n <= 0)
          BY LockAssumption
        <5>. QED  BY <4>1, <1>0, <5>1, <5>2, Zenon DEF Tokens, Counted
      <4>2. CASE u # t
        BY <4>2, <1>0, <1>11, Zenon DEF Tokens, Counted
      <4>. QED  BY <4>1, <4>2, Zenon
    <3>2. /\ Tokens(l)' \subseteq Tasks \X (0 .. MaxHold)
          /\ Tokens(l) \cup {<<t, 0>>} \subseteq Tasks \X (0 .. MaxHold)
      BY LockAssumption DEF Tokens
    <3>. QED  BY <3>1, <3>2
  <2>3. IsFiniteSet(Tokens(l)') /\ Cardinality(Tokens(l)') >= Cardinality(Tokens(l))
    <3>1. IsFiniteSet(Tokens(l))
      BY Zenon DEF EntrySound
    <3>2. Cardinality(Tokens(l)) \in Nat
      BY <3>1, FS_CardinalityType, Zenon
    <3>3. IsFiniteSet(Tokens(l)') /\ Cardinality(Tokens(l)') = Cardinality(Tokens(l)) + 1
      BY <1>5, <2>2, <3>1, FS_AddElement, Zenon
    <3>. QED  BY <3>2, <3>3
  <2>4. EntrySound'
    <3>. SUFFICES ASSUME NEW k \in Locks
                  PROVE  /\ ref'[k] >= 0
                         /\ ref'[k] > 0 => tid'[k] # NONE
                         /\ ref'[k] = 0 /\ tid'[k] # NONE =>
                              \E u \in Tasks : lk'[u] = k /\ pc'[u] \in {"count", "store", "urelease", "uclear"}
                         /\ IsFiniteSet(Tokens(k)') /\ ref'[k] <= Cardinality(Tokens(k)')
      BY Zenon DEF EntrySound
    <3>1. IsFiniteSet(Tokens(k)') /\ ref'[k] <= Cardinality(Tokens(k)')
      <4>1. CASE k = l
        <5>1. ref[l] \in Int /\ ref[l] <= Cardinality(Tokens(l)) /\ IsFiniteSet(Tokens(l))
          BY Zenon DEF EntrySound, TypeOK
        <5>2. Cardinality(Tokens(l)) \in Nat /\ Cardinality(Tokens(l)') \in Nat
          BY <5>1, <2>3, FS_CardinalityType, Zenon
        <5>. QED  BY <4>1, <5>1, <5>2, <2>3, <1>0
      <4>2. CASE k # l
        BY <4>2, <1>0, <1>6, Zenon DEF EntrySound
      <4>. QED  BY <4>1, <4>2, Zenon
    <3>. QED  BY <3>1, <1>0 DEF EntrySound
  <2>. QED  BY <1>0, <1>1, <1>2, <1>3, <1>4, <2>1, <2>4, Zenon DEF HoldersNamed
<1>. QED  BY <1>7, <1>12

\* The steps of comm_SpinUnLock that give a token back: the check that finds nothing to
\* unlock, and the count.
LEMMA UncountInv == ASSUME LockIInv, NEW t \in Tasks, UnlockCheck(t) \/ UnlockCount(t) PROVE LockIInv'
<1>. USE DEF LockIInv
<1>. PICK l \in Locks : l = lk[t]
  BY Zenon DEF TypeOK
<1>0. /\ pc[t] \in {"ucheck", "udec"} /\ l = lk[t] /\ ref[l] \in Int /\ ref[l] >= 0
      /\ \A u \in Tasks : u # t => pc'[u] = pc[u]
      /\ UNCHANGED <<owner, tid, val, lk, try, held, owed, granted, gaveUp>>
  BY DEF UnlockCheck, UnlockCount, Goto, TypeOK, EntrySound, entryVars, callVars, userVars
<1>9. \A u \in Tasks : u # t => pc[u] \notin Window
  BY <1>0, Alone, Zenon DEF Window
<1>1. TypeOK'
  <2>1. pc' \in [Tasks -> Window \cup {"idle", "lock", "retry", "unlock"}]
    BY Zenon DEF UnlockCheck, UnlockCount, Goto, TypeOK, Window
  <2>2. ref' \in [Locks -> Int]
    BY DEF UnlockCheck, UnlockCount, TypeOK, entryVars
  <2>. QED  BY <1>0, <2>1, <2>2, Zenon DEF TypeOK
<1>5. <<t, 0>> \in Tokens(l) /\ IsFiniteSet(Tokens(l)) /\ Cardinality(Tokens(l)) \in Nat \ {0}
  <2>1. <<t, 0>> \in Tokens(l) /\ IsFiniteSet(Tokens(l))
    BY <1>0, LockAssumption DEF Tokens, Counted, EntrySound
  <2>. QED  BY <2>1, FS_CardinalityType, FS_EmptySet, Zenon
<1>6. ref[l] <= Cardinality(Tokens(l)) /\ (~gaveUp => ref[l] = Cardinality(Tokens(l)))
  BY Zenon DEF EntrySound, HoldersNamed
<1>7. CASE pc[t] = "ucheck" /\ ref[l] > 0
  <2>1. tid[l] # NONE /\ owner[l] = ARM /\ owner[l] # FREE
    BY <1>7, <1>0 DEF EntrySound, WindowOwns, OwnsAt, Window, ARM, FREE
  <2>2. pc'[t] = "uload" /\ ref' = ref
    BY <1>7, <2>1 DEF UnlockCheck, UnlockCount, Goto, TypeOK, entryVars
  <2>3. \A k \in Locks : Tokens(k)' = Tokens(k)
    BY <1>0, <1>7, <2>2, Zenon DEF Tokens, Counted
  <2>4. SerialWindows' /\ CallsBounded' /\ WindowOwns'
    <3>1. OwnsAt(t)'
      BY <1>0, <1>7, <2>1, <2>2 DEF OwnsAt
    <3>2. WindowOwns'
      BY <1>0, <1>9, <3>1, OwnsKept
    <3>. QED  BY <1>0, <1>7, <1>9, <2>2, <3>2 DEF SerialWindows, CallsBounded, Locking
  <2>5. EntrySound'
    BY <1>0, <1>7, <2>2, <2>3, EntryStable, Zenon
  <2>6. HoldersNamed'
    BY <1>0, <1>7, <2>2, <2>3 DEF HoldersNamed, Counted
  <2>. QED  BY <1>1, <2>4, <2>5, <2>6, Zenon
<1>8. CASE pc[t] = "ucheck" /\ ref[l] = 0
  <2>1. gaveUp
    BY <1>5, <1>6, <1>8, Zenon
  <2>2. pc'[t] = "unlocked" /\ ref' = ref
    BY <1>8 DEF UnlockCheck, UnlockCount, Goto, TypeOK, entryVars
  <2>3. Tokens(l)' = Tokens(l) \ {<<t, 0>>} /\ \A k \in Locks : k # l => Tokens(k)' = Tokens(k)
    BY <1>0, <1>8, <2>2, TokensLess DEF Counted
  <2>4. IsFiniteSet(Tokens(l)') /\ Cardinality(Tokens(l)') \in Nat
    BY <1>5, <2>3, FS_RemoveElement, FS_CardinalityType
  <2>5. SerialWindows' /\ CallsBounded' /\ WindowOwns'
    <3>1. OwnsAt(t)'
      BY <2>2 DEF OwnsAt
    <3>2. WindowOwns'
      BY <1>0, <1>9, <3>1, OwnsKept
    <3>. QED  BY <1>0, <1>9, <2>2, <3>2 DEF SerialWindows, CallsBounded, Locking
  <2>6. EntrySound'
    <3>1. \A u \in Tasks : pc[u] \in {"count", "store", "urelease", "uclear"} => pc'[u] = pc[u]
      BY <1>0, <1>8, <1>9, Zenon DEF Window
    <3>2. 0 <= Cardinality(Tokens(l)')
      BY ONLY <2>4
    <3>. QED  BY <1>0, <1>8, <2>2, <2>3, <2>4, <3>1, <3>2, ZenonT(30) DEF EntrySound
  <2>. QED  BY <1>0, <1>1, <2>1, <2>5, <2>6, Zenon DEF HoldersNamed
<1>10. CASE pc[t] = "udec"
  <2>1. ref[l] > 0 /\ val[t] = ref[l] /\ owner[l] = ARM
    BY <1>0, <1>10, Zenon DEF WindowOwns, OwnsAt, Window
  <2>2. /\ ref'[l] = ref[l] - 1 /\ \A k \in Locks : k # l => ref'[k] = ref[k]
        /\ pc'[t] = IF ref[l] - 1 = 0 THEN "urelease" ELSE "unlocked"
    BY <1>10, <2>1 DEF UnlockCheck, UnlockCount, Goto, TypeOK
  <2>3. Tokens(l)' = Tokens(l) \ {<<t, 0>>} /\ \A k \in Locks : k # l => Tokens(k)' = Tokens(k)
    BY <1>0, <1>10, <2>2, TokensLess DEF Counted
  <2>4. IsFiniteSet(Tokens(l)') /\ Cardinality(Tokens(l)') = Cardinality(Tokens(l)) - 1
    BY <1>5, <2>3, FS_RemoveElement
  <2>5. SerialWindows' /\ CallsBounded'
    BY <1>0, <1>9, <2>2 DEF SerialWindows, CallsBounded, Window, Locking
  <2>6. WindowOwns'
    <3>1. pc'[t] \in {"urelease", "unlocked"} /\ (pc'[t] = "urelease" => ref'[l] = 0)
      BY <2>2
    <3>2. /\ pc'[t] \notin {"reclaim", "store", "udec", "uload", "claim", "count", "acquired"}
          /\ lk'[t] = l /\ owner'[l] = ARM
      BY <1>0, <2>1, <3>1, Zenon
    <3>3. OwnsAt(t)'
      BY <3>1, <3>2, Zenon DEF OwnsAt
    <3>. QED  BY <1>0, <1>9, <3>3, OwnsKept, Zenon
  <2>7. EntrySound'
    <3>. SUFFICES ASSUME NEW k \in Locks
                  PROVE  /\ ref'[k] >= 0
                         /\ ref'[k] > 0 => tid'[k] # NONE
                         /\ ref'[k] = 0 /\ tid'[k] # NONE =>
                              \E u \in Tasks : lk'[u] = k /\ pc'[u] \in {"count", "store", "urelease", "uclear"}
                         /\ IsFiniteSet(Tokens(k)') /\ ref'[k] <= Cardinality(Tokens(k)')
      BY Zenon DEF EntrySound
    <3>1. CASE k = l
      <4>1. tid[l] # NONE
        BY <2>1, Zenon DEF EntrySound
      <4>2. /\ ref'[l] >= 0 /\ ref'[l] <= Cardinality(Tokens(l)')
            /\ ref'[l] = 0 => pc'[t] = "urelease"
        <5>1. /\ ref[l] \in Int /\ ref[l] > 0 /\ Cardinality(Tokens(l)) \in Nat
              /\ ref[l] <= Cardinality(Tokens(l)) /\ ref'[l] = ref[l] - 1
              /\ pc'[t] = (IF ref[l] - 1 = 0 THEN "urelease" ELSE "unlocked")
              /\ Cardinality(Tokens(l)') = Cardinality(Tokens(l)) - 1
          BY <1>0, <1>5, <1>6, <2>1, <2>2, <2>4, Zenon
        <5>. QED  BY ONLY <5>1
      <4>3. tid'[l] # NONE /\ lk'[t] = l
        BY <1>0, <4>1, Zenon
      <4>. QED  BY <2>4, <3>1, <4>2, <4>3, Zenon
    <3>2. CASE k # l
      BY <3>2, <1>0, <1>9, <1>10, <2>2, <2>3 DEF EntrySound, Window
    <3>. QED  BY <3>1, <3>2, Zenon
  <2>8. HoldersNamed'
    <3>. SUFFICES ASSUME ~gaveUp PROVE HoldersNamed'
      BY <1>0, Zenon DEF HoldersNamed
    <3>1. \A k \in Locks : ref'[k] = Cardinality(Tokens(k)')
      BY <1>6, <2>2, <2>3, <2>4, Zenon DEF HoldersNamed
    <3>. QED  BY <3>1, <1>0, <2>2 DEF HoldersNamed, Counted
  <2>. QED  BY <1>1, <2>5, <2>6, <2>7, <2>8, Zenon
<1>. QED  BY <1>0, <1>7, <1>8, <1>10

\* The last unlock clears the thread_id of an entry with ref_count 0: nobody holds it.
LEMMA ClearInv == ASSUME LockIInv, NEW t \in Tasks, UnlockClear(t) PROVE LockIInv'
<1>. USE DEF LockIInv
<1>. PICK l \in Locks : l = lk[t]
  BY Zenon DEF TypeOK
<1>0. /\ pc[t] = "uclear" /\ pc'[t] = "unlocked" /\ l = lk[t] /\ ref[l] = 0
      /\ tid'[l] = NONE /\ \A k \in Locks : k # l => tid'[k] = tid[k]
      /\ \A u \in Tasks : u # t => pc'[u] = pc[u]
      /\ UNCHANGED <<ref, val, lk, try, held, owed, granted, gaveUp>>
  BY Zenon DEF UnlockClear, Goto, TypeOK, WindowOwns, OwnsAt, callVars, userVars
<1>9. \A u \in Tasks : u # t => pc[u] \notin Window
  BY <1>0, Alone, Zenon DEF Window
<1>1. TypeOK'
  <2>1. pc' \in [Tasks -> Window \cup {"idle", "lock", "retry", "unlock"}]
    BY Zenon DEF UnlockClear, Goto, TypeOK, Window
  <2>2. owner' \in [Locks -> {ARM, FREE}] /\ tid' \in [Locks -> {Tgid[u] : u \in Tasks} \cup {NONE}]
    BY Zenon DEF UnlockClear, TypeOK
  <2>. QED  BY <1>0, <2>1, <2>2, Zenon DEF TypeOK
<1>2. SerialWindows' /\ CallsBounded'
  BY <1>0, <1>9, Zenon DEF SerialWindows, CallsBounded, Window, Locking
<1>3. WindowOwns'
  BY <1>0, <1>9 DEF WindowOwns, OwnsAt, Window
<1>4. \A k \in Locks : Tokens(k)' = Tokens(k)
  BY <1>0 DEF Tokens, Counted
<1>5. EntrySound'
  <2>1. ASSUME NEW k \in Locks, ref[k] = 0, tid'[k] # NONE
        PROVE  \E u \in Tasks : lk'[u] = k /\ pc'[u] \in {"count", "store", "urelease", "uclear"}
    <3>1. PICK u \in Tasks : lk[u] = k /\ pc[u] \in {"count", "store", "urelease", "uclear"}
      BY <2>1, <1>0 DEF EntrySound
    <3>. QED  BY <3>1, <2>1, <1>0
  <2>2. \A k \in Locks : ref[k] > 0 => tid'[k] # NONE
    BY <1>0 DEF EntrySound
  <2>. QED  BY <2>1, <2>2, <1>0, <1>4 DEF EntrySound
<1>6. HoldersNamed'
  <2>. SUFFICES ASSUME ~gaveUp PROVE HoldersNamed'
    BY <1>0, Zenon DEF HoldersNamed
  <2>1. Tokens(l) = {}
    <3>1. IsFiniteSet(Tokens(l)) /\ Cardinality(Tokens(l)) = 0
      BY <1>0, Zenon DEF EntrySound, HoldersNamed
    <3>. QED  BY <3>1, FS_EmptySet, Zenon
  <2>2. ASSUME NEW u \in Tasks PROVE ~(held[u][l] > 0) /\ ~(pc[u] \in Counted /\ lk[u] = l)
    <3>1. held[u][l] \in 0 .. MaxHold /\ 0 \in 0 .. MaxHold
      BY LockAssumption DEF TypeOK
    <3>2. <<u, held[u][l]>> \notin Tokens(l) /\ <<u, 0>> \notin Tokens(l)
      BY <2>1, Zenon
    <3>. QED  BY <3>1, <3>2, LockAssumption DEF Tokens
  <2>3. ASSUME NEW k \in Locks, NEW u \in Tasks,
               held'[u][k] > 0 \/ (pc'[u] \in Counted /\ lk'[u] = k)
        PROVE  tid'[k] = Tgid[u]
    BY <2>2, <2>3, <1>0, Zenon DEF HoldersNamed, Counted
  <2>. QED  BY <2>3, <1>0, <1>4, Zenon DEF HoldersNamed
<1>. QED  BY <1>1, <1>2, <1>3, <1>5, <1>6, Zenon

\* The pool writes the owner byte of an entry that is free, and nothing else.
LEMMA PoolInv == ASSUME LockIInv, NEW t \in Tasks, comm_ReqestSpinLock(t) PROVE LockIInv'
<1>. USE DEF LockIInv
<1>0. /\ UNCHANGED <<ref, tid, pc, val, lk, try, held, owed, gaveUp>>
      /\ \A k \in Locks : owner'[k] = owner[k] \/ owner'[k] = ARM
  BY Zenon DEF comm_ReqestSpinLock, TypeOK, callVars
<1>1. TypeOK'
  <2>1. owner' \in [Locks -> {ARM, FREE}]
    BY Zenon DEF comm_ReqestSpinLock, TypeOK
  <2>2. granted' \in [Locks -> 0 .. MaxGrant]
    BY LockAssumption DEF comm_ReqestSpinLock, TypeOK
  <2>. QED  BY <1>0, <2>1, <2>2, Zenon DEF TypeOK
<1>2. SerialWindows' /\ CallsBounded'
  BY <1>0, Zenon DEF SerialWindows, CallsBounded
<1>3. WindowOwns'
  BY <1>0, Zenon DEF WindowOwns, OwnsAt, TypeOK
<1>4. \A k \in Locks : Tokens(k)' = Tokens(k)
  BY <1>0, Zenon DEF Tokens
<1>5. EntrySound'
  BY <1>0, <1>4, EntryStable, Zenon
<1>6. HoldersNamed'
  BY <1>0, <1>4, Zenon DEF HoldersNamed
<1>. QED  BY <1>1, <1>2, <1>3, <1>5, <1>6, Zenon

\* LockIInv holds in every state, if windows do not overlap.
THEOREM LockInvariant == ASSUME Overlap = FALSE PROVE Spec => []LockIInv
<1>1. LockIInv /\ [Next]_vars => LockIInv'
  <2>. SUFFICES ASSUME LockIInv, [Next]_vars PROVE LockIInv'
    BY Zenon
  <2>1. ASSUME NEW t \in Tasks, comm_SpinLock(t) PROVE LockIInv'
    <3>1. \A l \in Locks, m \in BOOLEAN : Call(t, l, m) => LockIInv'
      BY CallInv, Zenon
    <3>2. enterCritical(t, "lock", "check") \/ enterCritical(t, "retry", "check") => LockIInv'
      BY EnterInv, Zenon
    <3>3. spinLock(t) \/ Load(t, "count", "store") \/ BackOff(t) => LockIInv'
      BY WindowInv, Zenon
    <3>4. Claim(t) \/ Count(t) \/ Acquired(t) \/ FailIgnored(t) => LockIInv'
      BY ClaimInv, CountInv, AcquiredInv, FailInv, Zenon
    <3>. QED  BY <2>1, <3>1, <3>2, <3>3, <3>4, Zenon DEF comm_SpinLock
  <2>2. ASSUME NEW t \in Tasks, comm_SpinUnLock(t) PROVE LockIInv'
    <3>1. (\E l \in Locks : UnlockCall(t, l)) => LockIInv'
      BY UnlockCallInv, Zenon
    <3>2. enterCritical(t, "unlock", "ucheck") => LockIInv'
      BY EnterInv, Zenon
    <3>3. /\ Load(t, "uload", "udec") \/ UnlockRelease(t) => LockIInv'
          /\ leaveCritical(t, "unlocked", "idle") /\ UNCHANGED <<held, owed>> => LockIInv'
      BY WindowInv, Zenon
    <3>4. UnlockCheck(t) \/ UnlockCount(t) \/ UnlockClear(t) => LockIInv'
      BY UncountInv, ClearInv, Zenon
    <3>. QED  BY <2>2, <3>1, <3>2, <3>3, <3>4, Zenon DEF comm_SpinUnLock
  <2>3. CASE UNCHANGED vars
    <3>1. \A k \in Locks : Tokens(k)' = Tokens(k)
      BY <2>3, Zenon DEF vars, callVars, userVars, Tokens
    <3>2. TypeOK' /\ SerialWindows' /\ CallsBounded' /\ WindowOwns'
      BY <2>3, Zenon DEF vars, entryVars, callVars, userVars, LockIInv, TypeOK, SerialWindows,
         CallsBounded, WindowOwns, OwnsAt
    <3>3. EntrySound' /\ HoldersNamed'
      BY <2>3, <3>1, ZenonT(30) DEF vars, entryVars, callVars, userVars, LockIInv, EntrySound, HoldersNamed
    <3>. QED  BY <3>2, <3>3, Zenon DEF LockIInv
  <2>. QED  BY <2>1, <2>2, <2>3, PoolInv, Zenon DEF Next
<1>. QED  BY LockInitInv, <1>1, PTL DEF Spec

\* Between calls an entry of the lock table tells who holds the lock, and it is clear
\* once nobody does, even after calls that gave up.
THEOREM EntryTellsHolders == ASSUME Overlap = FALSE PROVE Spec => []EntryMatchesHolders
<1>1. LockIInv => EntryMatchesHolders
  <2>. SUFFICES ASSUME LockIInv, \A t \in Tasks : pc[t] = "idle", NEW l \in Locks
                PROVE  /\ ~gaveUp => /\ ref[l] = Cardinality(Outstanding(l))
                                     /\ tid[l] = NONE <=> \A t \in Tasks : held[t][l] = 0
                                     /\ \A t \in Tasks : held[t][l] > 0 => tid[l] = Tgid[t]
                       /\ (\A t \in Tasks : held[t][l] = 0) => ref[l] = 0 /\ tid[l] = NONE
    BY Zenon DEF EntryMatchesHolders, LockIInv
  <2>1. Tokens(l) = Outstanding(l)
    <3>1. \A u \in Tasks : pc[u] \notin Counted
      BY Zenon DEF Counted
    <3>2. \A n \in 0 .. MaxHold : n # 0 <=> n \in 1 .. MaxHold
      BY LockAssumption
    <3>3. \A n \in 1 .. MaxHold : n \in 0 .. MaxHold
      BY LockAssumption
    <3>. QED  BY <3>1, <3>2, <3>3, Zenon DEF Tokens, Outstanding
  <2>2. /\ ref[l] \in Int /\ ref[l] >= 0 /\ ref[l] <= Cardinality(Outstanding(l))
        /\ ref[l] = 0 <=> tid[l] = NONE
        /\ IsFiniteSet(Outstanding(l))
    <3>1. ref[l] \in Int /\ ref[l] >= 0 /\ (ref[l] > 0 => tid[l] # NONE)
      BY DEF LockIInv, EntrySound, TypeOK
    <3>2. ref[l] = 0 => tid[l] = NONE
      BY DEF LockIInv, EntrySound
    <3>. QED  BY <2>1, <3>1, <3>2 DEF LockIInv, EntrySound
  <2>3. (\A t \in Tasks : held[t][l] = 0) <=> Outstanding(l) = {}
    <3>1. ASSUME \A t \in Tasks : held[t][l] = 0, NEW p \in Outstanding(l) PROVE FALSE
      BY <3>1, LockAssumption DEF Outstanding
    <3>2. ASSUME NEW t \in Tasks, held[t][l] # 0 PROVE Outstanding(l) # {}
      <4>1. held[t][l] \in 1 .. MaxHold
        BY <3>2, LockAssumption DEF LockIInv, TypeOK
      <4>2. <<t, held[t][l]>> \in Outstanding(l)
        BY <4>1, LockAssumption DEF Outstanding
      <4>. QED  BY <4>2, Zenon
    <3>. QED  BY <3>1, <3>2, Zenon
  <2>4. Cardinality(Outstanding(l)) \in Nat /\ (Cardinality(Outstanding(l)) = 0 <=> Outstanding(l) = {})
    BY <2>2, FS_CardinalityType, FS_EmptySet, Zenon
  <2>5. ~gaveUp => ref[l] = Cardinality(Outstanding(l))
    BY <2>1, Zenon DEF LockIInv, HoldersNamed
  <2>6. ASSUME Cardinality(Outstanding(l)) = 0 PROVE ref[l] = 0
    <3>. DEFINE r == ref[l]
                c == Cardinality(Outstanding(l))
    <3>1. r \in Int /\ r >= 0 /\ r <= c /\ c = 0
      BY <2>2, <2>6, Zenon
    <3>. HIDE DEF r, c
    <3>2. r = 0
      BY ONLY <3>1
    <3>. QED  BY <3>2, Zenon DEF r
  <2>7. ~gaveUp => \A t \in Tasks : held[t][l] > 0 => tid[l] = Tgid[t]
    BY Zenon DEF LockIInv, HoldersNamed
  <2>. QED  BY <2>2, <2>3, <2>4, <2>5, <2>6, <2>7, Zenon
<1>. QED  BY LockInvariant, <1>1, PTL

-----------------------------------------------------------------------------
(* The start of the two CPUs, and the motor queue. *)

\* BootInit puts both CPUs before any write, so BootIInv holds there.
LEMMA BootInitInv == BootInit => BootIInv
<1>. SUFFICES ASSUME BootInit PROVE BootIInv
  OBVIOUS
<1>1. BootTypeOK
  <2>1. magic \in [1 .. 2 -> BOOLEAN] /\ flag \in [CPU -> SUBSET FlagBits]
    BY DEF BootInit
  <2>2. hw0 \in 0 .. 2 /\ resets \in 0 .. MaxResets
    BY ResetAssumption DEF BootInit, HwFree
  <2>3. seqInit \in BOOLEAN
    BY DEF BootInit
  <2>. QED  BY <2>1, <2>2, <2>3 DEF BootTypeOK
<1>2. PlacesOK
  BY DEF BootInit, PlacesOK, ColdArm
<1>3. MagicWritten /\ LockHeld
  BY DEF BootInit, MagicWritten, LockHeld, ColdArm, HwFree
<1>4. WordTrue
  BY DEF BootInit, WordTrue, Wiped
<1>. QED  BY <1>1, <1>2, <1>3, <1>4 DEF BootIInv

\* The steps of the ARM in InitCommMem and cpu_comm_init keep BootIInv.
LEMMA ArmInv == ASSUME BootIInv, ArmNext PROVE BootIInv'
<1>. USE DEF BootIInv, BootTypeOK, PlacesOK, MagicWritten, LockHeld, WordTrue, ColdArm, Wiped,
     CPU, HwFree, FlagBits, ArmStep
<1>1. CASE ArmTryLock
  BY <1>1 DEF ArmTryLock
<1>2. CASE ArmSetup
  BY <1>2 DEF ArmSetup
<1>3. CASE ArmMagic
  BY <1>3 DEF ArmMagic
<1>4. CASE ArmReady
  BY <1>4 DEF ArmReady, setCPUReady
<1>5. CASE ArmFlag
  BY <1>5 DEF ArmFlag
<1>6. CASE MipsFlag
  BY <1>6 DEF MipsFlag
<1>7. CASE ArmUnlock
  BY <1>7 DEF ArmUnlock
<1>8. CASE ArmNotice
  BY <1>8 DEF ArmNotice
<1>9. CASE ArmAnnounce
  BY <1>9 DEF ArmAnnounce
<1>10. CASE ArmSeesReady
  BY <1>10 DEF ArmSeesReady
<1>11. CASE ArmPollTimeout
  BY <1>11 DEF ArmPollTimeout
<1>12. CASE setCPUResetPhase1
  BY <1>12 DEF setCPUResetPhase1, ClearNotice
<1>. QED  BY <1>1, <1>2, <1>3, <1>4, <1>5, <1>6, <1>7, <1>8, <1>9, <1>10, <1>11, <1>12 DEF ArmNext

\* The steps of the MIPS keep BootIInv: it passes its check only behind the magic
\* words, and says READY only after InitCommSeqMem.
LEMMA MipsInv == ASSUME BootIInv, MipsNext PROVE BootIInv'
<1>. USE DEF BootIInv, BootTypeOK, PlacesOK, MagicWritten, LockHeld, WordTrue, ColdArm, Wiped,
     CPU, HwFree, FlagBits, MipsStep
<1>1. CASE MipsTryLock
  BY <1>1 DEF MipsTryLock
<1>2. CASE MipsCheck
  BY <1>2 DEF MipsCheck, isCPUReady, MagicSet
<1>3. CASE MipsInitSeq
  BY <1>3 DEF MipsInitSeq
<1>4. CASE MipsSetReady
  BY <1>4 DEF MipsSetReady, setCPUReady, MagicSet
<1>5. CASE MipsUnlock
  BY <1>5 DEF MipsUnlock
<1>6. CASE setCPUAppReady
  BY <1>6 DEF setCPUAppReady, isCPUReady
<1>7. CASE AppReadyWait
  BY <1>7 DEF AppReadyWait
<1>. QED  BY <1>1, <1>2, <1>3, <1>4, <1>5, <1>6, <1>7 DEF MipsNext

\* A reset takes READY from the word of the MIPS and marks it with NOTICE.
LEMMA ResetInv == ASSUME BootIInv, setCPUResetPhase0 PROVE BootIInv'
<1>. USE DEF BootIInv
<1>1. /\ "READY" \notin flag'[1] /\ "APP_READY" \notin flag'[1] /\ "NOTICE" \in flag'[1]
      /\ flag' \in [CPU -> SUBSET FlagBits]
  BY DEF setCPUResetPhase0, BootTypeOK, CPU, FlagBits
<1>2. /\ arm = "up" /\ arm' = "reset" /\ mips' = "wait" /\ seqInit' = FALSE
      /\ magic' = magic /\ hw0' = hw0 /\ armHas' = armHas /\ assumed' = assumed
  BY DEF setCPUResetPhase0, ArmStep
<1>3. resets' \in 1 .. MaxResets
  BY ResetAssumption DEF setCPUResetPhase0, BootTypeOK
<1>4. BootTypeOK'
  <2>1. resets' \in 0 .. MaxResets
    BY <1>3, ResetAssumption
  <2>. QED  BY <1>1, <1>2, <2>1 DEF BootTypeOK
<1>5. PlacesOK' /\ MagicWritten' /\ LockHeld'
  BY <1>2 DEF PlacesOK, MagicWritten, LockHeld, ColdArm, Wiped
<1>6. WordTrue'
  BY <1>1, <1>2, <1>3 DEF WordTrue, Wiped
<1>. QED  BY <1>4, <1>5, <1>6

\* checkNoticeReqedJob touches the ARM's own word only.
LEMMA NoticeInv == ASSUME BootIInv, checkNoticeReqedJob PROVE BootIInv'
BY DEF checkNoticeReqedJob, ClearNotice, BootIInv, BootTypeOK, PlacesOK, MagicWritten, LockHeld,
   WordTrue, CPU, FlagBits

\* BootIInv holds in every state of the start and reset protocol.
THEOREM BootInvariant == BootSpec => []BootIInv
<1>1. BootIInv /\ [BootNext]_BootVars => BootIInv'
  <2>. SUFFICES ASSUME BootIInv, [BootNext]_BootVars PROVE BootIInv'
    OBVIOUS
  <2>1. CASE UNCHANGED BootVars
    BY <2>1 DEF BootVars, BootIInv, BootTypeOK, PlacesOK, MagicWritten, LockHeld, WordTrue
  <2>. QED  BY <2>1, ArmInv, MipsInv, ResetInv, NoticeInv DEF BootNext
<1>. QED  BY BootInitInv, <1>1, PTL DEF BootSpec

\* Whatever the DRAM holds at power-on and however often the MIPS is reset, the gate
\* of SendComm2CPUEx opens only to a MIPS that has initialised its sequence memory,
\* and READY of a MIPS that has come up is not wiped by an ARM that has the lock.
THEOREM BootIsSound == BootSpec => []BootSound
<1>1. BootIInv => BootSound
  BY DEF BootIInv, BootSound, BootTypeOK, PlacesOK, MagicWritten, LockHeld, WordTrue, ColdArm,
     Wiped, GateOpen, IsCPUReset, isCPUAppReady
<1>. QED  BY BootInvariant, <1>1, PTL

-----------------------------------------------------------------------------

\* Any set of writers, such as those past the test of motor_enqueue, has at most as
\* many members as there are writers.
LEMMA WritersFinite ==
    ASSUME NEW A \in SUBSET Writers
    PROVE  /\ IsFiniteSet(A) /\ Cardinality(A) \in Nat
           /\ Cardinality(A) <= Cardinality(Writers)
           /\ Cardinality(Writers) \in Nat \ {0}
<1>1. IsFiniteSet(Writers)
  BY MotorAssumption
<1>2. IsFiniteSet(A) /\ Cardinality(A) <= Cardinality(Writers)
  BY <1>1, FS_Subset
<1>3. Cardinality(A) \in Nat /\ Cardinality(Writers) \in Nat
  BY <1>1, <1>2, FS_CardinalityType
<1>4. Cardinality(Writers) # 0
  BY <1>1, MotorAssumption, FS_EmptySet
<1>. QED  BY <1>2, <1>3, <1>4

\* motor_probe leaves the queue empty and the work item not running.
LEMMA MotorInitInv == MotorInit => MotorIInv
<1>. SUFFICES ASSUME MotorInit PROVE MotorIInv
  OBVIOUS
<1>1. ActorsOK
  <2>1. wr \in [Writers -> [at : {"idle", "test", "add", "start"}, dir : Dir, n : Int]]
    BY DEF MotorInit, Dir
  <2>2. worker \in [at : {"homing", "idle", "pending", "loop", "move", "back", "clear"},
                    dir : Dir, i : Int, again : BOOLEAN]
    BY DEF MotorInit, Dir
  <2>3. no_limit \in BOOLEAN /\ late \in BOOLEAN
    BY DEF MotorInit
  <2>. QED  BY <2>1, <2>2, <2>3 DEF ActorsOK
<1>2. MotorTypeOK
  <2>1. cmd_queue \in Seq(Dir) /\ pos \in 0 .. Lim /\ writes \in 0 .. MaxWrites
    BY MotorAssumption DEF MotorInit
  <2>2. edge \in [Dir -> BOOLEAN] /\ work_running \in BOOLEAN
    BY DEF MotorInit
  <2>. QED  BY <2>1, <2>2, <1>1 DEF MotorTypeOK, MotorInit
<1>3. RoomKept
  <2>1. Adding = {}
    BY DEF Adding, MotorInit
  <2>2. Cardinality(Adding) = 0
    BY <2>1, FS_EmptySet
  <2>3. Len(cmd_queue) = 0
    BY DEF MotorInit
  <2>. QED  BY <2>1, <2>2, <2>3, WritersFinite, MotorAssumption DEF RoomKept
<1>4. RunningTrue /\ QueueServed
  BY DEF MotorInit, RunningTrue, QueueServed, Quiet
<1>. QED  BY <1>1, <1>2, <1>3, <1>4 DEF MotorIInv

\* A step that adds no writer to Adding and does not lengthen the queue keeps the room.
LEMMA RoomStable ==
    ASSUME MotorIInv, Adding' = Adding, Len(cmd_queue') <= Len(cmd_queue), cmd_queue' \in Seq(Dir)
    PROVE  RoomKept'
<1>1. Len(cmd_queue) \in Nat /\ Len(cmd_queue') \in Nat
  BY DEF MotorIInv, MotorTypeOK
<1>2. Len(cmd_queue) + Cardinality(Adding) <= QUEUE_MAX_LEN + Cardinality(Writers) - 1
  BY DEF MotorIInv, RoomKept
<1>3. Cardinality(Adding) \in Nat /\ Cardinality(Writers) \in Nat
  <2>1. Adding \subseteq Writers
    BY DEF Adding
  <2>. QED  BY <2>1, WritersFinite
<1>. QED  BY <1>1, <1>2, <1>3, MotorAssumption DEF RoomKept

\* motor_run_up_dn up to its loop: the writer is on its way, and holds no room yet.
LEMMA RunUpDnInv ==
    ASSUME MotorIInv, NEW w \in Writers, NEW d \in Dir, NEW n \in 1 .. MaxSteps,
           NEW full \in BOOLEAN, motor_run_up_dn(w, d, n, full)
    PROVE  MotorIInv'
<1>. USE DEF MotorIInv
<1>1. ActorsOK'
  BY MotorAssumption DEF motor_run_up_dn, ActorsOK
<1>2. MotorTypeOK'
  BY MotorAssumption DEF motor_run_up_dn, MotorTypeOK
<1>3. \A v \in Writers : wr[v].at # "idle" => wr'[v] = wr[v]
  BY DEF motor_run_up_dn, ActorsOK
<1>4. RoomKept'
  <2>1. Adding' = Adding
    BY <1>3 DEF Adding, motor_run_up_dn, ActorsOK
  <2>. QED  BY <2>1, RoomStable DEF motor_run_up_dn, MotorTypeOK
<1>5. RunningTrue' /\ QueueServed'
  BY <1>3 DEF motor_run_up_dn, RunningTrue, QueueServed, Quiet
<1>. QED  BY <1>1, <1>2, <1>4, <1>5

\* The test of motor_enqueue: a writer that passes it saw a free place.
LEMMA EnqueueTestInv == ASSUME MotorIInv, NEW w \in Writers, EnqueueTest(w) PROVE MotorIInv'
<1>. USE DEF MotorIInv
<1>1. ActorsOK'
  <2>1. wr \in [Writers -> [at : {"idle", "test", "add", "start"}, dir : Dir, n : Int]]
    BY DEF ActorsOK
  <2>2. PICK s \in {"start", "add"} : wr' = [wr EXCEPT ![w].at = s]
    BY DEF EnqueueTest, WriterAt
  <2>3. wr' \in [Writers -> [at : {"idle", "test", "add", "start"}, dir : Dir, n : Int]]
    BY ONLY <2>1, <2>2, w \in Writers
  <2>. QED  BY <2>3, Zenon DEF EnqueueTest, ActorsOK
<1>2. MotorTypeOK'
  BY DEF EnqueueTest, MotorTypeOK
<1>3. RoomKept'
  <2>1. CASE Len(cmd_queue) < QUEUE_MAX_LEN
    <3>1. Adding' \subseteq Writers
      BY DEF Adding
    <3>2. /\ Cardinality(Adding') <= Cardinality(Writers) /\ Cardinality(Adding') \in Nat
          /\ Cardinality(Writers) \in Nat
      BY <3>1, WritersFinite
    <3>3. Len(cmd_queue') = Len(cmd_queue) /\ Len(cmd_queue) \in Nat
      BY DEF EnqueueTest, MotorTypeOK
    <3>. QED  BY <2>1, <3>2, <3>3, MotorAssumption DEF RoomKept
  <2>2. CASE Len(cmd_queue) >= QUEUE_MAX_LEN
    <3>1. Adding' = Adding
      BY <2>2 DEF EnqueueTest, WriterAt, Adding, ActorsOK
    <3>. QED  BY <3>1, RoomStable DEF EnqueueTest, MotorTypeOK
  <2>3. Len(cmd_queue) \in Nat
    BY DEF MotorTypeOK
  <2>. QED  BY <2>1, <2>2, <2>3, MotorAssumption
<1>4. RunningTrue' /\ QueueServed'
  <2>1. wr'[w].at # "idle"
    BY DEF EnqueueTest, WriterAt, ActorsOK
  <2>. QED  BY <2>1 DEF EnqueueTest, RunningTrue, QueueServed, Quiet
<1>. QED  BY <1>1, <1>2, <1>3, <1>4

\* motor_enqueue uses the room its writer kept.
LEMMA EnqueueInv == ASSUME MotorIInv, NEW w \in Writers, motor_enqueue(w) PROVE MotorIInv'
<1>. USE DEF MotorIInv
<1>1. ActorsOK'
  <2>1. wr \in [Writers -> [at : {"idle", "test", "add", "start"}, dir : Dir, n : Int]]
    BY DEF ActorsOK
  <2>2. wr' = [wr EXCEPT ![w].at = "test", ![w].n = @ - 1]
    BY Zenon DEF motor_enqueue
  <2>3. wr' \in [Writers -> [at : {"idle", "test", "add", "start"}, dir : Dir, n : Int]]
    BY ONLY <2>1, <2>2, w \in Writers
  <2>. QED  BY <2>3, Zenon DEF motor_enqueue, ActorsOK
<1>2. MotorTypeOK'
  <2>1. wr[w].dir \in Dir
    BY DEF ActorsOK
  <2>. QED  BY <2>1 DEF motor_enqueue, MotorTypeOK
<1>3. RoomKept'
  <2>1. w \in Adding /\ Adding' = Adding \ {w}
    BY DEF motor_enqueue, Adding, ActorsOK
  <2>2. Adding \subseteq Writers
    BY DEF Adding
  <2>3. Cardinality(Adding') = Cardinality(Adding) - 1
    BY <2>1, <2>2, WritersFinite, FS_RemoveElement
  <2>4. Len(cmd_queue') = Len(cmd_queue) + 1 /\ Len(cmd_queue) \in Nat
    BY DEF motor_enqueue, MotorTypeOK, ActorsOK
  <2>5. Cardinality(Adding) \in Nat /\ Cardinality(Writers) \in Nat
    BY <2>2, WritersFinite
  <2>. QED  BY <2>3, <2>4, <2>5, MotorAssumption DEF RoomKept
<1>4. RunningTrue' /\ QueueServed'
  <2>1. wr'[w].at # "idle"
    BY DEF motor_enqueue, ActorsOK
  <2>. QED  BY <2>1 DEF motor_enqueue, RunningTrue, QueueServed, Quiet
<1>. QED  BY <1>1, <1>2, <1>3, <1>4

\* The end of motor_run_up_dn: a worker that was not going to run is queued.
LEMMA StartInv == ASSUME MotorIInv, NEW w \in Writers, StartWork(w) PROVE MotorIInv'
<1>. USE DEF MotorIInv
<1>1. ActorsOK'
  BY DEF StartWork, WriterAt, Requeued, ActorsOK
<1>2. MotorTypeOK'
  BY <1>1 DEF StartWork, MotorTypeOK, ActorsOK
<1>3. RoomKept'
  <2>1. Adding' = Adding
    BY DEF StartWork, WriterAt, Adding, ActorsOK
  <2>2. cmd_queue' = cmd_queue /\ cmd_queue \in Seq(Dir)
    BY Zenon DEF StartWork, MotorTypeOK
  <2>3. Len(cmd_queue') <= Len(cmd_queue)
    BY ONLY <2>2
  <2>. QED  BY <2>1, <2>2, <2>3, RoomStable, Zenon
<1>4. ~Quiet'
  BY DEF StartWork, Requeued, RunningTrue, Quiet, ActorsOK
<1>5. RunningTrue' /\ QueueServed'
  BY <1>4 DEF RunningTrue, QueueServed
<1>. QED  BY <1>1, <1>2, <1>3, <1>5

\* Flushing the queue and the two sysfs files only shorten the queue.
LEMMA StoreInv ==
    ASSUME MotorIInv, motor_flush_queue \/ motor_limit_store \/ motor_ctrl_no_limit_store
    PROVE  MotorIInv'
<1>. USE DEF MotorIInv
<1>0. /\ wr' = wr /\ worker' = worker /\ late' = late /\ work_running' = work_running /\ pos' = pos
      /\ cmd_queue' = cmd_queue \/ cmd_queue' = <<>>
  BY DEF motor_flush_queue, motor_limit_store, motor_ctrl_no_limit_store
<1>1. ActorsOK'
  BY <1>0 DEF ActorsOK, motor_flush_queue, motor_limit_store, motor_ctrl_no_limit_store
<1>2. MotorTypeOK'
  <2>1. writes' \in 0 .. MaxWrites
    BY MotorAssumption DEF MotorTypeOK, motor_flush_queue, motor_limit_store, motor_ctrl_no_limit_store
  <2>2. edge' \in [Dir -> BOOLEAN]
    BY DEF MotorTypeOK, motor_flush_queue, motor_limit_store, motor_ctrl_no_limit_store
  <2>3. cmd_queue' \in Seq(Dir)
    <3>1. CASE cmd_queue' = <<>>
      BY <3>1
    <3>2. CASE cmd_queue' = cmd_queue
      BY <3>2 DEF MotorTypeOK
    <3>. QED  BY <1>0, <3>1, <3>2
  <2>. QED  BY <1>0, <2>1, <2>2, <2>3 DEF MotorTypeOK
<1>3. RoomKept'
  <2>1. Adding' = Adding
    BY <1>0 DEF Adding
  <2>2. Len(cmd_queue') <= Len(cmd_queue)
    <3>1. CASE cmd_queue' = <<>>
      <4>1. Len(cmd_queue') = 0 /\ Len(cmd_queue) \in Nat
        BY <3>1 DEF MotorTypeOK
      <4>. QED  BY <4>1
    <3>2. CASE cmd_queue' = cmd_queue
      BY <3>2 DEF MotorTypeOK
    <3>. QED  BY <1>0, <3>1, <3>2
  <2>. QED  BY <1>2, <2>1, <2>2, RoomStable DEF MotorTypeOK
<1>4. RunningTrue' /\ QueueServed'
  BY <1>0 DEF RunningTrue, QueueServed, Quiet
<1>. QED  BY <1>1, <1>2, <1>3, <1>4

\* The work item that takes a command stays a work item.
LEMMA Redirected ==
    ASSUME NEW P, NEW D, NEW k \in [at : P, dir : D, i : Int, again : BOOLEAN],
           NEW d \in D, NEW a \in P, NEW z \in Int
    PROVE  [k EXCEPT !.dir = d, !.i = z, !.at = a] \in [at : P, dir : D, i : Int, again : BOOLEAN]
OBVIOUS

\* The steps of the work item.  It goes quiet only in WorkEnds and after homing.
LEMMA WorkerInv ==
    ASSUME MotorIInv,
           \/ WorkStarts \/ motor_dequeue \/ motor_run_control \/ ReverseBackOff \/ WorkEnds
           \/ motor_initial_homing
    PROVE  MotorIInv'
<1>. USE DEF MotorIInv
<1>0. /\ wr' = wr /\ writes' = writes /\ no_limit' = no_limit
      /\ cmd_queue' = cmd_queue \/ (cmd_queue # <<>> /\ cmd_queue' = Tail(cmd_queue))
  BY DEF WorkStarts, motor_dequeue, motor_run_control, ReverseBackOff, WorkEnds, motor_initial_homing
<1>1. ActorsOK'
  <2>1. CASE WorkStarts
    BY <2>1, <1>0 DEF WorkStarts, ActorsOK
  <2>2. CASE motor_dequeue
    <3>1. CASE cmd_queue = <<>>
      BY <2>2, <3>1, <1>0 DEF motor_dequeue, ActorsOK
    <3>2. CASE cmd_queue # <<>>
      <4>1. Head(cmd_queue) \in Dir
        BY <3>2 DEF MotorTypeOK
      <4>2. PICK a \in {"loop", "move"} :
              worker' = [worker EXCEPT !.dir = Head(cmd_queue), !.i = 0, !.at = a]
        BY <2>2, <3>2 DEF motor_dequeue
      <4>3. late' = late
        BY <2>2 DEF motor_dequeue
      <4>4. worker' \in [at : {"homing", "idle", "pending", "loop", "move", "back", "clear"},
                         dir : Dir, i : Int, again : BOOLEAN]
        <5>. DEFINE P == {"homing", "idle", "pending", "loop", "move", "back", "clear"}
                    K == [at : P, dir : Dir, i : Int, again : BOOLEAN]
        <5>1. worker \in K
          BY DEF ActorsOK
        <5>2. a \in P /\ 0 \in Int
          OBVIOUS
        <5>3. [worker EXCEPT !.dir = Head(cmd_queue), !.i = 0, !.at = a] \in K
          <6>. HIDE DEF P
          <6>. QED  BY <5>1, <5>2, <4>1, Redirected, Zenon
        <5>. QED  BY <5>3, <4>2, Zenon
      <4>. QED  BY <4>3, <4>4, <1>0 DEF ActorsOK
    <3>. QED  BY <3>1, <3>2
  <2>3. CASE motor_run_control
    BY <2>3, <1>0 DEF motor_run_control, ActorsOK
  <2>4. CASE ReverseBackOff
    BY <2>4, <1>0 DEF ReverseBackOff, NextTurn, ActorsOK
  <2>5. CASE WorkEnds
    BY <2>5, <1>0 DEF WorkEnds, ActorsOK
  <2>6. CASE motor_initial_homing
    BY <2>6, <1>0 DEF motor_initial_homing, ActorsOK
  <2>. QED  BY <2>1, <2>2, <2>3, <2>4, <2>5, <2>6
<1>2. MotorTypeOK'
  <2>1. pos' \in 0 .. Lim
    <3>0. pos \in 0 .. Lim
      BY Zenon DEF MotorTypeOK
    <3>1. CASE motor_run_control
      BY <3>0, <3>1, MotorAssumption DEF Moved, motor_run_control
    <3>2. CASE ReverseBackOff
      BY <3>0, <3>2, MotorAssumption DEF Moved, ReverseBackOff
    <3>3. CASE WorkStarts \/ motor_dequeue \/ WorkEnds \/ motor_initial_homing
      BY <3>0, <3>3, MotorAssumption DEF WorkStarts, motor_dequeue, WorkEnds, motor_initial_homing
    <3>. QED  BY <3>1, <3>2, <3>3, Zenon
  <2>2. edge' \in [Dir -> BOOLEAN]
    <3>1. CASE motor_run_control
      BY <3>1 DEF motor_run_control, Finish, MotorTypeOK, ActorsOK, motor_limiter_status
    <3>2. CASE ReverseBackOff
      BY <3>2 DEF ReverseBackOff, Finish, MotorTypeOK, ActorsOK
    <3>3. CASE motor_initial_homing
      BY <3>3 DEF motor_initial_homing, MotorTypeOK
    <3>. QED  BY <3>1, <3>2, <3>3 DEF WorkStarts, motor_dequeue, WorkEnds, MotorTypeOK
  <2>3. work_running' \in BOOLEAN
    BY DEF MotorTypeOK, WorkStarts, motor_dequeue, motor_run_control,
       ReverseBackOff, WorkEnds, motor_initial_homing
  <2>4. cmd_queue' \in Seq(Dir)
    <3>1. cmd_queue \in Seq(Dir)
      BY Zenon DEF MotorTypeOK
    <3>2. CASE cmd_queue' = cmd_queue
      BY ONLY <3>1, <3>2
    <3>3. CASE cmd_queue # <<>> /\ cmd_queue' = Tail(cmd_queue)
      BY ONLY <3>1, <3>3
    <3>. QED  BY <1>0, <3>2, <3>3, Zenon
  <2>. QED  BY <1>0, <1>1, <2>1, <2>2, <2>3, <2>4 DEF MotorTypeOK, ActorsOK
<1>3. RoomKept'
  <2>1. Adding' = Adding
    BY <1>0 DEF Adding
  <2>2. cmd_queue' \in Seq(Dir) /\ Len(cmd_queue') <= Len(cmd_queue)
    <3>1. cmd_queue \in Seq(Dir)
      BY Zenon DEF MotorTypeOK
    <3>2. CASE cmd_queue' = cmd_queue
      BY ONLY <3>1, <3>2
    <3>3. CASE cmd_queue # <<>> /\ cmd_queue' = Tail(cmd_queue)
      BY ONLY <3>1, <3>3
    <3>. QED  BY <1>0, <3>2, <3>3, Zenon
  <2>. QED  BY <2>1, <2>2, RoomStable
<1>4. RunningTrue' /\ QueueServed'
  <2>1. CASE WorkEnds
    BY <2>1 DEF WorkEnds, RunningTrue, QueueServed
  <2>2. CASE motor_initial_homing
    BY <2>2 DEF motor_initial_homing, RunningTrue, QueueServed, Quiet, ActorsOK
  <2>3. CASE WorkStarts \/ motor_dequeue \/ motor_run_control \/ ReverseBackOff
    BY <2>3 DEF WorkStarts, motor_dequeue, motor_run_control, ReverseBackOff, RunningTrue,
       QueueServed, Quiet, ActorsOK
  <2>. QED  BY <2>1, <2>2, <2>3
<1>. QED  BY <1>1, <1>2, <1>3, <1>4

\* MotorIInv holds in every state of the writers and the work item.
THEOREM MotorInvariant == MotorSpec => []MotorIInv
<1>1. MotorIInv /\ [MotorNext]_MotorVars => MotorIInv'
  <2>. SUFFICES ASSUME MotorIInv, [MotorNext]_MotorVars PROVE MotorIInv'
    OBVIOUS
  <2>1. CASE UNCHANGED MotorVars
    BY <2>1 DEF MotorVars, MotorIInv, MotorTypeOK, ActorsOK, RoomKept, Adding, RunningTrue,
       QueueServed, Quiet
  <2>. QED  BY <2>1, RunUpDnInv, EnqueueTestInv, EnqueueInv, StartInv, StoreInv, WorkerInv DEF MotorNext
<1>. QED  BY MotorInitInv, <1>1, PTL DEF MotorSpec

\* Whatever the number of writers, motor_enqueue overshoots QUEUE_MAX_LEN by less
\* than that number, and a step is left behind only by the race at the end of
\* motor_work_handler.
THEOREM MotorQueueIsSound == MotorSpec => []MotorQueueSound
<1>1. MotorIInv => MotorQueueSound
  <2>. SUFFICES ASSUME MotorIInv PROVE MotorQueueSound
    OBVIOUS
  <2>1. Adding \subseteq Writers /\ Len(cmd_queue) \in Nat
    BY DEF Adding, MotorIInv, MotorTypeOK
  <2>2. Cardinality(Adding) \in Nat /\ Cardinality(Writers) \in Nat
    BY <2>1, WritersFinite
  <2>3. Len(cmd_queue) <= QUEUE_MAX_LEN + Cardinality(Writers) - 1
    BY <2>1, <2>2, MotorAssumption DEF MotorIInv, RoomKept
  <2>4. Stranded => late
    BY DEF Stranded, MotorIInv, QueueServed, Quiet
  <2>. QED  BY <2>3, <2>4 DEF MotorIInv, MotorQueueSound
<1>. QED  BY MotorInvariant, <1>1, PTL

=============================================================================
