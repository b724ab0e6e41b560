----------------------------- MODULE CommBoot -----------------------------
(***************************************************************************)
(* The start of the two CPUs and the reset of the MIPS: InitCommMem and    *)
(* the CPU status words of cpu_comm_mem.c, and the end of cpu_comm_init in *)
(* cpu_comm_dev.c.  CPU 0 is the ARM, CPU 1 the MIPS.  The MIPS runs the   *)
(* other branch of InitCommMem.  A section under comm_SpinLock(3) is one   *)
(* step; the stores that are made without it are steps of their own.       *)
(***************************************************************************)
EXTENDS Integers

CONSTANT MaxResets   \* resets of the MIPS in a behaviour

ASSUME ResetAssumption == MaxResets \in Nat

CPU == 0 .. 1
HwFree == 2          \* nobody holds hardware lock 0
FlagBits == {"READY", "NOT_READY", "APP_READY", "NOTICE"}  \* NOTICE is also RESET

VARIABLES
  flag,      \* the status word of each CPU: a set of bits
  magic,     \* the two magic words: [1 .. 2 -> BOOLEAN]
  hw0,       \* who holds hardware lock 0
  armHas,    \* tryspinlockhwReg(0) of the ARM succeeded
  arm,       \* where the ARM is in InitCommMem, cpu_comm_init or a reset
  mips,      \* where the MIPS is
  seqInit,   \* the MIPS ran InitCommSeqMem since it was last reset
  assumed,   \* mips_app_ready_assumed
  resets     \* resets of the MIPS so far

BootVars == <<flag, magic, hw0, armHas, arm, mips, seqInit, assumed, resets>>

MagicSet == magic[1] /\ magic[2]
isCPUReady(c) == MagicSet /\ "READY" \in flag[c]
IsCPUReset(c) == "NOTICE" \in flag[c]
isCPUAppReady(c) ==
  MagicSet /\ ("APP_READY" \in flag[c] \/ (c = 1 /\ assumed))

\* setCPUReady, which does nothing until both magic words are there.
setCPUReady(c) ==
  flag' = IF MagicSet
          THEN [flag EXCEPT ![c] = (@ \cup {"READY"}) \ {"NOT_READY", "NOTICE"}]
          ELSE flag

ArmStep(from, to) == arm = from /\ arm' = to
MipsStep(from, to) == mips = from /\ mips' = to

---------------------------------------------------------------------------
(* The ARM: InitCommMem(0).                                                *)

\* The result of tryspinlockhwReg is not looked at.
ArmTryLock ==
  /\ ArmStep("start", "setup")
  /\ magic' = [magic EXCEPT ![1] = TRUE]
  /\ armHas' = (hw0 = HwFree)
  /\ hw0' = IF hw0 = HwFree THEN 0 ELSE hw0
  /\ UNCHANGED <<flag, mips, seqInit, assumed, resets>>

ArmSetup ==
  /\ ArmStep("setup", "magic")
  /\ magic' = [magic EXCEPT ![1] = FALSE]
  /\ UNCHANGED <<flag, hw0, armHas, mips, seqInit, assumed, resets>>

ArmMagic ==
  /\ ArmStep("magic", "ready")
  /\ magic' = [i \in 1 .. 2 |-> TRUE]
  /\ UNCHANGED <<flag, hw0, armHas, mips, seqInit, assumed, resets>>

ArmReady ==
  /\ ArmStep("ready", "armflag")
  /\ setCPUReady(0)
  /\ UNCHANGED <<magic, hw0, armHas, mips, seqInit, assumed, resets>>

\* *arm_flag = READY | APP_READY, then *mips_flag = 0.
ArmFlag ==
  /\ ArmStep("armflag", "mipsflag")
  /\ flag' = [flag EXCEPT ![0] = {"READY", "APP_READY"}]
  /\ UNCHANGED <<magic, hw0, armHas, mips, seqInit, assumed, resets>>

MipsFlag ==
  /\ ArmStep("mipsflag", "unlock")
  /\ flag' = [flag EXCEPT ![1] = {}]
  /\ UNCHANGED <<magic, hw0, armHas, mips, seqInit, assumed, resets>>

\* spinUnlockhwReg(0) frees the lock whoever holds it.
ArmUnlock ==
  /\ ArmStep("unlock", "notice")
  /\ hw0' = HwFree
  /\ UNCHANGED <<flag, magic, armHas, mips, seqInit, assumed, resets>>

\* The wait for NOTICE to be clear in both words, at most 2000 ms.
ArmNotice ==
  /\ ArmStep("notice", "announce")
  /\ UNCHANGED <<flag, magic, hw0, armHas, mips, seqInit, assumed, resets>>

\* cpu_comm_init writes the ARM's word again.
ArmAnnounce ==
  /\ ArmStep("announce", "poll")
  /\ flag' = [flag EXCEPT ![0] = {"READY", "APP_READY"}]
  /\ UNCHANGED <<magic, hw0, armHas, mips, seqInit, assumed, resets>>

\* The wait for the MIPS: READY is seen, or 5000 ms pass.
ArmSeesReady ==
  /\ ArmStep("poll", "up") /\ "READY" \in flag[1]
  /\ assumed' = TRUE
  /\ UNCHANGED <<flag, magic, hw0, armHas, mips, seqInit, resets>>

ArmPollTimeout ==
  /\ ArmStep("poll", "up") /\ "READY" \notin flag[1]
  /\ UNCHANGED <<flag, magic, hw0, armHas, mips, seqInit, assumed, resets>>

---------------------------------------------------------------------------
(* setCPUReset(1, phase) from IOCTL_SET_RESET: a client stops the MIPS     *)
(* with phase 0 and cleans up with phase 1.  The MIPS is not stopped while *)
(* it holds hardware lock 0.                                               *)

\* Mutant: the word of the MIPS does not get the NOTICE bit.
BugQuietReset ==
  /\ ArmStep("up", "reset") /\ MagicSet /\ resets < MaxResets /\ hw0 # 1
  /\ flag' = [flag EXCEPT ![0] = @ \cup {"NOTICE"},
                          ![1] = (@ \ {"READY", "APP_READY"}) \cup {"NOT_READY"}]
  /\ mips' = "wait"
  /\ seqInit' = FALSE
  /\ resets' = resets + 1
  /\ UNCHANGED <<magic, hw0, armHas, assumed>>

setCPUResetPhase0 ==
  /\ ArmStep("up", "reset") /\ MagicSet /\ resets < MaxResets /\ hw0 # 1
  /\ flag' = [flag EXCEPT ![0] = @ \cup {"NOTICE"},
                          ![1] = (@ \ {"READY", "APP_READY"}) \cup {"NOT_READY", "NOTICE"}]
  /\ mips' = "wait"
  /\ seqInit' = FALSE
  /\ resets' = resets + 1
  /\ UNCHANGED <<magic, hw0, armHas, assumed>>

\* checkNoticeReqedJob, from IOCTL_NOTICE_CHECK and at the start of phase 1,
\* ends with clearCPUNoticeReqed: the bit of the ARM.
ClearNotice == flag' = [flag EXCEPT ![0] = @ \ {"NOTICE"}]

checkNoticeReqedJob ==
  /\ arm \in {"up", "reset"} /\ MagicSet
  /\ ClearNotice
  /\ UNCHANGED <<magic, hw0, armHas, arm, mips, seqInit, assumed, resets>>


\* The rest of phase 1 cleans up the locks, the routine table and the shared
\* sequences, which are not in this model.
setCPUResetPhase1 ==
  /\ ArmStep("reset", "up") /\ MagicSet
  /\ ClearNotice
  /\ UNCHANGED <<magic, hw0, armHas, mips, seqInit, assumed, resets>>

---------------------------------------------------------------------------
(* The MIPS: the other branch of InitCommMem, then setCPUAppReady(1).      *)

MipsTryLock ==
  /\ MipsStep("wait", "check") /\ hw0 = HwFree
  /\ hw0' = 1
  /\ UNCHANGED <<flag, magic, armHas, arm, seqInit, assumed, resets>>

MipsCheck ==
  /\ mips = "check"
  /\ IF MagicSet /\ isCPUReady(0) /\ ~IsCPUReset(0)
     THEN mips' = IF isCPUReady(1) THEN "leave" ELSE "init"
     ELSE mips' = "retry"
  /\ UNCHANGED <<flag, magic, hw0, armHas, arm, seqInit, assumed, resets>>

MipsInitSeq ==
  /\ MipsStep("init", "setready")
  /\ seqInit' = TRUE
  /\ UNCHANGED <<flag, magic, hw0, armHas, arm, assumed, resets>>

MipsSetReady ==
  /\ MipsStep("setready", "leave")
  /\ setCPUReady(1)
  /\ UNCHANGED <<magic, hw0, armHas, arm, seqInit, assumed, resets>>

MipsUnlock ==
  /\ mips \in {"leave", "retry"}
  /\ mips' = IF mips = "leave" THEN "app" ELSE "wait"
  /\ hw0' = HwFree
  /\ UNCHANGED <<flag, magic, armHas, arm, seqInit, assumed, resets>>

\* setCPUAppReady(1) returns at once unless the CPU is ready and not in reset.
setCPUAppReady ==
  /\ mips = "app"
  /\ IF isCPUReady(1) /\ ~IsCPUReset(1)
     THEN /\ flag' = [flag EXCEPT ![1] = @ \cup {"APP_READY"}]
          /\ mips' = "appwait"
     ELSE mips' = "run" /\ UNCHANGED flag
  /\ UNCHANGED <<magic, hw0, armHas, arm, seqInit, assumed, resets>>

\* It waits 2000 ms for the other CPU and then sets its bit as well.
AppReadyWait ==
  /\ MipsStep("appwait", "run")
  /\ flag' = [flag EXCEPT ![0] = @ \cup {"APP_READY"}]
  /\ UNCHANGED <<magic, hw0, armHas, arm, seqInit, assumed, resets>>

---------------------------------------------------------------------------
\* A cold start: the status words hold what the DRAM holds, the magic words
\* do not match.
BootInit ==
  /\ flag \in [CPU -> SUBSET FlagBits] /\ magic = [i \in 1 .. 2 |-> FALSE]
  /\ hw0 = HwFree /\ armHas = FALSE /\ arm = "start" /\ mips = "wait"
  /\ seqInit = FALSE /\ assumed = FALSE /\ resets = 0

ArmNext ==
  \/ ArmTryLock \/ ArmSetup \/ ArmMagic \/ ArmReady \/ ArmFlag \/ MipsFlag
  \/ ArmUnlock \/ ArmNotice \/ ArmAnnounce \/ ArmSeesReady \/ ArmPollTimeout
  \/ setCPUResetPhase1
MipsNext ==
  \/ MipsTryLock \/ MipsCheck \/ MipsInitSeq \/ MipsSetReady \/ MipsUnlock
  \/ setCPUAppReady \/ AppReadyWait
BootNext == ArmNext \/ MipsNext \/ setCPUResetPhase0 \/ checkNoticeReqedJob

BootSpec == BootInit /\ [][BootNext]_BootVars

---------------------------------------------------------------------------
BootTypeOK ==
  /\ flag \in [CPU -> SUBSET FlagBits] /\ magic \in [1 .. 2 -> BOOLEAN]
  /\ hw0 \in 0 .. 2 /\ seqInit \in BOOLEAN /\ resets \in 0 .. MaxResets

\* The gate of SendComm2CPUEx for a message to the MIPS.
GateOpen == ~IsCPUReset(1) /\ isCPUAppReady(1)

(***************************************************************************)
(* What the status words say of the MIPS is true.  Once the ARM is up, the *)
(* gate of a call opens only if the MIPS has initialised its sequence      *)
(* memory since it was last reset: mips_app_ready_assumed is never cleared, *)
(* so after a reset the NOTICE bit alone keeps the gate shut.  And the ARM *)
(* does not wipe the READY bit of a MIPS that has come up, provided that   *)
(* it did get hardware lock 0.                                             *)
(***************************************************************************)
BootSound ==
  /\ BootTypeOK
  /\ arm \in {"up", "reset"} /\ GateOpen => seqInit
  /\ assumed /\ resets = 0 => seqInit
  /\ armHas /\ mips \in {"app", "appwait", "run"} => "READY" \in flag[1]

\* The strengthening the proof needs.  ColdArm: the ARM has not yet written the
\* second magic word, and the MIPS cannot pass its check.  WordTrue: once the ARM
\* has wiped the word of the MIPS, READY and a clear NOTICE mean what they say.
ColdArm == {"start", "setup", "magic"}
Wiped == {"unlock", "notice", "announce", "poll", "up", "reset"}

PlacesOK ==
  /\ arm \in ColdArm \cup Wiped \cup {"ready", "armflag", "mipsflag"}
  /\ mips \in {"wait", "check", "retry", "init", "setready", "leave", "app", "appwait", "run"}
  /\ armHas \in BOOLEAN /\ assumed \in BOOLEAN
MagicWritten ==
  /\ arm \in ColdArm <=> ~magic[2]
  /\ arm \notin ColdArm => magic[1]
  /\ arm \in ColdArm => mips \in {"wait", "check", "retry"}
LockHeld ==
  /\ arm = "start" => ~armHas /\ (hw0 = HwFree => mips = "wait")
  /\ armHas /\ arm \notin Wiped \ {"unlock"} => hw0 = 0 /\ mips = "wait"
WordTrue ==
  /\ mips = "setready" => seqInit
  /\ assumed => arm \in {"up", "reset"} /\ (resets = 0 => seqInit)
  /\ arm \in Wiped => /\ "READY" \in flag[1] => seqInit
                      /\ "APP_READY" \in flag[1] => "READY" \in flag[1]
                      /\ assumed => "NOTICE" \in flag[1] \/ seqInit
  /\ armHas /\ mips \in {"leave", "app", "appwait", "run"} => "READY" \in flag[1]

BootIInv == BootTypeOK /\ PlacesOK /\ MagicWritten /\ LockHeld /\ WordTrue

=============================================================================
