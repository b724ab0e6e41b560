------------------------------ MODULE MCPlatform ------------------------------
(* The platform drivers for TLC: the spinlocks and the start of the two CPUs, the
   decoder's display side and the keystone motor.  They share no state, so a
   behaviour is one of a single component, as "part" says.

   Three kernel tasks, the first two of one process, use one lock. *)
EXTENDS CommSpinLock, CommBoot, DecdFrame, KeystoneMotor, TLC

VARIABLE part

MCTasks   == 1 .. 3
MCTgid    == 1 :> 10 @@ 2 :> 10 @@ 3 :> 20
MCOneLock == {5}

Parts == {"lock", "boot", "decd", "motor"}
Only(p, next, others) == part = p /\ next /\ UNCHANGED others

\* A component that does not move starts in one of its initial states.
PlatformInit ==
    /\ part \in Parts
    /\ Init /\ BootInit /\ DecdInit /\ MotorInit
    /\ part # "boot" => flag = [c \in CPU |-> {}]
    /\ part # "motor" => pos = 0

PlatformNext ==
    /\ \/ Only("lock", Next, <<BootVars, DecdVars, MotorVars>>)
       \/ Only("boot", BootNext, <<vars, DecdVars, MotorVars>>)
       \/ Only("decd", DecdNext, <<vars, BootVars, MotorVars>>)
       \/ Only("motor", MotorNext, <<vars, BootVars, DecdVars>>)
    /\ UNCHANGED part

platformVars == <<part, vars, BootVars, DecdVars, MotorVars>>

\* Both CPUs run on, and the MIPS gets hardware lock 0 if it is free again and
\* again.  The vsync interrupt comes, and the tasklet and a thread inside an ioctl of
\* the decoder run on.
PlatformSpec ==
    /\ PlatformInit /\ [][PlatformNext]_platformVars
    /\ WF_BootVars(part = "boot" /\ ArmNext) /\ SF_BootVars(part = "boot" /\ MipsTryLock)
    /\ WF_BootVars(part = "boot" /\ MipsNext)
    /\ WF_DecdVars(part = "decd" /\ dec_vsync_process)
    /\ WF_DecdVars(part = "decd" /\ dec_frame_queue_refresh)
    /\ WF_DecdVars(part = "decd" /\ dec_frame_queue_resume)

DecdOnly == PlatformInit /\ part = "decd" /\ [][PlatformNext]_platformVars
MotorOnly == PlatformInit /\ part = "motor" /\ [][PlatformNext]_platformVars
LockOnly == PlatformInit /\ part = "lock" /\ [][PlatformNext]_platformVars
===============================================================================
