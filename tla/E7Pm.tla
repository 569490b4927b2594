-------------------------------- MODULE E7Pm --------------------------------
(***************************************************************************)
(* plat/arm/board/devkit_e7/e7_pm.c and e7_helpers.S: CPU hotplug of the   *)
(* Ensemble E7 below PSCI, with every access to the shared HOST_CPU_WAKEUP *)
(* register a step of its own.                                             *)
(*                                                                         *)
(* PSCI is kept to what orders the platform hooks: CPU_ON holds the target *)
(* CPU's lock and finds it OFF, CPU_OFF holds the power domain locks, of   *)
(* which one, the cluster's, is common to all CPUs.  A CPU in WFI loses    *)
(* power when its wakeup bit is clear, and leaves reset when it is set.    *)
(***************************************************************************)
EXTENDS Integers, FiniteSets

CONSTANTS CPU,     \* the CPU numbers, 0 is the primary CPU
          Hotplug, \* the CPUs the OS takes down
          Quiesced,\* the OS calls SYSTEM_OFF only when all other CPUs are down
          None

ASSUME E7Assumption == 0 \in CPU /\ CPU \subseteq Nat /\ Hotplug \subseteq CPU /\ Quiesced \in BOOLEAN

VARIABLES pc,       \* what each CPU executes
          target,   \* the CPU that a CPU_ON is for
          val,      \* the local copy of a register
          aff,      \* aff_info_state
          cpu_lock, \* per CPU: the caller of CPU_ON that holds its lock
          domain_lock,
          flags,    \* the CPUs whose secondary_cpu_flags entry is 0xADD
          boot_msk, wakeup, \* HOST_CPU_BOOT_MSK, HOST_CPU_WAKEUP
          started   \* history: the CPUs that a CPU_ON of the platform was for

psci == <<aff, cpu_lock, domain_lock>>
regs == <<boot_msk, wakeup>>
vars == <<pc, target, val, psci, flags, regs, started>>

PCs == {"ns", "on", "on_msk", "on_wakeup", "on_set", "on_done", "off", "off_set", "off_done",
        "sysoff", "sysoff_set", "wfi", "power_off", "reset", "parked", "warm", "cold"}

TypeOK == /\ pc \in [CPU -> PCs] /\ target \in [CPU -> CPU \cup {None}]
          /\ val \in [CPU -> SUBSET CPU]
          /\ aff \in [CPU -> {"ON", "OFF", "ON_PENDING"}]
          /\ cpu_lock \in [CPU -> CPU \cup {None}] /\ domain_lock \in CPU \cup {None}
          /\ flags \subseteq CPU \ {0} /\ boot_msk \subseteq CPU /\ wakeup \subseteq CPU
          /\ started \subseteq CPU

\* The primary CPU finished its cold boot; the others may have been released
\* with it, and run into plat_secondary_cold_boot_setup().
InitialPc(released) == [c \in CPU |-> IF c = 0 THEN "ns" ELSE IF c \in released THEN "reset" ELSE "power_off"]

Init == /\ boot_msk = {0}
        /\ \E released \in SUBSET (CPU \ {0}) :
             /\ pc = InitialPc(released)
             /\ wakeup = {0} \cup released
        /\ target = [c \in CPU |-> None] /\ val = [c \in CPU |-> {}]
        /\ aff = [c \in CPU |-> IF c = 0 THEN "ON" ELSE "OFF"]
        /\ cpu_lock = [c \in CPU |-> None] /\ domain_lock = None
        /\ flags = {} /\ started = {}

Goto(c, l) == pc' = [pc EXCEPT ![c] = l]
-----------------------------------------------------------------------------
\* psci_cpu_on_start() took the lock of t and found it OFF.
CpuOn(c, t) == /\ pc[c] = "ns" /\ c # t
               /\ cpu_lock[t] = None /\ aff[t] = "OFF"
               /\ cpu_lock' = [cpu_lock EXCEPT ![t] = c]
               /\ aff' = [aff EXCEPT ![t] = "ON_PENDING"]
               /\ target' = [target EXCEPT ![c] = t]
               /\ Goto(c, "on")
               /\ UNCHANGED <<val, domain_lock, flags, regs, started>>

\* ensemble_pwr_domain_on(): the flag of a secondary CPU is set; the index of
\* the primary CPU, -1, is outside the array ...
SetFlag(c) == /\ pc[c] = "on"
              /\ flags' = flags \cup ({target[c]} \ {0})
              /\ started' = started \cup {target[c]}
              /\ Goto(c, "on_msk")
              /\ UNCHANGED <<target, val, psci, regs>>

\* ... the boot mask is set ...
SetBootMask(c) == /\ pc[c] = "on_msk"
                  /\ boot_msk' = boot_msk \cup {target[c]}
                  /\ Goto(c, "on_wakeup")
                  /\ UNCHANGED <<target, val, psci, flags, wakeup, started>>

\* ... the wakeup register is read, and written back with the target's bit.
ReadWakeup(c) == /\ pc[c] \in {"on_wakeup", "off", "sysoff"}
                 /\ val' = [val EXCEPT ![c] = wakeup]
                 /\ Goto(c, CASE pc[c] = "on_wakeup" -> "on_set"
                              [] pc[c] = "off" -> "off_set"
                              [] pc[c] = "sysoff" -> "sysoff_set")
                 /\ UNCHANGED <<target, psci, flags, regs, started>>

\* Mutant: the bit of the calling CPU is set.
WriteWakeup_Self(c) == /\ pc[c] = "on_set"
                       /\ wakeup' = val[c] \cup {c}
                       /\ Goto(c, "on_done")
                       /\ UNCHANGED <<target, val, psci, flags, boot_msk, started>>

WriteWakeup(c) == /\ pc[c] = "on_set"
                  /\ wakeup' = val[c] \cup {target[c]}
                  /\ Goto(c, "on_done")
                  /\ UNCHANGED <<target, val, psci, flags, boot_msk, started>>

\* The rest of psci_cpu_on_start().
CpuOnDone(c) == /\ pc[c] = "on_done"
                /\ cpu_lock' = [cpu_lock EXCEPT ![target[c]] = None]
                /\ target' = [target EXCEPT ![c] = None]
                /\ Goto(c, "ns")
                /\ UNCHANGED <<val, aff, domain_lock, flags, regs, started>>
-----------------------------------------------------------------------------
\* psci_do_cpu_off() took the power domain locks and calls the platform ...
CpuOff(c) == /\ pc[c] = "ns" /\ c \in Hotplug
             /\ domain_lock = None
             /\ domain_lock' = c
             /\ Goto(c, "off")
             /\ UNCHANGED <<target, val, aff, cpu_lock, flags, regs, started>>

\* ... ensemble_pwr_domain_off() clears the CPU's own bit ...
ClearWakeup(c) == /\ pc[c] \in {"off_set", "sysoff_set"}
                  /\ wakeup' = val[c] \ {c}
                  /\ Goto(c, IF pc[c] = "off_set" THEN "off_done" ELSE "wfi")
                  /\ UNCHANGED <<target, val, psci, flags, boot_msk, started>>

\* ... the locks are released, the state is OFF, and the CPU enters WFI.
CpuOffDone(c) == /\ pc[c] = "off_done"
                 /\ domain_lock' = None
                 /\ aff' = [aff EXCEPT ![c] = "OFF"]
                 /\ Goto(c, "wfi")
                 /\ UNCHANGED <<target, val, cpu_lock, flags, regs, started>>

\* psci_system_off() and ensemble_system_off(), without a lock.
SystemOff(c) == /\ pc[c] = "ns"
                /\ Quiesced => \A d \in CPU \ {c} : aff[d] = "OFF" /\ pc[d] \in {"power_off", "parked"}
                /\ Goto(c, "sysoff")
                /\ UNCHANGED <<target, val, psci, flags, regs, started>>
-----------------------------------------------------------------------------
\* The power controller.
PowerDown(c) == /\ pc[c] \in {"wfi", "parked"} /\ c \notin wakeup
                /\ Goto(c, "power_off")
                /\ UNCHANGED <<target, val, psci, flags, regs, started>>

PowerUp(c) == /\ pc[c] = "power_off" /\ c \in wakeup
              /\ Goto(c, "reset")
              /\ UNCHANGED <<target, val, psci, flags, regs, started>>

\* Mutant: the flag is not looked at.
Reset_NoFlag(c) == /\ pc[c] = "reset"
                   /\ Goto(c, IF c = 0 THEN "cold" ELSE "warm")
                   /\ UNCHANGED <<target, val, psci, flags, regs, started>>

\* The reset vector: plat_get_my_entrypoint() returns 0, so that the primary
\* CPU boots cold, and plat_secondary_cold_boot_setup() sends the others to
\* the warm entry point when their flag is set, to wfi_loop when it is not.
Reset(c) == /\ pc[c] = "reset"
            /\ Goto(c, IF c = 0 THEN "cold" ELSE IF c \in flags THEN "warm" ELSE "parked")
            /\ UNCHANGED <<target, val, psci, flags, regs, started>>

\* psci_cpu_on_finish() waits for the caller of CPU_ON; the CPU is on.
WarmBoot(c) == /\ pc[c] = "warm"
               /\ cpu_lock[c] = None
               /\ aff' = [aff EXCEPT ![c] = "ON"]
               /\ Goto(c, "ns")
               /\ UNCHANGED <<target, val, cpu_lock, domain_lock, flags, regs, started>>

Step(c) == \/ SetFlag(c) \/ SetBootMask(c) \/ ReadWakeup(c) \/ WriteWakeup(c) \/ CpuOnDone(c)
           \/ CpuOff(c) \/ ClearWakeup(c) \/ CpuOffDone(c) \/ SystemOff(c)
           \/ PowerDown(c) \/ PowerUp(c) \/ Reset(c) \/ WarmBoot(c)
           \/ \E t \in CPU : CpuOn(c, t)

Next == \E c \in CPU : Step(c)

Spec == Init /\ [][Next]_vars
-----------------------------------------------------------------------------
\* The read-modify-write of HOST_CPU_WAKEUP by CPU_ON, under the target's
\* lock, and those of CPU_OFF and SYSTEM_OFF, under other locks or none, do
\* not lose the bit of a CPU that was turned on.
NoLostWakeup == \A c \in started :
                  cpu_lock[c] = None /\ (aff[c] = "ON_PENDING" \/ pc[c] = "ns") => c \in wakeup

\* A CPU runs the warm boot path only after a CPU_ON for it: the psci state it
\* reads there is ON_PENDING, although its flag stays set for ever after.
WarmBootIsPending == \A c \in CPU : pc[c] = "warm" => aff[c] = "ON_PENDING"
=============================================================================
