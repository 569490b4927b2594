------------------------------ MODULE E7System ------------------------------
(***************************************************************************)
(* The Ensemble E7 from power on to power off: sp_min_main() sets up and   *)
(* programs the NOR flash (OspiFlash) before CPU 0 enters the OS, which    *)
(* turns CPUs on and off (E7Pm), while a reset or a loss of power of the   *)
(* whole system may come at any time and brings it back to the boot.       *)
(***************************************************************************)
EXTENDS E7Pm, OspiFlash

system_vars == <<vars, flash_vars>>

SystemInit == Init /\ FlashInit

\* sp_min_main() on CPU 0, before the OS is entered; the hardware of the flash.
Boot == /\ FlashBoot \/ FlashHardware \/ Stage
        /\ UNCHANGED vars

\* Hotplug.  CPU 0 is in the OS when the flash is set up; the others may run
\* into their reset path before.
Pm(c) == /\ c = 0 => fpc = "done"
         /\ Step(c)
         /\ UNCHANGED flash_vars

\* The boot after a reset finds the state of E7Pm as at power on.
Restart(released) ==
  /\ \E powerLoss \in BOOLEAN : SystemReset(powerLoss)
  /\ pc' = InitialPc(released) /\ wakeup' = {0} \cup released /\ boot_msk' = {0}
  /\ target' = [c \in CPU |-> None] /\ val' = [c \in CPU |-> {}]
  /\ aff' = [c \in CPU |-> IF c = 0 THEN "ON" ELSE "OFF"]
  /\ cpu_lock' = [c \in CPU |-> None] /\ domain_lock' = None
  /\ flags' = {} /\ started' = {}

SystemNext == Boot \/ (\E c \in CPU : Pm(c)) \/ (\E released \in SUBSET (CPU \ {0}) : Restart(released))

SystemSpec == SystemInit /\ [][SystemNext]_system_vars
=============================================================================
