----------------------------- MODULE OspiFlash -----------------------------
(***************************************************************************)
(* plat/arm/board/devkit_e7/ospi_flash/norflash_ospi_setup.c: the setup of *)
(* the NOR flash at boot, and the programming of an image that was staged  *)
(* in MRAM, with resets and power losses at any point.                     *)
(*                                                                         *)
(* The MRAM keeps its contents; a header there asks for the programming by *)
(* its magic.  The flash understands commands in one of two modes.  A page *)
(* holds a version of the image, is erased, or is Garbage: half erased or  *)
(* half programmed, or programmed without an erase before.                 *)
(***************************************************************************)
EXTENDS Integers

CONSTANTS Pages,          \* pages of the flash
          SectorPages,    \* pages in a sector
          Length,         \* pages of an image; it begins at page 0
          Versions, MaxResets, \* bounds on the images staged, and on the resets
          Erased, Garbage

FlashConstants == /\ {Pages, SectorPages, Length, Versions, MaxResets} \subseteq Nat
                  /\ SectorPages > 0 /\ Pages % SectorPages = 0 /\ Length <= Pages /\ Versions > 0

ASSUME FlashAssumption == FlashConstants

VARIABLES fpc, idx,       \* where init_nor_flash() is, and the loop index
          ddr_en, xip,    \* ospi_cfg->ddr_en, and XIP_EN of the controller
          written,        \* magic = 0 is in the cache
          magic, staged,  \* MRAM: the header's magic is set; the staged version
          page, mode,     \* the flash: its pages, its mode,
          wip,            \* and what the pages that it is busy with become
          timeout,        \* history: a wait of this boot timed out
          garbled,        \* history: a command met a flash in another mode
          resets          \* resets so far

soc == <<ddr_en, xip, written>>
mram == <<magic, staged>>
flash == <<page, mode, wip>>
history == <<timeout, garbled, resets>>
flash_vars == <<fpc, idx, soc, mram, flash, history>>

Page == 0..(Pages - 1)
Idle == [p \in {} |-> Erased]
Sector(i) == {p \in Page : i * SectorPages <= p /\ p < i * SectorPages + SectorPages}

FlashTypeOK == /\ fpc \in {"pinmux", "setup", "config", "magic", "erase", "erase_wait", "program", "program_wait",
                           "clear", "flush", "reset", "again", "reconfig", "panic", "key_failed", "done"}
               /\ idx \in 0..Pages /\ {ddr_en, xip, written, magic, timeout, garbled} \subseteq BOOLEAN
               /\ staged \in 0..Versions /\ page \in [Page -> 0..Versions \cup {Erased, Garbage}]
               /\ mode \in {"spi", "ddr", "resetting"} /\ DOMAIN wip \subseteq Page /\ resets \in 0..MaxResets

FlashInit == /\ fpc = "pinmux" /\ idx = 0
             /\ ddr_en = FALSE /\ xip = FALSE /\ written = FALSE
             /\ magic = FALSE /\ staged = 0
             /\ page = [p \in Page |-> 0] /\ mode = "spi" /\ wip = Idle
             /\ timeout = FALSE /\ garbled = FALSE /\ resets = 0

\* A command of the controller, in DDR or not, reaches a flash in that mode.
Send(ddr) == garbled' = (garbled \/ xip \/ mode # (IF ddr THEN "ddr" ELSE "spi"))

NowAt(place) == fpc' = place
-----------------------------------------------------------------------------
\* Mutant: the reset pin is not pulled.
setup_PinMUX_NoReset == /\ fpc = "pinmux"
                        /\ NowAt("setup")
                        /\ UNCHANGED <<idx, soc, mram, flash, history>>

\* setup_PinMUX() pulls the reset pin of the flash low and high.
setup_PinMUX == /\ fpc = "pinmux"
                /\ NowAt("setup")
                /\ mode' = "resetting" /\ wip' = Idle
                /\ UNCHANGED <<idx, soc, mram, page, history>>

\* In a build with AES_EN the key request of SeService follows, whose failure
\* ends the boot.
KeyFails == /\ fpc = "setup"
            /\ NowAt("key_failed")
            /\ UNCHANGED <<idx, soc, mram, flash, history>>

\* issi_flash_probe() as setup_flash_xip() calls it, after ospi_init(): the
\* ID is read in SPI mode, and the flash switched to DDR mode.  Nothing waits
\* for the end of a reset: a flash that is still in it does not answer.
Probe == /\ fpc \in {"setup", "again"}
         /\ xip' = FALSE
         /\ IF mode = "spi"
            THEN /\ mode' = "ddr" /\ ddr_en' = TRUE
                 /\ NowAt(IF fpc = "setup" THEN "config" ELSE "reconfig")
            ELSE ddr_en' = FALSE /\ NowAt("panic") /\ UNCHANGED mode
         /\ UNCHANGED <<idx, written, mram, page, wip, history>>

\* The rest of setup_flash_xip(): the flash is configured and mapped.
EnterXip == /\ fpc \in {"config", "reconfig"}
            /\ Send(ddr_en)
            /\ xip' = TRUE
            /\ NowAt(IF fpc = "config" THEN "magic" ELSE "done")
            /\ UNCHANGED <<idx, ddr_en, written, mram, flash, timeout, resets>>

\* ospi_program_from_mram(): without the magic there is nothing to do, with
\* it ospi_xip_exit() and ospi_init() bring the controller into command mode.
CheckMagic == /\ fpc = "magic"
              /\ IF magic THEN NowAt("erase") /\ xip' = FALSE ELSE NowAt("done") /\ UNCHANGED xip
              /\ idx' = 0
              /\ UNCHANGED <<ddr_en, written, mram, flash, history>>

\* Mutant: only whole sectors are erased.
Sectors_Down == Length \div SectorPages

Sectors == (Length + SectorPages - 1) \div SectorPages

\* issi_sector_erase_ddr() starts the erase of a sector; its pages are garbage
\* until the flash is done.
Erase == /\ fpc = "erase"
         /\ IF idx = Sectors
            THEN NowAt("program") /\ idx' = 0 /\ UNCHANGED <<flash, garbled>>
            ELSE /\ Send(ddr_en)
                 /\ wip' = [p \in Sector(idx) |-> Erased]
                 /\ page' = [p \in Page |-> IF p \in Sector(idx) THEN Garbage ELSE page[p]]
                 /\ NowAt("erase_wait") /\ UNCHANGED <<idx, mode>>
         /\ UNCHANGED <<soc, mram, timeout, resets>>

\* issi_page_program_ddr() starts to program a page.
Program == /\ fpc = "program"
           /\ IF idx = Length
              THEN NowAt("clear") /\ UNCHANGED <<flash, garbled>>
              ELSE /\ Send(ddr_en)
                   /\ wip' = [p \in {idx} |-> IF page[idx] = Erased THEN staged ELSE Garbage]
                   /\ page' = [page EXCEPT ![idx] = Garbage]
                   /\ NowAt("program_wait") /\ UNCHANGED mode
           /\ UNCHANGED <<idx, soc, mram, timeout, resets>>

\* The flash finishes what it is busy with, and its reset.
FlashFinishes == /\ wip # Idle
                 /\ page' = [p \in Page |-> IF p \in DOMAIN wip THEN wip[p] ELSE page[p]]
                 /\ wip' = Idle
                 /\ UNCHANGED <<fpc, idx, soc, mram, mode, history>>

FlashRecovers == /\ mode = "resetting"
                 /\ mode' = "spi"
                 /\ UNCHANGED <<fpc, idx, soc, mram, page, wip, history>>

\* issi_wait_erase() and issi_wait_program() read the status until it is not
\* busy, or for so many times.
Wait == /\ fpc \in {"erase_wait", "program_wait"}
        /\ Send(ddr_en)
        /\ IF wip = Idle THEN /\ NowAt(IF fpc = "erase_wait" THEN "erase" ELSE "program")
                            /\ idx' = idx + 1 /\ UNCHANGED timeout
                       ELSE NowAt("reset") /\ timeout' = TRUE /\ UNCHANGED idx
        /\ UNCHANGED <<soc, mram, flash, resets>>

\* The magic is cleared when all pages are programmed, and flushed.
ClearMagic == /\ fpc = "clear"
              /\ written' = TRUE
              /\ NowAt("flush")
              /\ UNCHANGED <<idx, ddr_en, xip, mram, flash, history>>

WriteBack == written' = FALSE /\ magic' = (magic /\ ~written)

FlushMagic == /\ fpc = "flush"
              /\ WriteBack
              /\ NowAt("reset")
              /\ UNCHANGED <<idx, ddr_en, xip, staged, flash, history>>

\* The cache may write the line back earlier.
Evict == /\ written
         /\ WriteBack
         /\ UNCHANGED <<fpc, idx, ddr_en, xip, staged, flash, history>>

\* The software reset, which ends what the flash is busy with; init_nor_flash()
\* then sets it up again.
ResetFlash == /\ fpc = "reset"
              /\ Send(ddr_en)
              /\ mode' = "resetting" /\ wip' = Idle /\ ddr_en' = FALSE
              /\ NowAt("again")
              /\ UNCHANGED <<idx, xip, written, mram, page, timeout, resets>>

FlashBoot == \/ setup_PinMUX \/ KeyFails \/ Probe \/ EnterXip \/ CheckMagic \/ Erase \/ Program \/ Wait
             \/ ClearMagic \/ FlushMagic \/ ResetFlash

FlashHardware == FlashFinishes \/ FlashRecovers \/ Evict
-----------------------------------------------------------------------------
\* After the boot a new version is staged; the magic comes last.
Stage == /\ fpc = "done" /\ staged < Versions
         /\ staged' = staged + 1 /\ magic' = TRUE
         /\ UNCHANGED <<fpc, idx, soc, flash, history>>

\* A reset of the system; with a loss of power the flash comes up in SPI mode,
\* without one it keeps its mode and goes on with what it is busy with.
SystemReset(powerLoss) ==
  /\ resets < MaxResets /\ resets' = resets + 1
  /\ NowAt("pinmux") /\ idx' = 0
  /\ ddr_en' = FALSE /\ written' = FALSE /\ timeout' = FALSE
  /\ IF powerLoss THEN xip' = FALSE /\ mode' = "spi" /\ wip' = Idle ELSE UNCHANGED <<xip, mode, wip>>
  /\ UNCHANGED <<mram, page, garbled>>

FlashNext == FlashBoot \/ FlashHardware \/ Stage \/ \E powerLoss \in BOOLEAN : SystemReset(powerLoss)

FlashSpec == FlashInit /\ [][FlashNext]_flash_vars
-----------------------------------------------------------------------------
\* ospi_program_from_mram() does not give up an image half done: when the magic
\* in the MRAM is cleared the flash holds the staged version, whatever resets,
\* losses of power and time-outs interrupted before, and it is cleared when the
\* programming ends without a time-out.
StagedIsProgrammed == /\ ~magic => \A p \in 0..(Length - 1) : page[p] = staged
                      /\ fpc = "again" /\ ~timeout => ~magic

\* The controller and the flash agree on the mode at every command, through
\* the switch to DDR, the programming, its errors and resets in between: no
\* command reaches a flash in another mode, the probe of setup_flash_xip()
\* never fails on a flash that is left in DDR mode (it does on one that is
\* still in its reset), and when the boot is over the flash can be executed
\* from.
ModesAgree == /\ ~garbled
              /\ fpc = "panic" => mode # "ddr"
              /\ fpc = "done" => mode = "ddr" /\ ddr_en /\ xip
=============================================================================
