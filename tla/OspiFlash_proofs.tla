-------------------------- MODULE OspiFlash_proofs --------------------------
(***************************************************************************)
(* The staged image is programmed, and the modes agree, for every size of  *)
(* flash, sector and image and any number of images, time-outs and resets. *)
(***************************************************************************)
EXTENDS OspiFlash, TLAPS

\* The pages below n hold v.
Below(n, v) == \A p \in Page : p < n => page[p] = v

\* How far the erase and the programming are.
EraseInv == /\ fpc = "erase" => idx \in 0..Sectors /\ Below(idx * SectorPages, Erased)
            /\ fpc = "erase_wait" =>
                 /\ idx \in 0..Sectors /\ idx # Sectors /\ Below(idx * SectorPages, Erased)
                 /\ IF wip = Idle THEN \A p \in Sector(idx) : page[p] = Erased
                                  ELSE wip = [p \in Sector(idx) |-> Erased]

ProgramInv == /\ fpc \in {"program", "program_wait"} =>
                   /\ idx \in 0..Length /\ Below(idx, staged)
                   /\ \A p \in Page : idx < p /\ p < Length => page[p] = Erased
              /\ fpc = "program" /\ idx < Length => page[idx] = Erased
              /\ fpc = "program_wait" =>
                   /\ idx < Length
                   /\ IF wip = Idle THEN page[idx] = staged ELSE wip = [p \in {idx} |-> staged]

\* The magic is set while the image is not complete, and while the flash is
\* busy, which it is only in a wait or after a reset or time-out.
MagicInv == /\ fpc \in {"erase", "erase_wait", "program", "program_wait"} => magic
            /\ wip # Idle => magic /\ fpc \in {"erase_wait", "program_wait", "reset", "pinmux"}
            /\ fpc \in {"clear", "flush"} \/ ~magic => Below(Length, staged)
            /\ written => fpc = "flush"
            /\ fpc = "flush" => written \/ ~magic
            /\ fpc \in {"reset", "again"} /\ ~timeout => ~magic
            /\ timeout => fpc \in {"reset", "again", "reconfig", "done", "panic"}

\* The modes of the controller and of the flash at each place of the boot.
ModeInv == /\ fpc \in {"setup", "again"} => mode \in {"spi", "resetting"}
           /\ mode = "resetting" => fpc \in {"pinmux", "setup", "again", "key_failed", "panic"}
           /\ fpc \notin {"pinmux", "setup", "again", "key_failed", "panic"} => mode = "ddr" /\ ddr_en
           /\ fpc \notin {"pinmux", "setup", "again", "key_failed", "magic", "done"} => ~xip
           /\ fpc \in {"magic", "done"} => xip
           /\ fpc = "panic" => mode # "ddr"
           /\ ~garbled

Types == /\ idx \in Nat /\ page = [p \in Page |-> page[p]]
         /\ ddr_en \in BOOLEAN /\ xip \in BOOLEAN /\ written \in BOOLEAN
         /\ magic \in BOOLEAN /\ timeout \in BOOLEAN /\ garbled \in BOOLEAN

FlashInv == Types /\ EraseInv /\ ProgramInv /\ MagicInv /\ ModeInv

-----------------------------------------------------------------------------
\* A number is below the next multiple of a divisor.
LEMMA RoundUp ==
  ASSUME NEW n \in Nat, NEW d \in Nat, d > 0
  PROVE  n \div d \in Nat /\ n < (n \div d) * d + d
<1>1. n \div d \in Nat
  OBVIOUS
<1>2. n < d * (n \div d) + d
  OBVIOUS
<1>3. d * (n \div d) = (n \div d) * d
  BY <1>1
<1> QED
  BY <1>1, <1>2, <1>3

\* Rounding the length up to sectors covers it.
LEMMA SectorsCover ==
  ASSUME FlashConstants
  PROVE  /\ SectorPages \in Nat /\ Length \in Nat /\ Pages \in Nat /\ Length <= Pages
         /\ Sectors \in Nat /\ Sectors * SectorPages \in Nat /\ Length <= Sectors * SectorPages
<1>1. SectorPages \in Nat /\ SectorPages > 0 /\ Length \in Nat /\ Pages \in Nat /\ Length <= Pages
  BY DEF FlashConstants
<1>2. Length + SectorPages - 1 \in Nat
  BY <1>1
<1>3. Sectors \in Nat /\ Length + SectorPages - 1 < Sectors * SectorPages + SectorPages
  BY <1>1, <1>2, RoundUp DEF Sectors
<1>4. Sectors * SectorPages \in Nat
  BY <1>1, <1>3
<1> QED
  BY <1>1, <1>3, <1>4

\* The index of a loop that has not ended stays in range.
LEMMA Successor ==
  ASSUME NEW n \in Nat, NEW i \in 0..n, i # n
  PROVE  i + 1 \in 0..n
OBVIOUS

\* The sectors below i, and sector i, are the pages below sector i + 1.
LEMMA NextSector ==
  ASSUME FlashConstants, NEW i \in Nat
  PROVE  /\ i * SectorPages \in Nat
         /\ (i + 1) * SectorPages = i * SectorPages + SectorPages
         /\ \A p \in Page : p < (i + 1) * SectorPages => p < i * SectorPages \/ p \in Sector(i)
<1> DEFINE low == i * SectorPages
<1>1. SectorPages \in Nat /\ Pages \in Nat /\ low \in Nat
  BY SectorsCover
<1>2. (i + 1) * SectorPages = low + SectorPages
  BY <1>1
<1>3. \A p \in Page : p < low + SectorPages => p < low \/ p \in Sector(i)
  <2> SUFFICES ASSUME NEW p \in Page, p < low + SectorPages, ~(p < low) PROVE low <= p
    BY DEF Sector
  <2>1. p \in Int
    BY <1>1 DEF Page
  <2> HIDE DEF low
  <2> QED BY <1>1, <2>1
<1> QED
  BY <1>1, <1>2, <1>3

\* The invariant holds before the first boot.
LEMMA InvInit ==
  ASSUME FlashConstants, FlashInit
  PROVE  FlashInv
<1>1. Types /\ EraseInv /\ ProgramInv /\ ModeInv
  BY DEF FlashInit, Types, EraseInv, ProgramInv, ModeInv
<1>2. MagicInv
  BY DEF FlashInit, MagicInv, Below
<1> QED
  BY <1>1, <1>2 DEF FlashInv

\* The reset pin brings the flash back to its first mode, so the modes agree.
LEMMA PinMUXStep ==
  ASSUME FlashConstants, FlashInv, setup_PinMUX
  PROVE  FlashInv'
<1> USE DEF FlashInv, NowAt, soc, mram, flash, history, setup_PinMUX
<1>1. Types'
  BY DEF Types
<1>2. EraseInv'
  BY DEF Types, EraseInv, Below
<1>3. ProgramInv'
  BY DEF Types, ProgramInv, Below
<1>4. MagicInv'
  BY DEF Types, MagicInv, Below
<1>5. ModeInv'
  BY DEF Types, ModeInv
<1> QED
  BY <1>1, <1>2, <1>3, <1>4, <1>5

\* A key that is not written ends the setup and changes no flash.
LEMMA KeyFailsStep ==
  ASSUME FlashConstants, FlashInv, KeyFails
  PROVE  FlashInv'
<1> USE DEF FlashInv, NowAt, soc, mram, flash, history, KeyFails
<1>1. Types'
  BY DEF Types
<1>2. EraseInv'
  BY DEF Types, EraseInv, Below
<1>3. ProgramInv'
  BY DEF Types, ProgramInv, Below
<1>4. MagicInv'
  BY DEF Types, MagicInv, Below
<1>5. ModeInv'
  BY DEF Types, ModeInv
<1> QED
  BY <1>1, <1>2, <1>3, <1>4, <1>5

\* The probe takes both sides to DDR together.
LEMMA ProbeStep ==
  ASSUME FlashConstants, FlashInv, Probe
  PROVE  FlashInv'
<1> USE DEF FlashInv, NowAt, soc, mram, flash, history, Probe
<1>1. Types'
  BY DEF Types
<1>2. EraseInv'
  BY DEF Types, EraseInv, Below
<1>3. ProgramInv'
  BY DEF Types, ProgramInv, Below
<1>4. MagicInv'
  BY DEF Types, MagicInv, ModeInv, Below
<1>5. ModeInv'
  BY DEF Types, ModeInv
<1> QED
  BY <1>1, <1>2, <1>3, <1>4, <1>5

\* The configuration is sent in the mode the flash is in.
LEMMA EnterXipStep ==
  ASSUME FlashConstants, FlashInv, EnterXip
  PROVE  FlashInv'
<1> USE DEF FlashInv, NowAt, soc, mram, flash, history, EnterXip, Send
<1>1. Types'
  BY DEF Types
<1>2. EraseInv'
  BY DEF Types, EraseInv, Below
<1>3. ProgramInv'
  BY DEF Types, ProgramInv, Below
<1>4. MagicInv'
  BY DEF Types, MagicInv, Below
<1>5. ModeInv'
  BY DEF Types, ModeInv
<1> QED
  BY <1>1, <1>2, <1>3, <1>4, <1>5

\* The loops start only with a staged image, at index 0.
LEMMA CheckMagicStep ==
  ASSUME FlashConstants, FlashInv, CheckMagic
  PROVE  FlashInv'
<1> USE DEF FlashInv, NowAt, soc, mram, flash, history, CheckMagic
<1>1. Types'
  BY DEF Types
<1>2. EraseInv'
  <2>1. 0 * SectorPages = 0 /\ 0 \in 0..Sectors
    BY SectorsCover
  <2>2. \A p \in Page : ~(p < 0)
    BY SectorsCover DEF Page
  <2> QED
    BY <2>1, <2>2 DEF Types, EraseInv, Below
<1>3. ProgramInv'
  BY DEF Types, ProgramInv, Below
<1>4. MagicInv'
  BY DEF Types, MagicInv, Below
<1>5. ModeInv'
  BY DEF Types, ModeInv
<1> QED
  BY <1>1, <1>2, <1>3, <1>4, <1>5

\* The sector that is erased is the one at the index.
LEMMA EraseStep ==
  ASSUME FlashConstants, FlashInv, Erase
  PROVE  FlashInv'
<1> USE DEF FlashInv, NowAt, soc, mram, flash, history, Erase, Send
<1>1. Types'
  <2>1. CASE idx = Sectors
    BY <2>1 DEF Types
  <2>2. CASE idx # Sectors
    <3>1. page' = [p \in Page |-> page'[p]]
      BY <2>2
    <3>2. garbled' \in BOOLEAN
      BY <2>2
    <3> QED
      BY <2>2, <3>1, <3>2 DEF Types
  <2> QED
    BY <2>1, <2>2
<1>2. EraseInv'
  <2>1. CASE idx = Sectors
    BY <2>1 DEF EraseInv
  <2>2. CASE idx # Sectors
    <3>1. \A p \in Page : p < idx * SectorPages => p \notin Sector(idx)
      BY NextSector, SectorsCover DEF Page, Sector, Types
    <3>2. fpc' = "erase_wait" /\ idx' = idx /\ wip' = [p \in Sector(idx) |-> Erased]
          /\ page' = [p \in Page |-> IF p \in Sector(idx) THEN Garbage ELSE page[p]]
      BY <2>2
    <3>3. Below(idx * SectorPages, Erased)'
      BY <3>1, <3>2 DEF EraseInv, Below
    <3>4. Sector(idx)' = Sector(idx)
      BY <3>2 DEF Sector
    <3>5. wip' = Idle => \A p \in Sector(idx) : page'[p] = Erased
      BY <3>2 DEF Idle
    <3> QED
      BY <3>2, <3>3, <3>4, <3>5 DEF EraseInv
  <2> QED
    BY <2>1, <2>2
<1>3. ProgramInv'
  <2>1. CASE idx = Sectors
    <3>1. \A p \in Page : p < Length => p < idx * SectorPages
      BY <2>1, SectorsCover DEF Page
    <3>2. \A p \in Page : p < Length => page'[p] = Erased
      BY <2>1, <3>1 DEF EraseInv, Below
    <3>3. Length \in Nat /\ (0 < Length => 0 \in Page) /\ \A p \in Page : ~(p < 0)
      BY SectorsCover DEF Page
    <3> QED
      BY <2>1, <3>2, <3>3 DEF ProgramInv, Below
  <2>2. CASE idx # Sectors
    BY <2>2 DEF ProgramInv
  <2> QED
    BY <2>1, <2>2
<1>4. MagicInv'
  BY DEF Types, MagicInv, Below
<1>5. ModeInv'
  BY DEF Types, ModeInv
<1> QED
  BY <1>1, <1>2, <1>3, <1>4, <1>5

\* The page that is programmed is the one at the index, which is erased.
LEMMA ProgramStep ==
  ASSUME FlashConstants, FlashInv, Program
  PROVE  FlashInv'
<1> USE DEF FlashInv, NowAt, soc, mram, flash, history, Program, Send
<1>1. Types'
  BY DEF Types
<1>2. EraseInv'
  BY DEF Types, EraseInv, Below
<1>3. ProgramInv'
  <2>1. CASE idx = Length
    BY <2>1 DEF ProgramInv
  <2>2. CASE idx # Length
    <3>1. idx \in 0..Length /\ idx < Length /\ idx \in Page
      BY <2>2, SectorsCover DEF ProgramInv, Page
    <3>2. page' = [page EXCEPT ![idx] = Garbage] /\ wip' = [p \in {idx} |-> staged]
      BY <2>2, <3>1 DEF ProgramInv
    <3>3. wip' # Idle
      BY <3>2 DEF Idle
    <3>4. \A p \in Page : p # idx => page'[p] = page[p]
      BY <3>2 DEF Types
    <3>5. \A p \in Page : p < idx \/ idx < p => p # idx
      BY <3>1, SectorsCover DEF Page
    <3> QED
      BY <2>2, <3>1, <3>2, <3>3, <3>4, <3>5 DEF ProgramInv, Below
  <2> QED
    BY <2>1, <2>2
<1>4. MagicInv'
  <2>1. CASE idx = Length
    BY <2>1 DEF Types, MagicInv, ProgramInv, Below
  <2>2. CASE idx # Length
    BY <2>2 DEF Types, MagicInv, Below
  <2> QED
    BY <2>1, <2>2
<1>5. ModeInv'
  BY DEF Types, ModeInv
<1> QED
  BY <1>1, <1>2, <1>3, <1>4, <1>5

\* The flash ends what it is busy with, for which the loop still waits.
LEMMA FlashFinishesStep ==
  ASSUME FlashConstants, FlashInv, FlashFinishes
  PROVE  FlashInv'
<1> USE DEF FlashInv, NowAt, soc, mram, flash, history, FlashFinishes
<1>1. Types'
  BY DEF Types
<1>2. EraseInv'
  <2>1. CASE fpc = "erase_wait"
    <3>1. wip = [p \in Sector(idx) |-> Erased] /\ Below(idx * SectorPages, Erased)
      BY <2>1 DEF EraseInv
    <3>2. \A p \in Page : p \in DOMAIN wip => page'[p] = Erased
      BY <3>1
    <3>3. \A p \in Page : p \notin DOMAIN wip => page'[p] = page[p]
      OBVIOUS
    <3>4. Below(idx * SectorPages, Erased)' /\ (Sector(idx) = Sector(idx)') /\ \A p \in Sector(idx) : page'[p] = Erased
      BY <3>1, <3>2, <3>3 DEF Below, Sector
    <3> QED
      BY <2>1, <3>4 DEF EraseInv
  <2>2. CASE fpc # "erase_wait"
    BY <2>2 DEF EraseInv, MagicInv
  <2> QED
    BY <2>1, <2>2
<1>3. ProgramInv'
  <2>1. CASE fpc = "program_wait"
    <3>1. wip = [p \in {idx} |-> staged] /\ idx \in 0..Length /\ idx < Length
      BY <2>1 DEF ProgramInv
    <3>2. idx \in Page /\ \A p \in Page : p < idx \/ idx < p => p # idx
      BY <3>1, SectorsCover DEF Page
    <3>3. page'[idx] = staged /\ \A p \in Page : p # idx => page'[p] = page[p]
      BY <3>1, <3>2
    <3> QED
      BY <2>1, <3>1, <3>2, <3>3 DEF ProgramInv, Below
  <2>2. CASE fpc # "program_wait"
    BY <2>2 DEF ProgramInv, MagicInv
  <2> QED
    BY <2>1, <2>2
<1>4. MagicInv'
  BY DEF Types, MagicInv, Below
<1>5. ModeInv'
  BY DEF Types, ModeInv
<1> QED
  BY <1>1, <1>2, <1>3, <1>4, <1>5

\* The flash ends its reset.
LEMMA FlashRecoversStep ==
  ASSUME FlashConstants, FlashInv, FlashRecovers
  PROVE  FlashInv'
<1> USE DEF FlashInv, NowAt, soc, mram, flash, history, FlashRecovers
<1>1. Types'
  BY DEF Types
<1>2. EraseInv'
  BY DEF Types, EraseInv, Below
<1>3. ProgramInv'
  BY DEF Types, ProgramInv, Below
<1>4. MagicInv'
  BY DEF Types, MagicInv, Below
<1>5. ModeInv'
  BY DEF Types, ModeInv
<1> QED
  BY <1>1, <1>2, <1>3, <1>4, <1>5

\* The index moves on only when the flash has ended, and not after a time-out.
LEMMA WaitStep ==
  ASSUME FlashConstants, FlashInv, Wait
  PROVE  FlashInv'
<1> USE DEF FlashInv, NowAt, soc, mram, flash, history, Wait, Send
<1>1. Types'
  <2>1. garbled' \in BOOLEAN /\ page' = page
    OBVIOUS
  <2>2. idx' \in Nat
    BY DEF Types
  <2> QED
    BY <2>1, <2>2 DEF Types
<1>2. EraseInv'
  <2>1. CASE fpc = "erase_wait" /\ wip = Idle
    <3>1. idx \in 0..Sectors /\ idx # Sectors /\ Below(idx * SectorPages, Erased)
          /\ \A p \in Sector(idx) : page[p] = Erased
      BY <2>1 DEF EraseInv
    <3>2. \A p \in Page : p < (idx + 1) * SectorPages => p < idx * SectorPages \/ p \in Sector(idx)
      BY NextSector DEF Types
    <3>3. Below((idx + 1) * SectorPages, Erased)
      BY <3>1, <3>2 DEF Below
    <3>4. idx + 1 \in 0..Sectors
      BY <3>1, SectorsCover, Successor
    <3> QED
      BY <2>1, <3>3, <3>4 DEF EraseInv, Below
  <2>2. CASE ~(fpc = "erase_wait" /\ wip = Idle)
    BY <2>2 DEF EraseInv
  <2> QED
    BY <2>1, <2>2
<1>3. ProgramInv'
  <2>1. CASE fpc = "program_wait" /\ wip = Idle
    <3>1. idx \in 0..Length /\ idx < Length /\ page[idx] = staged /\ Below(idx, staged)
          /\ \A p \in Page : idx < p /\ p < Length => page[p] = Erased
      BY <2>1 DEF ProgramInv
    <3>2. idx + 1 \in 0..Length /\ (idx + 1 < Length => idx + 1 \in Page /\ idx < idx + 1)
      BY <3>1, SectorsCover DEF Page
    <3>3. fpc' = "program" /\ idx' = idx + 1 /\ page' = page /\ staged' = staged
      BY <2>1
    <3> HIDE DEF Wait, FlashInv
    <3>4. Below(idx + 1, staged)
      BY <3>1, SectorsCover DEF Below, Page
    <3>5. \A p \in Page : idx + 1 < p /\ p < Length => page[p] = Erased
      BY <3>1, SectorsCover DEF Page
    <3>6. idx + 1 < Length => page[idx + 1] = Erased
      BY <3>1, <3>2
    <3> QED
      BY <3>2, <3>3, <3>4, <3>5, <3>6 DEF ProgramInv, Below
  <2>2. CASE ~(fpc = "program_wait" /\ wip = Idle)
    BY <2>2 DEF ProgramInv
  <2> QED
    BY <2>1, <2>2
<1>4. MagicInv'
  BY DEF Types, MagicInv, Below
<1>5. ModeInv'
  BY DEF Types, ModeInv
<1> QED
  BY <1>1, <1>2, <1>3, <1>4, <1>5

\* The magic is cleared in the cache after the last page.
LEMMA ClearMagicStep ==
  ASSUME FlashConstants, FlashInv, ClearMagic
  PROVE  FlashInv'
<1> USE DEF FlashInv, NowAt, soc, mram, flash, history, ClearMagic
<1>1. Types'
  BY DEF Types
<1>2. EraseInv'
  BY DEF Types, EraseInv, Below
<1>3. ProgramInv'
  BY DEF Types, ProgramInv, Below
<1>4. MagicInv'
  BY DEF Types, MagicInv, Below
<1>5. ModeInv'
  BY DEF Types, ModeInv
<1> QED
  BY <1>1, <1>2, <1>3, <1>4, <1>5

\* The cleared magic reaches MRAM.
LEMMA FlushMagicStep ==
  ASSUME FlashConstants, FlashInv, FlushMagic
  PROVE  FlashInv'
<1> USE DEF FlashInv, NowAt, soc, mram, flash, history, FlushMagic, WriteBack
<1>1. Types'
  BY DEF Types
<1>2. EraseInv'
  BY DEF Types, EraseInv, Below
<1>3. ProgramInv'
  BY DEF Types, ProgramInv, Below
<1>4. MagicInv'
  BY DEF Types, MagicInv, Below
<1>5. ModeInv'
  BY DEF Types, ModeInv
<1> QED
  BY <1>1, <1>2, <1>3, <1>4, <1>5

\* A line that is written back early holds what the program wrote.
LEMMA EvictStep ==
  ASSUME FlashConstants, FlashInv, Evict
  PROVE  FlashInv'
<1> USE DEF FlashInv, NowAt, soc, mram, flash, history, Evict, WriteBack
<1>1. Types'
  BY DEF Types
<1>2. EraseInv'
  BY DEF Types, EraseInv, Below
<1>3. ProgramInv'
  BY DEF Types, ProgramInv, Below
<1>4. MagicInv'
  BY DEF Types, MagicInv, Below
<1>5. ModeInv'
  BY DEF Types, ModeInv
<1> QED
  BY <1>1, <1>2, <1>3, <1>4, <1>5

\* The reset of the flash changes its mode, not its pages.
LEMMA ResetFlashStep ==
  ASSUME FlashConstants, FlashInv, ResetFlash
  PROVE  FlashInv'
<1> USE DEF FlashInv, NowAt, soc, mram, flash, history, ResetFlash, Send
<1>1. Types'
  BY DEF Types
<1>2. EraseInv'
  BY DEF Types, EraseInv, Below
<1>3. ProgramInv'
  BY DEF Types, ProgramInv, Below
<1>4. MagicInv'
  BY DEF Types, MagicInv, Below
<1>5. ModeInv'
  BY DEF Types, ModeInv
<1> QED
  BY <1>1, <1>2, <1>3, <1>4, <1>5

\* A new image is staged with its magic.
LEMMA StageStep ==
  ASSUME FlashConstants, FlashInv, Stage
  PROVE  FlashInv'
<1> USE DEF FlashInv, NowAt, soc, mram, flash, history, Stage
<1>1. Types'
  BY DEF Types
<1>2. EraseInv'
  BY DEF Types, EraseInv, Below
<1>3. ProgramInv'
  BY DEF Types, ProgramInv, Below
<1>4. MagicInv'
  BY DEF Types, MagicInv, Below
<1>5. ModeInv'
  BY DEF Types, ModeInv
<1> QED
  BY <1>1, <1>2, <1>3, <1>4, <1>5

\* A reset at any step leaves the magic set while the image is incomplete.
LEMMA SystemResetStep ==
  ASSUME FlashConstants, FlashInv, NEW powerLoss \in BOOLEAN, SystemReset(powerLoss)
  PROVE  FlashInv'
<1> USE DEF FlashInv, NowAt, soc, mram, flash, history, SystemReset
<1>1. Types'
  BY DEF Types
<1>2. EraseInv'
  BY DEF Types, EraseInv, Below
<1>3. ProgramInv'
  BY DEF Types, ProgramInv, Below
<1>4. MagicInv'
  BY DEF Types, MagicInv, Below
<1>5. ModeInv'
  BY DEF Types, ModeInv
<1> QED
  BY <1>1, <1>2, <1>3, <1>4, <1>5

\* Every step keeps the invariant.
LEMMA InvStep ==
  ASSUME FlashConstants, FlashInv, [FlashNext]_flash_vars
  PROVE  FlashInv'
<1>1. CASE FlashBoot
  BY <1>1, PinMUXStep, KeyFailsStep, ProbeStep, EnterXipStep, CheckMagicStep, EraseStep, ProgramStep, WaitStep,
     ClearMagicStep, FlushMagicStep, ResetFlashStep DEF FlashBoot
<1>2. CASE FlashHardware
  BY <1>2, FlashFinishesStep, FlashRecoversStep, EvictStep DEF FlashHardware
<1>3. CASE Stage
  BY <1>3, StageStep
<1>4. ASSUME NEW powerLoss \in BOOLEAN, SystemReset(powerLoss) PROVE FlashInv'
  BY <1>4, SystemResetStep
<1>5. CASE UNCHANGED flash_vars
  BY <1>5 DEF flash_vars, soc, mram, flash, history, FlashInv, Types, EraseInv, ProgramInv, MagicInv,
              ModeInv, Below
<1> QED
  BY <1>1, <1>2, <1>3, <1>4, <1>5 DEF FlashNext
-----------------------------------------------------------------------------
\* For every flash, image and number of resets: when ospi_program_from_mram()
\* has cleared the magic the flash holds the image.
THEOREM Programmed ==
  FlashSpec => []StagedIsProgrammed
<1>1. FlashInit => FlashInv
  BY FlashAssumption, InvInit
<1>2. FlashInv /\ [FlashNext]_flash_vars => FlashInv'
  BY FlashAssumption, InvStep
<1>3. FlashInv => StagedIsProgrammed
  <2>1. \A p \in 0..(Length - 1) : p \in Page /\ p < Length
    BY FlashAssumption, SectorsCover DEF Page
  <2> QED
    BY <2>1 DEF FlashInv, MagicInv, Below, StagedIsProgrammed
<1> QED
  BY <1>1, <1>2, <1>3, PTL DEF FlashSpec

\* For every flash, image and number of resets: each command of setup_flash_xip()
\* and ospi_program_from_mram() reaches the flash in its mode.
THEOREM Agreed ==
  FlashSpec => []ModesAgree
<1>1. FlashInit => FlashInv
  BY FlashAssumption, InvInit
<1>2. FlashInv /\ [FlashNext]_flash_vars => FlashInv'
  BY FlashAssumption, InvStep
<1>3. FlashInv => ModesAgree
  BY DEF FlashInv, ModeInv, ModesAgree
<1> QED
  BY <1>1, <1>2, <1>3, PTL DEF FlashSpec
=============================================================================
