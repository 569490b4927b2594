# Trusted Firmware-A for the Alif Ensemble E7: TLA+ models and proofs

This directory holds TLA+ models of the parts of this firmware whose
correctness depends on the order in which things happen: CPUs that turn each
other on and off, locks and caches around shared words, nested exceptions,
events and requests that several CPUs handle at once, translation tables that
are changed while they are in use, a message protocol with a second processor,
a flash that is programmed across resets, and a firmware update that several
images drive. TLC checks every model on small instances; TLAPS proves the
theorems of the eight `*_proofs` modules for every instance.

To run one check: `tlc -config MCPsciTree.cfg MCPsci`.
To run the proofs of a module: `tlapm Bl1Fwu_proofs.tla`.
`PROJECT.json` lists the runs, the source lines of each definition, the
hazards, the findings and, for each property, a plausible bug that breaks it.

## 1. The system

The firmware starts at reset (BL1), loads and authenticates the next images
(BL2), and stays resident at the highest exception level (BL31 on AArch64,
SP_MIN on AArch32) where it answers calls of the operating system (SMCs) and
takes the interrupts that belong to the secure world. The `devkit_e7`
platform has two Cortex-A32 CPUs in one cluster, runs SP_MIN, and depends on a
Secure Enclave (SE), a separate processor reached through a message handling
unit (MHU), for parts of its boot.

| Part | State | Operations | What is hard |
|---|---|---|---|
| Bakery locks (`lib/locks/bakery`) | one word per CPU | get, release | no atomic instructions; tickets chosen from a changing scan; lost wake-ups; ticket field of 15 bits |
| PSCI power domains (`lib/psci`) | a tree of domains with requested and target states, locks, `aff_info_state` | CPU_ON, CPU_OFF, CPU_SUSPEND, SYSTEM_SUSPEND, warm boot, AFFINITY_INFO | last CPU down against first CPU up; lock order; wake-ups that race the way down; statistics |
| `aff_info_state` and caches (`psci_on.c`, `psci_off.c`) | a word in memory and a line in the caches | flush, write, invalidate | the CPU that goes off writes with its cache disabled |
| Exception handling framework (`bl31/ehf.c`) | active priorities, stashed masks, the GIC's mask and running priority | activate, deactivate, leave and enter the normal world, allow preemption | arbitrary nesting by four clients |
| EHF clients: TSPD, SPM-MM, SDEI, RAS | stack of dispatches, state of the secure payload | calls, preemption, resume, abort, interrupts, complete | preemption at any point; masks must be restored exactly |
| SDEI events (`services/std_svc/sdei`) | state per event and per PE | bind, register, enable, route, mask, dispatch, complete, release | locks per event, interrupts in flight between two locked parts |
| SPM and SPCI (`services/std_svc/spm`) | partitions, handles, queues, responses | open, close, blocking request, start, resume, get response | several locks, counts that must agree, preemption |
| Secure payload dispatchers (`services/spd`) | state of the payload per CPU | SMC forwarding, power hooks | interplay with PSCI and preemption |
| BL1 firmware update (`bl1/bl1_fwu.c`) | state, size and memory of each image | copy, auth, execute, resume, done, reset | any order of calls, partial copies, failed authentication |
| Boot flow (`bl1`, `bl2`, `bl2u`, `common`) | image descriptors | load, verify, hand over | sequential |
| Authentication (`drivers/auth`) | chain of trust | verify one image | walk over a constant table |
| IO layer (`drivers/io`) | entity pool, one open file | open, seek, read, close | error paths, block alignment |
| Translation tables (`lib/xlat_tables_v2`) | region list, tables with use counts | add, remove, change attributes | partial failure and undo |
| Messaging with a system controller (`drivers/arm/css`) | mailbox | send, poll | ordering with the other processor |
| GIC, interconnect, TZC, console, storage drivers | device registers | register programming | I/O |
| Context management, CPU operations, extensions (`lib/el3_runtime`, `lib/cpus`, `lib/extensions`) | saved registers | save, restore | assembly |
| `devkit_e7` power management (`e7_pm.c`, `e7_helpers.S`) | wake-up register, boot flags | hooks of CPU_ON, CPU_OFF, SYSTEM_OFF; reset code | unlocked read-modify-write |
| `devkit_e7` SE services (`se_service`, `mhu.c`) | MHU channel, request buffers, a lock | synchronise, write key, USB power | time-outs, retries, a late partner |
| `devkit_e7` busy wait (`devkit_e7_plat.c`) | counter | delay | wrap-around |
| `devkit_e7` NOR flash (`ospi_flash`) | mode of controller and flash, pages, staged image in MRAM | set up, erase, program, recover | resets and power losses at any point, time-outs |
| `devkit_e7` HyperRAM (`ospi_hyperram`) | controller registers | initialise | I/O |
| Other vendors' drivers and platforms, host tools, imported libraries | | | not part of the E7 image, or no shared state |

The parts meet in a few places. PSCI uses the locks, calls the platform's
hooks and the payload dispatcher's hooks. EHF sees every change of world
through events that context management publishes, and every secure interrupt.
SP_MIN calls the SE services and sets up the flash once at boot, before the
operating system turns CPUs on and off; the SE services use the busy wait.

## 2. Modules

Each module has the variables of its component, one action for each step that
other actors can tell apart, and its properties. `MC*` modules hold only the
constants of the instances. `TypeOK` documents the types of the variables in
every module; definitions marked *Mutant* are the plausible bugs that
`PROJECT.json` pairs with the properties.

### BakeryLock, FcfsLock, BakeryLock_proofs

`bakery_lock_coherent.c`. One action is one access to the shared array:
`StartChoosing` announces the CPU, `ScanTicket` reads one ticket,
`PublishTicket` stores the new one, `CheckContender`, `WaitForEvent` and
`RecheckTicket` are the loop of `bakery_lock_get()` with its `wfe`,
`ReleaseLock` and `SignalEvent` the store and the `sev` of
`bakery_lock_release()`. `TicketMod` is the width of the ticket field; `event`
is the event register of each CPU. `ahead` is a history variable: the CPUs
that had a ticket when this one arrived.

`FcfsLock` is what a caller may rely on: a CPU in the doorway, waiting or
holding, at most one holder, served in order of arrival. `BakeryLock`
implements it under the mapping `lockStatus`.

### Psci

`psci_common.c`, `psci_on.c`, `psci_off.c`, `psci_suspend.c`, `psci_main.c` and
the bookkeeping of `psci_stat.c`, over an arbitrary tree (`Anc`) and arbitrary
local states (`MaxRet`, `MaxOff`, `PlatStates`). Names follow the code. The
locks are taken one level at a time (`AcquireLock`), the work under them is one
step (`CpuOffWork`, `SuspendWork`, `WarmBootWork`, ...), and accesses outside
them are separate steps (`SetAffinityOff`, each read of the last-CPU test of
SYSTEM_SUSPEND (`IsLastOnCpu`), the phases of `CpuOn`). Power controller, interrupts and the secure payload's
answer are nondeterministic. Memory is coherent here.

### PsciAffInfo

The same `aff_info_state` with one cache line that the coherent CPUs share and
that may be filled or evicted at any time, and the accesses of a CPU that has
switched its cache off. `Speculate` and `Evict` are the hardware; the other
actions are the accesses of `psci_do_cpu_off()`, `psci_cpu_on_start()`,
`psci_cpu_on_finish()` and `psci_affinity_info()`, one by one. `during` is a
history variable: the values the word had during a call.

### Ehf, EhfDispatch

`Ehf` has the operations of `bl31/ehf.c` as functions from one per-CPU state to
the next, panics and assertions included (`fault`). `EhfDispatch` is one PE
with its clients: TSPD calls (`Tsp*`), StandaloneMM calls (`Mm*`), SDEI
interrupts and explicit dispatches, a RAS interrupt, and the normal world that
changes its mask. `irqs` is the stack of acknowledged interrupts, `frames` the
stack of what EL3 has to return to.

Assumptions, taken from how the code is configured: the two payloads are
alternative builds (the variable `payload`, chosen in `Init`); the normal world changes its priority mask
outside SDEI handlers; SDEI handlers make no TSP calls; the normal world
aborts a TSP call only when one is preempted (`Spec`; `SpecAnyAbort` drops this).
Priorities are those of the Arm platforms; in particular the partition's
(`PLAT_SP_PRI`, which is `PLAT_RAS_PRI` there) is above those of SDEI
(`arm_def.h:568`, `sgi_base_platform_def.h:143`), so no SDEI interrupt is taken
while the partition runs. `IsLastDispatch` is the top of SDEI's own stack.

A RAS interrupt (StandaloneMM build) runs the partition and then dispatches an
event. Where `sdei_dispatch_event()` refuses that, the handler of `sgi_ras.c` does not
look at the result, and EL3 returns into the partition (`RasUndispatched`).

### DelayUs

`delay_in_us()` on a counter that wraps at `MAX_REFCLK_COUNT`. Between two reads
the counter advances by `MinTick..MaxTick`; `MinTick` is at least 1, since a read
over the bus takes longer than a tick of the counter. The product of delay and
frequency wraps as `unsigned int` does (`Word`). `elapsed` is the true time and
`wraps` the number of wraps, both history variables.

### SeService, E7Boot

`SeService` is `services.c` with `mhu.c` below it, and the SE as a partner that
starts late, may stop listening, and takes and answers a message in steps of its
own, or answers it with an error (`SeRefuses`), which `services.c` does not look at;
`refused` is a history variable, the requests answered so.
`mhu_secure_message_send()` waits without a limit until the MHU grants access
(`RequestAccess`, `SyncSent`, `RequestSent`); `MhuReady` may never come. The model
follows a release build: the assertion that the channel is free is not evaluated.

`E7Boot` composes it with `DelayUs`. Nothing in the code but its busy waits gives
the SE time, so `Cpu` goes on only when the wait before its place
(`DelayBefore`) has returned, and the time that passes in the loop is the time
the SE has: one that listens takes a message, and answers it, within `Latency`
ticks.

### OspiFlash

`norflash_ospi_setup.c`: the pins, the probe, the switch to DDR and to execution
in place, and `ospi_program_from_mram()` with its erase and program loops, its
time-outs, the clearing of the magic in MRAM (which a cache may hold back), and
the software reset at its end. `mode` is how the flash listens, `ddr_en` how the
controller speaks; a command in the wrong mode sets `garbled`. `wip` is what the
flash is busy with and goes on with across a reset of the system. A write of the
AES key that fails ends the setup (`KeyFails`). `SystemReset` comes at any step, with
or without a loss of power, and leaves half written pages as `Garbage`. A reset of
the flash takes its time (`FlashRecovers`) and the code does not wait for it: a
probe that comes too early finds no flash, and the boot panics (`Probe`). An image is assumed to start at a sector: the code takes its place from the header
and erases whole sectors from there.

### E7Pm, E7System

`E7Pm` is `e7_pm.c` and `e7_helpers.S`: reads and writes of `HOST_CPU_WAKEUP` are
separate steps, CPU_ON holds the lock that PSCI holds there, reset follows the
wake-up bit, and the boot path is chosen as in `plat_secondary_cold_boot_setup`.
With `Quiesced`, SYSTEM_OFF is called when the other CPUs have been turned off, as
an operating system does; without it, at any time. The power controller is
external.

`E7System` composes `OspiFlash` and `E7Pm` as `sp_min_main()` does: CPU 0 enters
the operating system when the flash is set up, while secondary CPUs may already
run into their reset path, and a reset of the whole system brings both back to
the boot.

### Sdei

`sdei_main.c`, `sdei_state.c` and `sdei_intr_mgmt.c` on several PEs. What is done
under one `sdei_map_lock()` is one step, so the windows between two locked parts
are open to the other PEs: the interrupt handler takes five steps
(`Ack` to the end of interrupt), bind takes three. The GIC is external: enabled,
pending, active, route and who owns a line, per PE for private interrupts.
Clients make their calls in any state and register with any affinity, and
SDEI_EVENT_ROUTING_SET names any PE. A build has assertions or not
(`ENABLE_ASSERTIONS`, chosen in `Init`); one that fails stops the PE (pc `panic`), and
in the other build the code goes on. `fresh` and `moved` are history variables: the
lines triggered since their event was registered or last dispatched, and the
shared events that were routed away from the PE they were registered for.

### Spci

`spci.c` with `spm_main.c`, `spm_buffers.c` and `sprt.c` below it: handles, blocking
requests, requests that are started, resumed and collected, the state of each
partition, its two queues, and the array of responses. The partition itself is
external; it takes one message at a time, and is preempted unless the request
blocks. `HandleValues` and `TokenValues` are the widths of the two counters; a
value is out of use when the counter comes back to it (`HandleIsFree`,
`TokenIsFree`, from the comments of the functions that create them). Clients call
in any order and with any token. All blocking requests have the token 0, as in the
code; which CPU a message blocks (`by`) is for the properties only. A response whose
token is taken leaves `responses_lock` held (`ResponsesUnlocked`). `refused` and
`overtaken` are history variables: the slots with a request that found the queue
full, and whether a request was started in a partition for which a blocking one
was waiting.

### Xlat

`xlat_tables_core.c`: `mmap_add_region()` with its checks, the tables built from
the list, and dynamic regions mapped and unmapped later, with the counts of
`tables_mapped_regions` and the undo of a map that runs out of tables.
`MapAction` is the choice of `xlat_tables_map_region_action()`, `MapRegion` and
`UnmapRegion` are the two recursive walks; sizes of table, level and address
space are constants. The reference is `Expected`: for an address, the smallest
region of the list that holds it.
`spoilt` is a history variable: a call that failed left the tables changed.

### Bl1Fwu

The SMCs of `bl1_fwu.c`: one action per call, each with all its early returns,
over images that occupy ranges of a small memory. Memory cells record which
image's data they hold, `Bad` data or zeros. Callers follow the roles
of `docs/firmware-update.rst`: the normal world copies secure images and
authenticates its own, the secure world authenticates images in place. BL1
starts with NS_BL1U executing, which is in no list. It is built with assertions or
without (`ENABLE_ASSERTIONS`, chosen in `Init`): one that fails stops the model
(`halted`), or is not there. `stale` is a history variable: the images that were
resumed while they were not INTERRUPTED.

## 3. Runs

| Run | Instance | Shows |
|---|---|---|
| `bakery` | 3 CPUs, tickets to 6 | exclusion; the lock implements `FcfsLock`, so it is first come, first served; every contender is served, so no wake-up is lost at `wfe` |
| `psci_tree` | 3 CPUs, 2 clusters, 1 system domain | no domain is down under a running CPU or deeper than its children and CPUs asked, the finishers' assertions hold, and what a booting CPU read of the tree is current when it acts on it |
| `psci_pair` | 2 CPUs, 1 cluster, all power states | a SYSTEM_SUSPEND that passed its unlocked test stays alone until all is off, every call completes and every CPU powered on runs |
| `aff_info` | 2 callers, 1 target | ON_PENDING reaches memory before the platform is called, the retry's assertions hold, reads return a state of the call's duration |
| `ehf` | TSPD build and StandaloneMM build | the normal world gets its mask back, the preemption answer is exact, dispatches nest, activations match |
| `ehf_idle_abort` (violation) | TSPD build, `SpecAnyAbort` | an abort with nothing to abort leaves the secure mask to the normal world |
| `e7_boot` | 3 tries, 2 profile bits, counter of 16 values | the delays are never short and overshoot by one turn of the loop and the wraps; success means served and the profile only gains the USB PHY, but for requests answered with an error, payloads are stable while the SE reads, the boot ends or the MHU never grants access |
| `e7_system` | 2 CPUs, flash of 4 pages in 2 sectors, 3 resets | no wake-up is lost, a warm boot is one PSCI expects; a staged image is never given up half done, controller and flash agree on the mode at every command |
| `bl1_fwu` | 5 images, 2 overlapping, with and without assertions | loaded images are tracked, authenticated and copied images are intact, the secure world runs exactly when one image is executing, nothing unverified stays behind, up to a resume of an image that was reset |
| `sdei` | 2 PEs; a private or a shared dynamic event, an explicit one, or this and a shared one of the platform's; with and without assertions | a shared event stays bound while it is handled, a handler runs once at a time, the GIC follows the event's state, no trigger is lost or made up, and a deliverable trigger is delivered |
| `spci` | 2 CPUs, 1 partition, 1 handle of 2 values | one CPU at a time is in the partition; unless a blocking request is overtaken, the counts of handles and partitions are the requests there are and it gets its own answer; it returns unless others enter for ever |
| `xlat` | levels 1 to 3, tables of 2 entries, 3 tables, 3 regions | the tables translate as the region list says after every call, failed ones included; no use count is too small, and all are exact until a failed call is not undone |

The violation run checks one sentence of a comment of the repository;
`PROJECT.json` quotes it under `findings`. Section 5 lists more disagreements,
each with the definition that states it.

### Bounds

* Three CPUs are the least with a third party between two contenders of a
  lock and with two clusters under a system domain; two clusters are the least
  where a domain can be down while its parent is up. `psci_pair` has the shape
  of `devkit_e7` and all power states, since validation is done by level.
* `MaxTicket` limits the exploration: a CPU takes no ticket above it. Twice
  the number of CPUs lets every CPU contend again behind the others. The
  theorems hold for every value of it.
* Two callers of CPU_ON are enough for one to hold the lock while the other
  waits or queries. One target, since the protocol is per CPU.
* The counter of `e7_boot` has 16 values, so that most delays wrap; ticks
  between reads vary from 1 to 2. The SE's `Latency` of 2 ticks is within the
  waits; with one of them left out (mutants of `Cpu` and `DelayBefore`) a message
  is overwritten or a response read too early.
* `MAX_TRIES` is 3: a first, a middle and a last try.
* Image sizes up to 3 cells give a first, a middle and a last block; three
  slots for four images, besides NS_BL1U, let the table fill up.
* The flash has a whole sector and one that the image (`Length` 3) fills in
  part; with two versions one image replaces another, and three resets
  (`MaxResets`) interrupt the recovery from an interrupted programming. The
  theorems hold for all of these.
* `sdei`: two PEs are a PE in a handler and another that calls. A platform's
  events are chosen in `Init`; shared and private events do not share state, so
  they are in different platforms.
* `spci`: two CPUs, one slot for a handle to one partition, so that it is
  reused, a queue of one message and one response, so that both are full.
  `MaxRequests` bounds the requests that are counted; the counters have two values
  and are reused. The safety properties were also checked with two slots and
  `MaxRequests = 2`, where two handles share the partition (9.5 million states).
* `xlat`: tables of two entries give blocks, pages and full tables with few
  addresses; three tables do not suffice for all regions, and `MaxCount` bounds
  the counts that failed calls add to.

### Deadlock

Deadlock checking is on in `aff_info`. It is off where the system may stop: all CPUs may be off or suspended with nobody to wake them
(`psci_*`, `e7_system`), a panic stops the CPU (`ehf`, `sdei`, `spci`), the boot or the update ends (`e7_boot`, `bl1_fwu`), every call
is refused (`xlat`), or nobody wants the lock (`bakery`, where a deadlock of
contenders would violate `EveryContenderServed`). Calls that wait for one another
for ever are excluded by `EveryCallCompletes` in `psci_pair`.

### Fairness

* `BakeryLock`: a CPU inside the lock code keeps executing, and a holder
  releases, because EL3 code runs with interrupts masked. Nobody is obliged to
  contend.
* `Psci`: every CPU in EL3 keeps working (weak fairness). Acquiring a domain
  lock is strongly fair, which is what first come, first served and
  `EveryContenderServed` give. The spin lock of CPU_ON is assumed strongly fair,
  for its caller and for the booting CPU that waits for it
  (`WarmBootFinish`): it is contended only by callers that leave EL3 in between.
  A CPU whose power-on was ordered leaves reset. Calls of the normal world and
  wake-up events are not fair.
* `E7Boot`: the MHU is not fair; the CPU executes and time passes, whatever the SE does (the turn of
  the delay loop is strongly fair, since the SE's steps only interrupt it); the
  SE is weakly fair in taking and answering messages while it listens. It may
  stop listening for good.
* `Sdei`: EL3 code runs to its end and a client's handler completes its event
  (weak fairness); a PE takes an interrupt that it again and again could take
  (strong fairness, since locks and handlers disable it in between). Triggers
  and calls are not fair.
* `Spci`: EL3 code and the partition go on (weak fairness); a CPU that spins on
  the state of a partition sees it idle when it stays idle (weak fairness: the
  spin lock lets other CPUs overtake it again and again). Clients are not fair.

### What the clients are assumed to do

One constant names what the firmware relies on and does not check: `Quiesced`
(SYSTEM_OFF on the E7 is called when the other CPUs are off). The run has it TRUE;
section 5 says what TLC finds without it. Elsewhere clients call what they like,
and where that breaks a property the property names the exception.

## 4. Proofs

`BakeryLock_proofs` proves for any number of CPUs up to 256 and any width of
the ticket field:

* `TypeCorrect`: `Spec => []TypeOK`;
* `LockIsExclusive`: `Spec /\ []NoTicketOverflow => []MutualExclusion`;
* `LockIsFair`: `Spec /\ []NoTicketOverflow => []FirstComeFirstServed`;
* `BakeryImplementsFcfs`: the refinement of `FcfsLock` under the same
  hypothesis.

`NoTicketOverflow` says that the tickets computed fit their field. It cannot
be dropped: with 3-bit tickets (`TicketMod = 8`, `MaxTicket = 12`, two CPUs) TLC
finds two holders after a ticket wraps to 0. The real field has 15 bits, and it
wraps only when the lock is never free for 2^15 acquisitions in a row. The bound
256 comes from `bakery_get_priority()`, which keeps the CPU number in the low
8 bits of a priority.

The argument. Mutual exclusion is not inductive: that a CPU holds says nothing
about the tickets it saw. The invariant `IInv` adds

* `LoopInv`: loop variables index the array while a loop runs;
* `WordInv`: what each CPU has published at each point of its program;
* `OrderInv`: for every pair, a CPU that has passed another in its waiting loop
  comes before it (`Before`): if the other has a ticket, in the order of
  priorities; if it is still scanning, it has seen a ticket at least as large or
  has yet to read this one. And while a CPU waits for another, that one still has
  the ticket that was read or has come back behind;
* `ArrivalInv`: whoever is in `ahead[c]` has a ticket and comes before `c`.

There is one lemma per action that shows the action preserves the last three,
`TypeStep` for the first, and `Priorities` for the arithmetic of
`bakery_get_priority()`. Two holders have each passed the other, so each comes
before the other, which `Priorities` excludes.

`PsciTree_proofs` and `Psci_proofs` prove, for every power domain tree, any number
of CPUs and levels and every set of power states a platform may offer, the four
safety properties of `psci_tree`: `Powered` (`RunningCpuIsPowered`), `NotDeeper`
(`DomainNotDeeper`), `Snapshot` (`SnapshotIsCurrent`) and `Finishers`
(`FinisherAssertsHold`). `SuspendTotal` (`SystemSuspendIsTotal`) has the hypothesis
`TwoCpus`, for any tree above them: with a third CPU TLC refutes the property
(section 5). None is inductive: what
a domain is in follows from what all CPUs below it request, and what a CPU
requests from how far its call has come. `PsciInv` (theorem `Inductive`) adds

* `LockInv`: a CPU holds the locks of its ancestors up to a level and no others;
* `Control`, `Asked`: what the locals of a call are at each of its places, and that
  the levels a wake-up raises are those that were put down;
* `Requesting`: what a CPU requests of the tree when it runs, is retained, boots,
  is suspended or is off;
* `Affinity`, `TurningOn`: the same for `aff_info_state` and the phases of CPU_ON; with
  two CPUs a SYSTEM_SUSPEND that has read the other one goes on only while that is
  OFF, since nobody is left to turn it on;
* `Coordinated`: the state of a domain is the shallowest one requested for it, and no
  CPU requests more of a domain than of one below it;
* `Accounted`: a domain that is down is accounted to a CPU below it.

`PsciTree_proofs` has what the coordination loop (`psci_do_state_coordination()`) and
the wake-up do to the tree as a whole; `Psci_proofs` has one lemma per action. That
a set of levels has a highest one, and a set of requests a shallowest, is taken
from the well-ordering of the naturals (`WFMin` of the library), since induction
itself is out of the provers' reach. The assumptions are that `Anc` is a tree with
each domain at one level and that retention states are shallower than off states.

`E7Boot_proofs` has two parts. The first is about `delay_in_us()` by itself, for every
width of the counter, frequency, delay and speed of the loop that `DelayConstants`
allows: `DelayCounts` (the count of the loop is the time that has passed less one
tick for each wrap) and `DelayAccurate` (`DelaySpec => []DelayIsAccurate`). The
invariant `Inv` relates the last value read, the count, the elapsed time and the
wraps; `CountOfTicks` is the modular arithmetic of one turn. That the counter has
more values than a delay is long plus one turn
(`Word + MaxTick <= MAX_REFCLK_COUNT`) is an assumption: it is 64 bits wide against
32 bits of the delay.

The second part is about the exchange with the SE, for any number of tries, any
run profile, all waits and an SE that may answer any request with an error:
`BootServed` (`DoneMeansServed`), `ProfileGrows` (`ProfileOnlyGrows`), `PayloadIsStable` (`PayloadStable`) and `BootWaits`
(`DelayIsAccurate`, now in the composition). The first three have the hypothesis
`ReadDelaySuffices`: the SE serves a request it accepted within one
`delay_in_us(READ_DELAY)`. The code relies on nothing else: no response is awaited,
and nothing is asked of the two waits of the synchronisation, which may be as short
as they like. The hypothesis is not vacuous (the instance of `e7_boot` satisfies it)
and cannot be dropped, which the mutant without the wait shows. `BootInv` adds
`Exchange` (what is announced, being served and in the buffer at each place of the
boot), `Progress` (what the earlier cycles achieved) and `Timing`: while the CPU waits
to use the buffer, a request that is still being served has been for as long as
the wait. This last one carries the accuracy of the wait over to the protocol.

`EhfDispatch_proofs` proves, for any number of priority bits, any priorities and
masks that `PriorityAssumption` allows and any depth of nesting, the four properties
of the run `ehf`, refused dispatches of RAS interrupts included: `MaskRestored` (`NsMaskRestored`), `PreemptionExact`
(`PreemptionIsExact`), `DispatchesAreNested` (`DispatchesNest`) and
`ActivationsAreMatched` (`ActivationsMatch`). `EhfInv` adds

* `Stack`: the dispatches rise strictly in priority, only the first interrupts the
  TSP, and the partition is the last and running;
* `Interrupts`: the active interrupts are those of the dispatches, above at most one
  that the TSP handles. Both sequences are strictly ordered, so their sets suffice,
  and no interleaving of the two has to be described;
* `TspMask`: the mask of the normal world is in force or in the stash, by what the
  TSP serves;
* `MmMask`: the bit map of activations is the set of the explicit dispatches and of
  the partition, `init_pri_mask` is the mask of the normal world while there are
  any, and the mask is then at most the priority of every one of them.

`SignalledIsAbove` is the key lemma: the running priority holds back what is not
above an interrupt's dispatch, and the mask what is not above an activation, so
whatever is signalled is above all. `Activated` and `Deactivated` say what the two
functions of `ehf.c` do when they find this. The mask after an inner deactivation is
the priority just deactivated (see section 5); the proof needs only "at most", and
this is why the code's choice is safe. The assumption that the partition's priority
is above those of SDEI is used where a dispatch is made: without it an interrupt
could be dispatched above the partition, which SDEI's own stack does not know.

`OspiFlash_proofs` proves, for every size of flash, sector and image and any number
of images, resets and time-outs, however long a reset of the flash takes: `Programmed` (`StagedIsProgrammed`) and `Agreed` (`ModesAgree`). Neither
is inductive: that the image is complete when the magic is cleared depends on how
far the loops have come. `FlashInv` adds `EraseInv` and `ProgramInv` (the pages below
the index are done, those above still erased, and what the flash is busy with is
the index), `MagicInv` (the magic stays set while the image is incomplete or the
flash busy) and `ModeInv` (the modes at each place of the boot). The lemmas
`SectorsCover` and `NextSector` are the arithmetic of sectors.

`PsciAffInfo_proofs` proves, for any number of CPUs that call CPU_ON and
AFFINITY_INFO, `Pending` (`PendingReachesMemory`) and `Current` (`ReadsAreCurrent`, an
action property). `AffInv` adds `LockInv` (a CPU_ON holds the CPU lock, and only one
that found the target OFF, or the returning target, leaves a dirty line), `SetInv`
(what memory and line hold at each place of CPU_ON: the first update is lost only
to the target's last invalidation, so the second is not) and `TargetInv` (the same
for the target). `ReadInv` says that the copy of a caller that is reading is no
older than its flush.

`Bl1Fwu_proofs` proves the four properties of the firmware update for any images,
memory layout, sizes and number of slots, with and without assertions: `Tracked`, `Intact`, `Executing`,
`NoResidue`. `FwuInv` adds `ExecInv`, `SizeInv` (copied images fit, and are complete in
every state but RESET and COPYING) and `DisjointInv` (no two copied images that are
loaded overlap), which the overlap check gives only because every loaded image is
in the list, and which an image that is resumed after its reset (`stale`) escapes.
`CopyStep`, `ClearStep` and `StateStep` are the three ways in which an
action changes an image.

All assumptions on constants are `ASSUME`s of the component's module, which TLC
evaluates in the runs.

Only model-checked: the liveness properties (`EveryCallCompletes`,
`PoweredOnCpuRuns`, `BootEnds` and the others of section 3), since liveness under
fairness is outside what the installed provers handle; `E7Pm`, whose properties
hold for the two CPUs of the board and not for three (section 5), so that the run
is complete but for its bound on resets; `Xlat`, whose walks are recursive operators; and `Sdei` and
`Spci`. The properties of `Spci` compare counts with sizes of sets, which needs
induction over data. Those of `Sdei` depend on the state of the GIC, the event map
and every PE's handler at once, and are open.

## 5. Where code and documentation disagree

`ehf_idle_abort` has a run: `tspd_main.c:619` says that the non-secure context need
not be restored when there was nothing to abort, and with EHF the priority mask is
left changed.

The following are definitions of the modules that TLC refutes, with the constants
of the run named, unless stated. No run checks them in this form; the last group is
checked with the exception described.

| Definition | What the repository says | What happens | Constants |
|---|---|---|---|
| `RunningDomainIsAccounted` (`Psci`) | `psci_stat.c`: the function "updates the PSCI STATS ... for CPU and NON-CPU power domains" | a first power-up is recognised by the lowest domain only (line 139), and the accounting of a higher one is skipped | `psci_tree` |
| `SystemSuspendIsTotal` (`Psci`) | `psci_common.c:155`: the test "verifies that the all the other cores in the system have been turned OFF" | it reads one CPU after the other without a lock: a third CPU turns on one that was read and then itself off before it is read | `psci_tree` |
| `FailedCpuOnRestoresOff` (`PsciAffInfo`) | `psci_on.c:151`: "Restore the state on error" | the restored OFF is lost to the invalidation of the target, which then stays ON_PENDING | `aff_info` |
| `RoutedWhileInactive` (`Sdei`) | `sdei_main.c:317`: routing is allowed when the interrupt is "not active" | the state of the event does not tell, since it is set after the acknowledgement | `sdei` |
| `DispatchesRegisteredHandler` (`Sdei`) | | `setup_ns_dispatch()` reads the entry point after the lock is released, when the event may be registered anew | `sdei` |
| `OneEventPerInterrupt` (`Sdei`) | `sdei_main.c:699` checks that an interrupt is not bound yet | two PEs that bind the same interrupt at once both pass the check | `sdei` with two shared dynamic events |
| `FailedAddIsUndone` (`Xlat`) | `xlat_tables_core.c:997`: "undo every change done up to this point" | a table whose first entry failed keeps its count, and is never free again | `xlat` |
| `WarmBootIsPending` (`E7Pm`) | | SYSTEM_OFF on one CPU and CPU_OFF on the other lose an update of `HOST_CPU_WAKEUP` | `e7_system`, `Quiesced = FALSE` |
| `NoLostWakeup` (`E7Pm`) | | with a third CPU, a CPU_OFF writes back what it read before a CPU_ON | `e7_system` with CPUs 0 to 2 |
| `MutualExclusion` (`BakeryLock`) | | tickets wrap to 0 when the lock is never free | two CPUs, `TicketMod = 8`, `MaxTicket = 12` |

These properties hold of the code with an exception that their definitions name,
and TLC refutes them without it:

| Property and exception | What the repository says | What happens |
|---|---|---|
| `ActivationsMatch`, in the TSPD build only | `docs/exception-handling.rst:437`: deactivation restores the mask to "the priority before the call"; `ehf.c:202`: to that of "the next priority" | it leaves the priority just deactivated: a second MM_COMMUNICATE inside the handler of a RAS event meets that mask, and `ehf_activate_priority()` panics |
| `PreemptionIsExact`, while a payload serves a call | | after a RAS interrupt whose dispatch was refused, which `sgi_ras.c:155` ignores, EL3 is back in a partition that serves nothing |
| `DoneMeansServed`, `ProfileOnlyGrows`, except for requests in `refused` | `services.c:97`: "0 - Success. SE service request to write AES keys is successful" | `resp_error_code` is not read: the boot goes on without the key, or writes back a run profile it did not get |
| `BootEnds`, unless the MHU never grants access | `services.c:50`: "-1 - Failure. Unable to sync with SE even after MAX_TRIES" | the tries are limited; the wait in `mhu_secure_message_send()` is not (`mhu.c:49`) |
| `ModesAgree`: the probe may fail on a flash in its reset | `norflash_ospi_setup.c`: "Reset takes up to 30us" | the probe after the software reset comes without a wait, finds a flash that does not answer, and the boot panics |
| `LoadedIsTracked`, `AuthenticIntact`, `NoUnverifiedResidue`, except for images in `stale` | `docs/firmware-update.rst:330`: a resume by the normal world without an INTERRUPTED image returns -EPERM | `sec_exec_image_id` survives the reset of an interrupted image: a build with assertions stops (`bl1_fwu.c:577`), the other runs what is there |
| `LoadedIsTracked`, except for NS_BL1U | `docs/firmware-update.rst:395`: a reset of an EXECUTED image returns -EPERM | a build with assertions stops at the reset of NS_BL1U (`bl1_fwu.c:733`, action `ResetAsserts`) |
| `EnableFollowsEvent`, `TriggerIsDelivered`, except for events in `moved` | `sdei_intr_mgmt.c:82`: an unmask enables "interrupts of events that are targeted to this PE" | SDEI_EVENT_ROUTING_SET does not update the affinity that the unmask compares: the line that a masked trigger disabled stays so, or the assertion at line 304 fails |
| `HandledStaysBound`, for shared events | | a private dynamic event that one PE has unregistered can be released by another while a handler runs, which panics at `sdei_intr_mgmt.c:505` |
| `RequestsConserved`, `BlockingGetsItsAnswer`, unless `overtaken` | `spci.c:303`: "Blocking requests are only allowed if the queue is empty" | a request that is started while the blocking one waits for the partition, and is preempted in it, gives its answer to the blocking one, whose message stays in its queue; the answer to that has the token 0, which may be taken, and `responses_lock` stays held |
| `RequestsConserved`, except for slots in `refused` | `spm_main.c:52`: the counts are of requests "received" and not "finished" | a request that finds the queue full (`spci.c:479`) is counted for ever: the handle cannot be closed, and no request can block on that partition |
| `CountsAreSound`: exact until `spoilt` | `xlat_tables_core.c:997`, as above | the counts are too large from then on, never too small |

The models contain some more behaviours that a reader may not expect. They are
in the actions as the code has them, and no property claims otherwise:

* `ehf_deactivate_priority()` with an activation left programs the priority being
  deactivated, not the next one (`Deactivate`), so the outer priority is masked
  longer than needed.
* An acknowledgement of the SE on the last of `MAX_TRIES` is reported as a
  failure (`SyncPoll`), and a retry finds the channel it writes busy.
* The primary CPU, turned off and on again, leaves reset through the cold boot
  path (`Reset`).
* `delay_in_us()` takes two equal reads for a wrap and ends at once; the assumption
  `MinTick > 0` excludes them.
* `ospi_program_from_mram()` returns 1 after a time-out, which its comment explains
  as "flash was programmed": the boot goes on with a flash that is programmed in
  part. The magic stays, so the next boot programs again.
* A response that finds the array of responses full is a panic
  (`spm_buffers.c:43`, action `AddResponse`), and nothing limits the requests that
  clients start.
* `sdei_cpu_on_init()` clears the private events of its PE whatever their state and
  leaves their `reg_count` (`CpuOn`), so that such an event may stay taken.
* SDEI_EVENT_REGISTER stores the affinity that the client passed for a private event
  too (`RegArgs`); a masked trigger then fails the assertion at
  `sdei_intr_mgmt.c:304`.
* Without assertions a bind can take the slot of an explicit event (`BindSlot`).

## 6. Further work

In the order in which it would add most:

1. The power hooks of the secure payload dispatcher (`Tspd`), composed with the
   calls of `EhfDispatch` and with `Psci`; OPTEED, TLKD and Trusty where they differ.
2. `BakeryNormal`: the lock in cached memory (`bakery_lock_normal.c`), shown to
   implement `BakeryLock`. A CPU that reads a stale line of another's ticket there
   (line 139) is the hazard.
3. SDEI event 0 and SDEI_EVENT_SIGNAL, where a masked trigger of event 0 returns
   without an end of interrupt (`sdei_intr_mgmt.c:292`).
4. The attribute changes of `xlat_tables_utils.c`, one page after the other.
5. `IoFip` (a search that ends in a read error leaves the entry of the one open
   file changed, `io_fip.c:328`), `ScmiChannel` (the order of mailbox status, payload
   and doorbell, `scmi_common.c:46`), and the walk of the authentication module over
   the chain of trust.
6. Proofs: the safety properties of `Sdei` for any number of PEs and events, and
   `RequestsConserved` of `Spci` for any number of CPUs.

## 7. Not modelled

Most of the repository's lines are outside any model here, by far the largest
part being some 200,000 lines of drivers and platforms of other vendors, imported
libraries (libfdt, zlib, the C library) and host tools. They are not part of the E7
image, program registers in a fixed order, or have no shared state. Platforms
other than `devkit_e7` are instances of the hooks that the PSCI model leaves open.

Register programming and assembly (drivers, CPU operations, context save and
restore, the HyperRAM setup of `devkit_e7`) have no interleaving or data structure
that a model could get wrong in the way the code could. Cryptography and image
parsers are used through their results. What boots straight through on one CPU
(PSCI topology, SPM partitions and their tables, runtime service tables, BL1 and
BL2) is where the models' initial states come from.

`PROJECT.json` lists every part with its reason, and the hazards that no property
covers with a note.
