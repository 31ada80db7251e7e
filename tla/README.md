# TLA+ models of the RTEMS LEON/SPARC samples

The repository is a collection of sample programs for RTEMS on LEON processors: two
substantial applications (a memory scrubber driver with its demo under `memscrub/`, a
MIL-STD-1553 bus with controller, terminals, monitor and log server under `1553/`), two
hand-written device libraries (OCCAN, BRM), and some thirty smaller samples.  This directory
models the parts with state of their own, checks the models with TLC and proves with TLAPS
what matters most about them for every value of the constants.

Contents: [Inventory](#inventory) - [Plan](#plan) - [Modules and code](#modules-and-code) -
[Runs](#runs) - [Bounds](#bounds) - [Fairness](#fairness) -
[Assumptions on the hardware](#assumptions-on-the-hardware) - [Proofs](#proofs) -
[Findings and observations](#findings-and-observations) - [Not modelled](#not-modelled)

## Inventory

| component | state | operations | how it interacts |
|---|---|---|---|
| memscrub register driver, `memscrub/memscrub.c` | `ceack`, `ueack`, `laststat_ce/ue`; the core's registers | `checkstat`, `clearstat`, `get_events`, `operation_start`, `stop`, `switch_mode`, `setup_*`, `get_totals` | called by the RTEMS driver from its service routine and from tasks, on the same variables |
| memscrub RTEMS driver, `memscrub/memscrub_rtems.c` | `state`, options, a queue of 8 messages | `memscrubr_isr`, `init1/2`, `start`, `stop`, `set_option`, `get_message`, `get_totals` | service routine against tasks; queue to the report task |
| scrubber demo, `memscrub/scrubtest.c` | - | autostart, report task, fault injection | reads the message queue |
| 1553 monitor log, `1553/bm_logger.c` | ring `base/head/tail/end`, `time`, `lastlogtime` | `log_cmp_add`, `log_cmp_take`, `bm_log_copy`, `bm_log` | the DMA area of the monitor on one side, the server task on the other |
| log server and client, `1553/ethsrv.c`, `1553/linux_client.c` | sockets | `server_loop`, `cmd_get_log`, `client_get_log` | commands and answers over TCP |
| 1553 controller, `1553/bc_list.c`, `1553/rtems-gr1553bcbm.c` | the descriptor list, `bc_state`, `rtup`, tick counter, time, data blocks | `init_bc_list`, `bc_list_process`, two service routines | the GR1553B core executes the list the task edits |
| 1553 terminal, `1553/rtems-gr1553rtbm.c` | `init_state`, `bus_status`, two rings of 16 blocks, `last_entry` | `rt_init_state`, `rt_sa3_rx_isr`, time sync handlers | driven by what the controller sends |
| 1553 time distribution, `1553/time.c` | `time_tick_tx_wrap`, time packet buffer | tick service routine, `spwcuc_handling` | service routine to task over a flag |
| OCCAN library, `occan_lib.c`, `rasta/occan_lib.c`, `rtems-occan.c` | mode, speed, blocking and timeout options | open, set options, start, stop, send and receive | driver queues |
| BRM library and demos, `brm_lib.c`, `rtems-brm.c`, `rasta/b1553-demo.c`, `rtems-b1553rt.c` | mode BC, RT or BM, message list | set mode, `brm_bc_dolist`, waiting, RT reads and sends | an older 1553 core, same roles |
| flash library, `flashlib.c`, `rtems-flash.c` | sectors | erase range, program, reset | busy waiting on the device |
| multiprocessor start-up, `rtems-mp.c` | global semaphores, a remote task | obtain, release, suspend, resume | nodes over shared memory |
| CAN demos, `rasta/rtems-canloopback.c`, `rtems-grcan.c`, `rasta/grcan-demo.c` | one shared message buffer; an expected message | receive and send back; send, receive and compare | tasks over bounded driver queues |
| SpaceWire demos, `rtems-spwtest-2boards.c`, `rasta/grspw-demo.c` | packet numbers | bring the link up, write, read, check | two boards over one link |
| ADC/DAC and GPIO demos, `rasta-adcdac/` | ten values of each channel; interrupt counters | convert, arm, drive, check | service routine to task over a semaphore |
| AD7891 demo, `ad7891/` | channel, periodic mode | single and periodic reads | an SPI chip that is one value behind |
| CAN bit timing, `can/calc_can_btrs.c` | none | a search | a pure function |
| PWM, I2C, SPI, SD card and RASTA frame demos | small | calls of drivers | see `PROJECT.json` |
| ttcp, one-feature samples, driver manager tables | none of interest | - | not modelled |

**What is hard here.**  *Concurrency without locks:* the scrubber's service routine preempts
every driver call and works on the same counters and on the same core; the 1553 controller edits
descriptors that hardware is executing; log, server and terminal share memory by an agreement on
priorities only.  *Ordering by time alone:* nothing but the length of frames and of sleeps orders
the controller task, the list and the terminals.  *Wrap-around:* 8- and 10-bit error counters,
24-bit entry times, 13-bit data times, rings of different lengths, 16-bit words.
*Loss:* a bus transfer lost in either direction, words dropped by a full log, messages
dropped by a full queue, short TCP reads.  *Liveness:* regeneration and scrubbing that must
resume, a bus that must start and must shut down.

**What makes each part correct.**  Scrubber: totals that are neither too high nor taken back, no
event left without an interrupt, scrubbing that never stops by itself.  Log: a bounded first-in
first-out store that loses only its oldest words, and times a client decodes to what was on the
bus.  Controller: a start-up that ends, with the terminals it knows and only when they are ready;
seconds of task and list that stay in step; a shut-down that takes place.  Data exchange: each
block echoed in its frame, and agreement again after a loss.

## Plan

Done, in this order: `ScrubCounters` and `ScrubDriver` with their proofs; `CmpLog` shown to implement
`DropOldestLog`, with its proofs; `BmLog`; `BcList`, `BcRtData`, `EthLog`; then the samples: `CucTime`, `Flash`, `OccanLib` and `OccanDemo`, `CanLoop`, `GrCan`,
`BrmLib` and `Brm`, `B1553Rt`, `MpStartup`, `AdcDemo`, `GpioTest`, `Ad7891`, `SpwTest`, `SpwDemo`,
`CanTiming`; then the proofs about `Flash`, `MpStartup` and `CucTime`, the rest of those about
`ScrubDriver`, and those about `BmLog`, `BcRtData`, `BcList`, `CanLoop`, `GpioTest`, `Brm`,
`EthLog`, `B1553Rt`, `AdcDemo`, `Ad7891` and `SpwDemo`; last those about `GrCan`, `OccanDemo`, `SpwTest`,
`CanTiming` and the filter of `AdcDemo`, and the one that puts all samples together (`MCSamples`).

`MCSamples` extends all the samples and checks them in one run: they share no state and no code, so
each initial state takes the steps of one sample and the others stand still.  The states of that run are
the sum of those of the samples, not their product.  Their variables and most of their definitions
carry a prefix, so that they can be extended together.

Every type invariant and every safety property a passing run checks is now a theorem as well.

## Modules and code

`PROJECT.json` "map" names the lines of every definition.

**`ScrubCounters`** (`memscrub.c`).  State: the counter fields and the NE bit of `ahbstat`
(`cnt`, `ne`), the driver's `ack` (`ceack`, `ueack`) and `laststat`, the program counters of the
service routine and of `memscrub_setup_ahberr`, and the local copy `checkstat` works from.  `Kinds`
are the two kinds of errors, `Width` the modulus of each field.  A reading or a clearing of the status
word by the service routine is one step, for nothing but the core comes in between, and so is
`memscrubr_get_totals`, for it disables the interrupt.  The set-up of a restart
(`memscrub_setup_ahberr`) runs with the interrupt enabled, so each load and each store of a shared variable
is a step of its own: `ceack += laststat_ce` loads the two in either order into `sum` and stores that
(`SetupLoad`, `SetupAdd`, `SetupStore`), and the statements for the two kinds mix as a compiler may mix
them.  `happened`, `gap`, `clean`, `reported` and `preempted` (the service routine has come within a
set-up) are history variables: they say what the properties compare and guard nothing.

**`ScrubDriver`** (`memscrub_rtems.c` on `memscrub.c`).  State: `scrubconf`, the parts of the two
status words the driver looks at, the interrupt line, `state` and the options, the message queue, and
program counters of the service routine and of the task that calls `memscrubr_start` or
`memscrubr_stop`.  The core is the environment: `ScrubError`, `BusError`, `RunEnd`, `WindDown`.  A
task step needs the service routine to be idle, never the other way round.  A start sets `called`,
a history variable: what holds for a scrubber started once is claimed while it is false.  What the
steps do to the error counters is left to `ScrubCounters`; a message is the events of its first
word.

**`DropOldestLog`** is the abstract log, **`CmpLog`** the ring of `bm_logger.c` with one step for
each round of the loops in `log_cmp_add` and `log_cmp_take`.  `Contents` maps the ring to the
abstract log.  **`BmLog`** has a log that keeps the newest `Capacity`
words, as `DropOldestLog` does: entries with a 24-bit time arrive in the DMA area, `bm_log_copy` samples the clock, widens, compresses; the server takes words out; a
client decodes them.  `real` in an entry is the time it was on the bus; no guard reads it except to
state the assumptions on the clock.

**`BcList`**.  Time passes in units of 12.5 ms: the frames of 150, 125 and 62.5 ms and the 100 ms
between two calls of `bc_list_process` are whole numbers of them.  One unit is one step of the
core and of every terminal's poll; `Process` is a call of `bc_list_process`, one action for each
`bc_state`.  Descriptors are reduced to what the task and the core tell each other through them: the two
jumps, the message slots, status and dummy bits of the requests, the trigger.  `soft` is the
build option `SOFT_EXTTRIG_ENABLE`.  A call of state 0 or 1 writes the statuses it has read over with a variable
that was never set; `unset` are the rows this is true of until the core executes them, and a status in such
a row may read either way (`Seen`).  `misread` is a history variable: one of them was counted as an answer;
`Misreads` are the terminals of which a run looks at that.

**`BcRtData`**.  The data of one terminal once both communicate: the controller's two blocks for
each frame and direction and its checker, the terminal's two rings of two blocks per frame and its
service routine.  A block of 32 consecutive words is its number.  A service routine runs at any time in the
window the schedule gives it.

**`EthLog`** (`ethsrv.c`, `linux_client.c`).  The two directions of the connection are sequences of
bytes (`up`, `down`); a read takes any piece of what has come (`Pieces`).  The five bytes of a command
have their values, for the server decides by them and keeps old ones in `sbuf`; the bytes of an
answer say which word they are part of.  `client` and `server` are where each program is: one step
is one `send`, `recv`, `read` or `write` and what the program does up to the next.  `Kill`, `Reset`
and `Connect` are the user and the network.  `start` and `torn` are history variables.

**`CucTime`** (`1553/time.c`).  The service routine prepares a packet and sets a flag, the
controller's task prints the buffer, writes it and clears the flag; the buffer is copied in two parts,
so that it may change in between.

**`OccanLib`** (`occan_lib.c` and its copy under `rasta/`) has no state: each call is an operator from a
channel to a return value and a channel.  **`OccanDemo`** (`rtems-occan.c`) is the two tasks that use it,
each at one of its `Calls`, with the queues of the driver and the acceptance filter of the core bit
by bit: a byte of the filter and an identifier are the sets of their bits that are set.  **`CanLoop`** (`rtems-canloopback.c`) is one task for each channel on the same library; all
of them work in `canmsgs`.  **`GrCan`** (`rtems-grcan.c`, `grcan-demo.c`) sends four messages round
and round, in the three builds there are; `VerifiedAll` is the loop over the messages of a read.  **`CanTiming`** is the
search of `calc_can_btrs.c`; a step is one bit rate of its list for one clock.  `Best` is the last of the half quanta with the
least error, which is what a loop that replaces its best by one as good keeps.

**`BrmLib`** (`brm_lib.c`) is the library in the same form.  **`Brm`** is its three demos on one bus:
the controller of `b1553-demo.c`, the terminal of `rtems-brm.c`, the monitor of `rasta/rtems-brm.c`.  The
messages of a list are one step each; a second passes when nobody has anything to do.  Reads, replies and
lists fail as the library lets them; `refused` and `want` are history variables: the subaddresses whose
last reply the driver did not take, and the rounds of which an answer is right.
**`B1553Rt`** is the terminal of `rtems-b1553rt.c`, one step for each read.

**`Flash`** (`flashlib.c`): bytes of two bits, of which programming clears and erasing sets; a call, the
commands it gives, and the chip.  **`MpStartup`** (`rtems-mp.c`): two nodes, the objects they
tell each other of, sleeps in ticks.  **`GpioTest`** (`gpio-demo.c`) and **`AdcDemo`**
(`gradcdac-demo.c`): a task and a service routine with a semaphore between them.  **`Ad7891`**:
the driver's parameters and the chip, which answers with the channel it was told before; the core may
refuse a stop or a register write, which the driver does not look at (`ad_refused`, a history variable).
**`SpwTest`** and **`SpwDemo`**: sender, receiver and link.

The `MC...` modules only give the constants small values; the properties are in the modules
themselves, the mutants beside the definitions they change.

## Runs

| run | shows |
|---|---|
| `counters` | Errors, service routine, `get_totals` and restarts in every order.  Until the service routine comes within the set-up of a restart, totals are never too high, are exact while no error fell between a read and a clear, and are never taken back; NE always has an interrupt coming. |
| `scrub_driver` | Start, stop and options at any time.  No event without an interrupt, no scrubber that stops by itself, no deadlock (a restart waits for the core, the core for nobody); started once, a regeneration interrupts and gives way to scrubbing, and the silent mode stays armed. |
| `scrub_stop_race` | *violated:* `memscrubr_stop` returns and the scrubber runs. |
| `ring` | The ring implements the abstract log. |
| `bm_log` | Decoded times are right through every wrap and overflow; the check that stops the monitor never fires. |
| `bc_startup` | From the terminals' power-on to communication, with a lost transfer, late calls, a stale trigger and statuses that the uninitialised variable has left: until one of those is counted as an answer, the start-up is right. |
| `bc_run` | Seconds in step when the task gives the trigger; shut-down when a time master does. |
| `bc_shutdown_soft` | *violated:* with the task's trigger the shut-down may wait for ever. |
| `bc_rt_data` | Blocks echoed in their frame, no check fails before a loss; after one lost block the sides stay in step and the checks settle. |
| `bc_rt_data_two_lost` | *violated:* after two losses the checks may fail for good. |
| `samples` | *Log server:* words reach the file once and in order (`FileRight`); every request ends and a client that is gone does not keep the server (`Answered`).  *CAN:* the loop-back tasks do not mix their messages (`EchoesOwn`).  *1553:* the terminal's answers are there when they are asked for, unless its driver refused them (`BrmEchoed`); time packets are right (`CucPackets`).  *Flash:* a range erases its sectors and no others (`FlashRight`).  *I/O:* no interrupt outlives its test, unless a line could not be driven (`GpioQuiet`).  *Nodes and links:* taskA is woken (`TaskAWoken`), both ends get past the restart of the link (`LinksUp`).  *The rest* in `DemosRight`: OCCAN channels are set up when the driver takes it (`OccanSetUp`), the GRCAN receiver follows losses (`GrSyncs`), bit timing is the closest there is (`TimingBest`), reports are right (`B1553Report`), values stay with their channel (`AdcRight`, `AdRight`), gaps between packets are counted (`SpwErrors`), the numbers of packets are read in order (`ReadInOrder`), and a node resumes a task that is suspended (`ResumeInTime`). |
| `cuc_latest` | *violated:* a time packet is prepared and never sent. |

A mutant of the code stands beside each checked property in `PROJECT.json`: a plausible slip in a
definition of the model that makes TLC refute that property in that run; `DemosRight`,
which joins properties of nine samples, has one for each of them.

## Bounds

- `counters`: one kind of error (kinds share nothing but NE, which any error sets), a field of
  three values and 7 errors: the field wraps twice, before and after a clear.
- `scrub_driver`: threshold 1 and up to 2 errors in a run - below, at and over it; a queue of one
  message, so that it is empty, full and overflows.
- `ring`: four slots, up to 3 words added and 4 taken in a call: every call can cross the end, and
  an addition can overflow a log of any length.
- `bm_log`: the widths 2^13, 2^24 and 2^30 become 2, 4 and 4, the clock goes to 9 and each wraps;
  a log of 3 words is the least that takes one entry whole and overflows at the next.  The run
  stops when the clock reaches its bound, so deadlock is not checked.
- `bc_startup`: two terminals, of which one is enough to start, so the set found differs from the
  set present and from the set needed; one lost transfer; each call up to one unit late.  Of one of
  the two terminals any status may be misread (`Misreads`), and what the variable leaves that is not counted as an answer is in
  the run for both: so a terminal that answers is found together with one that only seems to.
- `bc_run`: one terminal; the seconds do not depend on how many there are.  Calls on time, see the
  observations.
- `bc_rt_data`: the rings as in the code.  Words wrap after 20 blocks instead of 2048: not a
  multiple of the ring's 16, so that wraps of words and of rings meet in every phase.
- `samples`, by sample (states on their own in brackets):
  - `EthLog` (100,000): a header and a word of two bytes and two words in an answer: pieces end
    before, in and after each part.  Three words in all, so that a client gets several answers and a
    second client comes into the middle of the log; when they are used up, answers are empty.
  - `OccanDemo` (34,000): buffers of 3 and 2 and a filter test of 4 messages, so that a test does not
    fit into a buffer; a stop after round 1 of 2.
  - `CanLoop` (5,000): two channels, a receive buffer of one, reads of up to two, three messages on
    each channel: the buffer is full and is shared.
  - `GrCan` (20,000): queues and reads of two, nine messages and two losses: the four messages go
    round twice.  `CanTiming` (130): the clocks LEON boards have and three odd ones, with the code's own
    numbers.
  - `Brm` (48,000): two rounds with one fault, a call that fails or a transfer that is lost; sleeps as in the
    code.  `B1553Rt` (6,000): three reads of messages and mode codes of every kind.
  - `CucTime` (460): four packets.  `Flash` (18,000): a device that starts at 2, with three sectors of two
    bytes, and two calls: ranges begin and end in every place.  `MpStartup` (175): two or three
    looks for each name, a sleep of 3 and a delay of up to 2.
  - `GpioTest` (170): 3 interrupts of a level instead of 64.  `AdcDemo` (6,000): six conversions, so that
    every channel comes twice, two interrupts nobody asked for.  `Ad7891` (15,000): four channels, six
    reads.
  - `SpwDemo` (3,000): packets of 5 bytes that take 4 values, so that a packet begins with each of
    them.  `SpwTest` (21,000): lengths as in the code, eleven writes, so that the number in the packet
    starts again.
  - Each of them stops at its bound, so deadlock is not checked.
- `cuc_latest`: as in `samples`.

## Fairness

- `ScrubDriver`: weak fairness of the core's run end and wind-down (a run is finite), of the service
  routine (an interrupt is taken and a routine under way goes on), and of a task in the middle of
  an operation.  None for errors, for the user's calls or for reading messages.
- `BcList`: weak fairness of "a unit passes or the task is called": time passes and the task's loop
  runs.  Weak fairness of `HwTrigger`, the time master's pulse, exists only where there is one.  None for
  terminals to be switched on or for the request to shut down.
- `BcRtData`: weak fairness of the next step.  The steps form one schedule and a loss is only ever
  an alternative to a transfer.
- `EthLog`: weak fairness of the client's and of the server's next step: a call that can return
  returns.  None for clients to come or go, nor for the connection to be lost.
- `MpStartup`: weak fairness of each node, of the announcement of objects and of time: a node that can
  go on does, a message arrives.
- `SpwTest`: weak fairness of each program's next step.  None for a write to succeed.
- The other samples, `ScrubCounters`, `CmpLog` and `BmLog` have safety properties only.

## Assumptions on the hardware

The cores and RTEMS are not in the repository; what the code relies on was modelled from its
use, and is marked external in the map.

- Scrubber core: SCEN is clear at the end of a run; a looping run gives no DONE; a disabled run winds
  down without DONE; cause bits freeze while NE is set; writing `scrubconf` in a run changes its
  parameters.  A threshold of 0 makes no sense in the driver and is not used in the run.
- GR1553B: a dummy transfer completes with success; a descriptor that was not executed has bit 31 set;
  `gr1553bc_slot_update` returns the status it finds and writes the one it is given, which `FindRts` and
  `WaitPnp` hand over uninitialised: the row may read as answered or as not, until the core executes it
  again.  What PnP requests get is written by `FindRts` itself (bit 31 set).  In one unit the task's call comes before the
  core's step.
- The terminal's service routine runs within the 25 ms between sending and asking; the controller's
  within a frame.  The logging and server tasks have one priority and do not preempt each other.
  The monitor is read often enough for no entry to be older than 2^24 clocks.
- OCCAN driver: settings are taken while the channel is stopped, messages are moved while it is started, as the error
  messages of the library say.  A read that waits ends when there is a message; queues hold
  what they were set to.
- The loop-back tasks have one priority, and a task keeps the processor until it waits.
- Flash: bit 7 of an address that is being erased reads 0.  A programmed bit becomes 0 only.
- AD7891: a transfer brings the value of the channel of the transfer before.  A call of the SPI core that fails
  has changed nothing.
- GPIO: `gpiolib_irq_disable`, whose result nobody looks at, succeeds; the line changes only when it is driven.
- BRM: a reply that is not taken leaves the one before it in place.
- `MpStartup`: between the release and the suspend taskA takes less time (`MaxLag`) than node 0 sleeps.

## Proofs

Proved for every value of the constants, from the ASSUMEs of the modules and nothing else:

- **`ScrubCounters_proofs`**: `Typing`; `Served` (itself inductive on top of the types); and, until the service
  routine comes within a set-up, restarts included: `NeverOvercounts`, `ExactTotals` and `Monotone`.  They stand on
  `Account`.  `Pending` is the total the driver holds, or will hold at the end of a set-up, told from the step the
  task is at; `Covered` says that what was reported is within it, `Sound` that it - or what it would be after the next
  reading, which is what a wrap or a clear preserves - is bounded by the errors counted, `Exact` that it is short by
  just those no check has seen.  `Apart` says that a set-up that was not preempted has the variables for itself;
  `preempted` never becomes false again, so the invariant is about the behaviour until then.
- **`ScrubDriver_proofs`**: `Typing`; `NoLostEvent`, by the strengthening `RunsInterrupt` (an enabled
  run either loops or interrupts, for otherwise its end would go unseen); `Keeps`, by `KeepsInv`, which says
  at each point of the service routine what is left of "a run is in progress or its end is
  waiting".  The delicate point is `memscrub_switch_mode`, which writes back a SCEN it read before.
  `RegenGetsKnown` and `StaysArmed` are `RegenInterrupts` and `SilentArmed`, by `OnceInv`, which is about a
  scrubber that was started once (`called` is false until the second start): between a stop and the start
  the core is dormant; after the start it runs as the mode the user chose asks for.
- **`CmpLog_proofs`**: `Typing`; `Refinement`, that a ring of any size implements `DropOldestLog`:
  the mapping gives out the slots from the tail, and each round of a loop is a step of the log or
  a stutter.
- **`BmLog_proofs`**: `LogTyping`; `EntriesInOrder` (`NeverStops`) and `TimesDecoded` (`DecodedRight`), for any
  widths of the time fields and any capacity.  `LogInv` says of the entries in the DMA area that they are in
  order, none older than the one logged last and none older than a turn of the 24-bit time (`Entries`); that
  `time` is the time of the entry logged last, or is about to be (`Kept`); and of the log that each data word
  hangs on a time word with the upper bits of its own time - the last one before it in the log, or the one
  the client has taken - unless words were missed (`LogRight`).  The same is said of the place behind the last word,
  so that the next data word finds its time word.
- **`BcRtData_proofs`**: `ExchangeTyping`; `StaysInStep` (`RtInStep`), although the service routine only counts
  interrupts and any transfer may be lost; without losses `EchoedInTheFrame` and `ChecksAgree`, for any number of
  frames and any modulus of the words that is longer than the ring.  `ExchangeInv` has a part that holds whatever
  is lost (`InStepInv`) and one that holds until a block is lost (`Undisturbed`): where each block of a frame is at
  each of its steps, and that the numbers in all blocks of the controller are the ones expected, in their order.
- **`BcList_proofs`**, for any finite set of terminals: `ListTyping`; `InformationRead` (`PnpRead`); `DataAfterRun`
  (`RunBeforeData`); `TriggersTaken` (`NoTriggerLost`); `StartedByTheTask` (`TimeStarted`); `TimeTaken` (`NextTimeKnown`).
  `ListInv` is the types, what the list looks like in each state of the task (`Shape`), and what the task knows of the
  terminals (`Known`).  `PnpRead` and `RunBeforeData` are about behaviours in which no status that the uninitialised
  variable has left was counted as an answer (`misread` is false); `Known` says nothing of the others.  On it stand
  - `Hears`: a terminal that was found and has not heard the run message has missed it as often as it was sent.  The
    message is sent 14 times before data are exchanged, so the theorem has the hypothesis `MaxLost <= 13`, which is exact: TLC finds
    data before the run for 14 losses;
  - `InTime`: when the task gives a trigger the core is back at the start of a frame of 1 or 2 and waits, because the
    frames between take less than ten calls however late;
  - `FirstTime`: the first time message is sent at a trigger of the task.  It is about the build with the software trigger
    (`SoftTriggers = {TRUE}`), and needs two times to differ (`TimeMod >= 2`);
  - `InLock`: calls and units keep step exactly while no call is late (`Late = 0`, see the observation on
    `bc_list.c:1072`): the next time is set 72 units after a trigger, told at 73 and taken over at 80.
- **`Can_proofs`**, for any bounds of each CAN sample.  `Smallest` (a set of numbers has a least one) and `Induction` come from the
  well-foundedness of the numbers; what a loop over data computes is proved by them: for each length there is the run of its
  states, each made of the one before.
  - `CanLoop`: `LoopTyping`; `EchoedOnce` (`EchoesOwn`), for any number of channels and lengths of queues.  `Chain` is the
    invariant: what has left a channel or is in its transmit queue, what its task has in the one buffer, and what waits in its
    receive queue are its own messages, each after the one before, and no later than the last that came.  The buffer may be
    shared because a task has the processor from its read until its messages are in the queue.
  - `OccanDemo`: `OccanTyping`; `OccanSetUpInTime` (`OccanSetUp`), for any lengths of the buffers and up to 29 test messages, as
    many as an identifier has bits.  `OccanShape` says that a channel is stopped while its task is at its calls and which of them
    were made (`SetUpTo`); the filter goes through by `OddFails`: the number of an odd message is the number of a bit that is compared and
    should be clear.
  - `GrCan`: `GrTyping`; `InSyncAgain` (`GrSyncs`), for any queues and any length of a read.  `Accounted` gives the losses so far to
    the places in the receiver's queue: a message that is not the one expected after the message before it tells of a loss that no
    other tells of, so the receiver can look for its place once for each loss.  What is written follows on (`InOrder`), also after a
    write that was cut short.
  - `CanTiming`: `CtTyping`; `ClosestRegisters` (`TimingBest`), for every clock and the rates of the list, by real arithmetic of
    quotients.  For one number of quanta the divider rounded down or the one after it is the closest (`CloserBelow`,
    `CloserAbove`), and the search tries both.  A divider that is out of reach is the delicate case: `AtTheEdge` shows that a larger number
    of quanta has a divider within reach that is as close, for the dividers there are dense enough (`DenseEnough`).  Last, the
    registers give the divider and the quanta back (`Btr0Fields`, `Btr1Fields`, `GrcanFields`), though they are clamped and shifted.
- **`Samples_proofs`**, for any bounds of each of the other samples:
  - `GpioTest`: `GpioTyping`; `NoneAfterTheTest` (`GpioQuiet`), for any number of interrupts in a level test.  `GpioShape` says that portA
    either waits for what is left of them or has had all and is masked, and that the line is at the other level
    until the task drives it.  `LeftEnabled` is the way out with the interrupt enabled, where a line could not be driven.
  - `Brm`: `BrmTyping`; `AnsweredInTime` (`BrmEchoed`), for any number of rounds and up to 14 failed calls and lost
    transfers (`MaxFaults <= 14`): a read that fails costs the terminal a second.  The
    terminal's queue is `Sorted`: messages that say a reply was sent, each of which costs it a second of sleep, and behind
    them the commands.  `InTime1553` says that there are at most five seconds to wait when a list ends, with one more for each failure that is left,
    and that while the controller sleeps its 20 s the terminal needs fewer until it comes to the commands; so when the results are
    asked for none waits.  `AnswersLast` says that the last command for each subaddress that came waits there, is answered, or had
    its reply refused, and then an earlier answer is there.
  - `EthLog`: `EthTyping`; `WordsInOrder` (`FileRight`), for any length of headers, words and answers.  `Live` says where the
    words are that were taken since the client came: in its file (`AtSend`), or the last of them in the one answer under way
    (`AtHeader`), or in the part of it that came (`AtData`).  That there is one answer at most is `Asked` and `Unasked`: however
    the server's reads cut a command, at most one answer comes of it, for a byte left over from the one before either stands
    for the first byte of the next, or is read as the start of a command or as a device that is not there, and the
    server closes (`Doomed`).
  - `B1553Rt`: `B1553Typing`; `ReportRight` (`B1553Report`), whatever messages and mode codes come.  `Counted` is the
    invariant: supported codes have a place each among the counts (`PlacesDiffer`), 0 and 8 share one but 0 is not supported.
  - `AdcDemo`: `AdcTyping`; `ValuesKept` (`AdcKept`) and `FilterRight` (`AdcRight`): the weights add up to one and the input rises, so the
    sum is at most the newest value and at least its weight of it.  `AdcAtWork` says that while the task waits the converter works for its channel, or has a value newer than all
    that are kept, and that it is idle otherwise, so that each start takes.
  - `Ad7891`: `AdTyping`; `ValuesOfTheirChannels` (`AdRight`), for any number of channels.  In the single reads the channel
    commanded last is the one asked for last, unless that transfer failed; in the periodic ones register i gets the
    channel before its own (`ChanBefore`), or the registers could not be written and nothing comes.  That transfers run with the
    registers of the parameters is claimed while the core has refused nothing (`AdRunning`).
  - `SpwDemo`: `SpwTyping`; `GapsCounted` (`SpwErrors`), for any size of packets and values of a byte.  The packets under way are the
    last that were sent, and the byte the receiver expects is the first of the packet after the last that came; by
    `GapShows` that is another than the one that comes unless the bytes that are missing count round.
  - `SpwTest`: `SptTyping`; `NumbersInOrder` (`ReadInOrder`), for any size of packets, of reads and of the link.  What was read and what
    is under way are together what was written; a packet of which a rest is left counts as read (`PartlyRead`).
  - `Flash`: `FlashTyping`; `FlashIsRight`, that `FlashRight` holds for every number and size of
    sectors and every place of the device.  `FlInv` says of a call under way which bytes it has changed by
    where it is; that the loop ends with the sector of the range's last address needs
    `EraseRange`: the sectors counted (`SectCnt`) are those from the start to that sector.  The lemmas before it do the
    arithmetic of multiples, of which the provers know little when the sector size is a variable.
  - `MpStartup`: `MpTyping`; `ResumedInTime`, that the resume never fails, for every sleep and any
    delay shorter than it.  `InStep` pairs the places the two nodes can be at: the semaphores carry the
    request there and back, and the time taskA has taken is the time node 0 has slept.
  - `CucTime`: `CucTyping`; `PacketsRight`, that packets are sent once, in order and, unless
    overtaken, whole, however many there are.  `Fresh` says that the link is behind the buffer as long as a packet is
    due, `Whole` what was copied and sent as long as none was overtaken.

  - All fifteen together: `SamplesTyping` (`SamplesTypeOK`) and `DemosAreRight` (`DemosRight`), about the specification the run
    checks.  By `StepOfEach` a step of the whole is for each sample one of its own steps or leaves its variables alone, so the invariants
    of the samples are together one of the whole (`SamplesInv`); the two properties are what each of them implies.

Left to TLC: everything under fairness (`RegenResumes`, `StartsUp`, `ShutsDown`, `Settles`,
`Answered`, `TaskAWoken`, `LinksUp`), which is out of the prover's reach, and the six runs that show a violation.

## Findings and observations

Four disagreements have a run that shows them (`PROJECT.json` "findings"):

1. `memscrubr_stop` against the end of a run: the service routine restarts the scrubber between
   the stop and `state = 0` (`memscrub_rtems.c:301`).
2. A shut-down with the task's trigger can wait at frame 2 for ever (`bc_list.c:1103`).
3. After one lost block and one lost request the terminal sends one old and one new block in every
   frame, and every check of the controller fails (`rtems-gr1553rtbm.c:734`).
4. A time packet prepared between the write and the end of `spwcuc_handling` is never sent, for its flag
   is cleared with that of the packet before it (`1553/time.c:290`).

Two more are stated in the modules, as the formulas the conditional properties are built from; as an INVARIANT in the
configuration of the run named, TLC finds each violated:

5. `memscrub_setup_ahberr` runs `checkstat` and `clearstat` with the interrupt enabled.  The service routine that
   comes in between counts and clears the same errors; the totals then exceed the errors there were
   (`memscrub.c:228`; `TotalsEncountered`, run `counters`).  It can as well have its sum of `ceack` overwritten by the
   task, and a total is taken back.  Hence `~preempted` in `NeverOvercount`, `ExactWhenClean` and `TotalsMonotone`.
6. `bc_list_process` gives `gr1553bc_slot_update` a variable that was never set, and what it holds may make a
   request without an answer read as answered: the bus runs without the plug-and-play information (`bc_list.c:893`;
   `PnpAvailable`, run `bc_startup`), or with terminals that are off (`bc_list.c:816`, `:828`).  Hence `~misread` in
   `PnpRead`, `RunBeforeData` and `StartsUp`.

Others were met while modelling.  They are kept here as observations, and the properties are
claimed where they do not apply:

- `memscrubr_start` racing the switch to regeneration leaves `state` at 2 with the core looping and
  its interrupts off, so that it never becomes 1 again (`memscrub_rtems.c:284`).  Hence
  `RegenInterrupts`, `SilentArmed` and `RegenResumes` until the user calls the driver.
- When an error and the end of a run are seen at once, the message for the end has the error bits
  too, and `memscrubr_get_message` takes it for an error (`memscrub_rtems.c:332`).
- In the silent mode the run count the service routine compares with the threshold may already be that of
  the next run (`memscrub_rtems.c:77`), so a run over the threshold is not regenerated.
- The first sync of frame 2 makes the terminals take over the time sent with the trigger before it,
  one second old; the comment at `bc_list.c:442-449` promises the next time.  Hence `NextTimeKnown`
  from the second sync on.
- The next time is set at the ninth call after a trigger (900 ms) and sent 912.5 ms after it: calls that
  slip by more than 12.5 ms in 900 send the old time (`bc_list.c:1072`).  Hence calls on time in `bc_run`.
- The comment at `bc_list.c:254-263` has the last frame go on with frame 1; the code links it to 2,
  which `NextTimeKnown` needs.  The comment at `bc_list.c:1088` has the jump in the first
  communication frame; it is in frame 9.
- `init_bm` does not set `log->time`: an entry from before the first time word within the first
  2^13 clocks gets no time word (`bm_logger.c:168`).  `DecodedRight` leaves entries out that are older
  than the first time word.
- The log client goes on at the word a piece ended in (`linux_client.c:107`), so a word whose bytes come
  in two pieces is put together wrongly: `FileRight` until a piece ends inside a word.
- In the same loop an end of the connection or an error is added to the length like a piece, and the
  client tries again for ever (`linux_client.c:105`).  `Answered` allows it, as the connection is over.
- Words are out of the log before the answer is written (`ethsrv.c:42`): an answer nobody gets takes them
  along.  A first read of a command that comes back short is acted on with old bytes
  (`ethsrv.c:142`); the comment at `ethsrv.c:160` says as much of the second read.
- A time packet that is prepared while the one before it is written may be sent half as one and half as the
  other, with a wrong checksum, and when the first is overtaken none carries INIT (`1553/time.c:285`).
  Hence the condition in `CucPackets`.
- `rtems-occan.c` and `rtems-canloopback.c` pass the buffer lengths to `occanlib_set_buf_length` as receive, transmit; it takes
  them the other way round.  `rtems-occan.c:263` prints "Error, aborting 3 EXT sending" and goes on sending.
- The transmit-only build of `rtems-canloopback.c` does not compile.  The comment at `rtems-grcan.c:108-121` describes
  identifiers of looped-back messages that the code does not handle.
- `rtems-b1553rt.c:410`: an index of -1 becomes 65535 in an unsigned short and the test for it never fires.
  After a read that failed the last message is handled once more (`rtems-b1553rt.c:371`).
- A reply the driver does not take is only printed (`rtems-brm.c:416`): the controller then fetches an earlier one and is
  not told.  `BrmEchoed` allows it where a reply was refused (`want`).
- The end mark of a BRM list is set with `|=` in an element of the stack that nobody has initialised
  (`b1553-demo.c`); the model takes a list to end there.
- `flashlib_erase` does not refuse a start below the device.  `flashlib_program` polls for ever on a byte
  whose bit 7 should become 1; `ProgramByte` then stays where it is, which `FlashRight` allows.
- For the OC-CAN core `calc_can_btrs.c` gives up (-2) when the exact divider is over the largest, though the largest would be
  within a tenth (10 kbit/s at 33 MHz).  Hence the last condition of `TimingBest`.  For the GRCAN core the search reaches beyond its
  first 256 dividers and does not give up so.
- `spi-ad78xx.c` compares the channel with `>`: channel 8 is taken, and read as 0.  After a transfer that failed the next
  value is printed under a wrong channel, for the demo counts on and the chip does not.  `PERIOD_START` with
  `enable` 0 starts nothing and marks the driver started.  A stop the core refuses is taken for done (`:400`), and transfers
  start with the old registers when the new ones could not be written (`:149`).  Hence `~ad_refused` in `AdRight`.
- `gpio-demo.c:176`, `:220`, `:263` and `:306` return with the interrupt of `portA` enabled when `portB` cannot be driven, and the
  semaphore is deleted next: hence the exception in `GpioQuiet`.
- `gpio-demo.c` returns with the interrupt enabled when one came too early (-67): with a wire that is
  whole this does not happen, as `GpioQuiet` shows.  When `portA` cannot be opened it closes the `portB` of an earlier call.
- `Block()` of `grspw-demo.c` clears `blocked`.  A loss of packets that brings the byte round to the same value is
  not noticed; `SpwErrors` counts the gaps that are.
- `rtems-spwtest-2boards.c` reads 13 of 14 bytes; a driver that keeps the rest gives it to the next read (`spt_keeps`).

## Not modelled

`PROJECT.json` "components" has the reason for each part.  In the modelled files: registration,
removal and the resource scan of the scrubber driver, `memscrub_disable` and address ranges; the slot
allocation of `init_bc_list` beyond the slots named, print-outs, the start-up of the GRCTM device; the terminal's event
log; a service routine later than its window; in `MpStartup` kernel calls that fail with valid names, in `SpwTest` the late
`exit(0)` of a program (`LinksUp` allows that one stops), in `Flash` the data beyond one byte repeated, in `B1553Rt` what becomes
of a report after `write()`; in the samples, print-outs, statistics, opening of devices and the
byte layouts of messages.  Of the rest, ttcp is a third-party benchmark; the driver manager files are
tables; the PWM, I2C, SPI and SD card samples are sequences of calls whose effect is outside the program; the
RASTA frame starts the demos and draws the screen; the one-feature samples print or configure.
