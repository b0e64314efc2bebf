# Verification of PRUSS-Bindings

TLA+ models of the PRUSS-Bindings system, TLC configurations that check them on
small instances, and TLAPS proofs of what matters most for every instance.
Paths are relative to the repository (`src/`).

## 1. The system

A BeagleBone program controls the two PRU cores and exchanges messages with
them:

    program --> bindings --socket--> prussd --sysfs/debugfs--> remoteproc --> PRU0, PRU1
                                       |                                        |
                                       +--/dev/pruss_api_pruN--> pruss_api.ko --+-- rpmsg (vrings, events)

| component | state it keeps | operations | what is hard | what makes it correct |
|---|---|---|---|---|
| `drivers/pruss_api.c`, receive path | `locked`, the byte fifo `msg_fifo`, the length table `msg_len` with `msg_idx_rd`/`msg_idx_wr`, `wait_list` | `open`, `release`, `read`, `poll`, the rpmsg callback `pruss_api_cb` | callback and reader share everything without a lock; two structures (bytes, lengths) must stay in step; sleeping and waking | one opener; lengths frame the bytes; whole messages in order; no lost wake-up |
| `drivers/pruss_api.c`, bus side | the class, the minors, a `cdev` and a node per channel, one static write buffer | module init and exit, `probe`, `remove`, `open`, `release`, `write` | publishing before initialising, failing half-way, freeing under a user, two devices in one buffer | nodes lead to their own PRU; nothing left behind (that no part is used that is not there does not hold) |
| RPMsg library `examples/lib/src/` | `vring`s in shared memory, `last_avail_idx` | `pru_virtqueue_*`, `pru_rpmsg_*` | lock-free sharing with the ARM; 16-bit indices; suppressed interrupts | every buffer has one owner; nothing lost; nobody sleeps for ever |
| echo firmware, example 2 | where `main()` is, the event register | poll, clear, receive, answer | a kick racing with the clear | every message is received; answers dropped only when there is no room |
| `cpp-bindings/`, `c-bindings/` | `on`, and `state` of each handle | `bootUp`, `shutDown`, `restart`, `enable`, `disable`, `reset`, `pause`, `resume`, `load`, constructor, destructor | a cache of the core's state: sequences of calls, copies, kills, ignored results | handle and core agree where it matters; shutdown shuts down |
| `prussd/prussd.py` control | none (remoteproc's) | one handler thread per command | a client that dies; `modprobe`'s status is ignored | as above |
| `prussd/prussd.py` messages | the open device file and its read-ahead | `GETMSG`, `SENDMSG`, `EVENTWAIT` | threads meet at a device with one opener, which comes and goes under them; `select` against buffered `readline` | answers; no line lost; events true |
| `node-bindings/` | `_on`, `_state` of each PRU, open connections | the control calls; each opens connections and leaves the rest to the handlers of the replies | commands and replies in any order; overlapping calls; a process that dies | a PRU's cached state is right when no call about it is under way |
| `python/` | `state` of each PRU, never tested | the control calls, straight to sysfs | nothing: one write after another | (not modelled) |
| stepper, example 7 | the call in progress, three numbers in shared RAM, event 16 | `activateMotor`, `sleep`, `wake`, exit, with firmware on both PRUs | PRU0 started before PRU1 has stored the numbers; failed sends; kills | the motor makes exactly the steps asked for; every move ends |
| PWM and waveform firmware, examples 3, 4, 5, 9 | counts or samples in shared RAM | the program sends them one by one, PRU1 stores them, PRU0 plays them | three programs must agree on the offsets; the RAM keeps what an earlier program left | the pins show what was asked for, in order, for ever |

The interactions: bindings and daemon exchange one command and one reply per
socket connection; the daemon drives remoteproc through files, and the device
through `open`/`select`/`read`/`write`; the driver is called back by
`virtio_rpmsg_bus`; PRU and ARM share the vrings and two system events.
`PROJECT.json` lists the parts without behaviour of their own (build files,
SWIG, vendored headers, straight-line examples) and every hazard with the
property that covers it, or why none does yet.

## 2. Modules

| module | what it is | code |
|---|---|---|
| `MessageFifo` | abstract specification: a bounded queue of whole messages, `Put` and `Get` | what a device, and each direction of RPMsg, promises |
| `PrussApiDev` | the receive path of the driver | `drivers/pruss_api.c` 57-219 |
| `MCPrussApiDev` | message lengths for TLC | |
| `PrussApiBus`, `MCPrussApiBus` | the bus side of the driver | `drivers/pruss_api.c` 57-105, 135-162, 222-361 |
| `PrussApiBusProofs` | proofs about `PrussApiBus` | |
| `ModLemmas` | remainders: facts the proofs about indices share | |
| `PrussApiDevProofs` | proofs about `PrussApiDev` | |
| `PruVirtqueue` | one virtqueue as a record, and the operations on it | `examples/lib/src/pru_virtqueue.c`, `examples/include/pru_virtio_ring.h` |
| `PruRpmsg` | two virtqueues, the library, the echo loop, Linux | `examples/lib/src/pru_rpmsg.c`, example 2 `PRU1/main.c` |
| `PruRpmsgProofs` | proofs about `PruRpmsg` and `PruVirtqueue` | |
| `Remoteproc` | the daemon's control commands and the cores behind them | `prussd/prussd.py`; remoteproc (external) |
| `PrussControl` | clients and handles over `Remoteproc` | `cpp-bindings/pruss.cpp`, `c-bindings/pruss.c` |
| `PrussControlProofs` | proofs about `PrussControl` and `Remoteproc` | |
| `NodeControl` | the asynchronous bindings over `Remoteproc` | `node-bindings/pruss.js`, `pru.js`, `util/sock.js` |
| `NodeControlProofs` | proofs about `NodeControl` and `Remoteproc` | |
| `Prussd`, `MCPrussd` | the message commands of the daemon over a `MessageFifo` | `prussd/prussd.py` 128-221 |
| `PrussdProofs` | proofs about `Prussd` | |
| `StepperControl`, `MCStepperControl` | the stepper driver: program, PRU1, PRU0 | example 7: `driver_lib.cpp`, `PRU1/main.c`, `PRU0/main_pru0.c`, `PRU0/pulse-supply.asm` |
| `StepperControlProofs` | proofs about `StepperControl` | |
| `PwmFirmware`, `MCPwmFirmware` | the pulse examples: program, PRU1, PRU0 | examples 3, 4, 5, 9: `userspace.cpp`, `PRU1/main.c`, `PRU0/*.asm` |

They are layers of one system: `PrussApiDev` is shown to implement
`MessageFifo`, and `Prussd` is written over `MessageFifo` (its device is the
module's `Put` and `Get`). Both directions of `PruRpmsg` are shown to implement
it as well. `PrussControl` and `NodeControl` extend the same `Remoteproc`.

**`PrussApiDev`.** The variables are the fields of `struct pruss_api_dev`, a
program counter for the callback (`cb`) and for each process (`call`), and two
histories. Bytes are positions in the stream the PRU sends, so that a message is
a stretch `[at, len]`, and "whole and in order" is an equation between
stretches. `read()` is split at each access to shared state: the test of the
fifo, going to sleep, loading `msg_len[msg_idx_rd]`, the copy, the index;
`pruss_api_cb` into the two tests, `kfifo_in`, the length, the index, the
wake-up. `Preempt` says whether a reader may run between `kfifo_in` and the
index update. On the single-core AM335x it can do so when the rpmsg interrupt's
handler thread is preempted; without that the callback runs in one piece.
`CanFault` lets `kfifo_to_user` stop part-way (`-EFAULT`). The 32-bit counters of
the kfifo are subtracted only, and modelled without wrap-around.

**`PrussApiBus`.** `at[c]` is the next step of probe or remove on channel `c`; the
labels of probe and the body of remove undo the same three things in the same
order and are the same actions (`DestroyNode`, `DelCdev`, `FreeMinor`). Every step
of probe that can fail may fail. Channels are probed and removed at once, as each
PRU has a virtio device of its own; the module may be unloaded when no file is
open, and then removes what is bound. `idr_alloc` gives the lowest free minor, as
it does in Linux. A device can be opened as soon as its node leads somewhere, before
its probe is over, and it can be removed while a process has it open: the open file
pins the module, not the device. When remove is through, the bus waits for the
callback, destroys the endpoint and frees `prudev` (`FreeDev`); what `file[p]` then
leads to is `Freed`, a `release` of which may clear the lock of whichever device has
the memory by then. `write()` is the copy into the one `static` buffer (143) and the
send, between which another process may write.

**`PruVirtqueue`, `PruRpmsg`.** The PRU's calls are steps at the granularity at
which the ARM can look: take a buffer, advance `used->idx`, write the element,
kick. The first copies of data are part of the step that owns the buffer. Linux
(`rpmsg_probe`, `rpmsg_send`, `rpmsg_recv_done`, `vring_interrupt`) is external:
it is modelled from the protocol that the library and the driver rely on,
including the suppressed send interrupt that is enabled only when the sender
runs out of buffers. `TornUsed` says whether the ARM may look between
`used->idx++` and the element's store. The message count is bounded by
`MaxSends`, so a finished run stops: `CHECK_DEADLOCK FALSE`.

**`PrussControl`.** A call is the list of its steps (`reset` is disable, enable);
each step looks at the handle (`Sends` is the early returns), sends a command,
and records a reply of 0 (`Becomes`). The daemon's thread carries the command out
in between. `Accepts` is remoteproc: which file writes succeed for a core that is
off, running or halted. In particular `single_step` can be written for a core
that is off. `mod_probe` answers 0 whatever the exit status of `modprobe`, so a `PROBE` or
`UNPROBE` answered with 0 may have changed nothing; it answers an error when `modprobe`
cannot be run at all (`OSError`). `modprobe -r` does not remove the module while a core runs (as
`examples/firmware_examples/example4-analog-wave-gen` says, it has to be stopped
through sysfs first). A process may copy a handle, exit (destructor), or be
killed at any step; a command already sent stays with the daemon (`orphans`).
`strayed` remembers who has called through a copy.

**`NodeControl`.** A connection is a command on its way, with the handler of its
reply; it is served by a thread of the daemon, then its handler runs in one step
and may open further connections (`reset`, `load`, the two `DISABLE`s of
`bootUp`). `shutDown` opens three at once. A process dies at any time; of the
commands it had sent some have reached the daemon (`orphans`). `Overlap` says
whether two calls about the same PRU may be under way together, as two HTTP
requests to `server.js` can make them. `restart()` throws (it calls `shutDown`, not
`this.shutDown`), and the `'exit'` handler opens sockets that the exiting process
never serves: neither changes anything.

**`Prussd`.** A thread per command; the stages are the arguments, the device
node, the open, then `select`/`readline`, the write or the wait. Python's text
file is its read-ahead `chunk`: `readline()` returns a line from it and reads the
device, blocking, when it holds none; `select` looks at the device only; closing
the file drops the chunk. The contents of a message are its lines and whether a
newline ends each. The device comes and goes with the firmware (`probed`, `removed`),
also between a thread's look at the node and its `open()`, and while a thread has it
open. In the first case a read fails (`open_missing`), and `send_msg`, whose modes `w` and
`wb` create what is missing, makes a regular file in the node's place (`open_creates`),
which stays and which every later command meets (`file_ends`; `file_loops`, since a regular
file is always readable and `readline()` gives `''` at its end). In the second the thread is
left with a file of freed memory (`gone`): it answers anything it might, or never. What it
does to that memory, which the next device may have by then, is not followed here. The
histories begin again with each device.

**`StepperControl`.** As in the control model a call is the list of its steps
(`Move` is `activateMotor`, in the order of its lines), here with commands that
do what they are told: the control model is about the others. `inbox`
and `outbox` are the two directions of the RPMsg channel, FIFO queues as
`PruRpmsg` shows; they die with PRU1. PRU1 stores what it receives at `sram[i]`
and waits for event 16 after the third number. PRU0 clears the event, loads the
three registers and counts samples and pulses; registers wrap at `Word`. `made`
is the history of pulses as the motor sees them: how long high, how long low,
and the mode and direction pins at that time. A command is the three numbers
that `calculateCycles` would give, at least one pulse and a duty cycle below 1
(`StepperAssumption`). The program can be killed at any step, and started again.
A SENDMSG may fail; `failed` remembers that one has. `Prompt` says that PRU1,
which needs some cycles, is faster than a command to the daemon, which needs a
connection, a thread and a file. Outside the model: several threads in one
program, a control command that fails, and a command still with the daemon when
its program has been killed (the control model has both of the latter). The
event outlives both cores and the program: starting a PRU or loading the driver
does not clear it.

**`PwmFirmware`.** The same three programs, without a reply from PRU1. The user
program is the list of its steps (`Program`), among them its numbers in the order
sent (`Numbers`). PRU1 stores a number at its variable `i`. PRU0 is modelled a
pulse at a time: `width` is what its loops count to, `out` the last pulse of each
pin. Example 9 has a word and then bytes (`NextOffset`), strides over the channels
and starts a wave again at `TERM`, 150 (`fetch_waveform`); example 4 counts samples
(`fetch_analog`); examples 3 and 5 read their numbers once (`SetupWidth`). The
shared RAM outlives programs and cores. A send succeeds where the firmware has the
channel the program sends to (`HasChannel`): in examples 3, 4 and 9. Example 5's PRU1 announces
`rpmsg-pru` on port 31, which the driver does not bind, so none of its program's numbers
arrive. Other failures of a send are the subject of example 7.

## 3. Runs

| run | instance | shows |
|---|---|---|
| `driver_atomic` | 2 processes, 3 slots of 2 bytes, lengths 0-2, 4 messages, 4 reads | the framing invariant, its consequences and the refinement for the undisturbed callback |
| `driver_preempt` | the same with a reader anywhere and faults, 3 messages | no wake-up is lost; bounds, exclusive open and poll are proved for this case |
| `driver_race` | 1 process, no faults, no empty messages | **violated**: length table and fifo disagree |
| `bus_probe` | 3 channels, two of one port, 2 minors, a process that opens, uses and closes nodes at any moment, every step may fail | nodes lead to their own PRU, and nothing is left behind, whoever has a file open |
| `rpmsg_ring` | 2 buffers each way, indices modulo 4, 5 messages | ownership, both FIFO refinements, no lost kick, no sender asleep for ever |
| `control_calls` | 1 process (restarted and killed at will), own and copied handles | with a `modprobe` that may fail: handles that say STOPPED are right; shutdown and constructor stop the cores, for a process that keeps to its own handles, even after one that did not |
| `node_calls` | 2 calls under way, processes that die and start again | the cached state of a PRU no call is about is the core's; LOAD meets a core that is off; booting up stops both cores, unless the daemon answers PROBE with an error |
| `daemon_lines` | 2 threads, a device that comes and goes, with room for 2 messages and at most 3 in its life, of one line each | while the device is there no line is lost, every GETMSG is answered, events are reported and true |
| `stepper_moves` | registers of two bits, three moves that differ in numbers and pins, any shared RAM at first | the motor gets exactly the pulses asked for, `activateMotor` returns, no old event is taken for a new one, as long as no SENDMSG has failed |
| `stepper_done` | the same | **violated**: `activateMotor` returns before PRU0 is through |
| `pwm_samples` | examples 3, 4 and 9, 2 channels, two or three jobs each, waves of 1-3 samples, of different lengths | each pin shows the pulses asked for, in order; in examples 3 and 9 every one of them again and again |
| `pwm_wave` | example 4 with the same waves | **violated**: it goes back to the first sample before it has played the last |

Seven more configurations belong to no run above. Each checks one property that a
sentence of the repository states and the code breaks, and TLC finds it violated
(`tlc -config <cfg> <module>`); section "Further disagreements" says what happens.

| configuration | module | property |
|---|---|---|
| `PrussApiBus_early.cfg` | `MCPrussApiBus` | `ReadsFromFifo` |
| `PrussApiBus_remove.cfg` | `MCPrussApiBus` | `ReadKeepsItsFifo` |
| `PrussApiBus_write.cfg` | `MCPrussApiBus` | `WriteSendsItsMessage` |
| `PruRpmsg_torn.cfg` | `PruRpmsg` | `UsedHeadsAreUsed` |
| `Prussd_file.cfg` | `MCPrussd` | `SentOnChannel` |
| `PrussControl_on.cfg` | `PrussControl` | `OnMeansProbed` |
| `PwmFirmware_channel.cfg` | `MCPwmFirmware` | `MultichannelDuty` |

*The bounds.* Three slots are the least at which the length table can be empty,
partly full and full (two messages), and four messages take both indices round
it. Two-byte slots let a message be shorter than its slot, and two
processes are enough to contend for one device. Two buffers and indices modulo 4
make ring and index wrap at different times; five messages use both buffers more
than twice and wrap the index; runs with seven messages, and with four buffers and
indices modulo 8, gave the same results. The control model has no bound: one
process, but any number of calls and restarts. In the daemon two threads contend
for the device, and three messages fill its room of two; the number of commands, devices and
removals is not bounded. A regular file in the device's place is never removed. Three channels with two names and two
minors let a probe meet a taken name and an exhausted map, and a minor be reused
while its last owner's neighbour is half-way; one process is enough to have a file open
through a removal and a new probe (the proofs are for any number). Two calls of the Node.js bindings are enough
for both PRUs; each may hold three connections. Two waves of different length leave
the shared RAM with samples of the longer one behind the shorter, and two channels
are the least to be interleaved; a sample is counted to 3 instead of 1212 or 10000,
and a loop that misses its end would show as a width near `Word`. The stepper's runs bound
only the registers: two bits are enough for moves with different duty cycles and
numbers of pulses, and for counters that wrap when PRU0 reads a number that is
not meant for it; the number of moves, kills and restarts is not bounded.

*Fairness.* In the driver a system call or callback that has begun goes on (the
kernel schedules it); no process has to make a call, no signal or timeout has to
come. For RPMsg the PRU's loop runs, pending interrupts are served and a thread
inside `rpmsg_send` goes on; nobody has to send. In the daemon a handler thread
goes on (Python schedules its threads); the timeout of EVENTWAIT need not expire,
no client has to call and no message has to come, and a thread whose device was removed
under it need not return. In the stepper's model the cores
run, and the program goes on with a call it is in, served by the daemon. In `NodeControl`
the daemon serves every connection and every reply is handled. In `PwmFirmware` PRUs
that are enabled run. `PrussApiBus` and the control model claim no liveness.

*What the violated runs mean.* Each is a disagreement between the code and a
sentence of the repository, quoted in `PROJECT.json`. The passing runs of the same
modules name the condition under which the property does hold: `Preempt = FALSE`,
sends that do not fail. `WholeWave` has none: of a wave of n >= 2 samples example 4 plays
n-1, since R11 counts the sample that comes next and the loop goes on while R11 < R7
(`single-channel-waveform.asm` 22). `SamplesInOrder` therefore lets example 4, and only it,
go back to the first sample early, and `EverySamplePlayed` does not speak of it.

*What the passing runs assume.* Each of these is a constant (or a set of inputs)
of the module; with the other value TLC finds the property violated, and the code
does nothing to prevent it.

| assumed | because | otherwise |
|---|---|---|
| `TornUsed = FALSE` (`PruRpmsg`) | `used->idx++` comes before the element's stores (`pru_virtqueue.c` 123-125), without a barrier | `UsedHeadsAreUsed`: the ARM takes a buffer that is not used (`PruRpmsg_torn.cfg`) |
| no calls through copies (`strayed`, `PrussControl`) | `p.pru1` is a public value, and copying it is the documented use | `ShutDownStops`: `shutDown()` returns 0 with a core running and the module loaded, as `modprobe`'s status is ignored |
| `StateIsCurrent` is not claimed (`PrussControl`) | C++ and C let `pause()` of a stopped PRU through; Node.js does not | `getState()` says HALTED for a core that is off |
| `LateThreads = FALSE` (`PrussControl`, `NodeControl`) | a thread of the daemon may hold a dead client's command | a late command changes a core under the new process |
| `Overlap = FALSE` (`NodeControl`) | two calls pass the guard on the same cached state | `LoadsIntoStoppedCore`: LOAD after an `enable` that overtook it |
| messages of one line with a newline (`MCPrussd`) | `select` looks at the device, `readline()` at its buffer first | `GetMsgReturns`: GETMSG blocks; `NothingLost`: a second line is lost |
| `Prompt = TRUE` (`StepperControl`, `PwmFirmware`) | nothing waits for PRU1 to have stored the numbers (`driver_lib.cpp` 158 says it has) | `StepsAsAsked`, `SamplesInOrder`: PRU0 plays numbers of an earlier program; `p1.disable()` after the last send loses numbers |

*Further disagreements.* The seven configurations above:

- *A node before its fifo* (`ReadsFromFifo`). `probe` makes the node (`pruss_api.c` 253)
  before the fifo (263) and the wait queue (270), and `send_msg`, `get_msg` and `event_wait` open the
  node as soon as it exists. A read then tests a fifo of zeroes and goes to sleep on a
  wait queue that is not initialised. "pruss_api_read is called whenever we read from the
  character device file" and "pulls messages from the kernel fifo" (107, 109).
- *A fifo freed under a reader* (`ReadKeepsItsFifo`). `remove` frees the fifo (297), and the
  bus then `prudev`, without waking or waiting for who has the file open: a DISABLE during
  an EVENTWAIT or a read.
- *One buffer for all writers* (`WriteSendsItsMessage`). `rpmsg_send` may sleep for a transmit
  buffer before it copies the message out of the static buffer (143); a `write()` to the other PRU's
  device replaces it meanwhile, and the message "passed to the PRU core" (137) is the other
  one's. The daemon serves each connection in a thread of its own, so two clients suffice.
- *A used element published before it is written* (`UsedHeadsAreUsed`). `used->ring[used->idx++]` (`pru_virtqueue.c`
  123) comes before the stores (124-125). An ARM that looks in between takes the head
  left there one lap ago. "If the index is valid, then the buffer is added to the used
  list" (`pru_virtqueue.h` 174).
- *A message sent to a file* (`SentOnChannel`). See `Prussd` in section 2: `prussd.py` 176 looks,
  184 and 191 open and create. SENDMSG answers 0, documented as "the message is written to
  the RPMsg channel successfully" (`pruss.cpp` 407). Afterwards no message reaches the PRU,
  EVENTWAIT answers 0 at once, and GETMSG loops in its handler thread for ever.
- *On without a driver* (`OnMeansProbed`). `prussd.py` 102-105 ignores `modprobe`'s exit status; `isOn()` is
  documented as "true if the pru_rproc driver has been probed" (`pruss.cpp` 128). What does hold
  when `modprobe` fails is `ConstructorStops` and `OwnShutDownStops`: the cores are off.
- *Example 5 receives nothing* (`MultichannelDuty`). See `PwmFirmware` in section 2: `PRU1/main.c` 67 and 70 against
  `pruss_api.c` 307 and `pruss.cpp` 361-362. Each SENDMSG answers `-ENODEV` after three seconds, nobody
  looks, and PRU0 plays what the shared RAM holds. Besides, its assembly loads the on counts from
  offsets 0-3 and the off counts from 4-7, while the program sends on and off of each
  channel in turn and the comments (`pru-asm-pwm.asm` 47, 60) expect them so.

Met on the way, and in no configuration: example 9 plays the first sample twice in
every period but the first (the offset stays on it after `TERM`), while its README speaks of the
waveform given. Example 3 accepts the duty cycle 0, and its loop then runs 2^32 turns.
The Node.js `shutDown` sends its `UNPROBE` with the `DISABLE`s: when it is served
first `modprobe -r` fails, 0 is answered all the same, `_on` is false, the module stays,
and the state is NONE or STOPPED depending on which reply comes last.
The guard of `load` (`node-bindings/pru.js` 83) reads `this.state`, which does not exist, so after a
`bootUp` that failed LOAD goes out to a core that may be running: `LoadsIntoStoppedCore` is about PRUs that
have been booted. `pru.js` 111 sends SENDMSG without the mode that `prussd.py` 158 expects
first, and `server.js` 76 calls the getter `isOn`.

*Type invariants.* `TypeOK` is checked and proved for the driver (both sides), the ring and
the control model. It is proved for the stepper and the daemon as well, and part of the
invariant proved for the Node.js bindings. In the other modules it documents the shape of the state.

## 4. Proofs

**The receive path** (`PrussApiDevProofs`), for every set of processes, table size, slot size, set of
message lengths and bound, from `DevAssumption` alone (sizes are naturals, the
table has a slot, no message is longer than a slot).

| theorem | states | needs |
|---|---|---|
| `TypeCorrect` | `TypeOK`: indices stay in the table, the fifo within its allocation | nothing |
| `Exclusive` | `ExclusiveOpen` | nothing |
| `PollTruth` | `ReadableDoesNotBlock` | nothing |
| `Framing` | `FrameInv` | `NoRace` |
| `TableCorrect` | `LengthTableMatchesFifo` | `NoRace` |
| `UnseenEmpty` | `UnseenAreEmpty` | `NoRace` |
| `NothingCut` | `StoredWhole` | `NoRace` |
| `Refinement` | `Spec => FifoSpec` | `NoRace` |

`NoRace` is `~Preempt /\ ~CanFault`; run `driver_race` shows that the first half
cannot be dropped. The arguments:

- *Exclusion.* `ExclusiveOpen` alone is not inductive: `release` clears `locked`,
  so the invariant `OpenInv` adds that `locked` is set exactly when somebody is
  inside. `PollInv` adds to the truth of POLLIN that the process is not in a call;
  only its own read could empty the fifo, by exclusion.
- *Framing.* Indices modulo the table size do not determine how many messages
  wait, so `FrameInv` counts instead: `Written` and `Read` are the numbers of
  messages whose index has been advanced, and `msg_idx_wr`, `msg_idx_rd` are
  these counts modulo the table size (`IndexInv`). The counts differ by less than
  the table size, so that the slots between them are distinct (`ModDistinct`),
  and the table holds the length of the k-th message at slot k modulo the size
  (`TableInv`). The accepted stretches are adjacent, end at `in`, and `out` is
  where the next unread one begins (`StreamInv`). A reader that has loaded a
  length has loaded that of the next message (`CallInv`). The copy then takes
  out exactly that stretch (`CopyTakesHead`), which is the heart of `Refinement`.
- *Nothing cut.* `SizeInv` bounds the bytes from each message to the end of the
  stream by its distance times the slot size; with at most `MAX_FIFO_MSG - 1`
  messages waiting there is always room for one more. So the test of
  `kfifo_avail` never rejects.

**The bus side** (`PrussApiBusProofs`), for any channels, ports, processes and
number of minors, from `BusAssumption`.

| theorem | states | needs |
|---|---|---|
| `TypeCorrect` | `TypeOK` | nothing |
| `NodesLead` | `NodeIsOurs` | nothing |
| `NothingLeft` | `Unwound` | nothing |

`NodeIsOurs` and `Unwound` follow from `BusInv` (theorem `Books`): a channel that is
not unbound owns its minor and no two own the same (`MinorInv`); the cdev of a minor
is its owner's, from `cdev_add` to `cdev_del` (`CdevInv`); a node was made by the
channel it is named after and goes before that channel's cdev (`NodeInv`), so that no
other owner of the minor can meet it; without the driver nothing is bound
(`ModuleInv`). Nothing is assumed of the users: files may be opened early and stay open when
their device is freed, and the books are right all the same.

**RPMsg** (`PruRpmsgProofs`), for rings of any size, counters of any width that is a
multiple of it, and any number of messages (`VirtqueueAssumption`, `RpmsgAssumption`).

| theorem | states | needs |
|---|---|---|
| `TypeCorrect` | `TypeOK` | nothing |
| `RingsInOrder` | `RpmsgInv`, below | `~TornUsed` |
| `DescriptorsOwnedOnce` | `OneOwner` | `~TornUsed` |
| `DropsOnlyWhenFull` | `DroppedOnlyWhenFull` | `~TornUsed` |
| `InboundRefinement` | `Spec => InboundSpec` (`MessageFifo`) | `~TornUsed` |
| `OutboundRefinement` | `Spec => OutboundSpec` (`MessageFifo`) | `~TornUsed` |

None of the properties is inductive: they look at the free-running indices, which say
nothing about how far the sides are apart. `RpmsgInv` counts instead, per queue, the
buffers the ARM has offered, the PRU has taken, published (`used->idx`) and filled in,
and the ARM has collected. The counts are in this order and at most `NUM` apart
(`Counts`), and every index is one of them modulo `IDX_MOD`. Each side hands buffers on
in the order in which it got them, so the x-th buffer of a queue is always descriptor
`x % NUM`, and the stretch of either ring that is in use says so (`Ring`). Of two numbers
less than `NUM` apart the remainders modulo `NUM` differ (`ModDistinct`), which gives one
owner; and the difference of two indices is the difference of the counts
(`ModDifference`), which gives the tests of the code for an empty or exhausted ring
their meaning. `BufferInv` says which message is in which buffer, and with it each
step that takes or collects one takes the head of the abstract queue. `~TornUsed` is the
assumption that the ARM does not look between the two stores of
`pru_virtqueue_add_used_buf`; the code has no barrier there, and with `TornUsed` TLC finds
`UsedHeadsAreUsed` violated (`PruRpmsg_torn.cfg`). That property is checked in `rpmsg_ring` and not
claimed as a theorem, since the assumption is what it is about.

**Control** (`PrussControlProofs`).

| theorem | states | needs |
|---|---|---|
| `TypeCorrect` | `TypeOK` | nothing: any clients, kinds of handles, late threads |
| `StoppedHandlesTellTheTruth` | `StoppedMeansOff` | `Alone(c)` |
| `ShutDownStopsTheCores` | `OwnShutDownStops` | `Alone(c)` |
| `ConstructorStopsTheCores` | `ConstructorStops` | `Alone(c)` |

`Alone(c)` is one client, `c`, and no command of a dead process carried out after the
next has started. The number of its calls, kills and restarts has no bound, and it may
make copies: what is claimed after one is about the next process. The invariant
`SoloInv` follows a command: once it has been served, a `DISABLE`'s core is off whatever the
answer (`ServedInv`). Nothing is claimed of `PROBE_RPROC` and `UNPROBE_RPROC`, which may be
answered with 0 and have done nothing. Until the process calls
through a copy, a core whose handle says STOPPED is off, except while the answer to an
`ENABLE` is on its way (`IsOn`), and a PRUSS that is off has neither handles nor running
cores, whether or not the module is there (`IsOff`). The calls are lists of steps, so the invariant also
says which lists there are: calls of a PRU, and what is left of the constructor and of `shutDown`, in which
a core whose `DISABLE` is over is off (`Starting`, `Stopping`). So the constructor and `shutDown` stop the cores on every
path; that the driver is loaded after the one and gone after the other is not proved, because it is not so.

**Node.js** (`NodeControlProofs`).

| theorem | states | needs |
|---|---|---|
| `CachedStateIsCurrent` | `StateAgrees` | `~Overlap /\ ~LateThreads` |
| `FirmwareMeetsStoppedCore` | `LoadsIntoStoppedCore` | `~Overlap /\ ~LateThreads` |

For any number of calls under way. `StateAgrees` speaks of PRUs no call is about; the
invariant says for the others what is known of the core and of the reply, before the
command of each connection is carried out and after (`ConnOK`). A PRU has one
connection (`OneInv`); the commands of PRUSS are alone, except that the `DISABLE`s of
`shutDown` go out with its `UNPROBE`, in any order (`PrussInv`). A `bootUp` that fails leaves
the states at NONE, of which nothing is claimed.

**The daemon's message commands** (`PrussdProofs`), for any number of threads and
messages and a device of any capacity (`PrussdAssumption`).

| theorem | states | needs |
|---|---|---|
| `TypeCorrect` | `TypeOK`, and one thread at most past the open (`HoldInv`) | nothing |
| `LinesReachClients` | `NothingLost` | `OneLine` |
| `EventsAreTrue` | `EventIsTrue` | nothing |

A removal forgets the old device's histories together with what the holder has of it, so
that the equation of `NothingLost` holds of the next device from its first message.
`OneLine` is that a message is one line, with or without its newline; the run has
those with one, which `GetMsgReturns` needs. Then whatever is read ahead ends with the
first newline, and no line is in the chunk when the file is closed (`LineInv`).
`NothingLost` speaks of all messages ever read, joined by `FlattenSeq`; what that does
to one more message (`FlattenAppend`) is proved by taking the least counterexample, of
which there is one because `<` is well-founded on the naturals (`NatMin`, from the
library's `WFMin`). That is a way to induction which the provers can follow: the
library's induction theorems, which take the induction hypothesis as an operator,
are beyond them.

**Stepper** (`StepperControlProofs`), for registers of any width and any set of moves
that `StepperAssumption` admits.

| theorem | states | needs |
|---|---|---|
| `TypeCorrect` | `TypeOK`: PRU1 gets no fourth number, no second "done" waits | nothing, failed sends included |
| `EventFresh` | `EventIsFresh` | `Prompt` |
| `PulsesAsAsked` | `StepsAsAsked` | `Prompt` |
| `MovesAreExact` | `MoveIsExact` | `Prompt` |

`Prompt` is a condition on scheduling, and the three properties speak of runs in which
no SENDMSG has failed; both are needed (section 3). The invariant goes by where the
program is: some step k of one of its five calls (`PlaceInv`), which determines what has
been sent (`CountInv` counts numbers stored and under way) and whether PRU0 may run at
all: only while the program polls, when it has been killed, or before the constructor's
first step. A PRU0 that runs finds the three numbers of the last move in the shared RAM
and, once it has loaded them, has made as many pulses as its counter says (`PulseInv`).

Model-checked only: every liveness property, and `SamplesInOrder` of the pulse
examples. Liveness under fairness and ENABLED are outside what the proof system handles here, and so are
RECURSIVE operators; none is used in the proved modules.

## 5. What is not modelled, and the plan

Left in the plan:

1. The daemon dying or refusing connections: `stoi("")` throws in C++, `atoi("")` is 0,
   success, in C.
2. The arithmetic of `calculateCycles` (example 7), where small angles give no pulse.
3. Proofs: `SamplesInOrder` of the pulse examples, along the lines of the stepper.

Not modelled, and why:

- the Python bindings: each call is one or two writes to sysfs in the caller's thread,
  and the `state` they keep is never tested;
- reading and writing PRU memory (one byte, no state) and the daemon's configuration;
- the archived and minimal firmware (a pin toggled, or the echo loop again), the
  straight-line user programs, Linux's `rpmsg_client_sample.c`, the unused variants of
  the assembly files;
- time (timeouts are steps that may happen; seconds and milliseconds are not told
  apart), addresses and headers of messages, Linux beyond what the code uses;
- `examples/include/`: vendored register definitions of six chips and resource tables,
  by far the largest part of the repository's lines. They declare layouts and have no
  behaviour, so most of the repository by line count has nothing to model.
