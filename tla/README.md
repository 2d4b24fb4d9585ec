# A verification of the CSRO airsys gateway

The firmware in `src/` runs on an ESP32 between three RS-485 lines and a WiFi
network. It is Modbus master of an air conditioner (AC) and of an air purifier
(AP), Modbus slave of a touch panel (HMI), drives eleven relays, and publishes a
state document over MQTT. This directory holds TLA+ models of its core, TLC
configurations that check them on small instances, and proofs checked by TLAPS.

## Inventory

| component | source | state | operations | interacts with |
|---|---|---|---|---|
| AP registers and tasks | `mb_ap_task.c` | `airsys_regs` entries 101-135, coils 101-131, flags; `master_ap` semaphores and mutex | read task: three polls, pause; write task: wait, scan, transmit, lower flags | HMI slave (shared registers, `write_sem`), master |
| AC registers and tasks | `mb_ac_task.c` | entries 1-28, coils 1-40, flags; `master_ac` semaphores and mutex | read task: six polls; write task: power, mode, setpoint | as above |
| Modbus master and lines | `mb_master.c`, `csro_airsys.c:19-88` | request, `rx_buf`, `rx_len`, `reply_sem`, `status`, coils 41 and 42 | six transactions, `send_receive`, the two interrupt callbacks | AC, AP, both tasks of each |
| HMI slave | `mb_slave.c` | `slave_hmi` frame buffers; writes `airsys_regs` | two reads, four writes, error replies | both write tasks (`write_sem`) |
| HMI receive path | `mb_hmi_task.c`, interrupt | `rx_buf`, `rx_len`, `command_sem` | append, signal, handle, empty | HMI slave |
| Relay and LED task | `csro_airsys.c:90-123` | output levels | copy coils 201-212 to the pins, blink | HMI slave |
| CRC | `mb_crc.c` | none | `crc16` | master, slave |
| Provisioning and boot | `csro_main.c`, `csro_smart_config.c`, `csro_common.c` | NVS keys, `sysinfo` | count power-ups, choose the mode, store credentials, restart | connectivity |
| Connectivity | `csro_mqtt.c:32-121` | `mqtt_task_handle`, `mqtt_client` | WiFi and MQTT events, start and delete the MQTT task | MQTT payloads |
| Clock | `csro_mqtt.c:7-30` | `time_now`, `time_start`, `time_sync` | tick, synchronise | MQTT payloads |
| MQTT payloads | `csro_airsys.c:182-248` | `mqttinfo.pub_topic`, `mqttinfo.content` | compose and publish constant documents | connectivity, clock |

There are no unit tests in the repository. What it says of itself is in the
address tables of `mb_address.h` and in the comments of the polls.

### What is hard here

* Six tasks on two cores and an interrupt share `airsys_regs` and the master
  structures. The only locks are one `uart_mutex` per line, which the HMI task
  does not take. A command is a store and a flag, a poll tests the flag and
  stores, a write task reads, transmits for up to 500 ms and lowers the flag.
* Every wait on a line can time out and every late reply arrives in a later
  transaction. `reply_sem` is never emptied, the receive buffer is appended to
  while it is decoded, a write's result is not looked at.
* The semaphores are binary: gives are merged.
* The setpoint of the AC has no register of its own: the mode decides, read
  without a lock by both tasks.
* Some seventy address constants have to agree pairwise, and 512 constants of the
  CRC tables with a polynomial.
* The panel reads tables that polls are storing into, a register byte by byte.
* MQTT clients survive the task that made them and share two buffers.
* Interrupts are enabled before what they use exists, and power may fail between
  any two stores to the flash.

### What makes each component correct

* AP and AC: one transaction at a time per line; a command on its way is not
  reverted by a poll and not forgotten; flags are lowered in the end; the mirror
  converges to the unit; a setpoint reaches the register of the commanded mode.
* Register map: poll and write of a setting agree on its register; no two polls
  share an entry; only the HMI reaches the relays.
* Master: what is decoded is what was validated and answers this poll; no block
  goes back to older contents; a dead unit is reported offline; the buffer is
  bounded.
* HMI slave and receive path: a good command is executed once and answered, a
  bad one changes nothing; what a read returns decodes to what the table holds.
* CRC: it is the one of Modbus, so that the units agree, and damage shows.
* Provisioning and boot: no restart at any point leads to station mode without
  working credentials; the gateway gets there in the end; a byte received while
  the lines are initialised goes to no other line.
* Connectivity: an address is followed by one MQTT client and no more, also after
  a loss; what is published is under its own topic.
* Clock: the published running time is right however late the time is set.

Every hazard of the code, with its line and the properties that cover it, is in
`PROJECT.json` under "hazards". Those that bite, the windows in which a command is lost or
a second client made, are listed there without a property and with a note that
says which history variable or premise sets them apart.

## Modules

| module | models | actions |
|---|---|---|
| `ApTask` | the settable AP registers and the HMI, AP write and AP read tasks | one per access to a shared register, flag, semaphore or mutex |
| `AcTask` | the AC's power, mode, setpoint, and the same three tasks for it | the same |
| `RegisterMap` | all addresses: where the contents of each entry come from | one per poll, scan of a write task, HMI command, relay turn; three for the poll of the AC's setpoints |
| `MasterLink` | one line: transactions, interrupt, buffer, semaphore, unit, losses | the stages of a transaction, the interrupt's callbacks, the unit, the line |
| `PolledMirror` | what polling promises (abstract); `MasterLink` implements it | change at the unit, refresh |
| `SlaveHmi` | the HMI line: interrupt, receive buffer, `command_sem`, the HMI task, panel and losses | the stages of `modbus_hmi_task`, the interrupt's callbacks, the panel, the line |
| `LinkTiming` | one line with its timeouts and pauses in ticks | the transactions of both tasks, the unit's prompt, late and lost answers, the passing of time |
| `SlaveReply` | the command handlers, with the bytes of their frames | one per access to the tables, the stores of the read tasks |
| `CrcRegister` | the check of Modbus as a division of polynomials (abstract); `Crc16` implements it | take in a byte |
| `Crc16` | `crc16` and its tables | one turn of the loop |
| `Connectivity` | WiFi events, MQTT task, clients and callbacks, broker | one per event, step of the task and step of a callback that touches a shared buffer or publishes |
| `Clock` | `timer_task` and SNTP | the stages of a turn |
| `Boot` | `app_main`, smart config, the flash, the initialisation of the lines; composed with `Clock` | one per store, read and step of initialisation, event, callback, early byte, power loss |
| `MC*` | constants for TLC | |
| `ApTaskProofs`, `AcTaskProofs`, `RegisterMapProofs`, `MasterLinkProofs`, `SlaveHmiProofs`, `SlaveReplyProofs`, `ConnectivityProofs`, `BootProofs` | the theorems about the module of that name, with their lemmas; `ApTaskProofs` also those about `LinkTiming`, `MasterLinkProofs` those about `Crc16`, `BootProofs` those about `Clock` | |

How they fit: `ApTask` and `AcTask` abstract a transaction to its outcome: a
poll returns contents the unit had at some time since those of the last
successful poll, a write may or may not reach the unit. `MasterLink` shows this
abstraction right, as the refinement of `PolledMirror`: contents of this poll's
block, of one moment, and never older than those held. In its turn it takes the
transactions of a line as one sequence, which is `ApTask!MutexOwner`.
`RegisterMap` takes a whole poll as one action, but for the poll of the AC's setpoints
(`mb_ac_task.c:79-89`), whose stores, test of the flag and mode, and copy into entry 28
are three, and shows that the registers the
task models leave out cannot interfere with those they keep. A command to entry 26 or 27 between
its stores and its copy does reach entry 28, without a flag: `crossed` records it, and
`CommandComesBack` says that this is the only way a command shows in another entry,
apart from the setpoint coming back in the entry of its mode. `SlaveHmi` shows which
frames of the panel become commands, and that each does so once and in order;
what a command does to the tables is in `SlaveReply`, and what becomes of its
flags the `HmiTask` of `ApTask` and `AcTask`. `LinkTiming` puts time to the
untimed `MasterLink`. `Boot` ends where the tasks of the others are created and,
for a provisioned gateway, where `Connectivity` begins; it extends `Clock`, whose task
it starts and whose time its restarts keep or lose.

Correspondence of state, `ApTask`: `holdings[r]` and `flags[r]` are entry and
flag `120 + r`; `hmiPc`, `wrPc`, `rdPc` the places in the three loops;
`hmiAt`, `wrAt`, `rdAt` their indices; `wrVal` the argument of the transmitting
call; `wordResult` the local array; `snapshots` the unit: its last element is
the registers now, the ones before are what a reply still under way may carry.
`commanded`, `sent` and `overlapped` are history variables, read by no guard.
`overlapped[r]` becomes TRUE when the last command for r meets one of the three
windows the code leaves open:

1. it is stored after the read task found the flag down and before it stores the
   polled value (`mb_ap_task.c:43-45`);
2. the read task looks at the flag between the HMI's store and its raising of
   the flag (`mb_slave.c:127-133`);
3. the flag is raised while the write task transmits an older value, and lowered
   with it (`mb_ap_task.c:68-69`).

Outside these the properties hold without exception; inside them a command is
lost or reverted, which the model reproduces. The same goes for `AcTask`, whose
`dropped` marks a setpoint given up for want of a mode and `modeMoved` a mode
commanded while the write task is past it. Each of these exemptions is
necessary: without `~overlapped`, without the `dropped` exemption, without
`~modeMoved` or on an unreliable line, TLC finds a violation of the property.
Whether the line of `AcTask` loses frames is chosen at the start from the constant
`Lines`, in the history variable `reliable`; only `SetpointFollowsMode` asks for a line that does not.

`MasterLink`: a frame is two pieces, so that a buffer can hold a part of one,
several, or the tail of an earlier one; `Garbage` is any frame that fails
validation. CRC, slave id and function code are abstracted to "whole, good and
of this function code", the byte count is kept.
`AcPolls` and `ApPolls` are the polls of the code; that their replies can be
told apart by function code and byte count (`DistinctReplies`) is an assumption
of the module and evaluated by TLC for both tables. `rx_len = 0`
(`csro_airsys.c:58, 75`) is not synchronised with the interrupt's `rx_len++` (lines 23
and 27) and can be overwritten by it: in `BeginUndone` a transaction begins with what the
last ones left in the buffer and the piece that came at that moment. `undone`
counts these, up to `MaxUndone`, and each of them allows one frame more in the
buffer: nothing in the code bounds it otherwise. A frame appended to a kept one
fails validation; a kept half completed at that moment is a late reply like any other. `Validate` is one step:
`mb_master.c:9-16` reads `rx_len` several times while the interrupt may append,
but a check with two lengths that differ compares a CRC with bytes of another frame and
fails like `Garbage`.

`SlaveHmi`: `rx` is `rx_buf` up to `rx_len`, again in half frames, `pc` the
place in `modbus_hmi_task`; frames are numbered in the order sent, and a frame
that is not good has a wrong CRC or another slave's address. `quietDue` means
that the interrupt has yet to see a pause after what it received; a pause inside
a frame gives `command_sem` too. `rx_len = 0` (`mb_hmi_task.c:26`) and
`rx_len++` (`csro_airsys.c:31`) are not synchronised and may run on two cores:
`EmptyUndone` is the outcome in which the emptying is overwritten. `executed`
and `clean` are history.

`LinkTiming`: `rx` and `queue` hold requests by number, `failed` counts polls
that failed since the last disturbance (a late or lost answer, or a task held up past
its turn) or write; `longest` is history, what `Longest` was right after it: a
bound from what is owed, that is from the answers and tokens there will be that no
request waits for. Two things the module takes from outside the code: a prompt answer
comes within the pause of 200 ms that a read task makes after its last poll
(`mb_ap_task.c:51`, `mb_ac_task.c:95`), and of requests sent close together the
unit reads none, as the gap that separates frames is missing. Both are needed. With
`MaxPrompt` above `Pause`, `ShiftIsShort` fails: the pause is what ends a shift,
because nothing else in the code empties `reply_sem`. There have to be two polls at
least, as with one alone no two could run into each other; the code has three
and six.

`SlaveReply`: `tx` is `tx_buf` without slave id and CRC, `i` and `data` the
variables of the loops; a register is a pair of bytes. `held` records what
an entry has contained since the command came, against which the reply is judged.
A register stored into meanwhile can be answered with a high byte of the old and a low
byte of the new contents (`mb_slave.c:55-56`), and the echo of a write too (lines
131-132); `ReadsTrue` and `WritesExact` say how far that goes. The panel's side (its
packing of coils) is external, each data byte chosen by the bits it has. `Bits` is at
least 2, since a byte has to hold the exception code 2.

`Connectivity`: `clients[c]` is the place of the task of client c, inside its
callbacks or out of them; `events` the queue of the event loop. The broker keeps one
connection per client id and all clients of a gateway have the same, the will is
retained. After a loss of WiFi two clients take the connection from each other,
each announcing itself by the other's handle, since `mqtt_client` is the
latest one: hence "as long as there is one client" in `PublishedRight`
and the premise of `ReportedOnline`. Neither holds without.

`Boot`: `nvs` is what is in the flash, `unwritten` what is under way to it, `ram`
the fields of `sysinfo` and `mqttinfo` read from it. Keys that are missing
leave a variable that is 0 or empty since the start. `main` is the place in `app_main`, which runs
through `csro_airsys_init`; `smart` and `storing` the smart config callbacks. A
completed frame on a line whose number is set but whose semaphore does not exist
fails an assertion of FreeRTOS and restarts the gateway (`GiveTooEarly`).
`router_flag` is never cleared: a gateway whose router changes stays in
station mode, and cannot be provisioned again but by erasing its flash. Once the
time has been set, "run" is right to the second wherever the MQTT
callback looks; between lines 13 and 24 of `csro_mqtt.c`, in the one turn that first
sees the time, it is the time since 1970, which `RunTracks` exempts.

Memory: each access to a byte, bool or 16-bit entry is one atomic step and steps
are sequentially consistent; the registers are separate objects that both cores
reach through the same RAM. The two reads of the mode are two steps; a compiler that merges
them produces a subset of the behaviours.

## Runs

| run | instance | shows |
|---|---|---|
| `ap_task` | 1 register of 2 values, 2 commands, 1 change at the unit | types, exclusion, commands kept and not forgotten; flags are lowered, the mirror converges |
| `ac_task` | power, mode and setpoint, 2 commands, of one entry or of two, reliable line or not | the same safety properties, per setting; the setpoint follows the commanded mode |
| `ac_task_live` | mode, and the setpoint with that of heating; 2 commands, or 1 and a change at the unit; a line that loses frames | flags are lowered, also those raised while the write task is busy; entries and setpoint converge |
| `register_map` | the whole tables, 1 command of all entries, 1 failed poll | addresses: commands come back to their entry, status entries are where documented, no two polls share one, relays |
| `doc_settings` | the same | two tables and a comment that disagree with the code, in one state |
| `master_link` | two polls of one function code and a write, 1 frame each way, 1 change, 1 emptying undone | decoded data, buffer bound, refinement, offline detection |
| `slave_hmi` | 4 frames of a panel that may send again at any time, or that waits for its answers | executed once and in order, undisturbed commands executed, the buffer recovers, and its bound for the panel that waits |
| `link_timing` | 3 polls, timeout 5, pause 2, prompt answers within 2 and late ones within 8 ticks, 3 disturbances, 2 writes | how many polls a shift of the replies can cost, and that they come right |
| `slave_reply` | bytes of 2 bits, tables of 3, addresses around both ends, up to 3 entries, 2 stores of a poll in a command | read and write handlers, at every step of a poll |
| `crc16` | ten bytes, all 65536 states of the register | the tables, damage, refinement |
| `connectivity` | 1 loss of WiFi, 1 broken connection, 2 queued events, 1 message | clients, recovery, contents and topics, availability |
| `boot` | 2 networks and a wrong password, 1 power loss, 1 refusal, 1 early byte, 3 seconds | credentials, count of starts, early bytes, clock, provisioning |

Why the bounds are enough. Registers of `ApTask` interact through the scan order
only; with two of them the safety properties hold too (2,680,238 states, not kept as a
run), and the proofs cover any number. Two commands are what a
window needs: one in flight and one that meets it. In `AcTask` the three
settings are all there are. `RegisterMap` needs no small tables: it keeps no
values, and one command that touches every entry reaches every route. A second
failed poll could only repeat the first. In `MasterLink` one frame each way lets
an old reply, an old request and a new request meet in one transaction: a token
without its frame, a frame without its token, two frames in a buffer and half of
one all occur. The two polls are the pair of the AC's that share a function code
and so could be confused. One change makes two versions, an older and a newer, and a block that
goes back shows with them. The bound of `RxBounded` is exact with one emptying
undone: seven pieces are reached, and one piece less is violated. In `ac_task_live`
commands and changes at the panel of the unit share one bound, so that a second
command comes while the first is on its way, or the unit is changed before or after a
command; the HMI writes the mirror of a setpoint (entry 27) along with the setpoint. With commands of
power as well the same holds (825,591 states), and so do the safety properties with
commands of all the entries 21-28 in one frame (9,507,438 states); neither is kept as
a run for the time it takes, and the theorems hold for frames of any range.

In `SlaveHmi` four frames let one be executed, one be cut by the emptying, one
fill up with the remains and one come after all that. With 2, 3 and 5 frames the
properties hold too. A panel that waits for its answers can still lose a
command that it sends on the heels of an answer, because the buffer is emptied after
the answer went out: `CleanFrameExecuted` therefore asks that the gateway had
nothing under way when the frame was sent. That the buffer of a patient
panel never exceeds two frames is exact, one frame and a half is exceeded. Of a
panel that does not wait nothing bounds it; that case is no property here.
This run really stops, when the panel has sent its last frame: it has
`CHECK_DEADLOCK FALSE`. In all others something can always go on and deadlock is
checked.

In `LinkTiming` three polls are the AP's; for any number `ShiftIsShort` is
proved. In this instance `Longest` is at most 11, and 8 polls do fail. Three
disturbances allow one during the shift another one caused.

`SlaveReply` reduces the width of a byte and with it the tables: what matters is that a
quantity is or is not a multiple of the width, that a range ends with the
table or past it, and that twice a quantity overflows a byte; all occur. The
address 15 is the largest two such bytes can hold.

In `Crc16` the bytes are 0, 255 and the powers of two. The register reaches
all its values, so that every entry of both tables is used; the sum is linear,
so that the powers of two stand for all bytes; the proofs take any bytes.

In `Connectivity` one loss is what makes a second client, and strikes at any
place of the MQTT task and of the callbacks. With two losses no safety
property is violated (1,247,880 states). In `Boot` one power loss
strikes between any two steps, after which everything is as
after a first start but for the flash; two losses, or two refused attempts, with one
second of the clock pass as well. `CountSize` 4 in place of 2^32 lets power_cnt wrap.

The runs check a type invariant where it says more than the types. Those of
`RegisterMap`, `MasterLink`, `LinkTiming`, `SlaveHmi`, `Connectivity`, `Boot` and
`Clock` are proved instead.

`PROJECT.json` gives for each property of a passing run a faulty variant of a
definition (a dropped guard, an index off by one, a swapped setpoint) under which
TLC finds the property violated; the variants stand in the modules, marked as no
part of the specifications.

### Disagreements found

The run `doc_settings` stops in a state in which all three are refuted.

* `mb_address.h:77` places the AC settings at entries 21-25; the code uses 21,
  22, 25, 26, 27 (`mb_ac_task.c:58-80`).
* `mb_ac_task.c:63` says four registers are mirrored in 22-25; two are.
* `mb_address.h:141` places the AP settings at 121-136; the code and the comment
  in `mb_ap_task.c:36` use 120-135. A panel built from the table would set the
  neighbour of each register.

Also noted while reading: relays 3 and 4 are on GPIO 34 and 35, which are not in
`GPIO_SELECTED_PIN` (`csro_airsys.c:15`) and so are not configured as outputs.

## Fairness

A task that can take a step takes one (weak fairness per task): the
scheduler preempts by priority, but every loop blocks or pauses. Waits on a line
end by `MODBUS_TIMEOUT`. That the write task takes `uart_mutex` is strongly fair: the mutex is
released again and again, the read task leaves it alone for 200 ms in each cycle
and the write task has the higher priority (`csro_airsys.c:172-176`). For the read
task `ApTask` assumes the same, since a write task has nothing to send once commands
cease; `AcTask` does without. For the
convergence properties the unit is assumed to answer in time infinitely often;
without that there is nothing to converge to. Nothing is assumed of the panel,
of a change at the unit or of any particular frame. In `SlaveHmi` the task
and the interrupt are fair, the interrupt because each frame on the line arrives or is
lost, and then a pause follows. In `MasterLink` the unit is
not fair: it may stop, which is the premise of `OfflineDetected`. In
`LinkTiming` time passes when no task can go on, and tasks and unit keep their turns
unless a disturbance is counted. In `Connectivity` the driver's attempts to connect
succeed unless WiFi is lost again, the broker is reachable, and messages
need not arrive. In `Boot` `app_main`, the event loop and the flash
go on, a phone tries again until it succeeds, with credentials that work once the refusals
of the bound are used up; power losses and early bytes come to an end. A line
that sends a byte into the same few milliseconds of each start would restart the
gateway for ever.

## Proofs

Every safety property of the runs is a theorem, for all values
of the constants: any number of registers, polls, frames, networks, losses,
commands, any timeout, any width of a byte. The assumptions are those the modules
state of their constants, and nothing else. Each invariant named here was checked by
TLC as an invariant of an instance before it was proved; the number of states is
given. `LinkTiming`, `Crc16` and `Clock` name their specifications apart
(`TimedSpec`, `CrcSpec`, `ClockInit` ...), so that the modules of proofs about
the system around them can extend them.

| module | theorem | property |
|---|---|---|
| `ApTaskProofs` | `TypeCorrect`: types | `TypeOK` of the run |
| | `MutualExclusion`: the owner of the mutex is the task at its line | `MutexOwner` of the run |
| | `CommandsKept`, `CommandsNotForgotten` | `PendingKept`, `NoCommandForgotten` |
| | `WakeUpsKept`: a raised flag has a wake-up or a scan on its way to it | the safety part of `FlagsServed` |
| | `FlagsLoweredWhenSent` | an action property: a flag is only lowered after the command was sent |
| | `LinkTypeCorrect`, `ShiftsAreShort` | `TimedTypeOK`, `ShiftIsShort` |
| `AcTaskProofs` | `TypeCorrect` | `TypeOK` |
| | `CommandsKept`, `CommandsNotForgotten` | the same of the AC |
| | `SetpointsFollowMode` | `SetpointFollowsMode` |
| | `WakeUpsKept`, `FlagsLoweredWhenSent` | the same of the AC |
| `RegisterMapProofs` | `CommandsComeBack`, `RelaysFollowCommands`, `StatusAsDocumented` | `CommandComesBack`, `RelayCommanded`, `DocumentedStatus` |
| | `SourcesAreForever` | the action property `OneSource` |
| | `TypeCorrect` | `TypeOK` of the module |
| `MasterLinkProofs` | `TypeCorrect`, `DecodesWhatWasValidated`, `BufferBounded` | `TypeOK` of the module, `ValidatedStays`, `RxBounded` |
| | `ImplementsPolledMirror` | `MasterLink` refines `PolledMirror` |
| | `DamageAlwaysShows` | `DamageShows` |
| | `ImplementsCrcRegister` | `Crc16` refines `CrcRegister` |
| `SlaveHmiProofs` | `TypeCorrect`, `FramesExecutedOnce`, `CleanFramesExecuted`, `ReceiveBufferBounded` | `TypeOK` of the module, `ExecutedOnce`, `CleanFrameExecuted`, `RxBounded` |
| | `BytesNoticed`: bytes in the buffer never wait unseen | the safety part of `Recovers` |
| `SlaveReplyProofs` | `TypeCorrect`, `WritesAreExact`, `ReadsAreTrue` | `TypeOK`, `WritesExact`, `ReadsTrue` |
| `ConnectivityProofs` | `TypeCorrect`, `ClientsNeverPileUp`, `PublishesRight` | `TypeOK` of the module, `ClientsBounded`, `PublishedRight` |
| `BootProofs` | `TypeCorrect`, `RunTracksAge`, `CredentialsAlwaysWork`, `StartsCounted`, `BytesReachTheirLine` | `TypeOK` of the module, `RunTracks`, `CredentialsWork`, `CountTrue`, `NeverMisdelivered` |

The arguments:

* **`ApTask`**: the types and `MutexOwner` are inductive. The two others rest
  on `SyncInv`, four facts about a register that is not overlapped:
  `CommandInPlace` (what was commanded is still in it as long as it is pending or just
  stored), `PollRecorded` (a read task about to store into it has its window
  recorded if a command is there), `WriterFaithful` (a write task between its
  read and its lowering of the flag carries the commanded value, or a newer command
  has not raised its flag yet), and `NoCommandForgotten` itself. `PendingKept` alone
  is not inductive: that a poll about to store will not hit a pending
  command, and that the value being transmitted is the one whose flag is
  going to be lowered, have to be part of the invariant. One lemma per task shows that its
  steps keep `SyncInv`. `WakeUpsKept` is inductive with the types: the HMI task
  raises its flags before it gives `write_sem`, and the write task takes `write_sem`
  before its scan, which passes a register only with the flag down. So the binary
  semaphore may merge gives as it likes. `FlagsLoweredWhenSent` follows from
  `SyncInv` step by step: the step that lowers a flag has sent the last command,
  unless a newer one is between its store and its flag or the command met a window.
  (2,680,238 states with two registers.)
* **`AcTask`**: `TypeInv` adds to the types which entry and register a task
  is at, at each place; `SyncInv` is as above with `BetweenCommanded`, since a
  setting may not have been commanded yet. `SetpointsFollowMode` needs `ModeInv` besides:
  the mutex, that on a reliable line the AC is in the mode transmitted last and a
  poll under way brings that mode (`DeviceInMode`), that the entry of the mode then
  holds it whoever stored it last (`ModeInPlace`), and that the write task
  between its two reads of the mode has chosen accordingly (`ChoiceFits`).
  (9,500,000 states for `SyncInv`, 3,800,000 for `ModeInv`.) The wake-up and the
  lowering of the flags are as in `ApTask`, where a flag lowered for want of a mode
  (`dropped`) is an exception more. (9,507,438 states.)
* **`RegisterMap`**: the properties speak of where the contents of an entry come
  from; inductive is only what every entry, coil and settable register of the units may
  hold taken together (`MapInv`: `EntriesFit` and `DeviceFits`), since contents
  go from an entry to a unit and back into entries, and what entries 26 and 27 may hold
  between the last poll's stores and its copy (`Window`). `Routes` lists which entry commands
  which register; that the six polls and the two write tasks follow it is proved
  address by address. (99,674 states.)
* **`MasterLink`**: `ValidatedStays` with the types is inductive: the interrupt only
  appends, so that what stands at the head of the buffer when it is decoded is what
  was validated. `Room` bounds what is in the buffer and on the line together,
  a request counting as the reply it may become, and one frame more for each emptying
  that was undone. For the refinement `InOrder`
  says that no reply in the buffer, and none on the line behind it, is older than another
  one of the same block before it or than the mirror: hence a refresh never goes back.
  (905,038 states.)
* **`LinkTiming`**: `LineOK` is the types and what the place of each task says of the
  line, such as that what is on it was sent since the last tick. `MayFail` is
  how many polls may still fail: two at most when nothing is owed; else those of the
  cycle under way, a cycle of polls for each two replies owed, because the first poll
  after a pause is ended by a left-over token in the instant it is sent, so that
  it and the second run into each other and are waited for without being answered,
  and what remains at the end (`FromPause`). The proof is that no step but a
  disturbance or a write lets the sum of `failed` and `MayFail` grow (`ShiftInv`); it
  goes by whether the token, the answer or the timeout comes first. (116,679 states.)
* **`Crc16`**: an entry of the tables is given by the digits of its index and their
  parity (`TableDigits`), checked entry by entry, and exclusive or by the digits of
  its operands (`XorIs`), so that nothing is left but sums of bits. `DamageShows`
  holds because the entries of `table_crc_lo` differ pairwise (`LoDiffers`) and
  exclusive or is undone by itself (`XorBack`). That the loop computes the division
  needs in which of the eight turns the generator is subtracted: these `Steps` are
  parities of the low digits, and the register after eight turns is written in terms
  of them (`Divided`) and compared with the tables (`ByteDivided`). The recursive
  function of `CrcRegister` runs over nine numbers; that it exists is proved by giving
  it (`ByteTaken`). (65,536 states.)
* **`SlaveHmi`**: `OrderInv` orders frames on the line, in the buffer and executed,
  as long as the buffer is `Fresh`; after an emptying that was undone the
  buffer is not, and the proof is that it can then not be executed either, because it
  holds more than a frame. `CleanInv` follows the clean frame from the line into the
  buffer to its execution. `OneAtATime` is what a panel that waits for its
  answers can have under way; it is inductive only with `Noticed`, that bytes in the
  buffer always wake the task up, which is a theorem of its own (`BytesNoticed`). (123,235 states.)
* **`SlaveReply`**: the first half of the module is arithmetic. The installed
  provers know nothing of `2 ^ n` and there is no induction over an operator, so that the
  doubling of powers is derived from the number of subsets of a set and induction from the
  well-foundedness of `<`; on these rest that shifting a bit in from the top
  moves the others down (`ShiftedIn`), that any bits are those of some byte
  (`BitsMakeNumber`), and that what the panel packs is what the handler takes out
  (`CommandedRight`). `TypeInv` adds to the types where a handler can be and that a
  command that is carried out lies within its table. `HeldFits` says that the history
  of an entry ends with what it holds; `WriteInv` what a write has stored, flagged and put
  in its answer at each place; `ReadInv` that the bytes of a reply, and
  the byte being packed, show contents the entries had. The step that a poll
  interferes is in all of them the same: the histories only grow (`Grown`).
  (254,464 states with one store of a poll in a command.)
* **`Connectivity`**: `ClientsOwed` counts clients and a task about to make one against
  losses, those whose event is still queued included (`LossPending`), for which
  `QueueFits` says that such an event is the last of the queue. `SoleClient`
  says what a client on its own finds in the shared buffer at each
  step. (1,660,000 states with two losses.)
* **`Boot`** and **`Clock`**: `ClockInv` ties the clock to the age of the timer
  task before and after it has been set. `Base` is the types, where
  initialisation and provisioning can be (`Placed`) and which stores can be under way
  (`QueueFits`). `StoresInOrder` says that the flash has a prefix of the three
  stores of provisioning, the rest being under way or still to be made in that order,
  so that a power loss cuts a prefix and `router_flag` is never raised before the
  credentials it vouches for. `CountInv` says how many starts power_cnt has
  counted at each place of `app_main`. (1,021,132 states.)

What the proofs showed about the models: the types of `SlaveReply` need a byte of
two bits or more; the type of `SlaveHmi` needs the frame at the head of the buffer at
each place of the handler; `CommandComesBack` needs the exception of a
command stored in the middle of the last poll, and `RxBounded` an allowance for emptyings that
are undone. Everything else was inductive after strengthening.

Model-checked only are the liveness properties (`FlagsServed`, `MirrorConverges`,
`OfflineDetected`, `Recovers`, `ReportedOnline`, `Provisioned`, `ShiftEnds`): the
prover has no support for fairness and ENABLED. Of the first and the fourth the
part that is safety is proved (`WakeUpsKept`, `BytesNoticed`): what is left is that
tasks which can run do run.

## Not modelled

* That the unit executes a write: the code does not look at the result
  (`mb_ap_task.c:68`), so that a frame lost on the line is a command lost.
  `NoCommandForgotten` speaks of what is transmitted.
* Frames of the panel with a good CRC but a byte count or length too small for their
  quantity: `mb_slave.c:105` and `152` check neither and take the missing data from what
  the buffer held before. `SlaveReply` takes frames as well formed.
* MQTT documents: constants of the code; `csro_airsys_on_message` ignores the
  message. Formatting of names, MAC addresses and `time_str`.
* The LED; `modbus_relay_task` (`mb_hmi_task.c:32`) and `test_task`, which do
  nothing or are not started.
* The drift of the gateway's clock between two synchronisations.
* A phone heard in the milliseconds between `SC_STATUS_LINK_OVER` and the restart;
  it would change the credentials that are being stored.
* `sdkconfig.h`: generated; two of its options are used, that a failed assertion
  restarts and that the time outlives a restart.

## Plan

The system is modelled, and each safety property, action property and refinement
is proved. What is worth doing next:

1. Liveness, with a prover for fairness: `FlagsServed` from `WakeUpsKept` and
   `Recovers` from `BytesNoticed` need little more than that each task runs.
2. Whether a write was executed: should the code come to look at the result
   of a transmission before it lowers the flag (`mb_ap_task.c:68`), then
   `FlagsLoweredWhenSent` has to speak of what the unit has received.
