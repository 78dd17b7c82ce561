# TLA+ models of the MB1616DEV6 fixture controller

The firmware under `src/` runs on an STM32F103 board that drives test fixtures:
six stepper axes behind two TMC429 motion controllers, digital inputs and
outputs and relays behind I2C expanders, an EEPROM, sensors, and a command
shell on a serial line, all on RT-Thread. This directory holds TLA+ models of
it, the TLC configurations that check them, and proofs checked by TLAPS. The
build modelled is the one of `stm32f10x_all.uvprojx`, the MB1616DEV6 board.

Short names below: APP is `src/Drivers/motor controller/tmc429/app_tmc429.c`,
TMC is `TMC429.c` beside it, PRJ is
`src/Art_stm32f10x_hal/board/inc_projects/inc_projects.c`, DIDO is
`dido_pca95xx.c` in `src/Art_stm32f10x_hal/board/fb_modules_dido`, RELAY is
`fbholyrelay.c` in `fb_modulses_relay` beside that directory, I2C is
`src/Drivers/bsp_mcu/bsp_mcu_softi2c.c`, SHELL is the console's `inc_shell.c`.
EEA and EEB are `app_eeprom_24xx.c` and `bsp_eeprom_24xx.c` in
`src/Drivers/eeprom/at24cxx`.

## Inventory

### Threads

| thread | priority (low number first) | what it does |
|---|---|---|
| tshell | 10 | reads a line, runs the command to its end, waits for input |
| MotorSensor | 14 | started by the first `motor` command; sleeps 100 ms while no axis homes, polls without sleeping while one does |
| ProjectApp | 15 | the fixture application selected in the EEPROM; polls every 5 ticks |
| board_debug | 20 | started by the command of that name; copies the inputs to the outputs, for ever |

Threads share globals and drivers without locks. The only protection is
`rt_enter_critical` around one axis in MotorSensor. A thread of higher number
is preempted anywhere; the shell is preempted by none of the others. The UART
interrupt fills the shell's receive buffer and wakes it with a semaphore.

### Components

| component | state | operations | interacts with | correct when |
|---|---|---|---|---|
| motion control (APP, TMC, `tmc429_config.c`) | `motorHoming`, `motorSetting`, `AMaxLevel`, the selected chip and axis, `motorlimitedCNT`; the chips' registers | `motor` subcommands; LimitSensorProcess | SPI, home sensors, ProjectApp | a homed axis counts from its reference; a homing run ends, finds its origin, and is not interfered with; no axis is driven into a switch; the ramp parameters suit the speed |
| SPI transport (`mb1616dev6_spi.c`) | chip selects | one 32-bit datagram in four transfers | every thread that moves an axis | a datagram reaches the axis it is meant for, whole |
| fixture applications (PRJ) | reset key and its counter, step of the lid sequence, outputs of the cylinders | loops of BUTTON_ONLINE, LID_OPEN, NMEI_IN3COLA; `project select` | motion control, inputs and outputs, EEPROM | a call moves the axis it names; a reset homes Y, then Z, then X, and ends; the door closes on a drawer that is inside; a soft limit stops Y; a key is heard |
| inputs and outputs (DIDO, `fbio0808`, `fbjffb1615cn1`, `pca95xx`) | `out_data` of every output port; the latches of the expanders | inputGet, outputSet, readinputs, readoutputs, writeoutputs, `output`, `input`, the echo test | soft I2C, shell, ProjectApp, board_debug | an output drives what memory says; it reads back as it was set |
| relays (RELAY) | `out_data` of three ports; whether the board has answered | `relay on, off, set, read, reads` | soft I2C, shell | no relay is on that reads back as off |
| EEPROM (EEB, EEA) | pages of 64 bytes | reads and writes split at pages, string records, project selection | shell, PRJ at start-up | a record read is a record written, whole |
| shell (SHELL, `inc_msh.c`, `inc_cmds.c`) | line, length, cursor, state of an escape sequence; receive buffer and semaphore | keys; parsing and dispatch; the receive interrupt | every command | the commands read the line that was edited; the line stays in its buffer; no byte is left unread |
| soft I2C (I2C) | the level of the two pins of each bus | START, bytes, acknowledges, a search for a device | inputs and outputs, relays, EEPROM | a transfer is not cut by another |
| colour sensors, LED driver, cooler, dummy DUT commands | device registers | one register access per command | soft I2C | (stateless) |
| board start-up (`inc_mb1616dev6.c`) | none | initialises the peripherals in order | all | no axis moves after it; outputs are off |

The shell of this build has no history (`FINSH_USING_HISTORY` is not defined).

Not part of the build, or not this project's code: the other boards
(`inc_mbkbcn1*`, `inc_mbtmc429`, `INC-MBAD7124-DMM`, `inc_fbuirmea_04`,
`inc_mbads1220_4w_r`, `inc_mbeepromwr`, the STM32F4 tree), RT-Thread, HAL and
CMSIS. The TMCL interpreter is compiled and never called.

### What is hard here

* A command arrives at any point of a homing run, also between two axes of a
  scan, and nothing refuses it.
* A homing run takes its decisions from flags in RAM, two chip registers and a
  pin, read one after the other while the axis moves.
* The 20 ms stop of one axis holds the scheduler while the others move on.
* A controller reset forgets everything while the chips go on.
* Globals (`TMC429_DEV`, `TMC429_motor`, `AMaxLevel`, port shadows) are shared
  by all axes or all threads.
* MotorSensor does not sleep while an axis homes, so the applications below it
  do not run; when it does sleep, they continue in the middle of whatever they
  were doing, with the globals MotorSensor left them.
* The threads' calls overlap on the I2C pins and on the SPI bus. A START in the
  middle of another transfer cuts it, or goes unseen while the device holds SDA.
* `outputSet` reads, changes and writes memory, and then sends what memory has
  come to be.
* Cylinders take time, and the host and an operator act on them too.
* The shell keeps a line as an array and as a length, which two kinds of command
  read each in its way.
* One wake-up may stand for several bytes, and one byte for several wake-ups.
* Boundaries: the range check of `motor stop`, halving a speed of 1, a pair
  PMUL, PDIV that does not exist.

`PROJECT.json` lists every hazard at its line.

## Modules

| module | stands for |
|---|---|
| `Tmc429Motion` | the `motor` command, MotorSensor, and as much of the chips and carriages as they can tell apart |
| `HomingContract` | what homing promises to the host, for any controller |
| `MCTmc429Motion` | values for TLC |
| `Tmc429MotionProofs` | theorems about `Tmc429Motion`, and that it implements `HomingContract` |
| `RampProfile` | speeds, accelerations and divisors: SelectAMaxByVMax, SetAMax and the commands around them |
| `MCRampProfile`, `RampProfileProofs` | values for TLC; theorems |
| `EepromStore` | the commands that write the EEPROM, and AT24CXX_Writes on a chip that writes by pages |
| `FlatMemory` | what AT24CXX_Writes promises: a memory without pages |
| `MCEepromStore`, `EepromStoreProofs` | values for TLC; theorems, and that `EepromStore` implements `FlatMemory` |
| `SharedAxes` | the axes as three threads share them: selection globals, datagrams, who preempts whom |
| `ProjectApps` | the fixture applications, on `SharedAxes`, with cylinders, host and operator |
| `MCProjectApps`, `ProjectAppsProofs` | values for TLC; theorems |
| `RelayBoard` | the relay board and its command |
| `DigitalIO` | the outputs and inputs of the board and its extensions, the wires, and three threads on them; with `RelayBoard` |
| `MCDigitalIO`, `DigitalIOProofs` | values for TLC; theorems about both |
| `ShellEditor` | the shell thread: receive buffer, keys, line |
| `LineEditor` | what a console promises whoever types |
| `MCShellEditor`, `ShellEditorProofs` | values for TLC; theorems, and that `ShellEditor` implements `LineEditor` |

### Tmc429Motion

| variables | code |
|---|---|
| `xactual xtarget vtarget vactual rampmode` | registers of one axis in its chip |
| `refconf ifconf` | the REFCONF bits of an axis, the bits EN_SD, EN_REFR, INV_REF of a chip |
| `x` | the position of the carriage, which the code never sees |
| `homed goHome goLimit homeSpeed` | `motorHoming` |
| `inited limitCnt` | `tmc429_inited`, `motorlimitedCNT` |
| `sensor scan` | where MotorSensor is |
| `slack handSet undisturbed` | bookkeeping: see below |

A `motor` command is one action, for the shell is preempted by no thread that
touches its state. One axis of a MotorSensor scan is one action
(`LimitSensorProcess`), for it runs with the scheduler locked. `Accelerate` and
`Step` are the chips and the mechanics: a velocity changes by one sign at a
time, a step moves the counter and, while EN_SD is set, the carriage, and a
switch stops it unless REFCONF forbids it. `Reset` zeroes RAM and leaves chips
and carriages alone. `tmc429_hw_init` is the first `motor` command after it.

Velocities are signs, except that a homing speed keeps its magnitude, because
the code halves it. A cell of a track is the distance an axis covers between
two polls; `slack` lets a polled axis make one move per poll, and `Skid` more
after the 20 ms stop of another axis. This is the assumption that polling keeps
up with the axes, and that a home sensor is wide enough for the stop of the
other axes; the model says what follows from it, not that the hardware meets
it. The sensor test, the direction test and the switch tests are read in one
step: an axis may move between them in the code by less than a cell.

`handSet` remembers that a command wrote the position register, after which the
position is the host's, not the controller's. `undisturbed` marks a run that set out from
rest and whose axis the host has not commanded since; every command is still
possible at every moment, and the properties about whole runs speak of the runs
left alone (`HomesAlone`, `SeeksLimitAlone`). `motor stop 6` is modelled as far
as it stays in the chip and in `motorHoming`: it clears IF_CONFIG_429 of the
second chip and GoLimit[0]; the byte past `motorHoming` is not modelled.

### HomingContract

Each axis is lost, seeking, homed or declared (the host wrote its position).
Homed is entered from seeking only, with a zero that is one of the reference
cells, and the zero then stays where it is. `KeepsContract` says that
`Tmc429Motion` implements it, with the refinement mapping `Phase`, `Zero`.

### RampProfile

The registers and settings of each axis and the one `AMaxLevel`. The arithmetic
of the accelerations and of PMUL, PDIV is kept, in integers (floating point
rounding is left out). Nothing the host types is checked, so settings are any
integers, and each is cut on its way to its register as in the code: to 11 bits
(`Low11`; the mask at TMC:315) or to four (`Low4`). `asked` and `byHand` are bookkeeping: the speed an axis
was last started with, and whether a divisor was set by a command of its own.

### EepromStore

| variables | code |
|---|---|
| `mem` | the chip |
| `address OffsetData SizeLeft buf` | AT24CXX_Writes: the parameters and locals of its loop |
| `end` | where the second write, of the terminator, goes |
| `ZeroByte` | the byte at address 0 of the controller |
| `target saved faults` | bookkeeping: the record being written, what the host may rely on for each record, faults so far |

A command that writes is one action that enters
AT24CXX_Writes; every turn of its loop is another. Texts are terminated by a
write of one byte `(uint8_t *)'\0'` (EEA:40), which is a null pointer: the byte
written is the one at address 0, any member of `ZeroBytes`, and `ReadsBack`
asks for less where it does not end a text. `fsn`, `sn:` and `save info` are
looked for in the copy of the line that `MakeLowercaseTo` makes
(`inc_cmds.c`:30-34) and save their text from it; `savedata` saves it as typed.
`saved` keeps the text as typed and which of the two it was (`AsSent`). Lengths pass through a `uint8_t`
(`AsCounted`). The two faults are a byte that is not acknowledged
(`ChunkRefused`), which AT24CXX_Writes ignores, and a restart of the
controller, whose initialisation sends the chip a stop condition (`Restart`).
Reading changes nothing, so reads are operators. The shell is the only writer
modelled, and no thread preempts it on the bus; what it does to the threads it
preempts is in `DigitalIO` (`EepromAccess`).

### FlatMemory

A command has bytes due at addresses; they land each at its own, and a fault
drops some of them. `KeepsFlat` maps `due` to what AT24CXX_Writes has still to
send.

### SharedAxes and ProjectApps

| variables | code |
|---|---|
| `mode v place` | ramp mode and velocity of each axis, in its chip; where its carriage is |
| `inited seek homed homeSpeed` | `tmc429_inited`, `motorHoming` |
| `TMC429_motor TMC429_DEV` | the globals of that name |
| `sensor scan polled` | where MotorSensor is, and whether it has polled an axis since the axis last moved |
| `call axis speed dest intact` | where ProjectApp is in a motor call, its arguments, and its open datagram |
| `WhichProject pc cnt KEY_RESET_pressed OpStep` | the project selected, the loop and its variables |
| `input drawer door drawerOut doorOut` | the input it polls; the cylinders and the outputs that drive them |
| `overtaken spoilt byHand commands` | bookkeeping, and a bound |

`Tmc429Motion` takes every motor call as one step, which is right for the shell
and for MotorSensor. ProjectApp is preempted by both. `SharedAxes` therefore
takes ProjectApp's calls apart, one step for each access to what it shares:
`motor_gohome_config` sets the flag, then the fields, then the two globals, then
sends a datagram addressed from them, and again for the second. A datagram that
another thread breaks into does not arrive (`intact`). In return the axis is
coarser than in `Tmc429Motion`: three places, signs for velocities, a run that
turns round at the first poll on a switch. Speeds are -2 to 2, for what matters of
them is their sign and whether their half is 0. The shell may give any of them,
0 too, and command an axis in the middle of a run, as the code lets it: the lock
it tests is never set. `spoilt` remembers a run that cannot end any more, because
it was started too slow to turn round or its axis has since been driven away
from what the run waits for.

MotorSensor preempts ProjectApp and polls without a pause while an axis homes,
so ProjectApp moves only while MotorSensor sleeps (`AppMayRun`). A call can thus
be cut only by a shell command, or by MotorSensor waking to find a run begun.
`overtaken` remembers that this has happened to a call; the properties that fail
then say so.

`ProjectApps` is the three loops that do something in this build. The code's
busy loops of Cylinder_Reset_check are steps that wait. Two outputs that drive
one cylinder are one variable, with the values "none" and "both" for both off
and both on. In LID_OPEN input 2 is the sensor of the drawer outside and, for
the reset, the reset key, and output 2 is the valve that opens the door and,
for the reset, the lamp: `ResetKey`, `WithLamp` and `WithoutLamp` keep this. The
host may open the door and bring the drawer out after a test (`HostUnloads`),
and while the check waits it may take the outputs off the door, and an operator
push it (`HostFreesDoor`, `DoorByHand`): without that the check never ends.

### RelayBoard and DigitalIO

| variables | code |
|---|---|
| `out_data latch` | `out_data` of each port, and what its expander drives |
| `fitted ext` | the extension board, and the one whose initialisation succeeded |
| `field` | the inputs |
| `at call value port intact` | of ProjectApp and board_debug: where the thread is in a call of outputSet or inputGet, the channel and value, the byte computed, the port of its transfer, and whether that goes on unharmed |
| `echo` | the loop of input_trigger_output |
| `attached FBHOLYRELAY_is_inited relay_out relay` | the relay board |
| `spoilt asked since undone events` | bookkeeping (failed transfers; what was last asked; what a store took back or a word mirrored), and a bound |

A shell call is one step. The calls of the threads below it are taken apart at
the load and the store of `out_data`, at the START and at the last byte of a
transfer. A transfer that begins while another is open on the same wires takes
the device away from it; if the device holds SDA just then the START is not
seen, the new transfer is lost as well, and a port that was being written takes
what follows as data (`noise`). Which of the two happens is a choice of the
model, for it depends on a bit. I2C reports an error in each case and no caller
looks at it. The order in which an application calls is left to `ProjectApps`;
here ProjectApp may make any call.

The bit order of the ports is kept as it is, because `readoutputs` and
`writeoutputs` convert by port and by extension. The relay board has wires of
its own and is driven by the shell alone, so that its commands are single steps.

### LineEditor and ShellEditor

| variables | code |
|---|---|
| `line line_position line_curpos stat` | the fields of `shell` |
| `rx rx_sem taking` | the serial receive buffer, `shell->rx_sem`, and where finsh_getchar is |
| `wrapped` | the count of `shell->rx_sem` went round to 0 while the thread was about to take from it |
| `unbounded` | a call of `strlen` has run out of the array; nothing is said of what follows |
| `discarded executed` | bookkeeping: a line was given up as too long; what the commands just read |

A byte gets its value when it is read, which loses no order of bytes. A release
resumes the thread if it waits and otherwise increments a 16-bit count without a
limit (`rt_sem_release`, `ipc.c`:453-461), here a count modulo `SemRange`. Enter
hands the line to two kinds of command: the board's read it up to its NUL, those
of RT-Thread read as many characters as its length says. `LineEditor` has a text
left and a text right of the cursor, and executes their concatenation, in both
readings. It promises nothing from the moment a line is given up until the next
Enter, because the shell then resets the length and not the array (see
Observations).

## Runs

| run | question | bounds and why they are enough |
|---|---|---|
| `MotionOneAxis` | does a homed axis count from a reference, and is the contract kept, with every motion command at any moment and controller resets? | one axis, a track of four cells with a home sensor of one, so that one cell is no reference; speeds of both signs, the speed 1 and the speed 0; position counters up to 8, twice the track |
| `MotionAllCommands` | does a run that is left alone keep its origin, whatever was done to the axis before it, disabled and inverted switches and `motor stop 6` included? | one axis; counters up to 4; both directions |
| `MotionTwoAxes` | do two runs at once get on and end, without missing an origin while the other axis is being stopped? | two axes on two chips, so that the scan, the shared stop and the chips matter, and runs started and stopped at any moment; the home sensor is in the middle of the track and one direction is the mirror image of the other, so one speed is enough; `Skid` 1 with a sensor of two cells. The position registers decide nothing here, so TLC tells states apart by the rest (`MCSeen`); 105,670 of them |
| `ResetWhileMoving` | is an axis at rest after start-up: see Findings | the smallest constants that show it |
| `RampOneAxis` | do divisors, acceleration and the pair stay consistent? | all speeds below 110, those around the clipping at 833, every 40th of the others, among all settings; accelerations of 5, the least for which a pair exists with a divisor of 12, and of -3 and 5000, which are cut; a positioning speed and a divisor that are cut |
| `RampTwoAxes` | the same divisor property with two axes: see Findings | two axes, boundary speeds |
| `EepromRecords` | does a record read as saved, is the paged chip a flat memory, do commands get on and end? | four pages of three bytes: a text page, a page of numbers, the serial number, a page behind it; texts that are empty, short, as long as a page, and longer than `LengthRange`; texts with and without a capital; raw writes that start inside a page and cross into the next; one fault, so that every later command meets what it left; both kinds of byte at address 0 |
| `ProjectApps` | does a motor call of ProjectApp drive its axis, is a key heard, does the application get the processor, does the door close on a drawer that is inside, and in the end? | three axes on chips of two, so that X and Y share a chip and Z is on the other; one poll of debounce instead of three and a byte counter modulo 4 instead of 256, so that the wrap of the counter occurs; two commands of the shell in BUTTON_ONLINE, three in NMEI_IN3COLA, one in LID_OPEN, of which one initialises the chips: enough to home the axis a call is about, before it, within it or after it; speeds of 0, of 1, whose half is 0, and of more, in both directions; 751,982 states |
| `ResetOrder` | is Y at home before Z and X start: see Findings | BUTTON_ONLINE alone |
| `DigitalIO` | does an output drive what memory says and read back as set, does a relay, and does the echo test bring the outputs to the inputs again after cut transfers? | ports of two channels, the smallest that have an order; no extension and both; three events, so that a call can be loaded, another set the port, and the first be stored, or a transfer be cut twice; relays on two ports of two; 1,725,300 states |
| `LostUpdate` | does every output read back as last asked: see Findings | two calls without an extension |
| `ShellEditor` | is the shell a line editor, is a wake-up lost only to a count that wraps, and does no other byte wait? | lines of less than four characters, so that a cursor has text on both sides and a line can be too long; two commands with a common start longer than a key; a receive buffer of three bytes; a count modulo 3, so that it wraps; 449,724 states |

The limit counter needs 500 polls in the code and `LimitCount` = 1 here: the
code treats every count below the limit alike, and the count is kept over runs
as it is in the code. The runs of `Tmc429Motion` end only at `XBound`, which
bounds the position counters; the carriage stays on its track whatever the
counters do. `Commands` (ProjectApps) and `MaxEvents` (DigitalIO) bound how much
the environment may do; the theorems do without these bounds' values.

### Fairness

* `MotionTwoAxes`: MotorSensor goes on running and the chips go on ramping and
  stepping. The first is justified because the shell, the only thread above
  MotorSensor, waits for input between commands. Nothing is assumed of the host:
  it may go on commanding other axes, and a run that it commands again is no
  longer one left alone.
* `EepromRecords`: the loop of AT24CXX_Writes goes on. It runs in the shell, the
  highest of the application's threads, and its delays are busy waits.
* `ProjectApps`: weak fairness for MotorSensor, axes and cylinders; strong
  fairness for ProjectApp, which can run only while MotorSensor sleeps. That is
  justified because such a sleep lasts 100 ms and ProjectApp polls every 5 ticks.
  Host, operator and inputs are free to do nothing.
* `DigitalIO`: weak fairness for the echo test, which nothing but preemption
  holds up; `EchoHeals` is stated for the time when host, inputs and application
  have come to rest.
* `ShellEditor`: weak fairness for the shell thread. Nothing is assumed of the
  interrupt.

## Properties

Motion and ramps:

* `HomedReferenced`: an axis that reports homed counts from its home sensor or
  an end switch, unless the host wrote its position.
* `KeepsContract`: `Tmc429Motion` implements `HomingContract`.
* `OriginNotMissed`: an axis returning over its home sensor in a run left alone is
  caught on it, also while another axis is stopped for 20 ms. A change of the
  polarity of the chip's switches, given for another axis, breaks it.
* `RunAdvances`: a run left alone moves the way it is driven, turns round once at
  most, and covers no track twice in the same direction. It is what makes
  `GoHomeEnds` true, without any assumption that something goes on running.
* `GoHomeEnds`, `GoLimitEnds`: runs left alone end. `GoHomeEnds` excludes the
  speeds 1 and 0, whose half is 0: such an axis waits at its switch for ever
  (see Observations). `GoLimitEnds` excludes 0.
* `StillAfterReset`: what a comment says of the start-up. It does not hold (see
  Findings).
* `PairFits`, `PairFound`, `PositioningSpeed`, `DivisorFits`: what a chip needs
  for its ramps belongs together and suits the speed, whatever numbers are typed;
  a pair is found for accelerations that are 5 or more after the cut.

EEPROM:

* `ReadsBack`: a record reads as what was typed to be saved in it last, lower-cased
  by the commands that save from the lower-cased copy, whatever is written
  elsewhere and whatever faults other commands meet.
* `KeepsFlat`: every byte of a command lands at its own address, across pages
  too; a fault costs only bytes of the command it meets.
* `CommandAdvances`: every step of a command leaves less of it to do, a refused
  chunk too.
* `CommandEnds`: the loop over the chunks ends.

Applications:

* `DrivesItsAxis`: a call of ProjectApp that was not overtaken changes its own
  axis only, although every scan of MotorSensor leaves the selection globals on
  the last axis.
* `SeekerMoves`: an axis that homes is on its way, unless the host spoilt its run
  or a call was overtaken. An axis at rest between its switches keeps MotorSensor
  polling for ever, and ProjectApp waiting.
* `AppGetsTurns`: as long as the host has spoilt none of its runs, ProjectApp is
  let run again and again. A run that it has spoilt takes the processor from
  ProjectApp for good.
* `KeyHeard`: a reset key held down sets Y on its run, on the same condition.
* `DoorClosesOnDrawer`, `DrawerUnderOpenDoor`: the door is closed over a drawer
  that is inside, and a drawer moves under an open door, unless an operator has
  moved the door by hand.
* `LidCloses`: a button held down closes the door.
* `ResetOrder`: Y is at home before Z and X start. It is not.

Inputs, outputs, relays:

* `LatchFollows`: unless its last transfer failed or a call is about to write it,
  a port drives what memory says. The byte is sent from memory itself, which is
  what makes this true for three threads without a lock.
* `LastAsked`: an output reads back as it was last asked to be, alone and in a
  word, but for two things (`undone`): a call for another output of its port
  loaded memory before and stored it after, and a word that set the port of an
  FBIO0808, which it does in mirror order.
* `AsAsked`: the same without the exceptions. An update that is lost breaks it
  (see Findings), and so does a word with an FBIO0808 (see Observations).
* `EchoHeals`: at rest, the echo test brings the outputs to the inputs of the
  extension again and again, whatever became of earlier transfers.
* `RelaysReported`: once the relay board has answered, no relay is on that
  `relay reads` would not show. The converse fails (see Observations).

Shell:

* `IsLineEditor`: the shell implements `LineEditor`.
* `WakeUpPending`: the thread does not ask for a token while bytes are there and no
  token is, nor sleep over bytes, unless the count wrapped to 0 in between.
* `KeysHandled`: as long as bytes are there, keys are handled: no byte waits for
  a wake-up that was used up for another, unless one was lost to a wrapped
  count.

`PROJECT.json` gives for each property a plausible bug of the code that breaks
it.

## Findings

* `ResetWhileMoving`: the comment in `inc_mb1616dev6.c`:150 says the chips must
  be initialised there or motors keep running after a reset; they are not.
* `RampTwoAxes`: `AMaxLevel` is shared by all axes, so the second slow axis
  keeps the ramp divisor of a fast one.
* `ResetOrder`: the second phase of the fixture reset waits for `Homed[0]`, the
  X axis (PRJ:134), and the first phase starts Y. With X homed before, Z and X
  set off while Y is on its way; the comment at PRJ:122-124 says Y first, then Z,
  then X.
* `LostUpdate`: `outputSet` loads, changes and stores a byte without a lock
  (DIDO:53), so an output that the shell sets meanwhile is taken back.

## Observations

What modelling showed and no run is about. Each can be read in the code at the
place given, and the models contain it unless it says otherwise.

Motion:

* An axis that is back at rest on an end switch does not count as returning
  (APP:1055), so a home sensor active there is not taken and the run turns round
  once more. `MotionTwoAxes` has the sensor apart from the ends; with its sensor
  at the cells 0 and 1 TLC finds `RunAdvances` violated, while `GoHomeEnds` holds.
* The comment at APP:995-996 asks for other commands to be masked during a homing
  run; nothing sets the lock tested at APP:1431, and a moveto takes a run out of
  velocity mode while GoHome stays TRUE.
* `motor stop 6` passes the range check (APP:1343), clears IF_CONFIG_429 of the
  second chip, and with it the step signals of its axes, and resets `GoLimit[0]`.
* `motor set leftLimit n 1` is documented as enable (APP:938) and disables
  (APP:788): a host that follows the usage drives an axis into its switch.
* The reversal halves the speed (APP:1082), and of a speed of 1 nothing is left:
  the axis stays on its switch and MotorSensor polls it for ever.
* `motor set limitSignal` names an axis (APP:939) and turns the polarity of the
  switches of all three axes of its chip (APP:833): another axis on its way home
  is turned round between its ends, and TLC finds `OriginNotMissed` violated when
  the host of two axes on one chip may give it.
* An acceleration is kept and acknowledged as typed, and masked to 11 bits on its
  way to the chip (TMC:315): 4096 becomes 0.
* The comment at TMC:299 allows accelerations of 1 to 2047; for less than 5 with
  a ramp divisor of 12 SetAMax finds no pair and leaves -1 in both bytes (TMC:321).
* `motor rotate n -2147483648`: abs() of it is negative (APP:409-436), so neither
  branch of SelectAMaxByVMax is taken and the acceleration sent is not
  initialised. `RangeAssumption` leaves this speed out; it bounds nothing else.

Applications:

* The second phase of the reset waits for `Homed[0]`, which only that phase
  itself sets in motion: with X not homed before, a reset never gets beyond Y.
* Before the first `motor` command the chips are not initialised and MotorSensor
  does not exist. A reset key pressed then sets flags and is never cleared, and
  the key is deaf from then on.
* A poll that finds X homed starts Z and X again (PRJ:134) before it asks
  whether all three are homed (PRJ:139). A reset therefore ends only if
  MotorSensor finishes X between the two tests; otherwise Z and X home again.
* A command that overtakes a call of ProjectApp can leave the axis with its flag
  set and no velocity: MotorSensor then polls for ever and ProjectApp never runs
  again. Or the velocity goes to the axis MotorSensor scanned last. Or a datagram
  is torn and lost. This is what `overtaken` excuses.
* So can a command alone: `gohome n 0`, a `move n 0` in the middle of a run, or a
  speed of 1 that is halved leave a flagged axis at rest. This is what `spoilt`
  excuses.
* The soft limit tests whether Y homes, reads its velocity and stops it
  (PRJ:73-80); a run that the shell starts in between is stopped and stays
  flagged. The comment at PRJ:55 says it acts outside homing motions.
* LID_OPEN: a drawer outside is a pressed reset key (input 2). The check that
  follows needs the door up in its first stage and down in the second, and the
  lamp it has just lit is the valve that opens the door, so it waits for ever
  unless the host takes the output off and somebody pushes the door down.

Inputs and outputs:

* No caller looks at the result of an I2C transfer.
* `in_data` of A and B starts as 0, so an input whose first read fails looks like
  a key pressed.
* A controller reset in the middle of a transfer leaves outputs on while
  `out_data` is 0, because the search for the device finds the bus busy.
* `writeoutputs` turns the byte of port 3 round for both extensions (DIDO:239,
  243), while `outputSet` and `readoutputs` count the outputs of an FBIO0808 from
  the bottom (DIDO:63, 101): a word reads back mirrored. `LastAsked` excepts it.
* `outputGet` leaves out channels 31 and 32, and the command `output` channel 32.
* The second loop of the echo test writes 0 when no extension is fitted.
* `relay read n` prints bit n, which is relay n+1 (RELAY:96). `relay off n`
  accepts 21 to 31 and does nothing.
* `FBHOLYRELAY_Init` clears the ports of the expander and not `out_data`: a relay
  switched on before the board answered reads as on and is off.

EEPROM:

* `SN:...` is taken by command_fsn (EEA:112), which saves it in page 250 without
  its mark; `SN` looks for the mark at address 0. The help text
  (`inc_cmds.c`:46-47) lists the two as a pair.

Shell:

* A line that reaches 500 characters is given up by setting its length and cursor
  to 0; the array keeps it. The next Enter hands what is left, behind what was
  typed since, to the board's commands, and Tab's `strlen` may leave the array.
* `fsn[...]`, `SN:` and `save info` save their text in small letters, whatever was
  typed; `savedata` does not (`inc_cmds.c`:32). `user_commands.c`:24-28 notes it.
* The count of a semaphore is 16 bits wide and not limited (`ipc.c`:461). Keys read
  without a take leave it high, and if it wraps to 0 between an empty read and
  the take, the thread sleeps over bytes (`wrapped`).
* When the receive buffer is full the oldest byte makes room.

## Proofs

Every theorem holds for all values of the constants that satisfy the named
assumptions of its module: `SizeAssumption` and `InputAssumption` for
`Tmc429Motion`, `RangeAssumption` for `RampProfile` (speeds of ramps up to 2000 in
size, anything else any integer),
`LayoutAssumption` and `TextAssumption` for `EepromStore`, `AxesAssumption`,
`PollAssumption` and `FixtureAssumption` for `ProjectApps`, `DigitalAssumption`
and `RelayAssumption` for `DigitalIO`, `ShellAssumption` for `ShellEditor`.

`Tmc429MotionProofs`:

* `TypeCorrect`: one step per action, no strengthening needed.
* `HomedIsReferenced`, under `SafeHost` (the host leaves polarity and disable
  bits of the switches alone and stops axes that exist). `HomedReferenced` is
  not inductive: a step keeps counter and carriage together only while EN_SD is
  set and the switches stop the axis short of the ends of its track, and a homed
  axis needs an initialised controller for that. `ReferenceInv` adds these
  (`AsConfigured`, `FlagsNeedInit`) and is inductive. The step that carries the
  argument is `StepKeepsZero`.
* `SensorNotPassed`, under `SafeHost`, of runs left alone and for a sensor (any
  interval, at an end of the track too) that spans more than `Reach`, the cells an
  axis covers while every other axis is stopped once (`SensorWide`). With a sensor
  one cell narrower TLC finds the origin missed in the instance of
  `MotionTwoAxes`, so the condition is not idle. `PollInv`: the moves an axis may
  make before its next poll (`Allowance`: its slack, and `Skid` for every axis to
  be handled before it) never exceed `1 + Reach`. `RunOK`: a run turns round at an end of
  the track only (`TurnsAtEnd`), and on its way back over the sensor the
  allowance does not take the axis past it (`StaysForPoll`); `ReachesSensor` is
  where the width counts.
* `RunsAdvance`, for such runs and such a sensor, the sensor apart from the end switches
  (`SensorInside`; see Observations for what happens otherwise). `Driven`: a run
  is driven one way or the other, and one that has turned has its sensor, or a
  part of it, before it (`SensorAhead`). A step keeps that, for on the sensor the
  run is found before it leaves (`SensorKept`). So a run that has turned never
  stands at the end opposite to the one it turned at, and a second reversal can
  only repeat the first.
* `ImplementsContract`: the initial states are lost axes, and every action is an
  action of the contract or a stutter (`ContractStep`).

`RampProfileProofs`:

* `PairAlwaysFits`, `PositioningSpeedKept`: one invariant, `Inv`, which both need
  with the shape of the registers only.
* `RampTypes`: the two formulas of the acceleration, capped, fit the register for
  every speed (`AccelerationType`), and whatever is typed is cut to its register.
* `PairAlwaysFound`, for a host whose accelerations are 5 or more in their lowest 11 bits
  (`AccelerationsSuffice`; with 4 TLC finds a state without a pair, so the bound is
  the least). `SomeFits`: the intervals of accelerations that SetAMax's search
  covers with either divisor leave no gap. `FormulasSuffice`: both formulas of the acceleration
  stay above the bound. `FoundInv`: every acceleration a chip is given is one of
  these, with one of the two divisors.
* `DivisorFitsOneAxis`, for one axis (`OneAxis`), by `LevelInv`: the level is that
  of the last speed asked for, and the divisor that of the level. With two axes
  the level is that of another's speed (see Findings).

`EepromStoreProofs`:

* `StoreTypes`: a command stays within the chip and the buffer it was given.
* `ImplementsFlatMemory`, from the types. `NoWrap`: a chunk as `SizeNext` cuts it
  stays on its page, so the chip does not wrap. `ChunkLands`: what the chip
  takes of a chunk is due at its addresses. `NextFlat`: every action is an
  action of `FlatMemory` or a stutter.
* `RecordsReadBack`, by `Keeps`. `Image` is the chip as it will be when the
  command is over. Every known record holds its text in the image, and what is
  still due lies outside every known record but the command's own. Steps without
  a fault leave the image alone, a fault changes it among the due bytes only and
  makes the command's record unknown (both follow from `NextFlat`); each command
  has a lemma that it writes its own record as told and stays out of the others
  (`ExtentsApart`). `TextRead` says what a page that begins with a text reads as.

* `CommandsAdvance`, from the types: a chunk is never empty (`ChunkSize`), and no
  command starts before the one under way is over.
* `WritesOnlyOwed`, from `NextFlat`: a byte changes only while a command owes it.

`ProjectAppsProofs`:

* `AppTypes`, in parts (`AllOK`).
* `AppDrivesItsAxis`. `Addressed` is what a call relies on at each of its steps,
  first the one global, then both, then the address in the datagram;
  `OthersOvertake`: whoever changes the globals during a call overtakes it.
* `SeekersMove`, by `Moving`: an axis that homes is in velocity mode with a
  velocity, except the one that the call under way is about. That the call gets
  there needs `Addressed` (its datagrams go to that axis), that they are whole,
  and that the axis is in velocity mode when the second one arrives, for the chip
  ignores a velocity in ramp mode; and `Spares`, that during a call of the soft
  limit which was not overtaken Y does not home, for the soft limit sends a
  velocity of 0. A host's run keeps `Moving` because a command that leaves the
  axis without a velocity spoils the run, and so does a speed whose half is 0.
* `DoorClosesOverDrawer`, by `Held`: while the door is being driven the drawer is
  inside and held there.
* `DrawerMovesUnderOpenDoor`, by `Held` and `Guarded`, the latter until an
  operator has pushed the door: the door is not driven down while the drawer may
  move, also not by the lamp of the reset, and the check of the cylinders gets no
  further than its second stage without a push.

`DigitalIOProofs`:

* `DigitalTypes`; `RelaysReadBack`, by `RelayOK`.
* `LatchesFollow`, by `LatchOK`: the property itself with the types and that a
  call which is writing writes the port of its channel.
* `OutputsReadBack`, by `AskOK`: it adds, for every thread between load and
  store, that the byte it computed agrees with what was asked, except for
  outputs set since (`since`). `WithBitAsks`, `WordAsks` and `ReadsOut` say that
  setting a bit, a word, and reading a word number the outputs alike, for any
  width and extension, the port of an FBIO0808 in a word excepted (`Mirrored`).

`ShellEditorProofs`:

* `ShellTypes`: length and cursor stay within the array.
* `ShellIsLineEditor`, by `Clean`: unless a line was given up, the array holds
  printable characters up to its length and NUL behind (`Holds`). Each key has a
  lemma that says what it makes of the text (`InsertedText`, `ErasedText`,
  `CompletedText`), and one that says which step of `LineEditor` it is.
* `NoWakeUpLost`: `WakeUpPending` is inductive with the types. It begins to hold
  when the thread finds no byte, and every byte since has left a token or woken
  the thread, but for a count that wraps to 0 while it asks.
* `BothReadAlike`, from the steps of `LineEditor`: unless a line was given up, both
  kinds of command are handed the same text.

Only model-checked: the liveness properties (`GoHomeEnds`, `GoLimitEnds`,
`CommandEnds`, `AppGetsTurns`, `KeyHeard`, `LidCloses`, `EchoHeals`,
`KeysHandled`), for liveness under fairness is beyond the proof system. Of three
of them the part that needs no fairness is a theorem: `RunsAdvance` of
`GoHomeEnds`, `CommandsAdvance` of `CommandEnds`, `NoWakeUpLost` of `KeysHandled`.

## Not modelled, and why

* BUTTON_OFFLINE has an empty loop in this build, the loop of ATLAS_QT1 is not
  called, the other projects only initialise boards. `project select` writes a
  byte of the EEPROM that counts after a restart: it is the choice of
  `WhichProject` in Init.
* Lamps, except the one of LID_OPEN, which is a valve as well.
* The read half of `Set429RampMode` in a preempted call, and the set-up of the
  SPI peripheral.
* Writers of the EEPROM outside its own commands (project selection, TMC429
  parameters, brightness, the self test of page 254), which use other pages, and
  functions of EEB that nothing on this board calls.
* The search for a second device address of an expander, and the driver
  `tca6424a.c`, of which the relay board uses the types only.
* Which command an executed line reaches, echo, prompt and help of the shell:
  text processing without state.
* Colour sensors, LED driver, cooler and dummy DUT commands: register access and
  arithmetic in floating point, no state of their own.
* The TMCL interpreter, compiled and never called; the other boards; RT-Thread,
  HAL and CMSIS, of which priorities, semaphores and the serial buffer are used
  as their documentation gives them. These trees are by far the greatest part of
  the repository's lines.
* Timing: the models order events and do not measure them. That polling keeps up
  with the axes is an assumption of `Tmc429Motion` and of `SharedAxes`.

What is left to do: the full `Tmc429Motion` under the interruptible calls of
`SharedAxes`.

## Running

    tlc -config MotionOneAxis.cfg MCTmc429Motion.tla       (also MotionAllCommands, MotionTwoAxes, ResetWhileMoving)
    tlc -config RampOneAxis.cfg MCRampProfile.tla          (also RampTwoAxes)
    tlc -config EepromRecords.cfg MCEepromStore.tla
    tlc -config ProjectApps.cfg MCProjectApps.tla          (also ResetOrder)
    tlc -config DigitalIO.cfg MCDigitalIO.tla              (also LostUpdate)
    tlc -config ShellEditor.cfg MCShellEditor.tla
    tlapm Tmc429MotionProofs.tla       (and RampProfileProofs, EepromStoreProofs,
                                        ProjectAppsProofs, DigitalIOProofs, ShellEditorProofs)
