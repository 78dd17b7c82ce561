------------------------------ MODULE DigitalIO ------------------------------
(***************************************************************************)
(* Digital inputs and outputs: the PCA95xx expanders A and B of the board, *)
(* those of an extension board, and the relay board.                       *)
(*                                                                         *)
(* An output port is kept twice, as out_data in memory and as the latch of *)
(* the expander, which is only ever written.  Three threads set outputs    *)
(* without a lock: the shell (priority 10, so each call is one step), the  *)
(* fixture application (15) and the echo test board_debug (20).  The calls *)
(* of the last two are taken apart where another thread can come between:  *)
(* load and store of out_data, START and last byte of a transfer.          *)
(*                                                                         *)
(* The wires.  A and B share their two pins, with the EEPROM.  A transfer  *)
(* begun while another is open on the same pins takes the expander away    *)
(* from it: its next byte is not acknowledged, SoftI2c_wait_ack gives up,  *)
(* and no caller looks at the result.  If the expander was just driving    *)
(* SDA (an acknowledge, a bit it sends) the new START is not seen: then    *)
(* the new transfer is lost as well, and its bytes are taken as data by a  *)
(* port that was being written.                                            *)
(***************************************************************************)
EXTENDS RelayBoard

CONSTANTS
  Width,          \* channels of a port, 8 in the code
  Extensions,     \* extension boards that may be fitted
  AppOutputs,     \* outputs the fixture application sets
  ShellOutputs,   \* outputs the shell sets one by one
  Words,          \* arguments of writeoutputs, as sets of bits
  Sensors,        \* inputs that change; the others stay high
  MaxEvents       \* commands, calls of ProjectApp, resets, inputs: a bound

(* Ports 1 and 2 are A and B, 3 and 4 those of the extension.              *)
Ports == 1..4
Bits == 0..(Width - 1)
Channels == 1..(4 * Width)
Threads == {"ProjectApp", "board_debug"}

ASSUME DigitalAssumption ==
  /\ Width \in Nat \ {0} /\ MaxEvents \in Nat
  /\ Extensions \subseteq {"none", "FBIO0808", "FBJFFB1615CN1"}
  /\ AppOutputs \subseteq 1..(2 * Width)
  /\ ShellOutputs \subseteq 1..(4 * Width - 1)
  /\ Words \subseteq SUBSET (0..(4 * Width - 1))
  /\ Sensors \subseteq Channels

VARIABLES
  fitted,       \* the extension board
  ext,          \* the extension whose initialisation succeeded
  out_data,
  latch,        \* the output latches of the expanders
  field,        \* inputs that are high
  at, call,     \* where a thread is, and the channel and value of its call
  value,        \* the byte outputSet has computed
  port, intact, \* the port of its transfer, and whether it goes on unharmed
  echo,         \* the pair of input and output input_trigger_output is at
  \* bookkeeping
  spoilt,       \* ports whose last transfer failed
  asked,        \* outputs last asked to be on
  since,        \* outputs of the port set since a thread loaded out_data
  undone,       \* outputs last set by a mirrored byte or taken back by a store
  events        \* events that may still happen

io == <<fitted, ext, field, echo>>
memory == <<out_data, asked, undone, since>>
wires == <<latch, intact, spoilt>>
threads == <<at, call, value, port>>
vars == <<relayVars, io, memory, wires, threads, events>>

-----------------------------------------------------------------------------
(* Channels.                                                               *)
PortOf(c) == ((c - 1) \div Width) + 1
Bus(p) == IF p <= 2 THEN 1 ELSE p
Known(p) == p <= 2 \/ (p = 3 /\ ext # "none") \/ ext = "FBJFFB1615CN1"

(* Outputs of B and of the first FBJFFB1615CN1 port count from the top.    *)
TopDown(p) == p = 2 \/ (p = 3 /\ ext = "FBJFFB1615CN1")

(* A variant: counted from 1, as the channels are.                         *)
BitOf_FromOne(c) == LET k == (c - 1) % Width IN IF TopDown(PortOf(c)) THEN Width - k ELSE k

BitOf(c) == LET k == (c - 1) % Width IN IF TopDown(PortOf(c)) THEN Width - 1 - k ELSE k

InputBit(c) ==
  LET k == (c - 1) % Width
  IN  IF PortOf(c) >= 3 /\ ext = "FBJFFB1615CN1" THEN Width - 1 - k ELSE k

data_invert_order(byte) == {b \in Bits : Width - 1 - b \in byte}

(* A variant: the mask of a top-down port is one bit off.                  *)
WithBit_OffByOne(data, c, v) ==
  LET b == IF TopDown(PortOf(c)) THEN (BitOf(c) + 1) % Width ELSE BitOf(c)
  IN  [data EXCEPT ![PortOf(c)] = IF v THEN @ \cup {b} ELSE @ \ {b}]

(* outputSet on a copy of out_data.                                        *)
WithBit(data, c, v) ==
  [data EXCEPT ![PortOf(c)] = IF v THEN @ \cup {BitOf(c)} ELSE @ \ {BitOf(c)}]

Byte(w, p) == {b \in Bits : (p - 1) * Width + b \in w}

WordData(w) == [p \in Ports |->
  IF ~Known(p) THEN out_data[p]
  ELSE IF p \in {2, 3} THEN data_invert_order(Byte(w, p)) ELSE Byte(w, p)]

readoutputs ==
  LET shown == [p \in Ports |-> CASE ~Known(p) -> {}
                                  [] TopDown(p) -> data_invert_order(out_data[p])
                                  [] OTHER -> out_data[p]]
  IN  {n \in 0..(4 * Width - 1) : n % Width \in shown[(n \div Width) + 1]}

(* The outputs a word asks for, one bit for each channel.                  *)
AskedBy(w) == {c \in Channels : Known(PortOf(c)) /\ c - 1 \in w}

(* Those it sets in the wrong order: WordData turns the byte of port 3     *)
(* round for both extensions, and an FBIO0808 counts from the bottom.      *)
Mirrored == {c \in Channels : PortOf(c) = 3 /\ ext = "FBIO0808"}

-----------------------------------------------------------------------------
(* Transfers.                                                              *)
Open(t) == at[t] \in {"writing", "reading"}
Victims(b) == {t \in Threads : Open(t) /\ intact[t] /\ Bus(port[t]) = b}

(* Of the buses a thread starts on, those where its START may go unseen,   *)
(* and the ports that then take its bytes as data.                         *)
Unseen(buses) == SUBSET {b \in buses : Victims(b) # {}}
Garbled(lost) == {port[t] : t \in {u \in UNION {Victims(b) : b \in lost} : at[u] = "writing"}}
Cut(t, buses) == Open(t) /\ Bus(port[t]) \in buses

(* SoftI2c_writes of the shell, the bytes of these ports one after another.*)
ShellTransfers(ports, buses) ==
  \E lost \in Unseen(buses) : \E noise \in [Garbled(lost) -> SUBSET Bits] :
    LET missed == {p \in ports : Bus(p) \in lost /\ \A q \in ports : Bus(q) = Bus(p) => p <= q}
        landed == ports \ missed
    IN  /\ latch' = [p \in Ports |->
             CASE p \in landed -> out_data'[p]
               [] p \in Garbled(lost) \ landed -> noise[p]
               [] OTHER -> latch[p]]
        /\ spoilt' = (spoilt \ landed) \cup missed \cup (Garbled(lost) \ landed)
        /\ intact' = [t \in Threads |-> intact[t] /\ ~Cut(t, buses)]

(* SoftI2c_start of a thread t.                                            *)
Start(t, p, kind) ==
  /\ at' = [at EXCEPT ![t] = kind]
  /\ port' = [port EXCEPT ![t] = p]
  /\ \E lost \in Unseen({Bus(p)}) : \E noise \in [Garbled(lost) -> SUBSET Bits] :
       /\ latch' = [q \in Ports |-> IF q \in Garbled(lost) THEN noise[q] ELSE latch[q]]
       /\ spoilt' = spoilt \cup Garbled(lost)
       /\ intact' = [u \in Threads |-> IF u = t THEN lost = {}
                                       ELSE intact[u] /\ ~Cut(u, {Bus(p)})]

-----------------------------------------------------------------------------
(* Bookkeeping of a call that asks for the outputs "set", those of "on" to *)
(* be on, and may leave the outputs "lost" otherwise than last asked.      *)
Asks(t, set, on, lost) ==
  /\ asked' = (asked \ set) \cup on
  /\ undone' = (undone \ set) \cup lost
  /\ since' = [u \in Threads |-> IF u = t \/ at[u] # "loaded" THEN {} ELSE since[u] \cup set]

(* The shell's calls are one step: nobody comes between.                   *)
Nobody == "shell"

Event == events > 0 /\ events' = events - 1

(* output on, output off: outputSet from the shell.                        *)
ShellSet == \E c \in ShellOutputs, v \in BOOLEAN :
  /\ Event /\ Known(PortOf(c))
  /\ out_data' = WithBit(out_data, c, v)
  /\ ShellTransfers({PortOf(c)}, {Bus(PortOf(c))})
  /\ Asks(Nobody, {c}, IF v THEN {c} ELSE {}, {})
  /\ UNCHANGED <<relayVars, io, threads>>

writeoutputs == \E w \in Words :
  LET ports == {p \in Ports : Known(p)} IN
  /\ Event
  /\ out_data' = WordData(w)
  /\ ShellTransfers(ports, {Bus(p) : p \in ports})
  /\ Asks(Nobody, {c \in Channels : PortOf(c) \in ports}, AskedBy(w), Mirrored)
  /\ UNCHANGED <<relayVars, io, threads>>

(* readinputs and readinput.                                               *)
readinputs ==
  /\ Event
  /\ \E read \in {{1, 2}, {p \in Ports : Known(p)}} : ShellTransfers({}, {Bus(p) : p \in read})
  /\ UNCHANGED <<relayVars, io, memory, threads>>

(* Any command that uses the EEPROM, on the pins of A and B.               *)
EepromAccess ==
  /\ Event
  /\ ShellTransfers({}, {1})
  /\ UNCHANGED <<relayVars, io, memory, threads>>

ShellRelay ==
  /\ Event /\ RelayCommand
  /\ UNCHANGED <<io, memory, wires, threads>>

(* The command board_debug starts the echo test, once.  (The EEPROM test   *)
(* that the thread begins with is left out.)                               *)
board_debug ==
  /\ Event
  /\ at["board_debug"] = "off"
  /\ at' = [at EXCEPT !["board_debug"] = "ready"]
  /\ UNCHANGED <<relayVars, io, memory, wires, call, value, port>>

Shell == ShellSet \/ writeoutputs \/ readinputs \/ EepromAccess \/ ShellRelay \/ board_debug

-----------------------------------------------------------------------------
(* The threads below the shell.  board_debug runs while ProjectApp sleeps. *)
Runs(t) == t = "ProjectApp" \/ at["ProjectApp"] = "ready"

(* inputGet(c) reads A, B and, for an input there, the extension.          *)
BeginInput(t, c) ==
  /\ Runs(t) /\ at[t] = "ready"
  /\ call' = [call EXCEPT ![t] = <<c, FALSE>>]
  /\ Start(t, 1, "reading")
  /\ UNCHANGED <<relayVars, io, memory, value>>

(* A variant: the expander read is not the next one.                       *)
NextPort_Again(p, c) == {p}

NextPort(p, c) ==
  CASE p = 1 -> {2}
    [] p = 2 /\ PortOf(c) >= 3 /\ Known(PortOf(c)) -> {PortOf(c)}
    [] OTHER -> {}

(* The locals of a call end with it, but for the value it returns.         *)
Ends(t, next, v) ==
  /\ at' = [at EXCEPT ![t] = next]
  /\ call' = [call EXCEPT ![t] = <<1, v>>]
  /\ value' = [value EXCEPT ![t] = {}]
  /\ port' = [port EXCEPT ![t] = 1]
  /\ intact' = [intact EXCEPT ![t] = TRUE]

(* What inputGet(c) returns.  If the expander was taken away while its     *)
(* port was read, in_data stays as it was, or has the bits no longer sent  *)
(* high, or what another register holds.                                   *)
Sampled(t) ==
  LET c == call[t][1]
  IN  IF PortOf(c) # port[t] THEN {call[t][2]}
      ELSE IF intact[t] THEN {InputBit(c) \in field[port[t]]} ELSE BOOLEAN

(* ProjectApp is then ready for its next call, board_debug sets an output. *)
EndInput(t) ==
  LET c == call[t][1] IN
  /\ Runs(t) /\ at[t] = "reading"
  /\ \E v \in Sampled(t) :
       \/ /\ call' = [call EXCEPT ![t] = <<c, v>>]
          /\ \E p \in NextPort(port[t], c) : Start(t, p, "reading")
          /\ UNCHANGED value
       \/ /\ NextPort(port[t], c) = {}
          /\ IF t = "ProjectApp" THEN Ends(t, "ready", FALSE) ELSE Ends(t, "sampled", v)
          /\ UNCHANGED <<latch, spoilt>>
  /\ UNCHANGED <<relayVars, io, memory, events>>

(* outputSet(c, v).                                                        *)
Load(t, c, v) ==
  /\ Known(PortOf(c))
  /\ value' = [value EXCEPT ![t] = WithBit(out_data, c, v)[PortOf(c)]]
  /\ call' = [call EXCEPT ![t] = <<c, v>>]
  /\ at' = [at EXCEPT ![t] = "loaded"]
  /\ since' = [since EXCEPT ![t] = {}]
  /\ UNCHANGED <<relayVars, io, out_data, asked, undone, wires, port>>

Store(t) ==
  LET c == call[t][1]
      p == PortOf(c)
  IN  /\ Runs(t) /\ at[t] = "loaded"
      /\ out_data' = [out_data EXCEPT ![p] = value[t]]
      /\ Asks(t, {c}, IF call[t][2] THEN {c} ELSE {}, {d \in since[t] : PortOf(d) = p} \ {c})
      /\ at' = [at EXCEPT ![t] = "stored"]
      /\ UNCHANGED <<relayVars, io, wires, call, value, port, events>>

BeginOutput(t) ==
  /\ Runs(t) /\ at[t] = "stored"
  /\ Start(t, PortOf(call[t][1]), "writing")
  /\ UNCHANGED <<relayVars, io, memory, call, value, events>>

(* A variant: the byte computed by the call is sent.                       *)
Sent_ByValue(t) == value[t]

(* The byte goes out from &out_data: it is what out_data has come to be.   *)
Sent(t) == out_data[port[t]]

EndOutput(t) ==
  /\ Runs(t) /\ at[t] = "writing"
  /\ IF intact[t]
     THEN latch' = [latch EXCEPT ![port[t]] = Sent(t)] /\ spoilt' = spoilt \ {port[t]}
     ELSE latch' = latch /\ spoilt' = spoilt \cup {port[t]}
  /\ Ends(t, "ready", FALSE)
  /\ echo' = IF t = "board_debug" THEN (echo % (4 * Width)) + 1 ELSE echo
  /\ UNCHANGED <<relayVars, fitted, ext, field, memory, events>>

(* ProjectApp reads inputs of A and B and sets outputs, in an order that   *)
(* ProjectApps models.                                                     *)
AppCalls ==
  /\ Event
  /\ \/ BeginInput("ProjectApp", 1)
     \/ /\ at["ProjectApp"] = "ready"
        /\ \E c \in AppOutputs, v \in BOOLEAN : Load("ProjectApp", c, v)

(* input_trigger_output: outputs 1 to 16 from inputs 1 to 16, and then the *)
(* same outputs from inputs 17 to 32, 0 when there is no extension.        *)
EchoOutput == ((echo - 1) % (2 * Width)) + 1
EchoValue == Known(PortOf(echo)) /\ call["board_debug"][2]

input_trigger_output ==
  /\ \/ BeginInput("board_debug", echo)
     \/ /\ Runs("board_debug") /\ at["board_debug"] = "sampled"
        /\ Load("board_debug", EchoOutput, EchoValue)
  /\ UNCHANGED events

Transfer(t) == EndInput(t) \/ Store(t) \/ BeginOutput(t) \/ EndOutput(t)

ProjectApp == AppCalls \/ Transfer("ProjectApp")
Echo == input_trigger_output \/ Transfer("board_debug")

-----------------------------------------------------------------------------
(* A reset: memory starts afresh and pca95xx_init clears the outputs, but  *)
(* not those of an expander that holds SDA in the middle of a transfer:    *)
(* SoftI2c_CheckDevice finds the bus busy and gives it up.                 *)
Stuck(busy, p) ==
  \/ Bus(p) \in busy
  \/ p = 4 /\ 3 \in busy

EmptyPorts == [p \in Ports |-> {}]

Restart(e) ==
  /\ ext' = e
  /\ out_data' = EmptyPorts
  /\ at' = [t \in Threads |-> IF t = "board_debug" THEN "off" ELSE "ready"]
  /\ call' = [t \in Threads |-> <<1, FALSE>>]
  /\ value' = [t \in Threads |-> {}]
  /\ port' = [t \in Threads |-> 1]
  /\ intact' = [t \in Threads |-> TRUE]
  /\ echo' = 1
  /\ asked' = {} /\ undone' = {}
  /\ since' = [t \in Threads |-> {}]

Reset ==
  /\ Event
  /\ \E busy \in SUBSET {b \in {Bus(p) : p \in Ports} : Victims(b) # {}} :
       /\ latch' = [p \in Ports |-> IF Stuck(busy, p) THEN latch[p] ELSE {}]
       /\ spoilt' = {p \in Ports : Stuck(busy, p)}
       /\ Restart(IF busy \cap {3, 4} = {} THEN fitted ELSE "none")
  /\ \E b495 \in {FALSE, fitted = "FBIO0808"} : RelayReset(b495)
  /\ UNCHANGED <<fitted, field>>

(* An input changes.                                                       *)
Sense ==
  /\ Event
  /\ \E c \in Sensors :
       field' = [field EXCEPT ![PortOf(c)] =
                   IF InputBit(c) \in @ THEN @ \ {InputBit(c)} ELSE @ \cup {InputBit(c)}]
  /\ UNCHANGED <<relayVars, fitted, ext, echo, memory, wires, threads>>

AttachRelays ==
  /\ Event /\ Attach
  /\ UNCHANGED <<io, memory, wires, threads>>

Init ==
  /\ RelayInit
  /\ fitted \in Extensions
  /\ ext = fitted
  /\ out_data = EmptyPorts /\ latch = EmptyPorts
  /\ field = [p \in Ports |-> IF Known(p) THEN Bits ELSE {}]
  /\ at = [t \in Threads |-> IF t = "board_debug" THEN "off" ELSE "ready"]
  /\ call = [t \in Threads |-> <<1, FALSE>>]
  /\ value = [t \in Threads |-> {}]
  /\ port = [t \in Threads |-> 1]
  /\ intact = [t \in Threads |-> TRUE]
  /\ echo = 1
  /\ spoilt = {} /\ asked = {} /\ undone = {}
  /\ since = [t \in Threads |-> {}]
  /\ events = MaxEvents

Next == Shell \/ ProjectApp \/ Echo \/ Reset \/ Sense \/ AttachRelays

Spec == Init /\ [][Next]_vars

(* board_debug goes on whenever the threads above it sleep.                *)
FairSpec == Spec /\ WF_vars(Echo)

-----------------------------------------------------------------------------
(* Every variable has its type; the echo test stays at a channel.          *)
TypeOK ==
  /\ RelayTypeOK
  /\ fitted \in Extensions /\ ext \in {fitted, "none"}
  /\ out_data \in [Ports -> SUBSET Bits]
  /\ latch \in [Ports -> SUBSET Bits] /\ field \in [Ports -> SUBSET Bits]
  /\ at \in [Threads -> {"off", "ready", "sampled", "loaded", "stored", "writing", "reading"}]
  /\ call \in [Threads -> Channels \X BOOLEAN]
  /\ value \in [Threads -> SUBSET Bits]
  /\ port \in [Threads -> Ports] /\ intact \in [Threads -> BOOLEAN]
  /\ echo \in Channels
  /\ spoilt \subseteq Ports /\ asked \subseteq Channels /\ undone \subseteq Channels
  /\ since \in [Threads -> SUBSET Channels]
  /\ events \in 0..MaxEvents

(* What memory says of a port is what its expander drives, unless a call   *)
(* is about to write the port or the last transfer for it failed: however  *)
(* the threads come between each other's calls, the byte sent is never an  *)
(* old one.                                                                *)
Writing(p) == \E t \in Threads : at[t] \in {"stored", "writing"} /\ PortOf(call[t][1]) = p
LatchFollows ==
  \A p \in Ports : Known(p) /\ p \notin spoilt /\ ~Writing(p) => latch[p] = out_data[p]

(* Every output reads back as it was last asked to be, alone (readoutput)  *)
(* and in a word (readoutputs), but for two things the code does: a call   *)
(* for another output of the port had loaded out_data before and stored it *)
(* since, or writeoutputs set the port of an FBIO0808 in mirror order.     *)
ReadsAsAsked(c) ==
  /\ Known(PortOf(c)) => (BitOf(c) \in out_data[PortOf(c)] <=> c \in asked)
  /\ c - 1 \in readoutputs <=> (c \in asked /\ Known(PortOf(c)))
LastAsked == \A c \in Channels \ undone : ReadsAsAsked(c)

(* What "output on" and its reply say without a condition: every output    *)
(* reads back as it was last asked to be.  But an output the shell sets    *)
(* between the load and the store of another thread is taken back.         *)
AsAsked == \A c \in Channels : ReadsAsAsked(c)

(* When the host, the inputs and the application have come to rest, the    *)
(* echo test brings the outputs to what the inputs of the extension are,   *)
(* whatever became of earlier transfers.                                   *)
AtRest == events = 0 /\ at["ProjectApp"] = "ready" /\ at["board_debug"] # "off"
Echoed ==
  \A c \in 1..(2 * Width) : LET d == c + 2 * Width IN
    BitOf(c) \in latch[PortOf(c)] <=> Known(PortOf(d)) /\ InputBit(d) \in field[PortOf(d)]
EchoHeals == <>[]AtRest => []<>Echoed
=============================================================================
