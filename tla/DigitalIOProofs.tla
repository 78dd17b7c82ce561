-------------------------- MODULE DigitalIOProofs --------------------------
(***************************************************************************)
(* Proofs about DigitalIO, for every width of a port, every set of         *)
(* extensions, outputs, words and sensors, and any number of events: the   *)
(* types, the latches that follow out_data, the relays that read back.     *)
(***************************************************************************)
EXTENDS DigitalIO, TLAPS

(* Quotient and remainder, from a division carried out.                    *)
LEMMA DivMod ==
  ASSUME NEW w \in Nat \ {0}, NEW q \in Nat, NEW r \in 0..(w - 1)
  PROVE  (q * w + r) \div w = q /\ (q * w + r) % w = r
OBVIOUS

(* A channel is a port and a place in the port.                            *)
LEMMA Places ==
  ASSUME NEW c \in Channels
  PROVE  /\ PortOf(c) \in Ports
         /\ (c - 1) % Width \in Bits
         /\ c = (PortOf(c) - 1) * Width + ((c - 1) % Width) + 1
<1>1. Width \in Nat \ {0} /\ c \in Nat /\ c - 1 \in 0..(4 * Width - 1)
  BY DigitalAssumption DEF Channels
<1>2. PICK q \in 0..3 : c - 1 - q * Width \in 0..(Width - 1)
  <2>1. CASE c - 1 < Width
    BY <1>1, <2>1
  <2>2. CASE c - 1 >= Width /\ c - 1 < 2 * Width
    BY <1>1, <2>2
  <2>3. CASE c - 1 >= 2 * Width /\ c - 1 < 3 * Width
    BY <1>1, <2>3
  <2>4. CASE c - 1 >= 3 * Width
    BY <1>1, <2>4
  <2>. QED  BY <1>1, <2>1, <2>2, <2>3, <2>4
<1>. DEFINE r == c - 1 - q * Width
<1>3. r \in 0..(Width - 1) /\ q \in Nat /\ q * Width \in Nat /\ c - 1 = q * Width + r
  BY <1>1, <1>2
<1>. HIDE DEF r
<1>4. (c - 1) \div Width = q /\ (c - 1) % Width = r
  BY <1>1, <1>3, DivMod
<1>5. PortOf(c) = q + 1
  BY <1>4 DEF PortOf
<1>6. c = q * Width + r + 1
  BY <1>1, <1>3
<1>7. PortOf(c) - 1 = q /\ PortOf(c) \in 1..4
  BY <1>5
<1>8. c = (PortOf(c) - 1) * Width + ((c - 1) % Width) + 1
  BY <1>4, <1>6, <1>7
<1>. QED  BY <1>3, <1>4, <1>7, <1>8 DEF Ports, Bits

LEMMA BitType ==
  ASSUME NEW c \in Channels
  PROVE  BitOf(c) \in Bits /\ InputBit(c) \in Bits
<1>1. (c - 1) % Width \in Bits /\ Width \in Nat
  BY Places, DigitalAssumption
<1>. DEFINE k == (c - 1) % Width
<1>. HIDE DEF k
<1>2. Width - 1 - k \in Bits
  BY <1>1 DEF Bits, k
<1>. QED  BY <1>1, <1>2 DEF BitOf, InputBit, k

-----------------------------------------------------------------------------
(* The relay board.                                                        *)
RelayOK ==
  /\ RelayTypeOK
  /\ FBHOLYRELAY_is_inited => attached
  /\ RelaysReported

LEMMA RelayWritesOK ==
  ASSUME RelayOK, NEW ports, NEW data, data \subseteq RelayBits,
         \A b \in OutAfterInit \ data : PortOfBit(b) \in ports,
         RelayWrites(ports, data)
  PROVE  RelayOK'
<1>. USE DEF RelayOK, RelayTypeOK, RelaysReported
<1>1. {0, 1} \subseteq RelayBits
  BY RelayAssumption DEF RelayBits
<1>2. RelayAfterInit \subseteq OutAfterInit \/ ~attached
  BY DEF RelayAfterInit, OutAfterInit, MustInit, Written
<1>3. CASE attached
  <2>1. relay' = Written(ports, data, RelayAfterInit) /\ relay_out' = data /\ attached' = attached
    BY <1>3 DEF RelayWrites
  <2>2. Written(ports, data, RelayAfterInit) \subseteq data
    BY <1>2, <1>3 DEF Written
  <2>3. Written(ports, data, RelayAfterInit) \subseteq RelayBits
    BY DEF Written
  <2>4. FBHOLYRELAY_is_inited' \in BOOLEAN
    BY DEF RelayWrites
  <2>. QED  BY <1>3, <2>1, <2>2, <2>3, <2>4
<1>4. CASE ~attached
  <2>1. relay' = relay /\ relay_out' = data /\ attached' = attached
        /\ FBHOLYRELAY_is_inited' = (FBHOLYRELAY_is_inited \/ attached)
    BY <1>4 DEF RelayWrites
  <2>2. ~FBHOLYRELAY_is_inited' /\ FBHOLYRELAY_is_inited' \in BOOLEAN
    BY <1>4, <2>1
  <2>. QED  BY <2>1, <2>2
<1>. QED  BY <1>3, <1>4

LEMMA RelayCommandOK ==
  ASSUME RelayOK, RelayCommand
  PROVE  RelayOK'
<1>. USE RelayAssumption
<1>1. {0, 1} \subseteq RelayBits
  BY DEF RelayBits
<1>2. OutAfterInit \subseteq RelayBits
  BY <1>1 DEF OutAfterInit, RelayOK, RelayTypeOK
<1>3. ASSUME NEW n \in 1..Relays, NEW on \in BOOLEAN, FBHOLYRELAYSetPortBit(n, on)
      PROVE  RelayOK'
  <2>1. n - 1 \in RelayBits
    BY DEF RelayBits
  <2>. DEFINE data == IF on THEN OutAfterInit \cup {n - 1} ELSE OutAfterInit \ {n - 1}
  <2>2. data \subseteq RelayBits
    BY <1>2, <2>1
  <2>3. \A b \in OutAfterInit \ data : PortOfBit(b) \in {PortOfBit(n - 1)}
    OBVIOUS
  <2>4. RelayWrites({PortOfBit(n - 1)}, data)
    BY <1>3 DEF FBHOLYRELAYSetPortBit
  <2>. HIDE DEF data
  <2>. QED  BY <2>2, <2>3, <2>4, RelayWritesOK
<1>4. ASSUME NEW w \in RelayWords \cup {{}}, RelayWrites({0, 1, 2}, w)
      PROVE  RelayOK'
  <2>1. w \subseteq RelayBits
    OBVIOUS
  <2>2. \A b \in RelayBits : PortOfBit(b) \in {0, 1, 2}
    <3>. SUFFICES ASSUME NEW b \in RelayBits  PROVE PortOfBit(b) \in {0, 1, 2}
      OBVIOUS
    <3>1. RelayPort \in Nat \ {0} /\ b \in Nat /\ b < 3 * RelayPort
      BY DEF RelayBits
    <3>2. PICK q \in 0..2 : b - q * RelayPort \in 0..(RelayPort - 1)
      <4>1. CASE b < RelayPort
        BY <3>1, <4>1
      <4>2. CASE b >= RelayPort /\ b < 2 * RelayPort
        BY <3>1, <4>2
      <4>3. CASE b >= 2 * RelayPort
        BY <3>1, <4>3
      <4>. QED  BY <3>1, <4>1, <4>2, <4>3
    <3>. DEFINE r == b - q * RelayPort
    <3>3. r \in 0..(RelayPort - 1) /\ q \in Nat /\ b = q * RelayPort + r
      BY <3>1, <3>2
    <3>. HIDE DEF r
    <3>4. b \div RelayPort = q
      BY <3>1, <3>3, DivMod
    <3>. QED  BY <3>4 DEF PortOfBit
  <2>. QED  BY <1>2, <1>4, <2>1, <2>2, RelayWritesOK
<1>5. CASE relayRead
  BY <1>2, <1>5, RelayWritesOK DEF relayRead
<1>. QED  BY <1>3, <1>4, <1>5 DEF RelayCommand, relayOn, relayOff, FBHOLYRELAYSetPort

LEMMA RelayResetOK ==
  ASSUME RelayOK, NEW starts \in BOOLEAN, RelayReset(starts)
  PROVE  RelayOK'
<1>1. {0, 1} \subseteq RelayBits
  BY RelayAssumption DEF RelayBits
<1>. QED  BY <1>1 DEF RelayReset, RelayOK, RelayTypeOK, RelaysReported

LEMMA AttachOK ==
  ASSUME RelayOK, Attach
  PROVE  RelayOK'
BY DEF Attach, RelayOK, RelayTypeOK, RelaysReported

LEMMA RelayNext == RelayOK /\ [Next]_vars => RelayOK'
<1>. SUFFICES ASSUME RelayOK, [Next]_vars  PROVE RelayOK'
  OBVIOUS
<1>1. CASE ShellRelay
  BY <1>1, RelayCommandOK DEF ShellRelay
<1>2. CASE Reset
  <2>1. PICK b495 \in {FALSE, fitted = "FBIO0808"} : RelayReset(b495)
    BY <1>2 DEF Reset
  <2>. QED  BY <2>1, RelayResetOK
<1>3. CASE AttachRelays
  BY <1>3, AttachOK DEF AttachRelays
<1>4. CASE UNCHANGED relayVars
  BY <1>4 DEF relayVars, RelayOK, RelayTypeOK, RelaysReported
<1>5. ShellRelay \/ Reset \/ AttachRelays \/ UNCHANGED relayVars
  BY DEF Next, Shell, ShellSet, writeoutputs, readinputs, EepromAccess, board_debug,
         ProjectApp, AppCalls, Transfer, Echo, input_trigger_output, BeginInput, EndInput,
         Load, Store, BeginOutput, EndOutput, Sense, vars
<1>. QED  BY <1>1, <1>2, <1>3, <1>4, <1>5

(* No relay is on that relay reads would not report as on.                 *)
THEOREM RelaysReadBack == Spec => []RelaysReported
<1>1. Init => RelayOK
  BY DEF Init, RelayInit, RelayOK, RelayTypeOK, RelaysReported
<1>2. RelayOK => RelaysReported
  BY DEF RelayOK
<1>. QED  BY <1>1, <1>2, RelayNext, PTL DEF Spec

-----------------------------------------------------------------------------
(* The types of the digital inputs and outputs, in four parts.             *)
States == {"off", "ready", "sampled", "loaded", "stored", "writing", "reading"}

FixedOK == fitted \in Extensions /\ ext \in {fitted, "none"} /\ echo \in Channels
PortsOK ==
  /\ out_data \in [Ports -> SUBSET Bits] /\ latch \in [Ports -> SUBSET Bits]
  /\ field \in [Ports -> SUBSET Bits] /\ spoilt \subseteq Ports
ThreadsOK ==
  /\ at \in [Threads -> States] /\ call \in [Threads -> Channels \X BOOLEAN]
  /\ value \in [Threads -> SUBSET Bits] /\ port \in [Threads -> Ports]
  /\ intact \in [Threads -> BOOLEAN]
BookOK ==
  /\ asked \subseteq Channels /\ undone \subseteq Channels
  /\ since \in [Threads -> SUBSET Channels] /\ events \in 0..MaxEvents

TypesOK == FixedOK /\ PortsOK /\ ThreadsOK /\ BookOK

LEMMA EventType ==
  ASSUME BookOK, Event
  PROVE  events' \in 0..MaxEvents
BY DigitalAssumption DEF BookOK, Event

LEMMA AsksTypes ==
  ASSUME BookOK, NEW t, NEW set, NEW on, NEW lost, set \subseteq Channels,
         on \subseteq Channels, lost \subseteq Channels, Asks(t, set, on, lost)
  PROVE  /\ asked' \subseteq Channels /\ undone' \subseteq Channels
         /\ since' \in [Threads -> SUBSET Channels]
BY DEF BookOK, Asks

LEMMA GarbledPorts ==
  ASSUME ThreadsOK, NEW lost
  PROVE  Garbled(lost) \subseteq Ports
BY DEF ThreadsOK, Garbled, Victims

LEMMA TransferTypes ==
  ASSUME PortsOK, ThreadsOK, NEW ports, NEW buses, ports \subseteq Ports,
         out_data' \in [Ports -> SUBSET Bits], ShellTransfers(ports, buses)
  PROVE  /\ latch' \in [Ports -> SUBSET Bits] /\ spoilt' \subseteq Ports
         /\ intact' \in [Threads -> BOOLEAN]
<1>. DEFINE missed(L) == {p \in ports : Bus(p) \in L
                                    /\ \A q \in ports : Bus(q) = Bus(p) => p <= q}
             landed(L) == ports \ missed(L)
<1>0. PICK lost \in Unseen(buses) : \E noise \in [Garbled(lost) -> SUBSET Bits] :
            /\ latch' = [p \in Ports |->
                 CASE p \in landed(lost) -> out_data'[p]
                   [] p \in Garbled(lost) \ landed(lost) -> noise[p]
                   [] OTHER -> latch[p]]
            /\ spoilt' = (spoilt \ landed(lost)) \cup missed(lost)
                           \cup (Garbled(lost) \ landed(lost))
            /\ intact' = [t \in Threads |-> intact[t] /\ ~Cut(t, buses)]
  BY DEF ShellTransfers
<1>1. PICK noise \in [Garbled(lost) -> SUBSET Bits] :
            /\ latch' = [p \in Ports |->
                 CASE p \in landed(lost) -> out_data'[p]
                   [] p \in Garbled(lost) \ landed(lost) -> noise[p]
                   [] OTHER -> latch[p]]
            /\ spoilt' = (spoilt \ landed(lost)) \cup missed(lost)
                           \cup (Garbled(lost) \ landed(lost))
            /\ intact' = [t \in Threads |-> intact[t] /\ ~Cut(t, buses)]
  BY <1>0
<1>2. Garbled(lost) \subseteq Ports
  BY GarbledPorts
<1>3. spoilt' \subseteq Ports
  BY <1>1, <1>2 DEF PortsOK
<1>4. latch' \in [Ports -> SUBSET Bits]
  BY <1>1, <1>2 DEF PortsOK
<1>5. intact' \in [Threads -> BOOLEAN]
  BY <1>1
<1>. QED  BY <1>3, <1>4, <1>5

LEMMA StartTypes ==
  ASSUME PortsOK, ThreadsOK, NEW t \in Threads, NEW p \in Ports,
         NEW kind \in {"reading", "writing"}, Start(t, p, kind)
  PROVE  /\ latch' \in [Ports -> SUBSET Bits] /\ spoilt' \subseteq Ports
         /\ intact' \in [Threads -> BOOLEAN]
         /\ at' \in [Threads -> States] /\ port' \in [Threads -> Ports]
<1>0. PICK lost \in Unseen({Bus(p)}) : \E noise \in [Garbled(lost) -> SUBSET Bits] :
        /\ latch' = [q \in Ports |-> IF q \in Garbled(lost) THEN noise[q] ELSE latch[q]]
        /\ spoilt' = spoilt \cup Garbled(lost)
        /\ intact' = [u \in Threads |-> IF u = t THEN lost = {}
                                        ELSE intact[u] /\ ~Cut(u, {Bus(p)})]
  BY DEF Start
<1>1. PICK noise \in [Garbled(lost) -> SUBSET Bits] :
        /\ latch' = [q \in Ports |-> IF q \in Garbled(lost) THEN noise[q] ELSE latch[q]]
        /\ spoilt' = spoilt \cup Garbled(lost)
        /\ intact' = [u \in Threads |-> IF u = t THEN lost = {}
                                        ELSE intact[u] /\ ~Cut(u, {Bus(p)})]
  BY <1>0
<1>2. Garbled(lost) \subseteq Ports
  BY GarbledPorts
<1>3. latch' \in [Ports -> SUBSET Bits] /\ spoilt' \subseteq Ports
  BY <1>1, <1>2 DEF PortsOK
<1>4. \A u \in Threads : (IF u = t THEN lost = {} ELSE intact[u] /\ ~Cut(u, {Bus(p)})) \in BOOLEAN
  BY DEF ThreadsOK
<1>5. intact' \in [Threads -> BOOLEAN]
  BY <1>1, <1>4
<1>6. at' \in [Threads -> States] /\ port' \in [Threads -> Ports]
  BY DEF Start, ThreadsOK, States
<1>. QED  BY <1>3, <1>5, <1>6

LEMMA EndsTypes ==
  ASSUME ThreadsOK, NEW t \in Threads, NEW next \in States, NEW v \in BOOLEAN, Ends(t, next, v)
  PROVE  ThreadsOK'
<1>1. 1 \in Channels /\ 1 \in Ports
  BY DigitalAssumption DEF Channels, Ports
<1>2. at' \in [Threads -> States] /\ port' \in [Threads -> Ports]
  BY <1>1 DEF ThreadsOK, Ends
<1>3. call' \in [Threads -> Channels \X BOOLEAN]
  BY <1>1 DEF ThreadsOK, Ends
<1>4. value' \in [Threads -> SUBSET Bits]
  BY DEF ThreadsOK, Ends
<1>5. intact' \in [Threads -> BOOLEAN]
  BY DEF ThreadsOK, Ends
<1>. QED  BY <1>2, <1>3, <1>4, <1>5 DEF ThreadsOK

LEMMA WithBitType ==
  ASSUME PortsOK, NEW c \in Channels, NEW v \in BOOLEAN
  PROVE  WithBit(out_data, c, v) \in [Ports -> SUBSET Bits]
BY Places, BitType DEF PortsOK, WithBit

LEMMA WordDataType ==
  ASSUME PortsOK, NEW w
  PROVE  WordData(w) \in [Ports -> SUBSET Bits]
BY DEF PortsOK, WordData, data_invert_order, Byte

(* A setting of out_data, by a transfer of the shell.                      *)
LEMMA ShellTypes ==
  ASSUME TypesOK, NEW ports, NEW buses, ports \subseteq Ports,
         out_data' \in [Ports -> SUBSET Bits], ShellTransfers(ports, buses),
         UNCHANGED <<io, threads>>
  PROVE  FixedOK' /\ PortsOK' /\ ThreadsOK'
<1>1. /\ latch' \in [Ports -> SUBSET Bits] /\ spoilt' \subseteq Ports
      /\ intact' \in [Threads -> BOOLEAN]
  BY TransferTypes DEF TypesOK
<1>. QED  BY <1>1 DEF TypesOK, FixedOK, PortsOK, ThreadsOK, io, threads

LEMMA ShellNext ==
  ASSUME TypesOK, Shell
  PROVE  TypesOK'
<1>. USE DEF TypesOK
<1>1. CASE ShellSet
  <2>1. PICK c \in ShellOutputs, v \in BOOLEAN :
          /\ Event /\ Known(PortOf(c))
          /\ out_data' = WithBit(out_data, c, v)
          /\ ShellTransfers({PortOf(c)}, {Bus(PortOf(c))})
          /\ Asks(Nobody, {c}, IF v THEN {c} ELSE {}, {})
          /\ UNCHANGED <<relayVars, io, threads>>
    BY <1>1 DEF ShellSet
  <2>2. c \in Channels
    BY DigitalAssumption DEF Channels
  <2>3. out_data' \in [Ports -> SUBSET Bits] /\ {PortOf(c)} \subseteq Ports
    BY <2>1, <2>2, WithBitType, Places
  <2>4. FixedOK' /\ PortsOK' /\ ThreadsOK'
    BY <2>1, <2>3, ShellTypes
  <2>5. BookOK'
    BY <2>1, <2>2, EventType, AsksTypes DEF BookOK
  <2>. QED  BY <2>4, <2>5
<1>2. CASE writeoutputs
  <2>. DEFINE ports == {p \in Ports : Known(p)}
  <2>1. PICK w \in Words :
          /\ Event
          /\ out_data' = WordData(w)
          /\ ShellTransfers(ports, {Bus(p) : p \in ports})
          /\ Asks(Nobody, {c \in Channels : PortOf(c) \in ports}, AskedBy(w), Mirrored)
          /\ UNCHANGED <<relayVars, io, threads>>
    BY <1>2 DEF writeoutputs
  <2>2. out_data' \in [Ports -> SUBSET Bits] /\ ports \subseteq Ports
    BY <2>1, WordDataType
  <2>3. AskedBy(w) \subseteq Channels /\ Mirrored \subseteq Channels
    BY DEF AskedBy, Mirrored
  <2>. HIDE DEF ports
  <2>4. FixedOK' /\ PortsOK' /\ ThreadsOK'
    BY <2>1, <2>2, ShellTypes
  <2>5. BookOK'
    BY <2>1, <2>3, EventType, AsksTypes DEF BookOK
  <2>. QED  BY <2>4, <2>5
<1>3. CASE readinputs \/ EepromAccess
  <2>1. /\ Event /\ UNCHANGED <<io, memory, threads>>
        /\ \E buses : ShellTransfers({}, buses)
    BY <1>3 DEF readinputs, EepromAccess
  <2>2. out_data' \in [Ports -> SUBSET Bits]
    BY <2>1 DEF memory, PortsOK
  <2>3. FixedOK' /\ PortsOK' /\ ThreadsOK'
    BY <2>1, <2>2, ShellTypes
  <2>. QED  BY <2>1, <2>3, EventType DEF BookOK, memory
<1>4. CASE ShellRelay
  BY <1>4, EventType
     DEF ShellRelay, FixedOK, PortsOK, ThreadsOK, BookOK, io, memory, wires, threads
<1>5. CASE board_debug
  <2>1. at' \in [Threads -> States]
    BY <1>5 DEF board_debug, ThreadsOK, States
  <2>. QED  BY <1>5, <2>1, EventType
            DEF board_debug, FixedOK, PortsOK, ThreadsOK, BookOK, io, memory, wires
<1>. QED  BY <1>1, <1>2, <1>3, <1>4, <1>5 DEF Shell

LEMMA BeginInputTypes ==
  ASSUME TypesOK, NEW t \in Threads, NEW c \in Channels, BeginInput(t, c)
  PROVE  FixedOK' /\ PortsOK' /\ ThreadsOK'
<1>1. 1 \in Ports /\ Start(t, 1, "reading")
  BY DEF Ports, BeginInput
<1>2. /\ latch' \in [Ports -> SUBSET Bits] /\ spoilt' \subseteq Ports
      /\ intact' \in [Threads -> BOOLEAN]
      /\ at' \in [Threads -> States] /\ port' \in [Threads -> Ports]
  BY <1>1, StartTypes DEF TypesOK
<1>3. call' \in [Threads -> Channels \X BOOLEAN]
  BY DEF BeginInput, TypesOK, ThreadsOK
<1>. QED  BY <1>2, <1>3 DEF BeginInput, TypesOK, FixedOK, PortsOK, ThreadsOK, io, memory

LEMMA LoadTypes ==
  ASSUME TypesOK, NEW t \in Threads, NEW c \in Channels, NEW v \in BOOLEAN, Load(t, c, v)
  PROVE  /\ FixedOK' /\ PortsOK' /\ ThreadsOK'
         /\ UNCHANGED <<asked, undone>> /\ since' \in [Threads -> SUBSET Channels]
<1>1. WithBit(out_data, c, v)[PortOf(c)] \in SUBSET Bits
  BY WithBitType, Places DEF TypesOK
<1>2. value' \in [Threads -> SUBSET Bits]
  BY <1>1 DEF Load, TypesOK, ThreadsOK
<1>3. call' \in [Threads -> Channels \X BOOLEAN]
  BY DEF Load, TypesOK, ThreadsOK
<1>4. at' \in [Threads -> States]
  BY DEF Load, TypesOK, ThreadsOK, States
<1>5. since' \in [Threads -> SUBSET Channels]
  BY DEF Load, TypesOK, BookOK
<1>. QED  BY <1>2, <1>3, <1>4, <1>5
          DEF Load, TypesOK, FixedOK, PortsOK, ThreadsOK, io, wires

LEMMA TransferNext ==
  ASSUME TypesOK, NEW t \in Threads, Transfer(t)
  PROVE  TypesOK'
<1>. USE DEF TypesOK
<1>. DEFINE c == call[t][1]
<1>0. c \in Channels /\ call[t][2] \in BOOLEAN /\ PortOf(c) \in Ports
  BY Places DEF ThreadsOK
<1>1. CASE EndInput(t)
  <2>1. FixedOK' /\ BookOK'
    BY <1>1 DEF EndInput, FixedOK, BookOK, io, memory
  <2>2. PICK v \in Sampled(t) :
           \/ /\ call' = [call EXCEPT ![t] = <<c, v>>]
              /\ \E p \in NextPort(port[t], c) : Start(t, p, "reading")
              /\ UNCHANGED value
           \/ /\ NextPort(port[t], c) = {}
              /\ IF t = "ProjectApp" THEN Ends(t, "ready", FALSE) ELSE Ends(t, "sampled", v)
              /\ UNCHANGED <<latch, spoilt>>
    BY <1>1 DEF EndInput
  <2>3. v \in BOOLEAN
    <3>1. \/ Sampled(t) = {call[t][2]} \/ Sampled(t) = BOOLEAN
          \/ Sampled(t) = {InputBit(c) \in field[port[t]]}
      BY DEF Sampled
    <3>2. CASE Sampled(t) = {call[t][2]} \/ Sampled(t) = BOOLEAN
      BY <1>0, <2>2, <3>2
    <3>3. CASE Sampled(t) = {InputBit(c) \in field[port[t]]}
      <4>1. (InputBit(c) \in field[port[t]]) \in BOOLEAN
        OBVIOUS
      <4>. QED  BY <2>2, <3>3, <4>1, Zenon
    <3>. QED  BY <3>1, <3>2, <3>3
  <2>4. CASE Ends(t, "ready", FALSE) /\ UNCHANGED <<latch, spoilt>>
    <3>1. "ready" \in States
      BY DEF States
    <3>. QED  BY <1>1, <2>1, <2>4, <3>1, EndsTypes DEF PortsOK, EndInput, memory, io
  <2>5. CASE Ends(t, "sampled", v) /\ UNCHANGED <<latch, spoilt>>
    <3>1. "sampled" \in States
      BY DEF States
    <3>. QED  BY <1>1, <2>1, <2>3, <2>5, <3>1, EndsTypes DEF PortsOK, EndInput, memory, io
  <2>6. CASE /\ call' = [call EXCEPT ![t] = <<c, v>>]
             /\ \E p \in NextPort(port[t], c) : Start(t, p, "reading")
             /\ UNCHANGED value
    <3>1. PICK p \in NextPort(port[t], c) : Start(t, p, "reading")
      BY <2>6
    <3>2. p \in Ports
      BY <1>0, <3>1 DEF NextPort, Ports
    <3>3. /\ latch' \in [Ports -> SUBSET Bits] /\ spoilt' \subseteq Ports
          /\ intact' \in [Threads -> BOOLEAN]
          /\ at' \in [Threads -> States] /\ port' \in [Threads -> Ports]
      BY <3>1, <3>2, StartTypes
    <3>4. call' \in [Threads -> Channels \X BOOLEAN]
      BY <1>0, <2>3, <2>6 DEF ThreadsOK
    <3>. QED  BY <1>1, <2>1, <2>6, <3>3, <3>4 DEF PortsOK, ThreadsOK, EndInput, memory, io
  <2>. QED  BY <2>2, <2>4, <2>5, <2>6
<1>2. CASE Store(t)
  <2>1. /\ out_data' = [out_data EXCEPT ![PortOf(c)] = value[t]]
        /\ Asks(t, {c}, IF call[t][2] THEN {c} ELSE {},
                {d \in since[t] : PortOf(d) = PortOf(c)} \ {c})
        /\ at' = [at EXCEPT ![t] = "stored"]
        /\ UNCHANGED <<relayVars, io, wires, call, value, port, events>>
    BY <1>2 DEF Store
  <2>2. PortsOK'
    BY <1>0, <2>1 DEF PortsOK, ThreadsOK, wires, io
  <2>3. at' \in [Threads -> States]
    BY <2>1 DEF ThreadsOK, States
  <2>4. ThreadsOK'
    BY <2>1, <2>3 DEF ThreadsOK, wires
  <2>5. since[t] \subseteq Channels
    BY DEF BookOK
  <2>6. BookOK'
    BY <1>0, <2>1, <2>5, AsksTypes DEF BookOK
  <2>. QED  BY <2>1, <2>2, <2>4, <2>6 DEF FixedOK, io
<1>3. CASE BeginOutput(t)
  <2>1. Start(t, PortOf(c), "writing") /\ UNCHANGED <<relayVars, io, memory, call, value, events>>
    BY <1>3 DEF BeginOutput
  <2>2. /\ latch' \in [Ports -> SUBSET Bits] /\ spoilt' \subseteq Ports
        /\ intact' \in [Threads -> BOOLEAN]
        /\ at' \in [Threads -> States] /\ port' \in [Threads -> Ports]
    BY <1>0, <2>1, StartTypes
  <2>. QED  BY <2>1, <2>2 DEF FixedOK, PortsOK, ThreadsOK, BookOK, io, memory
<1>4. CASE EndOutput(t)
  <2>1. "ready" \in States
    BY DEF States
  <2>2. ThreadsOK'
    BY <1>4, <2>1, EndsTypes DEF EndOutput
  <2>3. PortsOK'
    BY <1>4 DEF EndOutput, Sent, PortsOK, ThreadsOK, memory
  <2>4. echo % (4 * Width) \in 0..(4 * Width - 1)
    <3>1. echo \in Nat /\ 4 * Width \in Nat \ {0}
      BY DigitalAssumption DEF FixedOK, Channels
    <3>. QED  BY <3>1
  <2>5. (echo % (4 * Width)) + 1 \in Channels
    BY <2>4, DigitalAssumption DEF Channels
  <2>6. FixedOK'
    BY <1>4, <2>5 DEF EndOutput, FixedOK
  <2>. QED  BY <1>4, <2>2, <2>3, <2>6 DEF EndOutput, BookOK, memory
<1>. QED  BY <1>1, <1>2, <1>3, <1>4 DEF Transfer

LEMMA RestartTypes ==
  ASSUME TypesOK, NEW e, Restart(e)
  PROVE  ThreadsOK' /\ asked' \subseteq Channels /\ undone' \subseteq Channels
         /\ since' \in [Threads -> SUBSET Channels] /\ echo' \in Channels
         /\ out_data' \in [Ports -> SUBSET Bits]
<1>1. 1 \in Channels /\ 1 \in Ports
  BY DigitalAssumption DEF Channels, Ports
<1>2. at' \in [Threads -> States]
  BY DEF Restart, States
<1>3. call' \in [Threads -> Channels \X BOOLEAN]
  BY <1>1 DEF Restart
<1>4. /\ value' \in [Threads -> SUBSET Bits] /\ port' \in [Threads -> Ports]
      /\ intact' \in [Threads -> BOOLEAN]
  BY <1>1 DEF Restart
<1>. QED  BY <1>1, <1>2, <1>3, <1>4 DEF Restart, ThreadsOK, EmptyPorts

LEMMA TypesNext == TypesOK /\ [Next]_vars => TypesOK'
<1>. SUFFICES ASSUME TypesOK, [Next]_vars  PROVE TypesOK'
  OBVIOUS
<1>. USE DEF TypesOK
<1>1. CASE Shell
  BY <1>1, ShellNext
<1>2. CASE Transfer("ProjectApp") \/ Transfer("board_debug")
  BY <1>2, TransferNext DEF Threads
<1>3. CASE AppCalls
  <2>1. events' \in 0..MaxEvents
    BY <1>3, EventType DEF AppCalls
  <2>2. CASE BeginInput("ProjectApp", 1)
    <3>1. 1 \in Channels
      BY DigitalAssumption DEF Channels
    <3>2. FixedOK' /\ PortsOK' /\ ThreadsOK'
      BY <2>2, <3>1, BeginInputTypes DEF Threads
    <3>. QED  BY <2>1, <2>2, <3>2 DEF BeginInput, BookOK, memory
  <2>3. CASE \E c \in AppOutputs, v \in BOOLEAN : Load("ProjectApp", c, v)
    <3>1. PICK c \in AppOutputs, v \in BOOLEAN : Load("ProjectApp", c, v)
      BY <2>3
    <3>2. c \in Channels
      BY DigitalAssumption DEF Channels
    <3>. QED  BY <2>1, <3>1, <3>2, LoadTypes DEF Threads, BookOK
  <2>. QED  BY <1>3, <2>2, <2>3 DEF AppCalls
<1>4. CASE input_trigger_output
  <2>1. events' \in 0..MaxEvents
    BY <1>4 DEF input_trigger_output, BookOK
  <2>2. CASE BeginInput("board_debug", echo)
    <3>1. FixedOK' /\ PortsOK' /\ ThreadsOK'
      BY <2>2, BeginInputTypes DEF Threads, FixedOK
    <3>. QED  BY <2>1, <2>2, <3>1 DEF BeginInput, BookOK, memory
  <2>3. CASE Load("board_debug", EchoOutput, EchoValue)
    <3>1. echo - 1 \in Nat /\ 2 * Width \in Nat \ {0}
      BY DigitalAssumption DEF FixedOK, Channels
    <3>2. (echo - 1) % (2 * Width) \in 0..(2 * Width - 1)
      BY <3>1
    <3>3. EchoOutput \in Channels
      BY <3>2, DigitalAssumption DEF EchoOutput, Channels
    <3>4. EchoValue \in BOOLEAN
      BY DEF EchoValue
    <3>. QED  BY <2>1, <2>3, <3>3, <3>4, LoadTypes DEF Threads, BookOK
  <2>. QED  BY <1>4, <2>2, <2>3 DEF input_trigger_output
<1>5. CASE Reset
  <2>1. PICK busy \in SUBSET {b \in {Bus(p) : p \in Ports} : Victims(b) # {}} :
          /\ latch' = [p \in Ports |-> IF Stuck(busy, p) THEN latch[p] ELSE {}]
          /\ spoilt' = {p \in Ports : Stuck(busy, p)}
          /\ Restart(IF busy \cap {3, 4} = {} THEN fitted ELSE "none")
    BY <1>5 DEF Reset
  <2>2. PICK e \in {fitted, "none"} : Restart(e)
    BY <2>1
  <2>3. /\ ThreadsOK' /\ asked' \subseteq Channels /\ undone' \subseteq Channels
        /\ since' \in [Threads -> SUBSET Channels] /\ echo' \in Channels
        /\ out_data' \in [Ports -> SUBSET Bits]
    BY <2>2, RestartTypes
  <2>4. latch' \in [Ports -> SUBSET Bits] /\ spoilt' \subseteq Ports
    BY <2>1 DEF PortsOK
  <2>5. FixedOK'
    BY <1>5, <2>2, <2>3 DEF Reset, Restart, FixedOK
  <2>6. BookOK'
    BY <1>5, <2>3, EventType DEF Reset, BookOK
  <2>. QED  BY <1>5, <2>3, <2>4, <2>5, <2>6 DEF Reset, PortsOK
<1>6. CASE Sense
  <2>1. PICK c \in Sensors :
          field' = [field EXCEPT ![PortOf(c)] =
                      IF InputBit(c) \in @ THEN @ \ {InputBit(c)} ELSE @ \cup {InputBit(c)}]
    BY <1>6 DEF Sense
  <2>2. InputBit(c) \in Bits
    BY BitType, DigitalAssumption
  <2>3. field' \in [Ports -> SUBSET Bits]
    BY <2>1, <2>2 DEF PortsOK
  <2>. QED  BY <1>6, <2>3, EventType
            DEF Sense, FixedOK, PortsOK, ThreadsOK, BookOK, memory, wires, threads
<1>7. CASE AttachRelays
  BY <1>7, EventType
     DEF AttachRelays, FixedOK, PortsOK, ThreadsOK, BookOK, io, memory, wires, threads
<1>8. CASE UNCHANGED vars
  BY <1>8 DEF vars, FixedOK, PortsOK, ThreadsOK, BookOK, io, memory, wires, threads
<1>. QED  BY <1>1, <1>2, <1>3, <1>4, <1>5, <1>6, <1>7, <1>8 DEF Next, ProjectApp, Echo

LEMMA TypesInit == Init => TypesOK
<1>. SUFFICES ASSUME Init  PROVE TypesOK
  OBVIOUS
<1>1. 1 \in Channels /\ 1 \in Ports
  BY DigitalAssumption DEF Channels, Ports
<1>2. FixedOK
  BY <1>1 DEF Init, FixedOK
<1>3. PortsOK
  BY DEF Init, PortsOK, EmptyPorts
<1>4. at \in [Threads -> States]
  BY DEF Init, States
<1>5. ThreadsOK
  BY <1>1, <1>4 DEF Init, ThreadsOK
<1>6. BookOK
  BY DigitalAssumption DEF Init, BookOK
<1>. QED  BY <1>2, <1>3, <1>5, <1>6 DEF TypesOK

(* Every variable keeps its type.                                          *)
THEOREM DigitalTypes == Spec => []TypeOK
<1>1. Init => RelayOK
  BY DEF Init, RelayInit, RelayOK, RelayTypeOK, RelaysReported
<1>2. RelayOK /\ TypesOK => TypeOK
  BY DEF RelayOK, TypesOK, FixedOK, PortsOK, ThreadsOK, BookOK, States, TypeOK
<1>. QED  BY <1>1, <1>2, RelayNext, TypesInit, TypesNext, PTL DEF Spec

-----------------------------------------------------------------------------
(* The latches follow out_data.  A thread that writes a port writes the    *)
(* port of its call, so the one it is done with is the one it was about.   *)
WritesItsPort == \A t \in Threads : at[t] = "writing" => port[t] = PortOf(call[t][1])

LatchOK == TypesOK /\ WritesItsPort /\ LatchFollows

LEMMA LatchTransfer ==
  ASSUME LatchOK, NEW ports, NEW buses, ports \subseteq Ports,
         out_data' \in [Ports -> SUBSET Bits], ShellTransfers(ports, buses),
         \A p \in Ports \ ports : out_data'[p] = out_data[p],
         UNCHANGED <<ext, at, call, port>>
  PROVE  WritesItsPort' /\ LatchFollows'
<1>. DEFINE missed(L) == {p \in ports : Bus(p) \in L
                                    /\ \A q \in ports : Bus(q) = Bus(p) => p <= q}
             landed(L) == ports \ missed(L)
<1>1. PICK lost \in Unseen(buses) : \E noise \in [Garbled(lost) -> SUBSET Bits] :
            /\ latch' = [p \in Ports |->
                 CASE p \in landed(lost) -> out_data'[p]
                   [] p \in Garbled(lost) \ landed(lost) -> noise[p]
                   [] OTHER -> latch[p]]
            /\ spoilt' = (spoilt \ landed(lost)) \cup missed(lost)
                           \cup (Garbled(lost) \ landed(lost))
  BY DEF ShellTransfers
<1>. DEFINE m == missed(lost)  n == landed(lost)  g == Garbled(lost)
<1>2. \A p \in Ports : p \in n => latch'[p] = out_data'[p]
  BY <1>1
<1>3. \A p \in Ports : p \notin n /\ p \notin g => latch'[p] = latch[p]
  BY <1>1
<1>4. spoilt' = (spoilt \ n) \cup m \cup (g \ n) /\ n = ports \ m
  BY <1>1
<1>. HIDE DEF m, n, g
<1>5. ASSUME NEW p \in Ports, Known(p)', p \notin spoilt', ~Writing(p)'
      PROVE  latch'[p] = out_data'[p]
  <2>1. CASE p \in n
    BY <1>2, <2>1
  <2>2. CASE p \notin n
    <3>1. p \notin g /\ p \notin spoilt /\ p \notin ports
      BY <1>4, <1>5, <2>2
    <3>2. Known(p) /\ ~Writing(p)
      BY <1>5 DEF Known, Writing
    <3>. QED  BY <1>3, <2>2, <3>1, <3>2 DEF LatchOK, LatchFollows
  <2>. QED  BY <2>1, <2>2
<1>6. LatchFollows'
  BY <1>5 DEF LatchFollows
<1>. QED  BY <1>6 DEF LatchOK, WritesItsPort

LEMMA LatchStart ==
  ASSUME LatchOK, NEW t \in Threads, NEW p \in Ports, NEW kind, Start(t, p, kind),
         UNCHANGED <<ext, out_data>>, \A q \in Ports : Writing(q) => Writing(q)'
  PROVE  LatchFollows'
<1>1. PICK lost \in Unseen({Bus(p)}) : \E noise \in [Garbled(lost) -> SUBSET Bits] :
        /\ latch' = [q \in Ports |-> IF q \in Garbled(lost) THEN noise[q] ELSE latch[q]]
        /\ spoilt' = spoilt \cup Garbled(lost)
  BY DEF Start
<1>2. \A q \in Ports : q \notin spoilt' => q \notin spoilt /\ latch'[q] = latch[q]
  BY <1>1
<1>3. \A q \in Ports : Known(q)' => Known(q)
  BY DEF Known
<1>. QED  BY <1>2, <1>3 DEF LatchOK, LatchFollows

(* Nothing the latches depend on is touched.                               *)
LEMMA LatchStays ==
  ASSUME LatchOK, UNCHANGED <<ext, out_data, latch, spoilt>>,
         \A q \in Ports : Writing(q) => Writing(q)'
  PROVE  LatchFollows'
BY DEF LatchOK, LatchFollows, Known

LEMMA LatchNext ==
  ASSUME LatchOK, [Next]_vars
  PROVE  WritesItsPort' /\ LatchFollows'
<1>. USE DEF LatchOK
<1>1. CASE ShellSet
  <2>1. PICK c \in ShellOutputs, v \in BOOLEAN :
          /\ out_data' = WithBit(out_data, c, v)
          /\ ShellTransfers({PortOf(c)}, {Bus(PortOf(c))})
          /\ UNCHANGED <<io, threads>>
    BY <1>1 DEF ShellSet
  <2>2. c \in Channels
    BY DigitalAssumption DEF Channels
  <2>3. out_data' \in [Ports -> SUBSET Bits] /\ PortOf(c) \in Ports
    BY <2>1, <2>2, WithBitType, Places DEF TypesOK
  <2>4. \A p \in Ports \ {PortOf(c)} : out_data'[p] = out_data[p]
    BY <2>1 DEF WithBit, TypesOK, PortsOK
  <2>. QED  BY <2>1, <2>3, <2>4, LatchTransfer DEF io, threads
<1>2. CASE writeoutputs
  <2>. DEFINE ports == {p \in Ports : Known(p)}
  <2>1. PICK w \in Words :
          /\ out_data' = WordData(w)
          /\ ShellTransfers(ports, {Bus(p) : p \in ports})
          /\ UNCHANGED <<io, threads>>
    BY <1>2 DEF writeoutputs
  <2>2. out_data' \in [Ports -> SUBSET Bits] /\ ports \subseteq Ports
    BY <2>1, WordDataType DEF TypesOK
  <2>3. \A p \in Ports \ ports : out_data'[p] = out_data[p]
    BY <2>1 DEF WordData
  <2>. HIDE DEF ports
  <2>. QED  BY <2>1, <2>2, <2>3, LatchTransfer DEF io, threads
<1>3. CASE readinputs \/ EepromAccess
  <2>1. PICK buses : ShellTransfers({}, buses) /\ UNCHANGED <<io, memory, threads>>
    BY <1>3 DEF readinputs, EepromAccess
  <2>2. out_data' \in [Ports -> SUBSET Bits] /\ out_data' = out_data
    BY <2>1 DEF memory, TypesOK, PortsOK
  <2>. QED  BY <2>1, <2>2, LatchTransfer DEF io, threads
<1>4. CASE ShellRelay \/ Sense \/ AttachRelays \/ UNCHANGED vars
  <2>1. UNCHANGED <<ext, out_data, latch, spoilt, at, call, port>>
    BY <1>4 DEF ShellRelay, Sense, AttachRelays, vars, io, memory, wires, threads
  <2>2. \A q \in Ports : Writing(q) => Writing(q)'
    BY <2>1 DEF Writing
  <2>. QED  BY <2>1, <2>2, LatchStays DEF WritesItsPort
<1>5. CASE board_debug
  <2>1. UNCHANGED <<ext, out_data, latch, spoilt, call, port>>
    BY <1>5 DEF board_debug, io, memory, wires
  <2>2. at["board_debug"] = "off" /\ at' = [at EXCEPT !["board_debug"] = "ready"]
    BY <1>5 DEF board_debug
  <2>3. \A q \in Ports : Writing(q) => Writing(q)'
    BY <2>1, <2>2 DEF Writing, TypesOK, ThreadsOK
  <2>4. WritesItsPort'
    BY <2>1, <2>2 DEF WritesItsPort, TypesOK, ThreadsOK
  <2>. QED  BY <2>1, <2>3, <2>4, LatchStays
<1>6. ASSUME NEW t \in Threads, NEW c \in Channels, BeginInput(t, c)
      PROVE  WritesItsPort' /\ LatchFollows'
  <2>1. /\ at[t] = "ready" /\ at' = [at EXCEPT ![t] = "reading"]
        /\ call' = [call EXCEPT ![t] = <<c, FALSE>>] /\ port' = [port EXCEPT ![t] = 1]
        /\ Start(t, 1, "reading") /\ UNCHANGED <<ext, out_data>> /\ 1 \in Ports
    BY <1>6 DEF BeginInput, Start, io, memory, Ports
  <2>2. \A q \in Ports : Writing(q) => Writing(q)'
    BY <2>1 DEF Writing, TypesOK, ThreadsOK
  <2>3. WritesItsPort'
    BY <2>1 DEF WritesItsPort, TypesOK, ThreadsOK
  <2>. QED  BY <2>1, <2>2, <2>3, LatchStart
<1>7. ASSUME NEW t \in Threads, NEW c \in Channels, NEW v, Load(t, c, v),
             at[t] \in {"ready", "sampled"}
      PROVE  WritesItsPort' /\ LatchFollows'
  <2>1. /\ at' = [at EXCEPT ![t] = "loaded"] /\ call' = [call EXCEPT ![t] = <<c, v>>]
        /\ UNCHANGED <<ext, out_data, latch, spoilt, port>>
    BY <1>7 DEF Load, io, wires
  <2>2. \A q \in Ports : Writing(q) => Writing(q)'
    BY <1>7, <2>1 DEF Writing, TypesOK, ThreadsOK
  <2>3. WritesItsPort'
    BY <2>1 DEF WritesItsPort, TypesOK, ThreadsOK
  <2>. QED  BY <2>1, <2>2, <2>3, LatchStays
<1>8. ASSUME NEW t \in Threads, EndInput(t)
      PROVE  WritesItsPort' /\ LatchFollows'
  <2>. DEFINE c == call[t][1]
  <2>0. at[t] = "reading" /\ UNCHANGED <<ext, out_data>>
    BY <1>8 DEF EndInput, io, memory
  <2>1. CASE \E v : call' = [call EXCEPT ![t] = <<c, v>>] /\
                    \E p \in NextPort(port[t], c) : Start(t, p, "reading")
    <3>1. PICK v : call' = [call EXCEPT ![t] = <<c, v>>] /\
                   \E p \in NextPort(port[t], c) : Start(t, p, "reading")
      BY <2>1
    <3>2. PICK p \in NextPort(port[t], c) : Start(t, p, "reading")
      BY <3>1
    <3>3. PortOf(c) \in Ports
      BY Places DEF TypesOK, ThreadsOK
    <3>4. p \in Ports
      BY <3>2, <3>3 DEF NextPort, Ports
    <3>5. at' = [at EXCEPT ![t] = "reading"] /\ port' = [port EXCEPT ![t] = p]
      BY <3>2 DEF Start
    <3>6. \A q \in Ports : Writing(q) => Writing(q)'
      BY <2>0, <3>1, <3>5 DEF Writing, TypesOK, ThreadsOK
    <3>7. WritesItsPort'
      BY <3>1, <3>5 DEF WritesItsPort, TypesOK, ThreadsOK
    <3>. QED  BY <2>0, <3>2, <3>4, <3>6, <3>7, LatchStart
  <2>2. CASE \E s \in {"ready", "sampled"} : \E v : Ends(t, s, v) /\ UNCHANGED <<latch, spoilt>>
    <3>. PICK s \in {"ready", "sampled"} : \E v : Ends(t, s, v) /\ UNCHANGED <<latch, spoilt>>
      BY <2>2
    <3>1. PICK v : Ends(t, s, v) /\ UNCHANGED <<latch, spoilt>>
      OBVIOUS
    <3>2. /\ at' = [at EXCEPT ![t] = s] /\ call' = [call EXCEPT ![t] = <<1, v>>]
          /\ port' = [port EXCEPT ![t] = 1]
      BY <3>1 DEF Ends
    <3>3. \A q \in Ports : Writing(q) => Writing(q)'
      BY <2>0, <3>2 DEF Writing, TypesOK, ThreadsOK
    <3>4. WritesItsPort'
      BY <3>2 DEF WritesItsPort, TypesOK, ThreadsOK
    <3>. QED  BY <2>0, <3>1, <3>3, <3>4, LatchStays
  <2>. QED  BY <1>8, <2>1, <2>2 DEF EndInput
<1>9. ASSUME NEW t \in Threads, Store(t)
      PROVE  WritesItsPort' /\ LatchFollows'
  <2>. DEFINE P == PortOf(call[t][1])
  <2>1. /\ at[t] = "loaded" /\ at' = [at EXCEPT ![t] = "stored"]
        /\ out_data' = [out_data EXCEPT ![P] = value[t]]
        /\ UNCHANGED <<ext, latch, spoilt, call, port>>
    BY <1>9 DEF Store, io, wires
  <2>2. WritesItsPort'
    BY <2>1 DEF WritesItsPort, TypesOK, ThreadsOK
  <2>3. ASSUME NEW p \in Ports, Known(p)', p \notin spoilt', ~Writing(p)'
        PROVE  latch'[p] = out_data'[p]
    <3>1. p # P
      BY <2>1, <2>3 DEF Writing, TypesOK, ThreadsOK
    <3>2. ~Writing(p)
      BY <2>1, <2>3 DEF Writing, TypesOK, ThreadsOK
    <3>3. Known(p) /\ p \notin spoilt
      BY <2>1, <2>3 DEF Known
    <3>. QED  BY <2>1, <3>1, <3>2, <3>3 DEF LatchFollows, TypesOK, PortsOK
  <2>. QED  BY <2>2, <2>3 DEF LatchFollows
<1>10. ASSUME NEW t \in Threads, BeginOutput(t)
       PROVE  WritesItsPort' /\ LatchFollows'
  <2>. DEFINE P == PortOf(call[t][1])
  <2>1. /\ at[t] = "stored" /\ Start(t, P, "writing")
        /\ at' = [at EXCEPT ![t] = "writing"] /\ port' = [port EXCEPT ![t] = P]
        /\ UNCHANGED <<ext, out_data, call>>
    BY <1>10 DEF BeginOutput, Start, io, memory
  <2>2. P \in Ports
    BY Places DEF TypesOK, ThreadsOK
  <2>3. \A q \in Ports : Writing(q) => Writing(q)'
    BY <2>1 DEF Writing, TypesOK, ThreadsOK
  <2>4. WritesItsPort'
    BY <2>1 DEF WritesItsPort, TypesOK, ThreadsOK
  <2>. QED  BY <2>1, <2>2, <2>3, <2>4, LatchStart
<1>11. ASSUME NEW t \in Threads, EndOutput(t)
       PROVE  WritesItsPort' /\ LatchFollows'
  <2>. DEFINE P == port[t]
  <2>1. /\ at[t] = "writing" /\ at' = [at EXCEPT ![t] = "ready"]
        /\ call' = [call EXCEPT ![t] = <<1, FALSE>>] /\ port' = [port EXCEPT ![t] = 1]
        /\ UNCHANGED <<ext, out_data>>
    BY <1>11 DEF EndOutput, Ends, memory
  <2>2. P = PortOf(call[t][1]) /\ P \in Ports
    BY <2>1 DEF WritesItsPort, TypesOK, ThreadsOK
  <2>3. WritesItsPort'
    BY <2>1 DEF WritesItsPort, TypesOK, ThreadsOK
  <2>4. ASSUME NEW p \in Ports, Known(p)', p \notin spoilt', ~Writing(p)'
        PROVE  latch'[p] = out_data'[p]
    <3>1. CASE p = P
      BY <1>11, <2>1, <2>2, <2>4, <3>1 DEF EndOutput, Sent, TypesOK, PortsOK
    <3>2. CASE p # P
      <4>1. ~Writing(p)
        BY <2>1, <2>2, <2>4, <3>2 DEF Writing, TypesOK, ThreadsOK
      <4>2. p \notin spoilt /\ latch'[p] = latch[p]
        BY <1>11, <2>4, <3>2 DEF EndOutput, TypesOK, PortsOK
      <4>3. Known(p)
        BY <2>1, <2>4 DEF Known
      <4>. QED  BY <2>1, <4>1, <4>2, <4>3 DEF LatchFollows
    <3>. QED  BY <3>1, <3>2
  <2>. QED  BY <2>3, <2>4 DEF LatchFollows
<1>12. CASE Reset
  <2>1. PICK busy, e :
          /\ latch' = [p \in Ports |-> IF Stuck(busy, p) THEN latch[p] ELSE {}]
          /\ spoilt' = {p \in Ports : Stuck(busy, p)}
          /\ Restart(e)
    BY <1>12 DEF Reset
  <2>2. WritesItsPort'
    BY <2>1 DEF Restart, WritesItsPort
  <2>. QED  BY <2>1, <2>2 DEF Restart, EmptyPorts, LatchFollows
<1>13. CASE AppCalls
  <2>1. 1 \in Channels /\ AppOutputs \subseteq Channels
    BY DigitalAssumption DEF Channels
  <2>. QED  BY <1>6, <1>7, <1>13, <2>1 DEF AppCalls, Threads
<1>14. CASE input_trigger_output
  <2>1. echo \in Channels
    BY DEF TypesOK, FixedOK
  <2>2. EchoOutput \in Channels
    <3>1. echo - 1 \in Nat /\ 2 * Width \in Nat \ {0}
      BY <2>1, DigitalAssumption DEF Channels
    <3>2. (echo - 1) % (2 * Width) \in 0..(2 * Width - 1)
      BY <3>1
    <3>. QED  BY <3>2, DigitalAssumption DEF EchoOutput, Channels
  <2>. QED  BY <1>6, <1>7, <1>14, <2>1, <2>2 DEF input_trigger_output, Threads
<1>15. CASE Transfer("ProjectApp") \/ Transfer("board_debug")
  BY <1>8, <1>9, <1>10, <1>11, <1>15 DEF Transfer, Threads
<1>. QED  BY <1>1, <1>2, <1>3, <1>4, <1>5, <1>12, <1>13, <1>14, <1>15
          DEF Next, Shell, ProjectApp, Echo

(* Whatever the threads do to each other's calls, a port that no call is   *)
(* about to write and whose last transfer went well drives out_data.       *)
THEOREM LatchesFollow == Spec => []LatchFollows
<1>1. Init => LatchOK
  BY TypesInit DEF Init, LatchOK, WritesItsPort, LatchFollows
<1>2. LatchOK /\ [Next]_vars => LatchOK'
  BY LatchNext, TypesNext DEF LatchOK
<1>3. LatchOK => LatchFollows
  BY DEF LatchOK
<1>. QED  BY <1>1, <1>2, <1>3, PTL DEF Spec

-----------------------------------------------------------------------------
(* Outputs read back.  First the arithmetic: two outputs of a port have    *)
(* different bits, and a word puts an output where its own bit is.         *)
LEMMA BitInjective ==
  ASSUME NEW c \in Channels, NEW d \in Channels, PortOf(c) = PortOf(d), BitOf(c) = BitOf(d)
  PROVE  c = d
<1>. DEFINE j == (c - 1) % Width  k == (d - 1) % Width
<1>1. j \in Bits /\ k \in Bits /\ Width \in Nat
  BY Places, DigitalAssumption
<1>2. c = (PortOf(c) - 1) * Width + j + 1 /\ d = (PortOf(c) - 1) * Width + k + 1
  BY Places
<1>3. j = k \/ Width - 1 - j = Width - 1 - k
  BY DEF BitOf
<1>. HIDE DEF j, k
<1>4. j = k
  BY <1>1, <1>3 DEF Bits
<1>. QED  BY <1>2, <1>4

LEMMA WordAsks ==
  ASSUME FixedOK, NEW w, NEW c \in Channels \ Mirrored, Known(PortOf(c))
  PROVE  BitOf(c) \in WordData(w)[PortOf(c)] <=> c \in AskedBy(w)
<1>. DEFINE p == PortOf(c)  k == (c - 1) % Width
<1>1. p \in Ports /\ k \in Bits /\ c - 1 = (p - 1) * Width + k /\ Width \in Nat
  <2>1. p \in Ports /\ k \in Bits /\ c = (p - 1) * Width + k + 1 /\ Width \in Nat
    BY Places, DigitalAssumption
  <2>2. (p - 1) * Width \in Int
    BY <2>1 DEF Ports
  <2>. HIDE DEF p, k
  <2>. QED  BY <2>1, <2>2 DEF Bits, Channels
<1>2. BitOf(c) = IF TopDown(p) THEN Width - 1 - k ELSE k
  BY DEF BitOf
<1>3. WordData(w)[p] = IF p \in {2, 3} THEN data_invert_order(Byte(w, p)) ELSE Byte(w, p)
  BY <1>1 DEF WordData
<1>4. c \in AskedBy(w) <=> c - 1 \in w
  BY DEF AskedBy
<1>5. p = 3 => ext = "FBJFFB1615CN1"
  BY DigitalAssumption DEF FixedOK, Known, Mirrored
<1>. HIDE DEF p, k
<1>6. Width - 1 - k \in Bits /\ Width - 1 - (Width - 1 - k) = k
  BY <1>1 DEF Bits
<1>7. (k \in Byte(w, p) <=> (p - 1) * Width + k \in w)
      /\ (Width - 1 - k \in data_invert_order(Byte(w, p)) <=> (p - 1) * Width + k \in w)
  BY <1>1, <1>6 DEF Byte, data_invert_order
<1>. DEFINE here == (p - 1) * Width + k \in w
<1>8. (c - 1 \in w <=> here)
      /\ (k \in Byte(w, p) <=> here)
      /\ (Width - 1 - k \in data_invert_order(Byte(w, p)) <=> here)
  BY <1>1, <1>7
<1>. HIDE DEF here
<1>9. CASE p \in {1, 4}
  <2>1. ~TopDown(p) /\ p \notin {2, 3}
    BY <1>9 DEF TopDown
  <2>. QED  BY <1>2, <1>3, <1>4, <1>8, <2>1 DEF p
<1>10. CASE p = 2 \/ (p = 3 /\ ext = "FBJFFB1615CN1")
  <2>1. TopDown(p) /\ p \in {2, 3}
    BY <1>10 DEF TopDown
  <2>. QED  BY <1>2, <1>3, <1>4, <1>8, <2>1 DEF p
<1>. QED  BY <1>1, <1>5, <1>9, <1>10 DEF Ports

LEMMA WithBitAsks ==
  ASSUME PortsOK, NEW c \in Channels, NEW v \in BOOLEAN, NEW d \in Channels
  PROVE  BitOf(d) \in WithBit(out_data, c, v)[PortOf(d)]
           <=> IF d = c THEN v ELSE BitOf(d) \in out_data[PortOf(d)]
<1>1. PortOf(c) \in Ports /\ PortOf(d) \in Ports
  BY Places
<1>2. CASE d = c
  BY <1>1, <1>2 DEF WithBit, PortsOK
<1>3. CASE d # c /\ PortOf(d) = PortOf(c)
  <2>1. BitOf(d) # BitOf(c)
    BY <1>3, BitInjective
  <2>. QED  BY <1>1, <1>3, <2>1 DEF WithBit, PortsOK
<1>4. CASE d # c /\ PortOf(d) # PortOf(c)
  BY <1>1, <1>4 DEF WithBit, PortsOK
<1>. QED  BY <1>2, <1>3, <1>4

(* What a loaded byte knows: its own output is as the call has it, and the *)
(* others of the port as they were last asked to be, but for those set     *)
(* since then and those that were taken back.                              *)
AskedOK ==
  \A c \in Channels \ undone :
    Known(PortOf(c)) => (BitOf(c) \in out_data[PortOf(c)] <=> c \in asked)

Remembers(t, c) ==
  /\ Known(PortOf(c))
  /\ BitOf(c) \in value[t] <=> call[t][2]
  /\ \A d \in Channels \ (undone \cup since[t] \cup {c}) :
       PortOf(d) = PortOf(c) => (BitOf(d) \in value[t] <=> d \in asked)
LoadedOK == \A t \in Threads : at[t] = "loaded" => Remembers(t, call[t][1])

AskOK == TypesOK /\ AskedOK /\ LoadedOK

(* A setting of the shell.                                                 *)
LEMMA ShellAsks ==
  ASSUME AskOK, NEW set, NEW on, NEW lost, set \subseteq Channels, on \subseteq set,
         Asks(Nobody, set, on, lost), UNCHANGED <<ext, at, call, value>>,
         \A d \in Channels \ lost : Known(PortOf(d)) =>
           (BitOf(d) \in out_data'[PortOf(d)]
              <=> IF d \in set THEN d \in on ELSE BitOf(d) \in out_data[PortOf(d)])
  PROVE  AskedOK' /\ LoadedOK'
<1>1. asked' = (asked \ set) \cup on /\ undone' = (undone \ set) \cup lost
  BY DEF Asks
<1>2. \A t \in Threads : at[t] = "loaded" => since'[t] = since[t] \cup set
  BY DEF Asks, Nobody, Threads
<1>3. \A d \in Channels : BitOf(d)' = BitOf(d) /\ Known(PortOf(d))' = Known(PortOf(d))
  BY DEF BitOf, TopDown, Known
<1>4. \A d \in Channels : d \notin undone' =>
        /\ d \notin lost
        /\ IF d \in set THEN (d \in asked' <=> d \in on)
           ELSE d \notin undone /\ (d \in asked' <=> d \in asked)
  BY <1>1
<1>5. AskedOK'
  BY <1>3, <1>4 DEF AskOK, AskedOK
<1>6. ASSUME NEW t \in Threads, at'[t] = "loaded"
      PROVE  Remembers(t, call[t][1])'
  <2>. DEFINE c == call[t][1]
  <2>1. Remembers(t, c) /\ c \in Channels
    BY <1>6 DEF AskOK, LoadedOK, TypesOK, ThreadsOK
  <2>2. ASSUME NEW d \in Channels, d \notin undone', d \notin since'[t], d # c,
               PortOf(d) = PortOf(c)
        PROVE  BitOf(d)' \in value'[t] <=> d \in asked'
    <3>1. d \notin set /\ d \notin since[t]
      BY <1>2, <1>6, <2>2
    <3>. QED  BY <1>3, <1>4, <2>1, <2>2, <3>1 DEF Remembers
  <2>. QED  BY <1>3, <2>1, <2>2 DEF Remembers
<1>. QED  BY <1>5, <1>6 DEF LoadedOK

(* Nothing the outputs or the loaded bytes depend on is touched.           *)
LEMMA AsksStay ==
  ASSUME AskOK, UNCHANGED <<ext, memory, value>>,
         \A t \in Threads : at'[t] = "loaded" => at[t] = "loaded" /\ call'[t] = call[t]
  PROVE  AskedOK' /\ LoadedOK'
<1>1. \A d : BitOf(d)' = BitOf(d) /\ Known(PortOf(d))' = Known(PortOf(d))
  BY DEF BitOf, TopDown, Known
<1>2. AskedOK'
  BY <1>1 DEF AskOK, AskedOK, memory
<1>3. \A t \in Threads : at'[t] = "loaded" => Remembers(t, call[t][1])'
  BY <1>1 DEF AskOK, LoadedOK, Remembers, memory
<1>. QED  BY <1>2, <1>3 DEF LoadedOK

LEMMA LoadAsks ==
  ASSUME AskOK, NEW t \in Threads, NEW c \in Channels, NEW v \in BOOLEAN, Load(t, c, v)
  PROVE  AskedOK' /\ LoadedOK'
<1>1. /\ value' = [value EXCEPT ![t] = WithBit(out_data, c, v)[PortOf(c)]]
      /\ call' = [call EXCEPT ![t] = <<c, v>>]
      /\ since' = [since EXCEPT ![t] = {}]
      /\ at' = [at EXCEPT ![t] = "loaded"]
      /\ UNCHANGED <<ext, out_data, asked, undone>> /\ Known(PortOf(c))
  BY DEF Load, io
<1>2. \A d : BitOf(d)' = BitOf(d) /\ Known(PortOf(d))' = Known(PortOf(d))
  BY <1>1 DEF BitOf, TopDown, Known
<1>3. AskedOK'
  BY <1>1, <1>2 DEF AskOK, AskedOK
<1>4. ASSUME NEW u \in Threads, at'[u] = "loaded"
      PROVE  Remembers(u, call[u][1])'
  <2>1. CASE u # t
    <3>1. at[u] = "loaded" /\ value'[u] = value[u] /\ call'[u] = call[u] /\ since'[u] = since[u]
      BY <1>1, <1>4, <2>1 DEF AskOK, TypesOK, ThreadsOK, BookOK
    <3>. QED  BY <1>1, <1>2, <3>1 DEF AskOK, LoadedOK, Remembers
  <2>2. CASE u = t
    <3>1. call'[u] = <<c, v>> /\ value'[u] = WithBit(out_data, c, v)[PortOf(c)]
      BY <1>1, <2>2 DEF AskOK, TypesOK, ThreadsOK
    <3>2. call'[u][1] = c /\ (BitOf(c)' \in value'[u] <=> call'[u][2])
      BY <1>2, <3>1, WithBitAsks DEF AskOK, TypesOK
    <3>3. ASSUME NEW d \in Channels, d \notin undone', d # c, PortOf(d) = PortOf(c)
          PROVE  BitOf(d)' \in value'[u] <=> d \in asked'
      <4>1. BitOf(d) \in value'[u] <=> BitOf(d) \in out_data[PortOf(d)]
        BY <3>1, <3>3, WithBitAsks DEF AskOK, TypesOK
      <4>. QED  BY <1>1, <1>2, <3>3, <4>1 DEF AskOK, AskedOK
    <3>. QED  BY <1>1, <1>2, <3>2, <3>3 DEF Remembers
  <2>. QED  BY <2>1, <2>2
<1>. QED  BY <1>3, <1>4 DEF LoadedOK

LEMMA StoreAsks ==
  ASSUME AskOK, NEW t \in Threads, Store(t)
  PROVE  AskedOK' /\ LoadedOK'
<1>. DEFINE c == call[t][1]  p == PortOf(c)
            lost == {d \in since[t] : PortOf(d) = p} \ {c}
<1>1. /\ at[t] = "loaded" /\ at' = [at EXCEPT ![t] = "stored"]
      /\ out_data' = [out_data EXCEPT ![p] = value[t]]
      /\ asked' = (asked \ {c}) \cup (IF call[t][2] THEN {c} ELSE {})
      /\ undone' = (undone \ {c}) \cup lost
      /\ UNCHANGED <<ext, call, value>>
  BY DEF Store, Asks, io
<1>2. Remembers(t, c) /\ c \in Channels /\ p \in Ports
  BY <1>1, Places DEF AskOK, LoadedOK, TypesOK, ThreadsOK
<1>3. \A d : BitOf(d)' = BitOf(d) /\ Known(PortOf(d))' = Known(PortOf(d))
  BY <1>1 DEF BitOf, TopDown, Known
<1>4. \A d \in Channels : d # c => (d \in asked' <=> d \in asked)
  BY <1>1
<1>5. c \in asked' <=> call[t][2]
  BY <1>1
<1>6. ASSUME NEW d \in Channels, d \notin undone', Known(PortOf(d))
      PROVE  BitOf(d) \in out_data'[PortOf(d)] <=> d \in asked'
  <2>1. CASE d = c
    <3>1. out_data'[PortOf(d)] = value[t]
      BY <1>1, <1>2, <2>1 DEF AskOK, TypesOK, PortsOK
    <3>2. BitOf(c) \in value[t] <=> call[t][2]
      BY <1>2 DEF Remembers
    <3>. QED  BY <1>5, <2>1, <3>1, <3>2
  <2>2. CASE d # c /\ PortOf(d) = p
    <3>1. out_data'[PortOf(d)] = value[t]
      BY <1>1, <1>2, <2>2 DEF AskOK, TypesOK, PortsOK
    <3>2. d \notin undone /\ d \notin since[t]
      BY <1>1, <1>6, <2>2
    <3>3. BitOf(d) \in value[t] <=> d \in asked
      BY <1>2, <2>2, <3>2 DEF Remembers
    <3>. QED  BY <1>4, <2>2, <3>1, <3>3
  <2>3. CASE d # c /\ PortOf(d) # p
    <3>1. out_data'[PortOf(d)] = out_data[PortOf(d)]
      BY <1>1, <2>3, Places DEF AskOK, TypesOK, PortsOK
    <3>2. d \notin undone
      BY <1>1, <1>6, <2>3
    <3>. QED  BY <1>4, <1>6, <2>3, <3>1, <3>2 DEF AskOK, AskedOK
  <2>. QED  BY <2>1, <2>2, <2>3
<1>7. AskedOK'
  BY <1>3, <1>6 DEF AskedOK
<1>8. ASSUME NEW u \in Threads, at'[u] = "loaded"
      PROVE  Remembers(u, call[u][1])'
  <2>. DEFINE b == call[u][1]
  <2>1. u # t /\ at[u] = "loaded"
    BY <1>1, <1>8 DEF AskOK, TypesOK, ThreadsOK
  <2>2. since'[u] = since[u] \cup {c}
    BY <2>1 DEF Store, Asks
  <2>3. Remembers(u, b)
    BY <2>1 DEF AskOK, LoadedOK
  <2>4. ASSUME NEW d \in Channels, d \notin undone', d \notin since'[u], d # b,
               PortOf(d) = PortOf(b)
        PROVE  BitOf(d)' \in value'[u] <=> d \in asked'
    <3>1. d # c /\ d \notin since[u] /\ d \notin undone
      BY <1>1, <2>2, <2>4
    <3>2. BitOf(d) \in value[u] <=> d \in asked
      BY <2>3, <2>4, <3>1 DEF Remembers
    <3>. QED  BY <1>1, <1>3, <1>4, <3>1, <3>2
  <2>. QED  BY <1>1, <1>3, <2>3, <2>4 DEF Remembers
<1>. QED  BY <1>1, <1>7, <1>8 DEF LoadedOK

(* A call ends.                                                            *)
LEMMA AsksEnd ==
  ASSUME AskOK, UNCHANGED <<ext, memory>>,
         \A t \in Threads : at'[t] = "loaded" =>
           at[t] = "loaded" /\ call'[t] = call[t] /\ value'[t] = value[t]
  PROVE  AskedOK' /\ LoadedOK'
<1>1. \A d : BitOf(d)' = BitOf(d) /\ Known(PortOf(d))' = Known(PortOf(d))
  BY DEF BitOf, TopDown, Known
<1>2. AskedOK'
  BY <1>1 DEF AskOK, AskedOK, memory
<1>3. \A t \in Threads : at'[t] = "loaded" => Remembers(t, call[t][1])'
  BY <1>1 DEF AskOK, LoadedOK, Remembers, memory
<1>. QED  BY <1>2, <1>3 DEF LoadedOK

(* readoutputs shows a channel where writeoutputs would have set it.       *)
LEMMA ReadsOut ==
  ASSUME TypesOK, NEW c \in Channels
  PROVE  c - 1 \in readoutputs
           <=> Known(PortOf(c)) /\ BitOf(c) \in out_data[PortOf(c)]
<1>. DEFINE p == PortOf(c)  k == (c - 1) % Width
            shown == [q \in Ports |-> CASE ~Known(q) -> {}
                                        [] TopDown(q) -> data_invert_order(out_data[q])
                                        [] OTHER -> out_data[q]]
<1>1. p \in Ports /\ k \in Bits /\ p = ((c - 1) \div Width) + 1
  BY Places DEF PortOf
<1>2. c - 1 \in 0..(4 * Width - 1)
  BY DigitalAssumption DEF Channels
<1>3. c - 1 \in readoutputs <=> k \in shown[p]
  BY <1>1, <1>2 DEF readoutputs
<1>4. out_data[p] \subseteq Bits /\ (TopDown(p) => Known(p))
  BY <1>1 DEF TypesOK, PortsOK, TopDown, Known
<1>5. BitOf(c) = IF TopDown(p) THEN Width - 1 - k ELSE k
  BY DEF BitOf
<1>6. CASE ~Known(p)
  <2>1. shown[p] = {}
    BY <1>1, <1>4, <1>6
  <2>. QED  BY <1>3, <1>6, <2>1
<1>7. CASE Known(p) /\ TopDown(p)
  <2>1. shown[p] = data_invert_order(out_data[p])
    BY <1>1, <1>7
  <2>. QED  BY <1>1, <1>3, <1>5, <1>7, <2>1 DEF data_invert_order
<1>8. CASE Known(p) /\ ~TopDown(p)
  <2>1. shown[p] = out_data[p]
    BY <1>1, <1>8
  <2>. QED  BY <1>3, <1>5, <1>8, <2>1
<1>. QED  BY <1>6, <1>7, <1>8

LEMMA AsksNext ==
  ASSUME AskOK, [Next]_vars
  PROVE  AskedOK' /\ LoadedOK'
<1>1. CASE ShellSet
  <2>1. PICK c \in ShellOutputs, v \in BOOLEAN :
          /\ out_data' = WithBit(out_data, c, v)
          /\ Asks(Nobody, {c}, IF v THEN {c} ELSE {}, {})
          /\ UNCHANGED <<io, threads>>
    BY <1>1 DEF ShellSet
  <2>2. c \in Channels
    BY DigitalAssumption DEF Channels
  <2>3. \A d \in Channels :
          BitOf(d) \in out_data'[PortOf(d)]
            <=> IF d = c THEN v ELSE BitOf(d) \in out_data[PortOf(d)]
    BY <2>1, <2>2, WithBitAsks DEF AskOK, TypesOK
  <2>. DEFINE on == IF v THEN {c} ELSE {}
  <2>4. on \subseteq {c} /\ {c} \subseteq Channels /\ Asks(Nobody, {c}, on, {})
    BY <2>1, <2>2
  <2>5. \A d \in Channels : Known(PortOf(d)) =>
          (BitOf(d) \in out_data'[PortOf(d)]
             <=> IF d \in {c} THEN d \in on ELSE BitOf(d) \in out_data[PortOf(d)])
    BY <2>3
  <2>6. UNCHANGED <<ext, at, call, value>>
    BY <2>1 DEF io, threads
  <2>. HIDE DEF on
  <2>. QED  BY <2>4, <2>5, <2>6, ShellAsks
<1>2. CASE writeoutputs
  <2>. DEFINE set == {c \in Channels : PortOf(c) \in {p \in Ports : Known(p)}}
  <2>1. PICK w \in Words :
          /\ out_data' = WordData(w)
          /\ Asks(Nobody, set, AskedBy(w), Mirrored)
          /\ UNCHANGED <<io, threads>>
    BY <1>2 DEF writeoutputs
  <2>2. \A d \in Channels : Known(PortOf(d)) => d \in set
    BY Places
  <2>3. \A d \in Channels \ Mirrored : Known(PortOf(d)) =>
          (BitOf(d) \in out_data'[PortOf(d)] <=> d \in AskedBy(w))
    BY <2>1, WordAsks DEF AskOK, TypesOK
  <2>4. AskedBy(w) \subseteq set /\ set \subseteq Channels
    BY Places DEF AskedBy
  <2>5. UNCHANGED <<ext, at, call, value>>
    BY <2>1 DEF io, threads
  <2>. HIDE DEF set
  <2>. QED  BY <2>1, <2>2, <2>3, <2>4, <2>5, ShellAsks
<1>3. CASE readinputs \/ EepromAccess \/ ShellRelay \/ Sense \/ AttachRelays \/ UNCHANGED vars
  <2>1. UNCHANGED <<ext, memory, value, at, call>>
    BY <1>3 DEF readinputs, EepromAccess, ShellRelay, Sense, AttachRelays, vars, io, memory,
                wires, threads
  <2>. QED  BY <2>1, AsksStay
<1>4. CASE board_debug
  <2>1. /\ UNCHANGED <<ext, memory, value, call>>
        /\ at' = [at EXCEPT !["board_debug"] = "ready"]
    BY <1>4 DEF board_debug, io
  <2>2. \A t \in Threads : at'[t] = "loaded" => at[t] = "loaded" /\ call'[t] = call[t]
    BY <2>1 DEF AskOK, TypesOK, ThreadsOK
  <2>. QED  BY <2>1, <2>2, AsksStay
<1>5. ASSUME NEW t \in Threads, NEW c \in Channels, BeginInput(t, c)
      PROVE  AskedOK' /\ LoadedOK'
  <2>1. /\ UNCHANGED <<ext, memory, value>> /\ at' = [at EXCEPT ![t] = "reading"]
        /\ call' = [call EXCEPT ![t] = <<c, FALSE>>]
    BY <1>5 DEF BeginInput, Start, io
  <2>2. \A u \in Threads : at'[u] = "loaded" => at[u] = "loaded" /\ call'[u] = call[u]
    BY <2>1 DEF AskOK, TypesOK, ThreadsOK
  <2>. QED  BY <2>1, <2>2, AsksStay
<1>6. ASSUME NEW t \in Threads, EndInput(t)
      PROVE  AskedOK' /\ LoadedOK'
  <2>1. CASE \E v, p : /\ Start(t, p, "reading") /\ UNCHANGED value
                       /\ call' = [call EXCEPT ![t] = <<call[t][1], v>>]
    <3>1. \A u \in Threads : at'[u] = "loaded" => at[u] = "loaded" /\ call'[u] = call[u]
      BY <2>1 DEF Start, AskOK, TypesOK, ThreadsOK
    <3>. QED  BY <1>6, <2>1, <3>1, AsksStay DEF EndInput, io
  <2>2. CASE \E s \in {"ready", "sampled"} : \E v : Ends(t, s, v)
    <3>1. UNCHANGED <<ext, memory>>
      BY <1>6 DEF EndInput, io
    <3>2. \A u \in Threads : at'[u] = "loaded" =>
            at[u] = "loaded" /\ call'[u] = call[u] /\ value'[u] = value[u]
      BY <2>2 DEF Ends, AskOK, TypesOK, ThreadsOK
    <3>. QED  BY <3>1, <3>2, AsksEnd
  <2>. QED  BY <1>6, <2>1, <2>2 DEF EndInput
<1>7. ASSUME NEW t \in Threads, BeginOutput(t)
      PROVE  AskedOK' /\ LoadedOK'
  <2>1. /\ UNCHANGED <<ext, memory, value, call>> /\ at' = [at EXCEPT ![t] = "writing"]
    BY <1>7 DEF BeginOutput, Start, io
  <2>2. \A u \in Threads : at'[u] = "loaded" => at[u] = "loaded" /\ call'[u] = call[u]
    BY <2>1 DEF AskOK, TypesOK, ThreadsOK
  <2>. QED  BY <2>1, <2>2, AsksStay
<1>8. ASSUME NEW t \in Threads, EndOutput(t)
      PROVE  AskedOK' /\ LoadedOK'
  <2>1. UNCHANGED <<ext, memory>> /\ Ends(t, "ready", FALSE)
    BY <1>8 DEF EndOutput
  <2>2. \A u \in Threads : at'[u] = "loaded" =>
          at[u] = "loaded" /\ call'[u] = call[u] /\ value'[u] = value[u]
    BY <2>1 DEF Ends, AskOK, TypesOK, ThreadsOK
  <2>. QED  BY <2>1, <2>2, AsksEnd
<1>9. CASE Transfer("ProjectApp") \/ Transfer("board_debug")
  BY <1>6, <1>7, <1>8, <1>9, StoreAsks DEF Transfer, Threads
<1>10. CASE AppCalls
  <2>1. 1 \in Channels /\ AppOutputs \subseteq Channels
    BY DigitalAssumption DEF Channels
  <2>. QED  BY <1>5, <1>10, <2>1, LoadAsks DEF AppCalls, Threads
<1>11. CASE input_trigger_output
  <2>1. echo \in Channels
    BY DEF AskOK, TypesOK, FixedOK
  <2>2. EchoOutput \in Channels
    <3>1. echo - 1 \in Nat /\ 2 * Width \in Nat \ {0}
      BY <2>1, DigitalAssumption DEF Channels
    <3>2. (echo - 1) % (2 * Width) \in 0..(2 * Width - 1)
      BY <3>1
    <3>. QED  BY <3>2, DigitalAssumption DEF EchoOutput, Channels
  <2>3. EchoValue \in BOOLEAN
    BY DEF EchoValue
  <2>. QED  BY <1>5, <1>11, <2>1, <2>2, <2>3, LoadAsks DEF input_trigger_output, Threads
<1>12. CASE Reset
  <2>1. PICK e : Restart(e)
    BY <1>12 DEF Reset
  <2>2. /\ asked' = {} /\ out_data' = EmptyPorts
        /\ \A t \in Threads : at'[t] \in {"off", "ready"}
    BY <2>1 DEF Restart
  <2>3. AskedOK'
    BY <2>2, Places DEF AskedOK, EmptyPorts
  <2>4. LoadedOK'
    BY <2>2 DEF LoadedOK
  <2>. QED  BY <2>3, <2>4
<1>. QED  BY <1>1, <1>2, <1>3, <1>4, <1>9, <1>10, <1>11, <1>12
          DEF Next, Shell, ProjectApp, Echo

(* Every output reads back as it was last asked to be, alone and in a      *)
(* word, unless a call that had loaded the port before took it back or a   *)
(* word set it on the mirrored port of an FBIO0808.                        *)
THEOREM OutputsReadBack == Spec => []LastAsked
<1>1. Init => AskOK
  <2>. SUFFICES ASSUME Init  PROVE AskOK
    OBVIOUS
  <2>1. AskedOK
    BY Places DEF Init, AskedOK, EmptyPorts
  <2>2. LoadedOK
    BY DEF Init, LoadedOK
  <2>. QED  BY <2>1, <2>2, TypesInit DEF AskOK
<1>2. AskOK /\ [Next]_vars => AskOK'
  BY AsksNext, TypesNext DEF AskOK
<1>3. AskOK => LastAsked
  <2>. SUFFICES ASSUME AskOK, NEW c \in Channels \ undone
                PROVE  ReadsAsAsked(c)
    BY DEF LastAsked
  <2>1. Known(PortOf(c)) => (BitOf(c) \in out_data[PortOf(c)] <=> c \in asked)
    BY DEF AskOK, AskedOK
  <2>2. c - 1 \in readoutputs <=> (Known(PortOf(c)) /\ BitOf(c) \in out_data[PortOf(c)])
    BY ReadsOut DEF AskOK, TypesOK
  <2>. QED  BY <2>1, <2>2 DEF ReadsAsAsked
<1>. QED  BY <1>1, <1>2, <1>3, PTL DEF Spec
=============================================================================
