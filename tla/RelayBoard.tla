----------------------------- MODULE RelayBoard -----------------------------
(***************************************************************************)
(* The relay board: a 24-bit expander with pins of its own, driven by the  *)
(* command relay of the shell alone.  Every relay command first looks for  *)
(* the board, until it has answered once; what the board is to show is     *)
(* kept in FBHOLYRELAY_tca6424.out_data, found or not.                     *)
(***************************************************************************)
EXTENDS Integers

CONSTANTS
  RelayPort,    \* bits of a port of the expander, 8 in the code
  Relays,       \* relays on the board, numbered from 1; 20 in the code
  RelayWords    \* arguments of relay set, as sets of bits

RelayBits == 0..(3 * RelayPort - 1)

ASSUME RelayAssumption ==
  /\ RelayPort \in Nat /\ RelayPort > 1
  /\ Relays \in 2..(3 * RelayPort)
  /\ RelayWords \subseteq SUBSET RelayBits

VARIABLES
  attached,              \* the board has power and answers
  FBHOLYRELAY_is_inited,
  relay_out,             \* FBHOLYRELAY_tca6424.out_data
  relay                  \* what the outputs of the expander drive

relayVars == <<attached, FBHOLYRELAY_is_inited, relay_out, relay>>

RelayTypeOK ==
  /\ attached \in BOOLEAN /\ FBHOLYRELAY_is_inited \in BOOLEAN
  /\ relay_out \subseteq RelayBits /\ relay \subseteq RelayBits

PortOfBit(b) == b \div RelayPort

(* The outputs once the bytes of these ports are written from "data".      *)
Written(ports, data, outputs) ==
  {b \in RelayBits : b \in IF PortOfBit(b) \in ports THEN data ELSE outputs}

RelayInit ==
  /\ attached \in BOOLEAN
  /\ FBHOLYRELAY_is_inited = FALSE
  /\ relay_out = {} /\ relay = {}

(* FBHOLYRELAY_Init: the outputs off, then relays 1 and 2 on.              *)
MustInit == ~FBHOLYRELAY_is_inited /\ attached

OutAfterInit == IF MustInit THEN relay_out \cup {0, 1} ELSE relay_out
RelayAfterInit == IF MustInit THEN Written({0}, OutAfterInit, {}) ELSE relay

(* A variant: the bytes go out before out_data is brought up to date.      *)
RelayWrites_TooEarly(ports, data) ==
  /\ FBHOLYRELAY_is_inited' = (FBHOLYRELAY_is_inited \/ attached)
  /\ relay_out' = data
  /\ relay' = IF attached THEN Written(ports, OutAfterInit, RelayAfterInit) ELSE relay
  /\ UNCHANGED attached

(* A relay command leaves "data" as what is to be shown and writes ports.  *)
RelayWrites(ports, data) ==
  /\ FBHOLYRELAY_is_inited' = (FBHOLYRELAY_is_inited \/ attached)
  /\ relay_out' = data
  /\ relay' = IF attached THEN Written(ports, data, RelayAfterInit) ELSE relay
  /\ UNCHANGED attached

FBHOLYRELAYSetPortBit(n, on) ==
  RelayWrites({PortOfBit(n - 1)},
              IF on THEN OutAfterInit \cup {n - 1} ELSE OutAfterInit \ {n - 1})

(* relay on n, relay off n, relay set word and relay off all, relay read.  *)
relayOn == \E n \in 1..Relays : FBHOLYRELAYSetPortBit(n, TRUE)
relayOff == \E n \in 1..Relays : FBHOLYRELAYSetPortBit(n, FALSE)
FBHOLYRELAYSetPort == \E w \in RelayWords \cup {{}} : RelayWrites({0, 1, 2}, w)
relayRead == RelayWrites({}, OutAfterInit)

RelayCommand == relayOn \/ relayOff \/ FBHOLYRELAYSetPort \/ relayRead

(* The board is plugged in or gets its power: its outputs are off.         *)
Attach ==
  /\ ~attached /\ attached' = TRUE
  /\ UNCHANGED <<FBHOLYRELAY_is_inited, relay_out, relay>>

(* A reset forgets out_data; the expander drives on, until the start-up    *)
(* of B495_QT1 or the next relay command looks for the board.              *)
RelayReset(starts) ==
  LET found == starts /\ attached IN
  /\ FBHOLYRELAY_is_inited' = found
  /\ relay_out' = IF found THEN {0, 1} ELSE {}
  /\ relay' = IF found THEN {0, 1} ELSE relay
  /\ UNCHANGED attached

(* No relay is on that relay reads would not report as on, whatever the    *)
(* board was told before it answered, and after a reset that left it on.   *)
(* The converse fails: FBHOLYRELAY_Init clears the ports of the expander   *)
(* and not out_data, so reads may show relays that are off.                *)
RelaysReported == FBHOLYRELAY_is_inited => relay \subseteq relay_out
=============================================================================
