---------------------------- MODULE MCDigitalIO ----------------------------
(* Values for the digital inputs and outputs.                              *)
EXTENDS DigitalIO

(* Words with one bit in B and one in port 3, or the highest alone.        *)
MCWords == {{2, 4}, {4 * Width - 1}}
MCRelayWords == {{2, 3}}
=============================================================================
