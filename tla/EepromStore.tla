---------------------------- MODULE EepromStore ----------------------------
(***************************************************************************)
(* The EEPROM of the board and the shell commands that write it: pages of  *)
(* text ("save info", "savedata"), numbers ("rom[n][x]"), the serial       *)
(* number of the fixture ("fsn[...]", "SN:..."), and raw writes ("EEPROM   *)
(* WritePage", "EEPROM Write").                                            *)
(*                                                                         *)
(* A chip writes one page at a time and wraps at its end, so               *)
(* AT24CXX_Writes cuts what it is given into chunks; a chunk is one step.  *)
(* The chip may refuse a chunk half way, and the controller may restart in *)
(* the middle of one.  The shell runs its commands one after the other and *)
(* nothing that uses the I2C bus outranks it.  Commands that only read are *)
(* operators.  Characters are members of a small set; the shell looks for  *)
(* some of the commands in a lower-cased copy of the line, and their texts *)
(* are saved from that copy.                                               *)
(***************************************************************************)
EXTENDS Integers, Sequences

CONSTANTS
  PageBytes, Pages,   \* 64 and 256
  LengthRange,        \* 256: a length kept in a uint8_t is taken modulo it
  InfoPages,          \* 100, from page 0
  RomPage, RomLen,    \* 100 and 10
  RomBytes,           \* bytes of a number, 4
  FsnPage,            \* 250
  Chars, Numbers,     \* characters, and numbers as sequences of bytes
  Lower,              \* the character that MakeLowercaseTo makes of each
  ZeroBytes,          \* what may be at address 0 of the controller
  Texts, RawWrites,   \* what the host writes: texts, and <<address, text>>
  MaxFaults           \* bound: refused chunks and restarts

NUL == "nul"          \* ends a string
HIGH == "high"        \* any byte above 127: no text holds one
Bytes == Chars \cup {NUL, HIGH}
Size == Pages * PageBytes
Addresses == 0..Size-1

ASSUME LayoutAssumption ==
  /\ PageBytes \in Nat \ {0} /\ Pages \in Nat
  /\ LengthRange \in Nat /\ PageBytes < LengthRange
  /\ InfoPages \in Nat /\ RomPage \in Nat /\ RomLen \in Nat /\ RomBytes \in Nat
  /\ FsnPage \in Nat
  /\ InfoPages <= RomPage
  /\ RomPage * PageBytes + RomLen * RomBytes <= FsnPage * PageBytes
  /\ FsnPage + 1 < Pages
  /\ MaxFaults \in Nat

ASSUME TextAssumption ==
  /\ NUL \notin Chars /\ HIGH \notin Chars
  /\ Lower \in [Chars -> Chars]
  /\ ZeroBytes \subseteq Bytes
  /\ Texts \subseteq Seq(Chars)
  /\ Numbers \subseteq [1..RomBytes -> Bytes]
  /\ \A w \in RawWrites : w[1] \in Addresses /\ w[2] \in Seq(Chars)

VARIABLES
  mem,                              \* the chip
  address, OffsetData, SizeLeft,    \* of AT24CXX_Writes
  buf,                              \* the bytes it was given
  end,                              \* where the terminator goes after it, or NoEnd
  ZeroByte,                         \* of this build: the byte at the null pointer
  target, saved, faults             \* bookkeeping of the model

vars == <<mem, address, OffsetData, SizeLeft, buf, end, ZeroByte, target,
          saved, faults>>

NoEnd == -1

-----------------------------------------------------------------------------
(* The layout.  A record is a page of text, a number or the serial number. *)

Infos == {<<"info", n>> : n \in 1..InfoPages}
Roms == {<<"rom", n>> : n \in 1..RomLen}
Fsn == <<"fsn", 1>>
Records == Infos \cup Roms \cup {Fsn}
Raw == <<"raw", 0>>

(* A variant: the page number is not counted from 1, as in the copy of the  *)
(* file beside the board.                                                  *)
InfoAt_FromZero(n) == n * PageBytes

InfoAt(n) == (n - 1) * PageBytes
RomAt(n) == RomPage * PageBytes + (n - 1) * RomBytes
FsnAt == FsnPage * PageBytes

At(r) ==
  IF r \in Infos THEN InfoAt(r[2]) ELSE IF r \in Roms THEN RomAt(r[2]) ELSE FsnAt
Extent(r) == At(r) .. At(r) + (IF r \in Roms THEN RomBytes ELSE PageBytes) - 1

-----------------------------------------------------------------------------
(* Reading.                                                                *)

(* The text a page reads as: up to its first NUL, and cut at a byte above  *)
(* 127, but a page at most.                                                *)
Ends(b) == b \in {NUL, HIGH}
TextAt(a) ==
  LET len == CHOOSE n \in 0..PageBytes :
               /\ \A i \in 0..n-1 : ~Ends(mem[a + i])
               /\ n < PageBytes => Ends(mem[a + n])
  IN  [i \in 1..len |-> mem[a + i - 1]]

Read(r) ==
  IF r \in Roms THEN [i \in 1..RomBytes |-> mem[At(r) + i - 1]] ELSE TextAt(At(r))

-----------------------------------------------------------------------------
(* Writing.                                                                *)

Idle == SizeLeft = 0 /\ end = NoEnd

Lesser(m, n) == IF m <= n THEN m ELSE n

Unknown == [known |-> FALSE, text |-> <<>>, lower |-> FALSE, ended |-> FALSE]

(* A variant: the end of the chip is not checked.                           *)
Start_Unchecked(r, a, text, terminator, what) ==
  /\ Idle
  /\ target' = r /\ address' = a /\ buf' = text /\ OffsetData' = 0
  /\ SizeLeft' = Len(text)
  /\ end' = IF terminator /\ a + Len(text) < Size THEN a + Len(text) ELSE NoEnd
  /\ saved' = what
  /\ UNCHANGED <<mem, ZeroByte, faults>>

(* A text starts at an address, with the terminator behind it or none.     *)
(* What exceeds the chip is not written.                                   *)
Start(r, a, text, terminator, what) ==
  /\ Idle
  /\ target' = r /\ address' = a /\ buf' = text /\ OffsetData' = 0
  /\ SizeLeft' = IF a + Len(text) <= Size THEN Len(text) ELSE 0
  /\ end' = IF terminator /\ a + Len(text) < Size THEN a + Len(text) ELSE NoEnd
  /\ saved' = what
  /\ UNCHANGED <<mem, ZeroByte, faults>>

(* The commands in the copy get the text of a line in lower case, those    *)
(* behind it get the line.                                                 *)
MakeLowercaseTo(text) == [i \in DOMAIN text |-> Lower[text[i]]]
AsSent(text, lower) == IF lower THEN MakeLowercaseTo(text) ELSE text

(* What was typed, and what the host may rely on: a text longer than a     *)
(* page is not admissible.                                                 *)
Saves(r, text, lower, ended) ==
  [saved EXCEPT ![r] =
     IF Len(text) <= PageBytes
     THEN [known |-> TRUE, text |-> text, lower |-> lower, ended |-> ended]
     ELSE Unknown]

(* The length of a text goes through a uint8_t.                            *)
AsCounted(text) == SubSeq(text, 1, Len(text) % LengthRange)

(* "save info" is looked for in the copy, "savedata" is not.               *)
WritePageStringToEEPROM(n, text, lower) ==
  LET data == AsCounted(AsSent(text, lower)) IN
  /\ Len(data) <= PageBytes
  /\ Start(<<"info", n>>, InfoAt(n), data, Len(data) # PageBytes,
           Saves(<<"info", n>>, text, lower,
                 Ends(ZeroByte) \/ Len(data) = PageBytes))
command_infoPage(n, text) == WritePageStringToEEPROM(n, text, TRUE)
savedata(n, text) == WritePageStringToEEPROM(n, text, FALSE)

command_rom(n, number) ==
  Start(<<"rom", n>>, RomAt(n), number, FALSE,
        Saves(<<"rom", n>>, number, FALSE, TRUE))

(* "fsn[...]" writes no terminator.                                        *)
command_fsn(text) ==
  /\ Len(text) \in 1..PageBytes-1
  /\ Start(Fsn, FsnAt, MakeLowercaseTo(text), FALSE, Saves(Fsn, text, TRUE, FALSE))

(* "SN:..." is "sn:..." by the time it is looked at, and command_fsn takes *)
(* it before at24cxx_msh, which would store it where "SN" looks.           *)
command_sn(text) ==
  Start(Fsn, FsnAt, Append(MakeLowercaseTo(text), NUL), FALSE,
        Saves(Fsn, text, TRUE, TRUE))

(* A raw write spoils the records it meets.                                *)
Spoilt(a, n) ==
  [r \in Records |->
     IF \E b \in Extent(r) : a <= b /\ b < a + n THEN Unknown ELSE saved[r]]

WritePage(p, text) ==
  LET data == AsCounted(text) IN
  /\ Len(data) \in 1..PageBytes
  /\ Start(Raw, p * PageBytes, data, Len(data) # PageBytes,
           Spoilt(p * PageBytes, Lesser(Len(data) + 1, PageBytes)))

Write(a, text) ==
  /\ Len(text) > 0 /\ a + Len(text) < Size
  /\ Start(Raw, a, text, FALSE, Spoilt(a, Len(text)))

(* Variants: the page is forgotten; the page is cut one byte short.         *)
SizeNext_NoPage == Lesser(SizeLeft, PageBytes)
SizeNext_Short ==
  Lesser(Lesser(SizeLeft, PageBytes), PageBytes - 1 - (address % PageBytes))

SizeNext == Lesser(Lesser(SizeLeft, PageBytes), PageBytes - (address % PageBytes))

(* The chip takes k bytes from an address on, within the page.             *)
Wrap(a, i) == (a - (a % PageBytes)) + (((a % PageBytes) + i) % PageBytes)
PageWrite(k) ==
  mem' = [c \in Addresses |->
            IF \E i \in 0..k-1 : Wrap(address, i) = c
            THEN buf[OffsetData + 1 + CHOOSE i \in 0..k-1 :
                       /\ Wrap(address, i) = c
                       /\ \A j \in i+1..k-1 : Wrap(address, j) # c]
            ELSE mem[c]]

Advance ==
  /\ SizeLeft' = SizeLeft - SizeNext
  /\ OffsetData' = OffsetData + SizeNext
  /\ address' = address + SizeNext
  /\ UNCHANGED <<buf, end, ZeroByte, target>>

WriteChunk ==
  /\ SizeLeft > 0
  /\ PageWrite(SizeNext) /\ Advance
  /\ UNCHANGED <<saved, faults>>

(* A variant: the terminator stays to be written.                           *)
WriteTerminator_Again ==
  /\ SizeLeft = 0 /\ end # NoEnd
  /\ address' = end /\ buf' = <<ZeroByte>> /\ OffsetData' = 0 /\ SizeLeft' = 1
  /\ UNCHANGED <<mem, end, ZeroByte, target, saved, faults>>

(* The second call of write, for the one byte at the null pointer.         *)
WriteTerminator ==
  /\ SizeLeft = 0 /\ end # NoEnd
  /\ address' = end /\ buf' = <<ZeroByte>> /\ OffsetData' = 0 /\ SizeLeft' = 1
  /\ end' = NoEnd
  /\ UNCHANGED <<mem, ZeroByte, target, saved, faults>>

Lost ==
  /\ faults < MaxFaults /\ faults' = faults + 1
  /\ saved' = IF target = Raw THEN saved ELSE [saved EXCEPT ![target] = Unknown]

(* A byte is not acknowledged: wait_ack ends the transfer, the chip keeps  *)
(* what it has, and AT24CXX_Writes, which does not look at the result,     *)
(* goes on with the next chunk.                                            *)
ChunkRefused ==
  /\ SizeLeft > 0 /\ Lost
  /\ \E k \in 0..SizeNext-1 : PageWrite(k)
  /\ Advance

(* The controller restarts in a command.  The stop condition of its        *)
(* initialisation makes the chip keep what it has of a chunk.              *)
Restart ==
  /\ ~Idle /\ Lost
  /\ \E k \in 0..SizeNext : PageWrite(k)
  /\ SizeLeft' = 0 /\ end' = NoEnd /\ address' = 0 /\ OffsetData' = 0
  /\ buf' = <<>> /\ target' = Raw
  /\ UNCHANGED ZeroByte

Init ==
  /\ mem = [a \in Addresses |-> HIGH]
  /\ SizeLeft = 0 /\ end = NoEnd /\ address = 0 /\ OffsetData = 0 /\ buf = <<>>
  /\ ZeroByte \in ZeroBytes /\ target = Raw
  /\ saved = [r \in Records |-> Unknown]
  /\ faults = 0

Command ==
  \/ \E n \in 1..InfoPages, t \in Texts : command_infoPage(n, t) \/ savedata(n, t)
  \/ \E n \in 1..RomLen, x \in Numbers : command_rom(n, x)
  \/ \E t \in Texts : command_fsn(t) \/ command_sn(t)
  \/ \E w \in RawWrites :
       \/ Write(w[1], w[2])
       \/ w[1] % PageBytes = 0 /\ WritePage(w[1] \div PageBytes, w[2])

Next == Command \/ WriteChunk \/ WriteTerminator \/ ChunkRefused \/ Restart

(* The shell's thread has no thread above it that uses the processor for   *)
(* ever, and AT24CXX_Writes waits without sleeping.                        *)
Spec == Init /\ [][Next]_vars
FairSpec == Spec /\ WF_vars(WriteChunk \/ WriteTerminator)

-----------------------------------------------------------------------------
(* Properties.                                                             *)

TypeOK ==
  /\ mem \in [Addresses -> Bytes]
  /\ buf \in Seq(Bytes) /\ OffsetData \in Nat /\ SizeLeft \in Nat
  /\ OffsetData + SizeLeft <= Len(buf) \/ SizeLeft = 0
  /\ address \in 0..Size /\ address + SizeLeft <= Size
  /\ end \in Addresses \cup {NoEnd}
  /\ end # NoEnd => address + SizeLeft <= end
  /\ ZeroByte \in Bytes /\ target \in Records \cup {Raw}
  /\ faults \in 0..MaxFaults

(* A record reads as what was typed to be saved in it last, but with its   *)
(* capitals turned to small letters where the command was looked for in    *)
(* the lower-cased copy of the line: from the end of the command on and    *)
(* through all that is written elsewhere, if no fault met the command.     *)
(* Where the record was left without a NUL it only starts that way.        *)
StartsWith(t, start) ==
  Len(start) <= Len(t) /\ SubSeq(t, 1, Len(start)) = start
ReadsBack ==
  \A r \in Records :
    saved[r].known /\ (Idle \/ r # target)
      => LET text == AsSent(saved[r].text, saved[r].lower)
         IN  IF saved[r].ended THEN Read(r) = text ELSE StartsWith(Read(r), text)

(* The EEPROM is a flat memory to whoever calls AT24CXX_Writes: the chunks *)
(* of a command put each byte at its own address, across pages too, and a  *)
(* refused chunk or a restart costs only bytes of that command.            *)
Remaining ==
  {a \in Addresses : (address <= a /\ a < address + SizeLeft) \/ a = end}
Due ==
  [a \in Remaining |->
     IF a = end THEN ZeroByte ELSE buf[OffsetData + 1 + (a - address)]]
Flat == INSTANCE FlatMemory WITH due <- Due
KeepsFlat == Flat!Spec

(* Every step of a command brings it nearer to its end, a refused chunk and *)
(* a restart too, and no other command comes before: AT24CXX_Writes waits  *)
(* for no more chunks than there are bytes, wherever they begin.           *)
StillToDo == SizeLeft + (IF end = NoEnd THEN 0 ELSE 2)
CommandAdvances == [][~Idle => StillToDo' < StillToDo]_vars

(* A command that writes comes to its end, wherever its chunks begin.      *)
CommandEnds == ~Idle ~> Idle
=============================================================================
