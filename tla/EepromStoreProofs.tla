------------------------- MODULE EepromStoreProofs -------------------------
(***************************************************************************)
(* Proofs about EepromStore, for every layout, text and number of faults:  *)
(* the store keeps its types, implements FlatMemory, and reads back what   *)
(* was saved.                                                              *)
(***************************************************************************)
EXTENDS EepromStore, WellFoundedInduction, TLAPS

(* A remainder is below the page size, and a number below it is its own.   *)
LEMMA Remainder ==
  ASSUME NEW a \in Nat
  PROVE  a % PageBytes \in 0..PageBytes-1
BY LayoutAssumption

LEMMA OwnRemainder ==
  ASSUME NEW a \in 0..PageBytes-1
  PROVE  a % PageBytes = a
BY LayoutAssumption

(* The chunk about to be written stays within what is left and within the  *)
(* page, and makes progress.                                               *)
LEMMA ChunkSize ==
  ASSUME TypeOK
  PROVE  /\ SizeNext \in 0..SizeLeft
         /\ SizeNext <= PageBytes - (address % PageBytes)
         /\ SizeLeft > 0 => SizeNext > 0
<1>1. address \in Nat /\ SizeLeft \in Nat /\ PageBytes \in Nat \ {0}
  BY LayoutAssumption DEF TypeOK, Size
<1>2. address % PageBytes \in 0..PageBytes-1
  BY <1>1, Remainder
<1>. QED  BY <1>1, <1>2 DEF SizeNext, Lesser

(* No byte of a chunk wraps.                                               *)
LEMMA NoWrap ==
  ASSUME TypeOK, NEW k \in 0..SizeNext, NEW i \in 0..k-1
  PROVE  Wrap(address, i) = address + i
<1>1. address \in Nat /\ SizeLeft \in Nat /\ PageBytes \in Nat \ {0}
  BY LayoutAssumption DEF TypeOK, Size
<1>2. /\ SizeNext \in 0..SizeLeft
      /\ SizeNext <= PageBytes - (address % PageBytes)
  BY ChunkSize
<1>3. address % PageBytes \in 0..PageBytes-1
  BY <1>1, Remainder
<1>4. (address % PageBytes) + i \in 0..PageBytes-1
  BY <1>1, <1>2, <1>3
<1>5. ((address % PageBytes) + i) % PageBytes = (address % PageBytes) + i
  BY <1>4, OwnRemainder
<1>. QED  BY <1>1, <1>2, <1>3, <1>5 DEF Wrap

(* So a chunk puts its first k bytes where they belong.                    *)
LEMMA ChunkLands ==
  ASSUME TypeOK, NEW k \in 0..SizeNext, PageWrite(k)
  PROVE  mem' = [c \in Addresses |->
                   IF address <= c /\ c < address + k
                   THEN buf[OffsetData + 1 + (c - address)] ELSE mem[c]]
<1>1. address \in Nat /\ SizeNext \in Nat /\ PageBytes \in Nat \ {0} /\ Size \in Int
  BY LayoutAssumption, ChunkSize DEF TypeOK, Size
<1>2. SUFFICES ASSUME NEW c \in Addresses
               PROVE  mem'[c] = IF address <= c /\ c < address + k
                                THEN buf[OffsetData + 1 + (c - address)] ELSE mem[c]
  BY DEF PageWrite
<1>3. c \in Int
  BY <1>1 DEF Addresses
<1>4. CASE address <= c /\ c < address + k
  <2>1. c - address \in 0..k-1 /\ Wrap(address, c - address) = c
    BY <1>1, <1>3, <1>4, NoWrap
  <2>2. \A i \in 0..k-1 : Wrap(address, i) = c => i = c - address
    BY <1>1, <1>3, NoWrap
  <2>3. \A j \in (c - address)+1..k-1 : Wrap(address, j) # c
    BY <1>1, <1>3, <1>4, <2>2
  <2>4. (CHOOSE i \in 0..k-1 :
           /\ Wrap(address, i) = c
           /\ \A j \in i+1..k-1 : Wrap(address, j) # c) = c - address
    BY <2>1, <2>2, <2>3
  <2>5. mem'[c] = buf[OffsetData + 1 + CHOOSE i \in 0..k-1 :
                        /\ Wrap(address, i) = c
                        /\ \A j \in i+1..k-1 : Wrap(address, j) # c]
    BY <2>1 DEF PageWrite
  <2>. QED  BY <1>4, <2>4, <2>5
<1>5. CASE ~(address <= c /\ c < address + k)
  <2>1. \A i \in 0..k-1 : Wrap(address, i) # c
    BY <1>1, <1>3, <1>5, NoWrap
  <2>2. mem'[c] = mem[c]
    BY <2>1 DEF PageWrite
  <2>. QED  BY <1>5, <2>2
<1>. QED  BY <1>4, <1>5

-----------------------------------------------------------------------------
(* Type correctness.                                                       *)

(* Every record begins in the chip.                                        *)
LEMMA Layout ==
  /\ Size \in Nat /\ FsnAt \in 0..Size
  /\ \A n \in 1..InfoPages : InfoAt(n) \in 0..Size
  /\ \A n \in 1..RomLen : RomAt(n) \in 0..Size
<1>1. \A m, n \in Nat : m * PageBytes \in Nat /\ (m <= n => m * PageBytes <= n * PageBytes)
  BY LayoutAssumption
<1>2. Size \in Nat /\ FsnAt \in 0..Size
  BY <1>1, LayoutAssumption DEF Size, FsnAt
<1>3. ASSUME NEW n \in 1..InfoPages PROVE InfoAt(n) \in 0..Size
  <2>1. n - 1 \in Nat /\ n - 1 <= Pages /\ Pages \in Nat
    BY LayoutAssumption
  <2>2. (n - 1) * PageBytes \in Nat /\ (n - 1) * PageBytes <= Pages * PageBytes
    BY <1>1, <2>1
  <2>. QED  BY <1>2, <2>2 DEF InfoAt, Size
<1>4. ASSUME NEW n \in 1..RomLen PROVE RomAt(n) \in 0..Size
  <2>1. (n - 1) * RomBytes \in Nat /\ (n - 1) * RomBytes <= RomLen * RomBytes
    BY LayoutAssumption
  <2>2. RomPage * PageBytes \in Nat /\ RomLen * RomBytes \in Nat
    BY LayoutAssumption
  <2>. QED  BY <1>2, <2>1, <2>2, LayoutAssumption DEF RomAt, FsnAt
<1>. QED  BY <1>2, <1>3, <1>4

(* A command leaves the chip alone and stays within it.                    *)
LEMMA StartType ==
  ASSUME TypeOK, NEW r \in Records \cup {Raw}, NEW a \in 0..Size,
         NEW text \in Seq(Bytes), NEW terminator, NEW what,
         Start(r, a, text, terminator, what)
  PROVE  TypeOK'
<1>1. Size \in Nat /\ Len(text) \in Nat
  BY Layout
<1>2. end' \in Addresses \cup {NoEnd} /\ (end' # NoEnd => address' + SizeLeft' <= end')
  BY <1>1 DEF Start, Addresses, NoEnd
<1>3. address' \in 0..Size /\ SizeLeft' \in Nat /\ address' + SizeLeft' <= Size
  BY <1>1 DEF Start
<1>4. buf' \in Seq(Bytes) /\ OffsetData' = 0
      /\ (OffsetData' + SizeLeft' <= Len(buf') \/ SizeLeft' = 0)
  BY <1>1 DEF Start
<1>. QED  BY <1>2, <1>3, <1>4 DEF Start, TypeOK, Addresses

(* A lower-cased text is a text of the same length.                        *)
LEMMA Sent ==
  ASSUME NEW text \in Seq(Chars), NEW lower
  PROVE  /\ AsSent(text, lower) \in Seq(Chars)
         /\ Len(AsSent(text, lower)) = Len(text)
         /\ MakeLowercaseTo(text) = AsSent(text, TRUE)
<1>1. text \in [1..Len(text) -> Chars] /\ Len(text) \in Nat
  OBVIOUS
<1>2. MakeLowercaseTo(text) \in [1..Len(text) -> Chars]
  BY <1>1, TextAssumption DEF MakeLowercaseTo
<1>3. MakeLowercaseTo(text) \in Seq(Chars) /\ Len(MakeLowercaseTo(text)) = Len(text)
  BY <1>1, <1>2
<1>. QED  BY <1>3 DEF AsSent

LEMMA AddressesAre == Addresses = {a \in Int : 0 <= a /\ a < Size}
BY Layout DEF Addresses

(* So does every command of the shell.                                     *)
LEMMA CommandType ==
  ASSUME TypeOK, Command
  PROVE  TypeOK'
<1>1. Seq(Chars) \subseteq Seq(Bytes) /\ \A t \in Seq(Chars) : Len(t) \in Nat
  BY DEF Bytes
<1>2. \A t \in Texts : t \in Seq(Bytes)
  BY <1>1, TextAssumption
<1>3. ASSUME NEW t \in Seq(Bytes) PROVE AsCounted(t) \in Seq(Bytes)
  <2>1. Len(t) % LengthRange \in Nat
    BY LayoutAssumption
  <2>2. Len(t) % LengthRange <= Len(t)
    BY LayoutAssumption
  <2>. QED  BY <2>1, <2>2 DEF AsCounted
<1>4. ASSUME NEW n \in 1..InfoPages, NEW t \in Texts,
             command_infoPage(n, t) \/ savedata(n, t)
      PROVE  TypeOK'
  <2>1. <<"info", n>> \in Records \cup {Raw}
    BY DEF Records, Infos
  <2>2. PICK lower : WritePageStringToEEPROM(n, t, lower)
    BY <1>4 DEF command_infoPage, savedata
  <2>3. AsSent(t, lower) \in Seq(Bytes)
    BY <1>1, Sent, TextAssumption
  <2>. QED  BY <1>3, <2>1, <2>2, <2>3, Layout, StartType DEF WritePageStringToEEPROM
<1>5. ASSUME NEW n \in 1..RomLen, NEW x \in Numbers, command_rom(n, x)
      PROVE  TypeOK'
  <2>1. <<"rom", n>> \in Records \cup {Raw} /\ x \in Seq(Bytes)
    BY LayoutAssumption, TextAssumption DEF Records, Roms
  <2>. QED  BY <1>5, <2>1, Layout, StartType DEF command_rom
<1>6. ASSUME NEW t \in Texts, command_fsn(t) \/ command_sn(t)
      PROVE  TypeOK'
  <2>1. MakeLowercaseTo(t) \in Seq(Chars)
    BY Sent, TextAssumption
  <2>2. MakeLowercaseTo(t) \in Seq(Bytes) /\ NUL \in Bytes
    BY <1>1, <2>1 DEF Bytes
  <2>3. Fsn \in Records \cup {Raw} /\ Append(MakeLowercaseTo(t), NUL) \in Seq(Bytes)
    BY <2>2 DEF Records
  <2>. QED  BY <1>6, <2>2, <2>3, Layout, StartType DEF command_fsn, command_sn
<1>7. ASSUME NEW w \in RawWrites, Write(w[1], w[2])
      PROVE  TypeOK'
  <2>1. w[1] \in 0..Size /\ w[2] \in Seq(Bytes)
    BY <1>1, TextAssumption, Layout DEF Addresses
  <2>. QED  BY <1>7, <2>1, StartType DEF Write
<1>8. ASSUME NEW w \in RawWrites, w[1] % PageBytes = 0,
             WritePage(w[1] \div PageBytes, w[2])
      PROVE  TypeOK'
  <2>1. w[1] \in 0..Size /\ w[1] \in Nat /\ w[2] \in Seq(Bytes)
    BY <1>1, TextAssumption, Layout DEF Addresses
  <2>2. (w[1] \div PageBytes) * PageBytes = w[1]
    BY <1>8, <2>1, LayoutAssumption
  <2>. QED  BY <1>3, <1>8, <2>1, <2>2, StartType DEF WritePage
<1>. QED  BY <1>4, <1>5, <1>6, <1>7, <1>8 DEF Command

(* A chunk, whole, refused or cut by a restart, leaves bytes in the chip.  *)
LEMMA ChunkType ==
  ASSUME TypeOK, NEW k \in 0..SizeNext, PageWrite(k)
  PROVE  mem' \in [Addresses -> Bytes]
<1>1. /\ SizeNext \in 0..SizeLeft /\ k \in Nat /\ k <= SizeLeft
      /\ address \in Int /\ SizeLeft \in Nat /\ OffsetData \in Nat
  BY ChunkSize, Layout DEF TypeOK
<1>2. ASSUME NEW c \in Addresses, address <= c, c < address + k
      PROVE  buf[OffsetData + 1 + (c - address)] \in Bytes
  <2>1. OffsetData + 1 + (c - address) \in 1..Len(buf)
    BY <1>1, <1>2, AddressesAre DEF TypeOK
  <2>. QED  BY <2>1 DEF TypeOK
<1>. QED  BY <1>2, ChunkLands DEF TypeOK

LEMMA AdvanceType ==
  ASSUME TypeOK, SizeLeft > 0, Advance, mem' \in [Addresses -> Bytes],
         faults' \in 0..MaxFaults
  PROVE  TypeOK'
<1>1. SizeNext \in Nat /\ SizeNext <= SizeLeft
  BY ChunkSize DEF TypeOK
<1>. QED  BY <1>1, Layout DEF Advance, TypeOK

LEMMA InitType == Init => TypeOK
BY Layout, LayoutAssumption, TextAssumption DEF Init, TypeOK, Bytes, NoEnd

LEMMA NextType ==
  ASSUME TypeOK, [Next]_vars
  PROVE  TypeOK'
<1>1. CASE Command
  BY <1>1, CommandType
<1>2. CASE WriteChunk
  <2>1. SizeNext \in 0..SizeNext
    BY ChunkSize DEF TypeOK
  <2>. QED  BY <1>2, <2>1, ChunkType, AdvanceType DEF WriteChunk, TypeOK
<1>3. CASE WriteTerminator
  <2>1. buf' \in Seq(Bytes) /\ Len(buf') = 1
    BY <1>3 DEF WriteTerminator, TypeOK
  <2>2. end \in Addresses
    BY <1>3 DEF WriteTerminator, TypeOK
  <2>. QED  BY <1>3, <2>1, <2>2, Layout, AddressesAre DEF WriteTerminator, TypeOK, NoEnd
<1>4. CASE ChunkRefused
  <2>1. faults' \in 0..MaxFaults
    BY <1>4, LayoutAssumption DEF ChunkRefused, Lost, TypeOK
  <2>2. PICK k \in 0..SizeNext-1 : PageWrite(k)
    BY <1>4 DEF ChunkRefused
  <2>3. k \in 0..SizeNext
    BY ChunkSize DEF TypeOK
  <2>. QED  BY <1>4, <2>1, <2>2, <2>3, ChunkType, AdvanceType DEF ChunkRefused
<1>5. CASE Restart
  <2>1. faults' \in 0..MaxFaults
    BY <1>5, LayoutAssumption DEF Restart, Lost, TypeOK
  <2>2. mem' \in [Addresses -> Bytes]
    BY <1>5, ChunkType DEF Restart
  <2>. QED  BY <1>5, <2>1, <2>2, Layout DEF Restart, TypeOK, NoEnd
<1>6. CASE UNCHANGED vars
  BY <1>6 DEF vars, TypeOK
<1>. QED  BY <1>1, <1>2, <1>3, <1>4, <1>5, <1>6 DEF Next

(* The variables of the store keep their types, and what is still to be    *)
(* written lies in the chip and in the buffer.                             *)
THEOREM StoreTypes == Spec => []TypeOK
BY InitType, NextType, PTL DEF Spec

-----------------------------------------------------------------------------
(* The flat memory.                                                        *)

(* A byte still due is a byte of the buffer, or the terminator.            *)
DueOK ==
  /\ Due = [a \in Remaining |-> Due[a]]
  /\ DOMAIN Due = Remaining /\ Remaining \subseteq Addresses
  /\ \A a \in Remaining : Due[a] \in Bytes

LEMMA DueType == TypeOK => DueOK
<1>. SUFFICES ASSUME TypeOK PROVE DueOK
  OBVIOUS
<1>1. ASSUME NEW a \in Remaining, a # end
      PROVE  buf[OffsetData + 1 + (a - address)] \in Bytes
  <2>1. OffsetData + 1 + (a - address) \in 1..Len(buf)
    BY <1>1, Layout, AddressesAre DEF TypeOK, Remaining
  <2>. QED  BY <2>1 DEF TypeOK
<1>. QED  BY <1>1 DEF DueOK, Due, Remaining, TypeOK

LEMMA DueTypeAfter == TypeOK' => DueOK'
BY DueType, PTL

(* An idle store owes nothing.                                             *)
LEMMA IdleOwesNothing ==
  ASSUME SizeLeft = 0, end = NoEnd, address \in Int
  PROVE  Due = Flat!Nothing
<1>1. Remaining = {}
  BY AddressesAre DEF Remaining, NoEnd
<1>. QED  BY <1>1 DEF Due, Flat!Nothing

(* An advance leaves the bytes behind the chunk due as they were, and no   *)
(* byte of the chunk.                                                      *)
LEMMA AdvanceOwes ==
  ASSUME TypeOK, SizeLeft > 0, Advance
  PROVE  /\ Remaining' = {a \in Remaining : ~(address <= a /\ a < address + SizeNext)}
         /\ Due' = [a \in Remaining' |-> Due[a]]
<1>1. /\ SizeNext \in Nat /\ SizeNext <= SizeLeft
      /\ address \in Int /\ SizeLeft \in Nat /\ OffsetData \in Nat
  BY ChunkSize, Layout DEF TypeOK
<1>2. end \in Addresses => address + SizeLeft <= end
  BY DEF TypeOK, Addresses, NoEnd
<1>3. Remaining' = {a \in Addresses : (address + SizeNext <= a /\ a < address + SizeLeft)
                                       \/ a = end}
  BY <1>1, AddressesAre DEF Advance, Remaining
<1>4. Remaining' = {a \in Remaining : ~(address <= a /\ a < address + SizeNext)}
  BY <1>1, <1>2, <1>3, AddressesAre DEF Remaining
<1>5. ASSUME NEW a \in Remaining', a # end
      PROVE  OffsetData' + 1 + (a - address') = OffsetData + 1 + (a - address)
  BY <1>1, <1>3, <1>5, AddressesAre DEF Advance
<1>6. ASSUME NEW a \in Remaining'
      PROVE  Due'[a] = Due[a]
  <2>1. Due'[a] = IF a = end' THEN ZeroByte'
                  ELSE buf'[OffsetData' + 1 + (a - address')]
    BY DEF Due
  <2>2. Due[a] = IF a = end THEN ZeroByte ELSE buf[OffsetData + 1 + (a - address)]
    BY <1>4 DEF Due
  <2>. QED  BY <1>5, <2>1, <2>2 DEF Advance
<1>. QED  BY <1>4, <1>6 DEF Due

(* A chunk of which the chip takes k bytes costs or lands bytes due.       *)
LEMMA ChunkIsFault ==
  ASSUME TypeOK, NEW k \in 0..SizeNext, PageWrite(k)
  PROVE  /\ mem' = [a \in Addresses |-> mem'[a]]
         /\ \A a \in Addresses :
              \/ mem'[a] = mem[a]
              \/ /\ a \in Remaining /\ mem'[a] = Due[a]
                 /\ address <= a /\ a < address + SizeNext
<1>1. /\ SizeNext \in 0..SizeLeft /\ k \in Nat /\ k <= SizeNext
      /\ address \in Int /\ SizeLeft \in Nat
  BY ChunkSize, Layout DEF TypeOK
<1>2. ASSUME NEW a \in Addresses, address <= a, a < address + k
      PROVE  /\ a \in Remaining /\ a < address + SizeNext
             /\ Due[a] = buf[OffsetData + 1 + (a - address)]
  <2>1. a < address + SizeNext /\ a < address + SizeLeft
    BY <1>1, <1>2, AddressesAre
  <2>2. a # end
    BY <1>1, <2>1, AddressesAre DEF TypeOK, NoEnd
  <2>. QED  BY <1>2, <2>1, <2>2 DEF Due, Remaining
<1>. QED  BY <1>2, ChunkLands

LEMMA InitFlat == Init => Flat!Init
<1>. SUFFICES ASSUME Init PROVE Flat!Init
  OBVIOUS
<1>1. Due = Flat!Nothing
  BY IdleOwesNothing DEF Init
<1>. QED  BY <1>1 DEF Init, Flat!Init, Bytes

LEMMA NextFlat ==
  ASSUME TypeOK, TypeOK', [Next]_vars
  PROVE  [Flat!Next]_Flat!vars
<1>1. CASE Command
  <2>1. Idle /\ UNCHANGED <<mem, faults>>
    BY <1>1 DEF Command, Start, command_infoPage, savedata, WritePageStringToEEPROM,
                command_rom, command_fsn, command_sn, Write, WritePage
  <2>2. Due = Flat!Nothing
    BY <2>1, IdleOwesNothing, Layout DEF Idle, TypeOK
  <2>3. /\ Due' = [a \in Remaining' |-> Due'[a]]
        /\ DOMAIN Due' = Remaining' /\ Remaining' \subseteq Addresses
        /\ \A a \in Remaining' : Due'[a] \in Bytes
    BY DueTypeAfter DEF DueOK
  <2>. QED  BY <2>1, <2>2, <2>3 DEF Flat!Next, Flat!Command
<1>2. CASE WriteChunk
  <2>1. SizeNext \in 0..SizeNext /\ SizeLeft > 0 /\ Advance /\ PageWrite(SizeNext)
    BY <1>2, ChunkSize DEF WriteChunk, TypeOK
  <2>2. /\ Remaining' = {a \in Remaining : ~(address <= a /\ a < address + SizeNext)}
        /\ Due' = [a \in Remaining' |-> Due[a]]
    BY <2>1, AdvanceOwes
  <2>3. Flat!Shrinks
    BY <2>2, DueType DEF DueOK, Flat!Shrinks
  <2>4. \A a \in Addresses :
          address <= a /\ a < address + SizeNext
            <=> a \in DOMAIN Due \ DOMAIN Due'
    <3>1. SizeNext <= SizeLeft /\ SizeNext \in Nat /\ SizeLeft \in Nat /\ address \in Int
      BY ChunkSize, Layout DEF TypeOK
    <3>2. \A a \in Addresses :
            address <= a /\ a < address + SizeNext => a \in Remaining
      BY <3>1, AddressesAre DEF Remaining
    <3>. QED  BY <2>2, <3>2, DueType DEF DueOK
  <2>5. ASSUME NEW a \in Addresses, address <= a, a < address + SizeNext
        PROVE  buf[OffsetData + 1 + (a - address)] = Due[a]
    <3>1. SizeNext <= SizeLeft /\ SizeNext \in Nat /\ SizeLeft \in Nat /\ address \in Int
      BY ChunkSize, Layout DEF TypeOK
    <3>2. a \in Remaining /\ a # end
      BY <2>5, <3>1, AddressesAre DEF Remaining, TypeOK, NoEnd
    <3>. QED  BY <3>2 DEF Due
  <2>6. mem' = [a \in Addresses |->
                  IF a \in DOMAIN Due \ DOMAIN Due' THEN Due[a] ELSE mem[a]]
    BY <2>1, <2>4, <2>5, ChunkLands
  <2>7. UNCHANGED faults
    BY <1>2 DEF WriteChunk
  <2>. QED  BY <2>3, <2>6, <2>7 DEF Flat!Next, Flat!Land
<1>3. CASE WriteTerminator
  <2>1. /\ SizeLeft = 0 /\ end \in Addresses /\ address' = end /\ SizeLeft' = 1
        /\ end' = NoEnd /\ buf' = <<ZeroByte>> /\ OffsetData' = 0
        /\ UNCHANGED <<mem, ZeroByte, faults>> /\ address \in Int
    BY <1>3, Layout DEF WriteTerminator, TypeOK
  <2>2. Remaining = {end}
    BY <2>1, AddressesAre DEF Remaining
  <2>3. Remaining' = {end}
    BY <2>1, AddressesAre DEF Remaining, NoEnd
  <2>4. Due = [a \in {end} |-> ZeroByte]
    BY <2>2 DEF Due
  <2>5. end # NoEnd /\ 0 + 1 + (end - end) = 1
    BY <2>1, AddressesAre DEF NoEnd
  <2>6. \A a \in {end} : (IF a = end' THEN ZeroByte' ELSE buf'[OffsetData' + 1 + (a - address')]) = ZeroByte
    BY <2>1, <2>5
  <2>7. Due' = [a \in {end} |-> ZeroByte]
    BY <2>3, <2>6 DEF Due
  <2>. QED  BY <2>1, <2>4, <2>7 DEF Flat!vars
<1>4. CASE ChunkRefused
  <2>1. SizeLeft > 0 /\ Advance /\ faults < MaxFaults /\ faults' = faults + 1
    BY <1>4 DEF ChunkRefused, Lost
  <2>2. PICK k \in 0..SizeNext-1 : PageWrite(k)
    BY <1>4 DEF ChunkRefused
  <2>3. k \in 0..SizeNext
    BY ChunkSize DEF TypeOK
  <2>4. /\ Remaining' = {a \in Remaining : ~(address <= a /\ a < address + SizeNext)}
        /\ Due' = [a \in Remaining' |-> Due[a]]
    BY <2>1, AdvanceOwes
  <2>5. Flat!Shrinks
    BY <2>4, DueType DEF DueOK, Flat!Shrinks
  <2>6. DOMAIN Due' = Remaining' /\ DOMAIN Due = Remaining
    BY <2>4, DueType DEF DueOK
  <2>7. /\ mem' = [a \in Addresses |-> mem'[a]]
        /\ \A a \in Addresses :
             \/ mem'[a] = mem[a]
             \/ a \in DOMAIN Due \ DOMAIN Due' /\ mem'[a] = Due[a]
    BY <2>2, <2>3, <2>4, <2>6, ChunkIsFault
  <2>. QED  BY <2>1, <2>5, <2>7 DEF Flat!Next, Flat!Fault
<1>5. CASE Restart
  <2>1. /\ faults < MaxFaults /\ faults' = faults + 1
        /\ SizeLeft' = 0 /\ end' = NoEnd /\ address' = 0
    BY <1>5 DEF Restart, Lost
  <2>2. PICK k \in 0..SizeNext : PageWrite(k)
    BY <1>5 DEF Restart
  <2>3. Remaining' = {} /\ DOMAIN Due = Remaining
    BY <2>1, AddressesAre, DueType DEF DueOK, Remaining, NoEnd
  <2>4. Due' = [a \in {} |-> Due[a]] /\ DOMAIN Due' = {}
    BY <2>3 DEF Due
  <2>5. Flat!Shrinks
    BY <2>4 DEF Flat!Shrinks
  <2>6. /\ mem' = [a \in Addresses |-> mem'[a]]
        /\ \A a \in Addresses :
             \/ mem'[a] = mem[a]
             \/ a \in DOMAIN Due \ DOMAIN Due' /\ mem'[a] = Due[a]
    BY <2>2, <2>3, <2>4, ChunkIsFault
  <2>. QED  BY <2>1, <2>5, <2>6 DEF Flat!Next, Flat!Fault
<1>6. CASE UNCHANGED vars
  BY <1>6 DEF vars, Flat!vars, Due, Remaining
<1>. QED  BY <1>1, <1>2, <1>3, <1>4, <1>5, <1>6 DEF Next

(* AT24CXX_Writes implements the flat memory, for every page size, text    *)
(* and address: however a command is cut into chunks, each of its bytes    *)
(* lands at its own address, and faults cost only bytes of that command.   *)
THEOREM ImplementsFlatMemory == Spec => KeepsFlat
<1>1. Init => Flat!Init
  BY InitFlat
<1>2. TypeOK /\ TypeOK' /\ [Next]_vars => [Flat!Next]_Flat!vars
  BY NextFlat
<1>. QED  BY <1>1, <1>2, StoreTypes, PTL DEF Spec, KeepsFlat, Flat!Spec

-----------------------------------------------------------------------------
(* Reading back.                                                           *)

(* A record begins at its place and ends before the next; nothing but the  *)
(* serial number lies from its own place on.                               *)
LEMMA Multiples ==
  ASSUME NEW w \in Nat, NEW m \in Nat, NEW n \in Nat, m < n
  PROVE  m * w \in Nat /\ n * w \in Nat /\ m * w + w <= n * w
<1>1. PICK d \in Nat : n = m + 1 + d
  <2>1. n - m - 1 \in Nat /\ n = m + 1 + (n - m - 1)
    OBVIOUS
  <2>. QED  BY <2>1
<1>2. n * w = m * w + w + d * w
  BY <1>1
<1>3. d * w \in Nat /\ m * w \in Nat /\ n * w \in Nat
  BY <1>1
<1>. QED  BY <1>2, <1>3

LEMMA Kinds ==
  /\ \A n \in 1..InfoPages : /\ <<"info", n>> \in Records \ Roms
                             /\ At(<<"info", n>>) = InfoAt(n)
  /\ \A n \in 1..RomLen : /\ <<"rom", n>> \in Records \cap Roms
                          /\ At(<<"rom", n>>) = RomAt(n)
  /\ Fsn \in Records \ Roms /\ At(Fsn) = FsnAt
  /\ Raw \notin Records
BY DEF Records, Infos, Roms, Fsn, Raw, At

Length(r) == IF r \in Roms THEN RomBytes ELSE PageBytes

LEMMA Extents ==
  /\ RomPage * PageBytes \in Nat /\ PageBytes \in Nat \ {0} /\ RomBytes \in Nat
  /\ \A r \in Records : Extent(r) = At(r) .. At(r) + Length(r) - 1
  /\ \A n \in 1..InfoPages : InfoAt(n) \in Nat /\ InfoAt(n) + PageBytes <= RomPage * PageBytes
  /\ \A n \in 1..RomLen : /\ RomAt(n) \in Nat /\ RomPage * PageBytes <= RomAt(n)
                          /\ RomAt(n) + RomBytes <= FsnAt
  /\ RomPage * PageBytes <= FsnAt
  /\ FsnAt \in Nat /\ Size \in Nat /\ FsnAt + PageBytes + PageBytes <= Size
<1>0. /\ PageBytes \in Nat \ {0} /\ RomBytes \in Nat /\ RomLen \in Nat /\ RomPage \in Nat
      /\ InfoPages \in Nat /\ FsnPage \in Nat /\ Pages \in Nat
  BY LayoutAssumption
<1>1. RomPage * PageBytes \in Nat /\ RomLen * RomBytes \in Nat /\ FsnAt \in Nat
  BY <1>0 DEF FsnAt
<1>2. RomPage * PageBytes + RomLen * RomBytes <= FsnAt
  BY LayoutAssumption DEF FsnAt
<1>3. ASSUME NEW n \in 1..InfoPages
      PROVE  InfoAt(n) \in Nat /\ InfoAt(n) + PageBytes <= RomPage * PageBytes
  <2>1. n - 1 \in Nat /\ n - 1 < RomPage
    BY <1>0, LayoutAssumption
  <2>. QED  BY <1>0, <2>1, Multiples DEF InfoAt
<1>4. ASSUME NEW n \in 1..RomLen
      PROVE  /\ RomAt(n) \in Nat /\ RomPage * PageBytes <= RomAt(n)
             /\ RomAt(n) + RomBytes <= FsnAt
  <2>1. n - 1 \in Nat /\ n - 1 < RomLen
    BY <1>0
  <2>2. (n - 1) * RomBytes \in Nat /\ (n - 1) * RomBytes + RomBytes <= RomLen * RomBytes
    BY <1>0, <2>1, Multiples
  <2>3. ASSUME NEW b \in Nat, NEW l \in Nat, NEW x \in Nat, NEW f \in Nat,
               b + l <= f, x + RomBytes <= l
        PROVE  b + x \in Nat /\ b <= b + x /\ (b + x) + RomBytes <= f
    BY <1>0, <2>3
  <2>4. RomAt(n) = RomPage * PageBytes + (n - 1) * RomBytes
    BY DEF RomAt
  <2>. QED  BY <1>1, <1>2, <2>2, <2>3, <2>4, ZenonT(60)
<1>5. FsnAt + PageBytes + PageBytes <= Size /\ Size \in Nat
  <2>1. FsnPage * PageBytes + PageBytes <= (FsnPage + 1) * PageBytes
    BY <1>0, Multiples
  <2>2. (FsnPage + 1) * PageBytes + PageBytes <= Pages * PageBytes
    BY <1>0, LayoutAssumption, Multiples
  <2>3. (FsnPage + 1) * PageBytes \in Nat /\ Size \in Nat
    BY <1>0 DEF Size
  <2>. QED  BY <1>0, <1>1, <2>1, <2>2, <2>3 DEF FsnAt, Size
<1>6. \A r \in Records : Extent(r) = At(r) .. At(r) + Length(r) - 1
  BY DEF Extent, Length
<1>. QED  BY <1>0, <1>1, <1>2, <1>3, <1>4, <1>5, <1>6

LEMMA OneOf ==
  ASSUME NEW r \in Records
  PROVE  \/ \E n \in 1..InfoPages : r = <<"info", n>>
         \/ \E n \in 1..RomLen : r = <<"rom", n>>
         \/ r = Fsn
BY DEF Records, Infos, Roms

LEMMA ExtentInChip ==
  ASSUME NEW r \in Records
  PROVE  /\ At(r) \in Nat /\ Length(r) \in Nat /\ At(r) + Length(r) <= Size
         /\ Extent(r) \subseteq Addresses
         /\ r # Fsn => At(r) + Length(r) <= FsnAt
<1>1. At(r) \in Nat /\ Length(r) \in Nat /\ At(r) + Length(r) <= Size
      /\ (r # Fsn => At(r) + Length(r) <= FsnAt)
  <2>1. CASE \E n \in 1..InfoPages : r = <<"info", n>>
    BY <2>1, Kinds, Extents DEF Length
  <2>2. CASE \E n \in 1..RomLen : r = <<"rom", n>>
    BY <2>2, Kinds, Extents DEF Length
  <2>3. CASE r = Fsn
    BY <2>3, Kinds, Extents DEF Length
  <2>. QED  BY <2>1, <2>2, <2>3, OneOf
<1>. QED  BY <1>1, Extents, AddressesAre

LEMMA ExtentsApart ==
  ASSUME NEW r \in Records, NEW s \in Records, r # s
  PROVE  Extent(r) \cap Extent(s) = {}
<1>. DEFINE Before(q, t) == At(q) + Length(q) <= At(t)
<1>1. Before(r, s) \/ Before(s, r)
  <2>1. ASSUME NEW m \in 1..InfoPages, NEW n \in 1..InfoPages, m < n
        PROVE  InfoAt(m) + PageBytes <= InfoAt(n)
    <3>1. m - 1 \in Nat /\ n - 1 \in Nat /\ m - 1 < n - 1
      BY <2>1
    <3>. QED  BY <3>1, Extents, Multiples DEF InfoAt
  <2>2. ASSUME NEW m \in 1..RomLen, NEW n \in 1..RomLen, m < n
        PROVE  RomAt(m) + RomBytes <= RomAt(n)
    <3>1. m - 1 \in Nat /\ n - 1 \in Nat /\ m - 1 < n - 1
      BY <2>2
    <3>2. (m - 1) * RomBytes \in Nat /\ (n - 1) * RomBytes \in Nat
          /\ (m - 1) * RomBytes + RomBytes <= (n - 1) * RomBytes
      BY <3>1, Extents, Multiples
    <3>3. ASSUME NEW b \in Nat, NEW x \in Nat, NEW y \in Nat, x + RomBytes <= y
          PROVE  (b + x) + RomBytes <= b + y
      BY <3>3, Extents
    <3>. QED  BY <3>2, <3>3, Extents DEF RomAt
  <2>3. CASE r = Fsn \/ s = Fsn
    BY <2>3, ExtentInChip, Kinds
  <2>4. ASSUME NEW m \in 1..InfoPages, NEW n \in 1..RomLen
        PROVE  InfoAt(m) + PageBytes <= RomAt(n)
    BY Extents
  <2>5. CASE \E m \in 1..InfoPages : r = <<"info", m>>
    <3>1. PICK m \in 1..InfoPages : r = <<"info", m>>
      BY <2>5
    <3>2. At(r) = InfoAt(m) /\ Length(r) = PageBytes
      BY <3>1, Kinds DEF Length
    <3>3. ASSUME NEW n \in 1..InfoPages, s = <<"info", n>>
          PROVE  Before(r, s) \/ Before(s, r)
      <4>1. m < n \/ n < m
        BY <3>1, <3>3
      <4>2. At(s) = InfoAt(n) /\ Length(s) = PageBytes
        BY <3>3, Kinds DEF Length
      <4>. QED  BY <2>1, <3>2, <4>1, <4>2
    <3>4. ASSUME NEW n \in 1..RomLen, s = <<"rom", n>>
          PROVE  Before(r, s)
      BY <2>4, <3>2, <3>4, Kinds
    <3>. QED  BY <2>3, <3>3, <3>4, OneOf
  <2>6. CASE \E m \in 1..RomLen : r = <<"rom", m>>
    <3>1. PICK m \in 1..RomLen : r = <<"rom", m>>
      BY <2>6
    <3>2. At(r) = RomAt(m) /\ Length(r) = RomBytes
      BY <3>1, Kinds DEF Length
    <3>3. ASSUME NEW n \in 1..RomLen, s = <<"rom", n>>
          PROVE  Before(r, s) \/ Before(s, r)
      <4>1. m < n \/ n < m
        BY <3>1, <3>3
      <4>2. At(s) = RomAt(n) /\ Length(s) = RomBytes
        BY <3>3, Kinds DEF Length
      <4>. QED  BY <2>2, <3>2, <4>1, <4>2
    <3>4. ASSUME NEW n \in 1..InfoPages, s = <<"info", n>>
          PROVE  Before(s, r)
      BY <2>4, <3>2, <3>4, Kinds DEF Length
    <3>. QED  BY <2>3, <3>3, <3>4, OneOf
  <2>. QED  BY <2>3, <2>5, <2>6, OneOf
<1>. QED  BY <1>1, Extents, ExtentInChip

(* The chip as it will be when the command is over, if no fault meets it.  *)
Image == [a \in Addresses |-> IF a \in Remaining THEN Due[a] ELSE mem[a]]

(* What a record keeps of the text that was typed.                         *)
Kept(what) == AsSent(what.text, what.lower)

(* A record of the chip holds what was saved in it: its text, and the end  *)
(* of the text where it has one.                                           *)
Holds(r, what, image) ==
  /\ Kept(what) \in Seq(Bytes) /\ Len(Kept(what)) <= Length(r)
  /\ \A i \in 1..Len(Kept(what)) : image[At(r) + i - 1] = Kept(what)[i]
  /\ r \in Roms => Len(Kept(what)) = RomBytes /\ what.ended
  /\ r \notin Roms =>
       /\ \A i \in 1..Len(Kept(what)) : ~Ends(Kept(what)[i])
       /\ what.ended =>
            Len(Kept(what)) = PageBytes \/ Ends(image[At(r) + Len(Kept(what))])

(* What is known of a record stays true through what the command still has *)
(* to write, and that lies outside every known record but its own.         *)
Keeps ==
  /\ saved = [r \in Records |-> saved[r]]
  /\ \A r \in Records :
       saved[r].known => /\ Holds(r, saved[r], Image)
                         /\ r = target \/ Remaining \cap Extent(r) = {}

(* Only the bytes of the record matter.                                    *)
LEMMA HoldsStays ==
  ASSUME NEW r \in Records, NEW what, NEW image, NEW other,
         Holds(r, what, image), \A a \in Extent(r) : other[a] = image[a]
  PROVE  Holds(r, what, other)
<1>1. /\ At(r) \in Nat /\ Length(r) \in Nat /\ Extent(r) = At(r) .. At(r) + Length(r) - 1
      /\ Len(Kept(what)) \in Nat /\ Len(Kept(what)) <= Length(r)
  BY ExtentInChip, Extents DEF Holds
<1>2. ASSUME NEW i \in 1..Len(Kept(what))
      PROVE  other[At(r) + i - 1] = Kept(what)[i]
  <2>1. At(r) + i - 1 \in Extent(r)
    BY <1>1
  <2>. QED  BY <2>1 DEF Holds
<1>3. ASSUME r \notin Roms, Len(Kept(what)) # PageBytes
      PROVE  other[At(r) + Len(Kept(what))] = image[At(r) + Len(Kept(what))]
  <2>1. Length(r) = PageBytes /\ PageBytes \in Nat
    BY <1>3, Extents DEF Length
  <2>2. At(r) + Len(Kept(what)) \in Extent(r)
    BY <1>1, <1>3, <2>1
  <2>. QED  BY <2>2
<1>. QED  BY <1>2, <1>3 DEF Holds

(* A chunk or a terminator that no fault meets leaves the image alone.     *)
LEMMA FaultlessImage ==
  ASSUME TypeOK, TypeOK', [Next]_vars, ~Idle, UNCHANGED faults
  PROVE  Remaining' \subseteq Remaining /\ Image' = Image
<1>1. Remaining # {}
  <2>1. CASE SizeLeft > 0
    <3>1. address \in Addresses /\ address <= address /\ address < address + SizeLeft
      BY <2>1, AddressesAre, Layout DEF TypeOK
    <3>. QED  BY <3>1 DEF Remaining
  <2>2. CASE end # NoEnd
    BY <2>2 DEF TypeOK, Remaining
  <2>. QED  BY <2>1, <2>2 DEF Idle, TypeOK
<1>2. DOMAIN Due = Remaining /\ DOMAIN Due' = Remaining'
  BY DueType, DueTypeAfter DEF DueOK
<1>3. Due # Flat!Nothing
  BY <1>1, <1>2 DEF Flat!Nothing
<1>4. faults' # faults + 1
  BY DEF TypeOK
<1>5. CASE Flat!Land
  <2>1. Remaining' \subseteq Remaining /\ Due' = [a \in Remaining' |-> Due[a]]
    BY <1>2, <1>5 DEF Flat!Land, Flat!Shrinks
  <2>2. mem' = [a \in Addresses |-> IF a \in Remaining \ Remaining' THEN Due[a] ELSE mem[a]]
    BY <1>2, <1>5 DEF Flat!Land
  <2>. QED  BY <2>1, <2>2 DEF Image
<1>6. CASE UNCHANGED Flat!vars
  BY <1>2, <1>6 DEF Flat!vars, Image
<1>. QED  BY <1>3, <1>4, <1>5, <1>6, NextFlat DEF Flat!Next, Flat!Command, Flat!Fault

(* What a fault costs is due.                                              *)
LEMMA FaultyMem ==
  ASSUME TypeOK, TypeOK', [Next]_vars, faults' = faults + 1
  PROVE  /\ Remaining' \subseteq Remaining
         /\ \A a \in Addresses \ Remaining : Image'[a] = Image[a]
<1>1. DOMAIN Due = Remaining /\ DOMAIN Due' = Remaining'
  BY DueType, DueTypeAfter DEF DueOK
<1>2. faults' # faults
  BY DEF TypeOK
<1>3. Flat!Fault
  BY <1>2, NextFlat DEF Flat!Next, Flat!Command, Flat!Land, Flat!vars
<1>4. Remaining' \subseteq Remaining
      /\ \A a \in Addresses : mem'[a] = mem[a] \/ a \in Remaining
  BY <1>1, <1>3 DEF Flat!Fault, Flat!Shrinks
<1>. QED  BY <1>4 DEF Image

LEMMA FaultlessKeeps ==
  ASSUME TypeOK, TypeOK', Keeps, WriteChunk \/ WriteTerminator
  PROVE  Keeps'
<1>1. ~Idle /\ UNCHANGED <<faults, saved, target>> /\ Next
  BY DEF WriteChunk, WriteTerminator, Advance, Idle, TypeOK, Next
<1>2. Remaining' \subseteq Remaining /\ Image' = Image
  BY <1>1, FaultlessImage
<1>3. ASSUME NEW r \in Records, saved'[r].known
      PROVE  Holds(r, saved'[r], Image') /\ (r = target' \/ Remaining' \cap Extent(r) = {})
  BY <1>1, <1>2, <1>3 DEF Keeps
<1>4. saved' = [r \in Records |-> saved'[r]]
  BY <1>1 DEF Keeps
<1>. QED  BY <1>3, <1>4 DEF Keeps

LEMMA FaultyKeeps ==
  ASSUME TypeOK, TypeOK', Keeps, ChunkRefused \/ Restart
  PROVE  Keeps'
<1>1. /\ faults' = faults + 1 /\ Next
      /\ saved' = IF target = Raw THEN saved ELSE [saved EXCEPT ![target] = Unknown]
  BY DEF ChunkRefused, Restart, Lost, Next
<1>2. /\ Remaining' \subseteq Remaining
      /\ \A a \in Addresses \ Remaining : Image'[a] = Image[a]
  BY <1>1, FaultyMem
<1>3. saved' = [r \in Records |-> saved'[r]]
  BY <1>1 DEF Keeps
<1>4. ASSUME NEW r \in Records, saved'[r].known
      PROVE  r # target /\ saved'[r] = saved[r]
  BY <1>1, <1>4, Kinds DEF Keeps, Unknown
<1>5. ASSUME NEW r \in Records, saved'[r].known
      PROVE  Holds(r, saved'[r], Image') /\ Remaining' \cap Extent(r) = {}
  <2>1. Holds(r, saved[r], Image) /\ Remaining \cap Extent(r) = {}
    BY <1>4, <1>5 DEF Keeps
  <2>2. \A a \in Extent(r) : Image'[a] = Image[a]
    BY <1>2, <2>1, ExtentInChip
  <2>. QED  BY <1>2, <1>4, <1>5, <2>1, <2>2, HoldsStays
<1>. QED  BY <1>3, <1>5 DEF Keeps

(* What a command is about to write, and where.                            *)
LEMMA StartReach ==
  ASSUME TypeOK, NEW r, NEW a \in 0..Size, NEW text \in Seq(Bytes),
         NEW terminator, NEW what, Start(r, a, text, terminator, what)
  PROVE  /\ Image = mem /\ target' = r /\ saved' = what
         /\ \A b \in Remaining' :
              /\ b \in Addresses /\ a <= b /\ b <= a + Len(text)
              /\ terminator \/ b < a + Len(text)
         /\ \A b \in Addresses \ Remaining' : Image'[b] = mem[b]
         /\ a + Len(text) <= Size =>
              \A i \in 1..Len(text) : Image'[a + i - 1] = text[i]
         /\ (a + Len(text) < Size /\ terminator) => Image'[a + Len(text)] = ZeroByte
<1>1. /\ Size \in Nat /\ Len(text) \in Nat /\ a \in Nat /\ a <= Size
      /\ address' = a /\ buf' = text /\ OffsetData' = 0
      /\ SizeLeft' = IF a + Len(text) <= Size THEN Len(text) ELSE 0
      /\ end' = IF terminator /\ a + Len(text) < Size THEN a + Len(text) ELSE NoEnd
      /\ target' = r /\ saved' = what /\ UNCHANGED <<mem, ZeroByte>>
  BY Layout DEF Start
<1>2. Image = mem
  <2>1. Remaining = {}
    BY AddressesAre, Layout DEF Start, Idle, Remaining, TypeOK, NoEnd
  <2>. QED  BY <2>1 DEF Image, TypeOK
<1>3. ASSUME NEW b \in Remaining'
      PROVE  /\ b \in Addresses /\ a <= b /\ b <= a + Len(text)
             /\ terminator \/ b < a + Len(text)
  BY <1>1, AddressesAre DEF Remaining, NoEnd
<1>4. \A b \in Addresses \ Remaining' : Image'[b] = mem[b]
  BY <1>1 DEF Image
<1>5. ASSUME NEW i \in 1..Len(text), a + Len(text) <= Size
      PROVE  Image'[a + i - 1] = text[i]
  <2>1. a + i - 1 \in Addresses /\ a + i - 1 \in Remaining' /\ a + i - 1 # end'
    BY <1>1, <1>5, AddressesAre DEF Remaining, NoEnd
  <2>2. Due'[a + i - 1] = buf'[OffsetData' + 1 + ((a + i - 1) - address')]
    BY <2>1 DEF Due
  <2>3. OffsetData' + 1 + ((a + i - 1) - address') = i
    BY <1>1
  <2>. QED  BY <1>1, <2>1, <2>2, <2>3 DEF Image
<1>6. ASSUME a + Len(text) < Size, terminator
      PROVE  Image'[a + Len(text)] = ZeroByte
  <2>1. end' = a + Len(text) /\ end' \in Addresses
    BY <1>1, <1>6, AddressesAre
  <2>2. end' \in Remaining'
    BY <2>1 DEF Remaining
  <2>. QED  BY <1>1, <2>1, <2>2 DEF Due, Image
<1>. QED  BY <1>1, <1>2, <1>3, <1>4, <1>5, <1>6

(* A command keeps what is known of the records if it stays out of those   *)
(* that stay known, but the one it saves, which it writes as told.         *)
LEMMA StartKeeps ==
  ASSUME TypeOK, Keeps, NEW r, NEW a \in 0..Size, NEW text \in Seq(Bytes),
         NEW terminator, NEW what, Start(r, a, text, terminator, what),
         what = [q \in Records |-> what[q]],
         \A q \in Records : what[q].known =>
            \/ q = r /\ Holds(q, what[q], Image')
            \/ what[q] = saved[q] /\ Remaining' \cap Extent(q) = {}
  PROVE  Keeps'
<1>1. /\ Image = mem /\ target' = r /\ saved' = what
      /\ \A b \in Addresses \ Remaining' : Image'[b] = mem[b]
  BY StartReach
<1>2. ASSUME NEW q \in Records, what[q].known, what[q] = saved[q],
             Remaining' \cap Extent(q) = {}
      PROVE  Holds(q, what[q], Image')
  <2>1. Holds(q, what[q], Image)
    BY <1>2 DEF Keeps
  <2>2. \A b \in Extent(q) : Image'[b] = Image[b]
    BY <1>1, <1>2, ExtentInChip
  <2>. QED  BY <2>1, <2>2, HoldsStays
<1>. QED  BY <1>1, <1>2 DEF Keeps

(* A command that saves one record and writes nothing outside it.          *)
LEMMA SavesKeeps ==
  ASSUME TypeOK, Keeps, NEW r \in Records, NEW text \in Seq(Bytes),
         NEW terminator, NEW told, NEW lower, NEW ended,
         Start(r, At(r), text, terminator, Saves(r, told, lower, ended)),
         Remaining' \subseteq Extent(r) \/ (r = Fsn /\ \A b \in Remaining' : FsnAt <= b),
         Len(told) <= PageBytes =>
           Holds(r, [known |-> TRUE, text |-> told, lower |-> lower, ended |-> ended],
                 Image')
  PROVE  Keeps'
<1>. DEFINE what == Saves(r, told, lower, ended)
<1>1. /\ what = [q \in Records |-> what[q]]
      /\ what[r] = IF Len(told) <= PageBytes
                   THEN [known |-> TRUE, text |-> told, lower |-> lower, ended |-> ended]
                   ELSE Unknown
      /\ \A q \in Records \ {r} : what[q] = saved[q]
  BY DEF Keeps, Saves
<1>2. ASSUME NEW q \in Records \ {r}
      PROVE  Remaining' \cap Extent(q) = {}
  <2>1. CASE Remaining' \subseteq Extent(r)
    BY <2>1, ExtentsApart
  <2>2. CASE r = Fsn /\ \A b \in Remaining' : FsnAt <= b
    <3>1. /\ At(q) \in Nat /\ Length(q) \in Nat /\ At(q) + Length(q) <= FsnAt
          /\ Extent(q) = At(q) .. At(q) + Length(q) - 1
      BY <2>2, ExtentInChip, Extents
    <3>. QED  BY <2>2, <3>1, Extents
  <2>. QED  BY <2>1, <2>2
<1>3. ASSUME what[r].known
      PROVE  Holds(r, what[r], Image')
  <2>1. Len(told) <= PageBytes
    BY <1>1, <1>3 DEF Unknown
  <2>. QED  BY <1>1, <2>1
<1>4. At(r) \in 0..Size
  BY ExtentInChip, Extents
<1>5. ASSUME NEW q \in Records, what[q].known
      PROVE  \/ q = r /\ Holds(q, what[q], Image')
             \/ what[q] = saved[q] /\ Remaining' \cap Extent(q) = {}
  BY <1>1, <1>2, <1>3, <1>5
<1>. HIDE DEF what
<1>6. Start(r, At(r), text, terminator, what)
  BY DEF what
<1>. QED  BY <1>1, <1>4, <1>5, <1>6, StartKeeps

(* A text shorter than the range of a uint8_t is counted right, and none   *)
(* of its characters ends it.                                              *)
LEMMA Counted ==
  ASSUME NEW text \in Seq(Chars)
  PROVE  /\ text \in Seq(Bytes) /\ AsCounted(text) \in Seq(Bytes)
         /\ Len(text) \in Nat /\ Len(AsCounted(text)) \in Nat
         /\ Len(text) <= PageBytes => AsCounted(text) = text
         /\ \A i \in 1..Len(text) : ~Ends(text[i])
<1>1. text \in Seq(Bytes) /\ Len(text) \in Nat
  BY DEF Bytes
<1>2. Len(text) % LengthRange \in Nat /\ Len(text) % LengthRange <= Len(text)
  BY LayoutAssumption
<1>3. AsCounted(text) \in Seq(Bytes)
  BY <1>1, <1>2 DEF AsCounted
<1>4. ASSUME Len(text) <= PageBytes
      PROVE  AsCounted(text) = text
  <2>1. Len(text) % LengthRange = Len(text)
    BY <1>1, <1>4, LayoutAssumption
  <2>. QED  BY <1>1, <2>1 DEF AsCounted
<1>5. \A i \in 1..Len(text) : ~Ends(text[i])
  BY TextAssumption DEF Ends
<1>. QED  BY <1>1, <1>3, <1>4, <1>5

LEMMA InfoKeeps ==
  ASSUME TypeOK, Keeps, NEW n \in 1..InfoPages, NEW typed \in Texts, NEW lower,
         WritePageStringToEEPROM(n, typed, lower)
  PROVE  Keeps'
<1>. DEFINE r == <<"info", n>>
            text == AsSent(typed, lower)
            data == AsCounted(text)
            ended == Ends(ZeroByte) \/ Len(data) = PageBytes
<1>1. /\ r \in Records \ Roms /\ At(r) = InfoAt(n) /\ Length(r) = PageBytes
      /\ At(r) \in Nat /\ At(r) + PageBytes <= FsnAt /\ At(r) \in 0..Size
      /\ Extent(r) = At(r) .. At(r) + PageBytes - 1
      /\ PageBytes \in Nat \ {0} /\ FsnAt + PageBytes + PageBytes <= Size
      /\ Size \in Nat /\ FsnAt \in Nat
  BY Kinds, Extents DEF Length
<1>2. /\ text \in Seq(Chars) /\ text \in Seq(Bytes) /\ data \in Seq(Bytes)
      /\ Len(data) \in Nat /\ (Len(text) <= PageBytes => data = text)
      /\ \A i \in 1..Len(text) : ~Ends(text[i])
      /\ Len(text) = Len(typed)
  BY TextAssumption, Sent, Counted
<1>3. /\ Len(data) <= PageBytes
      /\ Start(r, At(r), data, Len(data) # PageBytes, Saves(r, typed, lower, ended))
  BY <1>1 DEF WritePageStringToEEPROM
<1>. DEFINE what == [known |-> TRUE, text |-> typed, lower |-> lower, ended |-> ended]
<1>4. Kept(what) = text /\ what.ended = ended
  BY DEF Kept
<1>. HIDE DEF r, text, data, ended, what
<1>5. At(r) + Len(data) < Size /\ At(r) + Len(data) <= Size
  BY <1>1, <1>2, <1>3
<1>6. /\ \A b \in Remaining' :
           /\ b \in Addresses /\ At(r) <= b /\ b <= At(r) + Len(data)
           /\ Len(data) # PageBytes \/ b < At(r) + Len(data)
      /\ \A i \in 1..Len(data) : Image'[At(r) + i - 1] = data[i]
      /\ Len(data) # PageBytes => Image'[At(r) + Len(data)] = ZeroByte
  BY <1>1, <1>2, <1>3, <1>5, StartReach
<1>7. Remaining' \subseteq Extent(r)
  BY <1>1, <1>2, <1>3, <1>6, AddressesAre
<1>8. ASSUME Len(typed) <= PageBytes
      PROVE  Holds(r, what, Image')
  <2>1. Ends(ZeroByte) /\ Len(data) # PageBytes => Ends(Image'[At(r) + Len(data)])
    BY <1>6
  <2>. QED  BY <1>1, <1>2, <1>4, <1>6, <1>8, <2>1 DEF Holds, ended
<1>. QED  BY <1>1, <1>2, <1>3, <1>7, <1>8, SavesKeeps DEF what

LEMMA RomKeeps ==
  ASSUME TypeOK, Keeps, NEW n \in 1..RomLen, NEW number \in Numbers,
         command_rom(n, number)
  PROVE  Keeps'
<1>. DEFINE r == <<"rom", n>>
<1>1. /\ r \in Records /\ r \in Roms /\ At(r) = RomAt(n) /\ Length(r) = RomBytes
      /\ At(r) \in Nat /\ At(r) + RomBytes <= Size /\ At(r) \in 0..Size
      /\ Extent(r) = At(r) .. At(r) + RomBytes - 1 /\ RomBytes \in Nat /\ Size \in Nat
  BY Kinds, Extents DEF Length
<1>2. number \in Seq(Bytes) /\ Len(number) = RomBytes
  BY TextAssumption, LayoutAssumption
<1>3. Start(r, At(r), number, FALSE, Saves(r, number, FALSE, TRUE))
  BY <1>1 DEF command_rom
<1>. DEFINE what == [known |-> TRUE, text |-> number, lower |-> FALSE, ended |-> TRUE]
<1>4. Kept(what) = number /\ what.ended
  BY DEF Kept, AsSent
<1>. HIDE DEF r, what
<1>5. /\ \A b \in Remaining' : b \in Addresses /\ At(r) <= b /\ b < At(r) + Len(number)
      /\ \A i \in 1..Len(number) : Image'[At(r) + i - 1] = number[i]
  BY <1>1, <1>2, <1>3, StartReach
<1>6. Remaining' \subseteq Extent(r)
  BY <1>1, <1>2, <1>5, AddressesAre
<1>7. Holds(r, what, Image')
  BY <1>1, <1>2, <1>4, <1>5 DEF Holds
<1>. QED  BY <1>1, <1>2, <1>3, <1>6, <1>7, SavesKeeps DEF what

LEMMA FsnKeeps ==
  ASSUME TypeOK, Keeps, NEW typed \in Texts, command_fsn(typed)
  PROVE  Keeps'
<1>. DEFINE text == MakeLowercaseTo(typed)
            what == [known |-> TRUE, text |-> typed, lower |-> TRUE, ended |-> FALSE]
<1>1. /\ Fsn \in Records \ Roms /\ At(Fsn) = FsnAt /\ Length(Fsn) = PageBytes
      /\ FsnAt \in Nat /\ PageBytes \in Nat /\ Size \in Nat /\ FsnAt \in 0..Size
      /\ FsnAt + PageBytes + PageBytes <= Size
  BY Kinds, Extents DEF Length
<1>2. /\ text \in Seq(Bytes) /\ Len(text) \in Nat
      /\ \A i \in 1..Len(text) : ~Ends(text[i])
      /\ Len(text) = Len(typed) /\ Kept(what) = text /\ what.ended = FALSE
  BY TextAssumption, Sent, Counted DEF Kept
<1>3. /\ Len(text) \in 1..PageBytes-1
      /\ Start(Fsn, At(Fsn), text, FALSE, Saves(Fsn, typed, TRUE, FALSE))
  BY <1>1, <1>2 DEF command_fsn
<1>. HIDE DEF text, what
<1>4. FsnAt + Len(text) <= Size
  BY <1>1, <1>2, <1>3
<1>5. /\ \A b \in Remaining' : FsnAt <= b
      /\ \A i \in 1..Len(text) : Image'[FsnAt + i - 1] = text[i]
  BY <1>1, <1>2, <1>3, <1>4, StartReach
<1>6. Holds(Fsn, what, Image')
  BY <1>1, <1>2, <1>3, <1>5 DEF Holds
<1>. QED  BY <1>1, <1>2, <1>3, <1>5, <1>6, SavesKeeps DEF what

(* The serial number brings its own NUL.                                   *)
LEMMA SnKeeps ==
  ASSUME TypeOK, Keeps, NEW typed \in Texts, command_sn(typed)
  PROVE  Keeps'
<1>. DEFINE text == MakeLowercaseTo(typed)
            whole == Append(text, NUL)
            what == [known |-> TRUE, text |-> typed, lower |-> TRUE, ended |-> TRUE]
<1>1. /\ Fsn \in Records \ Roms /\ At(Fsn) = FsnAt /\ Length(Fsn) = PageBytes
      /\ FsnAt \in Nat /\ PageBytes \in Nat \ {0} /\ Size \in Nat /\ FsnAt \in 0..Size
      /\ FsnAt + PageBytes + PageBytes <= Size
  BY Kinds, Extents DEF Length
<1>2. /\ text \in Seq(Bytes) /\ Len(text) \in Nat
      /\ \A i \in 1..Len(text) : ~Ends(text[i])
      /\ Len(text) = Len(typed) /\ Kept(what) = text /\ what.ended
  BY TextAssumption, Sent, Counted DEF Kept
<1>3. /\ whole \in Seq(Bytes) /\ Len(whole) = Len(text) + 1
      /\ \A i \in 1..Len(text) : whole[i] = text[i]
      /\ whole[Len(text) + 1] = NUL
  BY <1>2 DEF Bytes
<1>4. Start(Fsn, At(Fsn), whole, FALSE, Saves(Fsn, typed, TRUE, TRUE))
  BY <1>1 DEF command_sn
<1>. HIDE DEF text, whole, what
<1>5. /\ \A b \in Remaining' : FsnAt <= b
      /\ FsnAt + Len(whole) <= Size =>
           \A i \in 1..Len(whole) : Image'[FsnAt + i - 1] = whole[i]
  BY <1>1, <1>3, <1>4, StartReach
<1>6. ASSUME Len(typed) <= PageBytes
      PROVE  Holds(Fsn, what, Image')
  <2>1. \A i \in 1..Len(whole) : Image'[FsnAt + i - 1] = whole[i]
    <3>1. FsnAt + Len(whole) <= Size
      BY <1>1, <1>2, <1>3, <1>6
    <3>. QED  BY <1>5, <3>1
  <2>2. \A i \in 1..Len(text) : Image'[FsnAt + i - 1] = text[i]
    BY <1>2, <1>3, <2>1
  <2>3. FsnAt + (Len(text) + 1) - 1 = FsnAt + Len(text) /\ Len(text) + 1 \in 1..Len(whole)
    BY <1>1, <1>2, <1>3
  <2>4. Ends(Image'[FsnAt + Len(text)])
    BY <1>3, <2>1, <2>3 DEF Ends
  <2>. QED  BY <1>1, <1>2, <1>6, <2>2, <2>4 DEF Holds
<1>. QED  BY <1>1, <1>2, <1>3, <1>4, <1>5, <1>6, SavesKeeps DEF what

(* A raw write spoils every record it reaches.                             *)
LEMMA RawKeeps ==
  ASSUME TypeOK, Keeps, NEW a \in 0..Size, NEW text \in Seq(Bytes), NEW n \in Nat,
         NEW terminator, Start(Raw, a, text, terminator, Spoilt(a, n)),
         \A b \in Remaining' : a <= b /\ b < a + n
  PROVE  Keeps'
<1>1. Spoilt(a, n) = [q \in Records |-> Spoilt(a, n)[q]]
  BY DEF Spoilt
<1>2. ASSUME NEW q \in Records, Spoilt(a, n)[q].known
      PROVE  Spoilt(a, n)[q] = saved[q] /\ Remaining' \cap Extent(q) = {}
  <2>1. Spoilt(a, n)[q] = IF \E b \in Extent(q) : a <= b /\ b < a + n
                          THEN Unknown ELSE saved[q]
    BY DEF Spoilt
  <2>2. ~(\E b \in Extent(q) : a <= b /\ b < a + n)
    BY <1>2, <2>1 DEF Unknown
  <2>. QED  BY <2>1, <2>2
<1>. QED  BY <1>1, <1>2, StartKeeps

LEMMA CommandKeeps ==
  ASSUME TypeOK, Keeps, Command
  PROVE  Keeps'
<1>1. ASSUME NEW w \in RawWrites, Write(w[1], w[2])
      PROVE  Keeps'
  <2>1. /\ w[1] \in 0..Size /\ w[1] \in Nat /\ w[2] \in Seq(Bytes) /\ Len(w[2]) \in Nat
    BY TextAssumption, Layout, Counted, AddressesAre
  <2>2. Start(Raw, w[1], w[2], FALSE, Spoilt(w[1], Len(w[2])))
    BY <1>1 DEF Write
  <2>3. \A b \in Remaining' : w[1] <= b /\ b < w[1] + Len(w[2])
    BY <2>1, <2>2, StartReach
  <2>. QED  BY <2>1, <2>2, <2>3, RawKeeps
<1>2. ASSUME NEW w \in RawWrites, w[1] % PageBytes = 0,
             WritePage(w[1] \div PageBytes, w[2])
      PROVE  Keeps'
  <2>. DEFINE data == AsCounted(w[2])
              n == Lesser(Len(data) + 1, PageBytes)
  <2>1. /\ w[1] \in 0..Size /\ w[1] \in Nat /\ data \in Seq(Bytes) /\ Len(data) \in Nat
        /\ Size \in Nat /\ PageBytes \in Nat
    BY TextAssumption, LayoutAssumption, Layout, Counted, AddressesAre
  <2>2. (w[1] \div PageBytes) * PageBytes = w[1]
    BY <1>2, <2>1, LayoutAssumption
  <2>3. /\ Len(data) \in 1..PageBytes
        /\ Start(Raw, w[1], data, Len(data) # PageBytes, Spoilt(w[1], n))
    BY <1>2, <2>2 DEF WritePage
  <2>. HIDE DEF data
  <2>4. n \in Nat /\ n = IF Len(data) = PageBytes THEN Len(data) ELSE Len(data) + 1
    BY <2>1, <2>3 DEF Lesser
  <2>. HIDE DEF n
  <2>5. \A b \in Remaining' :
          /\ b \in Addresses /\ w[1] <= b /\ b <= w[1] + Len(data)
          /\ Len(data) # PageBytes \/ b < w[1] + Len(data)
    BY <2>1, <2>3, StartReach
  <2>6. \A b \in Remaining' : w[1] <= b /\ b < w[1] + n
    BY <2>1, <2>3, <2>4, <2>5, AddressesAre
  <2>. QED  BY <2>1, <2>3, <2>4, <2>6, RawKeeps
<1>. QED  BY <1>1, <1>2, InfoKeeps, RomKeeps, FsnKeeps, SnKeeps
          DEF Command, command_infoPage, savedata

LEMMA KeepsNext ==
  ASSUME TypeOK, TypeOK', Keeps, [Next]_vars
  PROVE  Keeps'
<1>1. CASE Command
  BY <1>1, CommandKeeps
<1>2. CASE WriteChunk \/ WriteTerminator
  BY <1>2, FaultlessKeeps
<1>3. CASE ChunkRefused \/ Restart
  BY <1>3, FaultyKeeps
<1>4. CASE UNCHANGED vars
  BY <1>4 DEF vars, Keeps, Image, Remaining, Due
<1>. QED  BY <1>1, <1>2, <1>3, <1>4 DEF Next

LEMMA InitKeeps == Init => Keeps
BY DEF Init, Keeps, Unknown

LEMMA LeastNatural ==
  ASSUME NEW S, S \subseteq Nat, S # {}
  PROVE  \E n \in S : \A m \in S : n <= m
<1>1. IsWellFoundedOn(OpToRel(<, Nat), Nat)
  BY NatLessThanWellFounded, Zenon
<1>2. \E n \in S : \A m \in S : ~ (<<m, n>> \in OpToRel(<, Nat))
  BY <1>1, WFMin, Zenon
<1>3. PICK n \in S : \A m \in S : ~ (<<m, n>> \in OpToRel(<, Nat))
  BY <1>2
<1>4. \A m \in S : ~ (m < n)
  BY <1>3 DEF OpToRel
<1>. QED  BY <1>4

(* A page that begins with a text reads as it, or as a text that begins    *)
(* with it.                                                                *)
LEMMA TextRead ==
  ASSUME TypeOK, NEW a \in Nat, a + PageBytes <= Size,
         NEW text \in Seq(Bytes), Len(text) <= PageBytes,
         \A i \in 1..Len(text) : mem[a + i - 1] = text[i] /\ ~Ends(text[i])
  PROVE  /\ StartsWith(TextAt(a), text)
         /\ Len(text) = PageBytes \/ Ends(mem[a + Len(text)]) => TextAt(a) = text
<1>. DEFINE IsLength(n) == /\ \A i \in 0..n-1 : ~Ends(mem[a + i])
                           /\ n < PageBytes => Ends(mem[a + n])
            len == CHOOSE n \in 0..PageBytes : IsLength(n)
<1>0. PageBytes \in Nat /\ Size \in Nat /\ Len(text) \in Nat
  BY LayoutAssumption, Layout
<1>1. \E n \in 0..PageBytes : IsLength(n)
  <2>. DEFINE Stops == {n \in 0..PageBytes : n < PageBytes => Ends(mem[a + n])}
  <2>1. Stops \subseteq Nat /\ PageBytes \in Stops
    BY <1>0
  <2>2. PICK n \in Stops : \A m \in Stops : n <= m
    BY <2>1, LeastNatural
  <2>3. ASSUME NEW i \in 0..n-1
        PROVE  ~Ends(mem[a + i])
    <3>1. n \in 0..PageBytes
      BY <2>2
    <3>2. i \notin Stops
      BY <2>1, <2>2, <3>1
    <3>3. i \in 0..PageBytes
      BY <1>0, <3>1
    <3>. QED  BY <3>2, <3>3
  <2>. QED  BY <2>2, <2>3
<1>2. len \in 0..PageBytes /\ IsLength(len)
  BY <1>1
<1>3. TextAt(a) = [i \in 1..len |-> mem[a + i - 1]]
  BY DEF TextAt
<1>. HIDE DEF len
<1>4. TextAt(a) \in Seq(Bytes) /\ Len(TextAt(a)) = len
  <2>1. ASSUME NEW i \in 1..len
        PROVE  mem[a + i - 1] \in Bytes
    <3>1. len \in 0..PageBytes
      BY <1>2
    <3>2. a + i - 1 \in Addresses
      BY <1>0, <3>1, AddressesAre
    <3>. QED  BY <3>2 DEF TypeOK
  <2>. QED  BY <1>2, <1>3, <2>1
<1>5. Len(text) <= len
  <2>. SUFFICES ASSUME len < Len(text) PROVE FALSE
    BY <1>0, <1>2
  <2>1. len < PageBytes /\ len + 1 \in 1..Len(text) /\ a + (len + 1) - 1 = a + len
    BY <1>0, <1>2
  <2>2. ~Ends(mem[a + len])
    BY <2>1
  <2>. QED  BY <1>2, <2>1, <2>2
<1>6. StartsWith(TextAt(a), text)
  <2>1. SubSeq(TextAt(a), 1, Len(text)) = text
    BY <1>0, <1>2, <1>3, <1>4, <1>5
  <2>. QED  BY <1>4, <1>5, <2>1 DEF StartsWith
<1>7. ASSUME Len(text) = PageBytes \/ Ends(mem[a + Len(text)])
      PROVE  TextAt(a) = text
  <2>1. len = Len(text)
    <3>1. CASE Len(text) = PageBytes
      BY <1>0, <1>2, <1>5, <3>1
    <3>2. CASE Ends(mem[a + Len(text)])
      <4>1. ~(Len(text) \in 0..len-1)
        BY <1>2, <3>2
      <4>. QED  BY <1>0, <1>2, <1>5, <4>1
    <3>. QED  BY <1>7, <3>1, <3>2
  <2>. QED  BY <1>0, <1>3, <1>4, <2>1
<1>. QED  BY <1>6, <1>7

LEMMA KeepsReads ==
  ASSUME TypeOK, Keeps
  PROVE  ReadsBack
<1>. SUFFICES ASSUME NEW r \in Records, saved[r].known, Idle \/ r # target
              PROVE  IF saved[r].ended THEN Read(r) = Kept(saved[r])
                     ELSE StartsWith(Read(r), Kept(saved[r]))
  BY DEF ReadsBack, Kept
<1>. DEFINE text == Kept(saved[r])
<1>1. Remaining \cap Extent(r) = {}
  <2>1. CASE Idle
    BY <2>1, AddressesAre, Layout DEF Idle, Remaining, TypeOK, NoEnd
  <2>2. CASE r # target
    BY <2>2 DEF Keeps
  <2>. QED  BY <2>1, <2>2
<1>2. \A a \in Extent(r) : mem[a] = Image[a]
  BY <1>1, ExtentInChip DEF Image
<1>3. Holds(r, saved[r], mem)
  <2>1. Holds(r, saved[r], Image)
    BY DEF Keeps
  <2>. QED  BY <1>2, <2>1, HoldsStays
<1>4. /\ text \in Seq(Bytes) /\ At(r) \in Nat /\ RomBytes \in Nat /\ PageBytes \in Nat
      /\ At(r) + Length(r) <= Size
  BY <1>3, ExtentInChip, Extents DEF Holds
<1>5. CASE r \in Roms
  <2>1. Len(text) = RomBytes /\ saved[r].ended
    BY <1>3, <1>5 DEF Holds
  <2>2. \A i \in 1..RomBytes : mem[At(r) + i - 1] = text[i]
    BY <1>3, <2>1 DEF Holds
  <2>3. text = [i \in 1..RomBytes |-> text[i]]
    BY <1>4, <2>1
  <2>4. Read(r) = [i \in 1..RomBytes |-> mem[At(r) + i - 1]]
    BY <1>5 DEF Read
  <2>5. Read(r) = text
    BY <2>2, <2>3, <2>4
  <2>. QED  BY <2>1, <2>5
<1>6. CASE r \notin Roms
  <2>1. /\ Len(text) <= PageBytes /\ At(r) + PageBytes <= Size
        /\ \A i \in 1..Len(text) : mem[At(r) + i - 1] = text[i] /\ ~Ends(text[i])
        /\ saved[r].ended => Len(text) = PageBytes \/ Ends(mem[At(r) + Len(text)])
    BY <1>3, <1>4, <1>6 DEF Holds, Length
  <2>2. Read(r) = TextAt(At(r))
    BY <1>6 DEF Read
  <2>3. /\ StartsWith(TextAt(At(r)), text)
        /\ Len(text) = PageBytes \/ Ends(mem[At(r) + Len(text)]) => TextAt(At(r)) = text
    BY <1>4, <2>1, TextRead
  <2>. QED  BY <2>1, <2>2, <2>3
<1>. QED  BY <1>5, <1>6

(* A record reads as what was typed to be saved in it last, lower-cased    *)
(* where the command is one of the copy, whatever the layout, the texts    *)
(* and the cases of letters, from the end of the command on and through    *)
(* all that the shell writes elsewhere, if no fault met the command.       *)
THEOREM RecordsReadBack == Spec => []ReadsBack
BY InitType, NextType, InitKeeps, KeepsNext, KeepsReads, PTL DEF Spec
-----------------------------------------------------------------------------
(* The end of a command.                                                   *)

LEMMA StepAdvances ==
  ASSUME TypeOK, [Next]_vars
  PROVE  [~Idle => StillToDo' < StillToDo]_vars
<1>. SUFFICES ASSUME ~Idle, Next
              PROVE  StillToDo' < StillToDo
  BY DEF vars
<1>1. SizeLeft \in Nat /\ (end = NoEnd \/ end \in Addresses)
  BY DEF TypeOK
<1>2. CASE Command
  BY <1>2 DEF Command, Start, command_infoPage, savedata, WritePageStringToEEPROM,
              command_rom, command_fsn, command_sn, Write, WritePage
<1>3. CASE WriteChunk \/ ChunkRefused
  <2>1. SizeLeft > 0 /\ SizeLeft' = SizeLeft - SizeNext /\ end' = end
    BY <1>3 DEF WriteChunk, ChunkRefused, Advance
  <2>2. SizeNext \in 0..SizeLeft /\ SizeNext > 0
    BY <2>1, ChunkSize
  <2>. QED  BY <1>1, <2>1, <2>2 DEF StillToDo
<1>4. CASE WriteTerminator
  BY <1>1, <1>4 DEF WriteTerminator, StillToDo
<1>5. CASE Restart
  <2>1. SizeLeft' = 0 /\ end' = NoEnd
    BY <1>5 DEF Restart
  <2>2. SizeLeft # 0 \/ end # NoEnd
    BY DEF Idle
  <2>. QED  BY <1>1, <2>1, <2>2 DEF StillToDo
<1>. QED  BY <1>2, <1>3, <1>4, <1>5 DEF Next

(* A command of the shell always comes nearer to its end, wherever in the  *)
(* chip it writes and however large its pages are: a chunk is never empty, *)
(* the terminator is written once, and a refused chunk is not repeated.    *)
THEOREM CommandsAdvance == Spec => CommandAdvances
BY InitType, NextType, StepAdvances, PTL DEF Spec, CommandAdvances

(* A byte changes only while a command owes that very byte, or its         *)
(* terminator: neither a chunk that ends in the middle of a page nor a     *)
(* fault reaches the bytes beside it.                                      *)
OnlyOwed == [][\A a \in Addresses : mem'[a] # mem[a] => a \in Remaining]_vars

LEMMA StepOnlyOwed ==
  ASSUME TypeOK, TypeOK', [Next]_vars
  PROVE  [\A a \in Addresses : mem'[a] # mem[a] => a \in Remaining]_vars
<1>1. DOMAIN Due = Remaining
  BY DueType DEF DueOK
<1>2. CASE UNCHANGED Flat!vars
  BY <1>2 DEF Flat!vars
<1>3. CASE Flat!Command
  BY <1>3 DEF Flat!Command
<1>4. CASE Flat!Land
  BY <1>1, <1>4 DEF Flat!Land
<1>5. CASE Flat!Fault
  BY <1>1, <1>5 DEF Flat!Fault
<1>. QED  BY <1>2, <1>3, <1>4, <1>5, NextFlat DEF Flat!Next

THEOREM WritesOnlyOwed == Spec => OnlyOwed
BY InitType, NextType, StepOnlyOwed, PTL DEF Spec, OnlyOwed
=============================================================================
