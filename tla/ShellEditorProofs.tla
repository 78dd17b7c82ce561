------------------------- MODULE ShellEditorProofs -------------------------
(***************************************************************************)
(* Proofs about ShellEditor, for every size of the line, every set of keys *)
(* and every set of command names: the array keeps its types, and is the   *)
(* line editor of LineEditor.                                              *)
(***************************************************************************)
EXTENDS ShellEditor, SequenceTheorems, WellFoundedInduction, TLAPS

Arrays == [1..Size -> Characters]

(* A nonempty set of naturals has a least element.                         *)
LEMMA LeastNatural ==
  ASSUME NEW S, S \subseteq Nat, S # {}
  PROVE  \E n \in S : \A m \in S : n <= m
<1>0. IsWellFoundedOn(OpToRel(<, Nat), Nat)
  BY NatLessThanWellFounded, Zenon
<1>1. \E n \in S : \A m \in S : ~ (<<m, n>> \in OpToRel(<, Nat))
  BY <1>0, WFMin, Zenon
<1>2. PICK n \in S : \A m \in S : ~ (<<m, n>> \in OpToRel(<, Nat))
  BY <1>1
<1>3. \A m \in S : ~ (m < n)
  BY <1>2 DEF OpToRel
<1>. QED  BY <1>3

(* strlen finds the first NUL.                                             *)
LEMMA StrlenIs ==
  ASSUME NEW array \in Arrays
  PROVE  /\ strlen(array) \in 0..Size
         /\ strlen(array) = Size \/ array[strlen(array) + 1] = NUL
         /\ \A i \in 1..strlen(array) : array[i] # NUL
<1>. DEFINE Ends == {n \in 0..Size : n = Size \/ array[n + 1] = NUL}
<1>1. Ends \subseteq Nat /\ Ends # {}
  <2>1. Size \in 0..Size
    BY ShellAssumption
  <2>2. Size \in Ends
    BY <2>1
  <2>3. Ends \subseteq Nat
    OBVIOUS
  <2>. QED  BY <2>2, <2>3
<1>2. PICK n \in Ends : \A m \in Ends : n <= m
  BY <1>1, LeastNatural
<1>3. \A i \in 1..n : array[i] # NUL
  <2>. SUFFICES ASSUME NEW i \in 1..n, array[i] = NUL  PROVE FALSE
    OBVIOUS
  <2>1. i - 1 \in Ends
    BY ShellAssumption
  <2>. QED  BY <2>1, <1>2
<1>. QED  BY <1>2, <1>3 DEF strlen

(* The first NUL there is, is the one strlen finds.                        *)
LEMMA StrlenOf ==
  ASSUME NEW array \in Arrays, NEW n \in 0..(Size - 1),
         array[n + 1] = NUL, \A i \in 1..n : array[i] # NUL
  PROVE  strlen(array) = n
BY StrlenIs, ShellAssumption

(* A part of an array is a sequence.                                       *)
LEMMA Part ==
  ASSUME NEW array \in Arrays, NEW m \in 1..(Size + 1), NEW n \in 0..Size
  PROVE  /\ SubSeq(array, m, n) \in Seq(Characters)
         /\ Len(SubSeq(array, m, n)) = IF m <= n THEN n - m + 1 ELSE 0
         /\ \A i \in 1..(n - m + 1) : SubSeq(array, m, n)[i] = array[m + i - 1]
<1>1. m \in Int /\ n \in Int
  BY ShellAssumption
<1>2. \A i \in m..n : array[i] \in Characters
  BY ShellAssumption DEF Arrays
<1>. QED  BY <1>1, <1>2, SubSeqProperties

(* The parts of an array on either side of the cursor are its text.        *)
LEMMA PartsJoin ==
  ASSUME NEW array \in Arrays, NEW n \in 0..Size, NEW k \in 0..n
  PROVE  SubSeq(array, 1, k) \o SubSeq(array, k + 1, n) = SubSeq(array, 1, n)
<1>. DEFINE left == SubSeq(array, 1, k)
            right == SubSeq(array, k + 1, n)
            all == SubSeq(array, 1, n)
<1>0. k \in 0..Size /\ k + 1 \in 1..(Size + 1) /\ 1 \in 1..(Size + 1) /\ k \in Nat /\ n \in Nat
  BY ShellAssumption
<1>1. /\ left \in Seq(Characters) /\ Len(left) = k
      /\ \A i \in 1..k : left[i] = array[i]
  BY <1>0, Part
<1>2. /\ right \in Seq(Characters) /\ Len(right) = n - k
      /\ \A i \in 1..(n - k) : right[i] = array[k + i]
  BY <1>0, Part
<1>3. /\ all \in Seq(Characters) /\ Len(all) = n
      /\ \A i \in 1..n : all[i] = array[i]
  BY <1>0, Part
<1>. HIDE DEF left, right, all
<1>4. /\ left \o right \in Seq(Characters)
      /\ Len(left \o right) = n
      /\ \A i \in 1..n : (left \o right)[i] = IF i <= k THEN left[i] ELSE right[i - k]
  <2>1. /\ left \o right \in Seq(Characters)
        /\ Len(left \o right) = Len(left) + Len(right)
        /\ \A i \in 1..(Len(left) + Len(right)) :
             (left \o right)[i] = IF i <= Len(left) THEN left[i] ELSE right[i - Len(left)]
    BY <1>1, <1>2, ConcatProperties
  <2>2. Len(left) + Len(right) = n
    BY <1>0, <1>1, <1>2
  <2>. QED  BY <1>1, <2>1, <2>2
<1>5. \A i \in 1..n : (left \o right)[i] = all[i]
  BY <1>0, <1>1, <1>2, <1>3, <1>4
<1>6. left \o right = all
  BY <1>3, <1>4, <1>5, SeqEqual
<1>. QED  BY <1>6 DEF left, right, all

(* The common start of the names that a text begins is at least that long, *)
(* is made of printable characters, and fits the array.                    *)
LEMMA CommonStart ==
  ASSUME NEW S, S \subseteq Names, S # {},
         NEW text \in Seq(Characters), \A n \in S : IsPrefix(text, n)
  PROVE  /\ LongestCommonPrefix(S) \in Seq(Printable)
         /\ Len(LongestCommonPrefix(S)) \in Len(text)..(Size - 1)
<1>. DEFINE Common == CommonPrefixes(S)
            Missing == {m \in Nat : \E c \in Common : m = Size - Len(c)}
<1>1. \A c \in Common : c \in Seq(Printable) /\ Len(c) \in 0..(Size - 1)
  <2>. SUFFICES ASSUME NEW c \in Common
                PROVE  c \in Seq(Printable) /\ Len(c) \in 0..(Size - 1)
    OBVIOUS
  <2>1. PICK t \in S : c \in Prefixes(t)
    BY DEF CommonPrefixes
  <2>2. t \in Seq(Printable) /\ Len(t) \in Nat /\ Len(t) < Size
    BY ShellAssumption, LenProperties
  <2>3. PICK l \in 0..Len(t) : c = SubSeq(t, 1, l)
    BY <2>1 DEF Prefixes
  <2>4. 1 \in Int /\ l \in Int /\ \A i \in 1..l : t[i] \in Printable
    BY <2>2, ElementOfSeq
  <2>5. SubSeq(t, 1, l) \in Seq(Printable) /\ Len(SubSeq(t, 1, l)) = IF 1 <= l THEN l ELSE 0
    BY <2>4, SubSeqProperties
  <2>6. Len(SubSeq(t, 1, l)) = l
    BY <2>5, <2>2
  <2>. QED  BY <2>2, <2>3, <2>5, <2>6, ShellAssumption
<1>2. text \in Common
  <2>1. PICK t \in S : TRUE
    OBVIOUS
  <2>2. t \in Seq(Printable) /\ Len(t) \in Nat /\ Len(text) \in Nat
    BY ShellAssumption, LenProperties
  <2>3. Len(text) \in 0..Len(t) /\ SubSeq(t, 1, Len(text)) = text
    BY <2>2, SubSeqFull DEF IsPrefix
  <2>4. text \in Prefixes(t)
    BY <2>3 DEF Prefixes
  <2>. QED  BY <2>4 DEF CommonPrefixes
<1>3. \E longest \in Common : \A other \in Common : Len(other) <= Len(longest)
  <2>1. Missing \subseteq Nat /\ Missing # {}
    <3>1. Size - Len(text) \in Nat
      BY <1>1, <1>2, ShellAssumption
    <3>2. Size - Len(text) \in Missing
      BY <1>2, <3>1
    <3>. QED  BY <3>2
  <2>2. PICK m \in Missing : \A k \in Missing : m <= k
    BY <2>1, LeastNatural
  <2>3. PICK longest \in Common : m = Size - Len(longest)
    BY <2>2
  <2>4. \A other \in Common : Size - Len(other) \in Missing
    BY <1>1, ShellAssumption
  <2>5. \A other \in Common : m <= Size - Len(other)
    BY <2>2, <2>4
  <2>6. ASSUME NEW other \in Common  PROVE Len(other) <= Len(longest)
    <3>1. Size - Len(longest) <= Size - Len(other)
      BY <2>3, <2>5
    <3>2. Len(other) \in Nat /\ Len(longest) \in Nat
      BY <1>1
    <3>. HIDE DEF Common
    <3>. QED  BY <3>1, <3>2, ShellAssumption
  <2>. QED  BY <2>6
<1>4. /\ LongestCommonPrefix(S) \in Common
      /\ \A other \in Common : Len(other) <= Len(LongestCommonPrefix(S))
  BY <1>3 DEF LongestCommonPrefix
<1>. QED  BY <1>1, <1>2, <1>4, LenProperties

(* Completing a name keeps the array an array of characters.               *)
LEMMA CompleteType ==
  ASSUME NEW array \in Arrays
  PROVE  msh_auto_complete(array) \in Arrays
<1>. DEFINE matches == {n \in Names : IsPrefix(String(array), n)}
            common == LongestCommonPrefix(matches)
<1>1. CASE String(array) = <<>> \/ matches = {}
  BY <1>1 DEF msh_auto_complete
<1>2. CASE String(array) # <<>> /\ matches # {}
  <2>1. String(array) \in Seq(Characters)
    <3>1. strlen(array) \in 0..Size /\ 1 \in 1..(Size + 1)
      BY StrlenIs, ShellAssumption
    <3>. QED  BY <3>1, Part DEF String
  <2>2. common \in Seq(Printable)
    BY <1>2, <2>1, CommonStart
  <2>3. Len(common) \in Nat /\ \A i \in 1..Len(common) : common[i] \in Printable
    BY <2>2, LenProperties, ElementOfSeq
  <2>4. msh_auto_complete(array)
          = [i \in 1..Size |-> IF i <= Len(common) THEN common[i] ELSE array[i]]
    BY <1>2 DEF msh_auto_complete
  <2>. HIDE DEF common
  <2>. QED  BY <2>3, <2>4, ShellAssumption DEF Arrays, Characters
<1>. QED  BY <1>1, <1>2

-----------------------------------------------------------------------------
(* The types that the keys disturb.                                        *)
LineOK ==
  line \in Arrays /\ line_position \in 0..(Size - 1) /\ line_curpos \in 0..line_position

FlagsOK ==
  /\ unbounded \in BOOLEAN /\ discarded \in BOOLEAN
  /\ executed = Nothing \/ DOMAIN executed = {"board", "msh"}

States == {"WAIT_NORMAL", "WAIT_SPEC_KEY", "WAIT_FUNC_KEY"}

LEMMA EditsTypes ==
  ASSUME LineOK, FlagsOK, NEW array \in Arrays,
         NEW position \in 0..(Size - 1), NEW curpos \in 0..position,
         Edits(array, position, curpos)
  PROVE  LineOK' /\ FlagsOK'
<1>1. LineOK'
  BY DEF Edits, LineOK
<1>2. FlagsOK'
  BY DEF Edits, FlagsOK
<1>. QED  BY <1>1, <1>2

LEMMA ErasedType ==
  ASSUME LineOK, line_curpos # 0
  PROVE  Erased(line, line_curpos - 1, line_position - 1) \in Arrays
BY ShellAssumption DEF LineOK, Erased, Arrays, Characters

LEMMA InsertedType ==
  ASSUME LineOK, NEW ch \in Characters
  PROVE  Inserted(line, line_curpos, line_position, ch) \in Arrays
BY ShellAssumption DEF LineOK, Inserted, Arrays

LEMMA EmptyType == Empty \in Arrays
BY DEF Empty, Arrays, Characters

LEMMA NormalTypes ==
  ASSUME LineOK, FlagsOK, NEW ch \in Bytes \ {"ESC", "CR"}, Normal(ch)
  PROVE  LineOK' /\ FlagsOK'
<1>. USE ShellAssumption
<1>1. CASE Ignored
  BY <1>1, EditsTypes DEF Ignored, LineOK
<1>2. CASE Tab
  <2>. DEFINE completed == msh_auto_complete(line)
              length == strlen(completed)
  <2>1. completed \in Arrays /\ length \in 0..Size
    BY CompleteType, StrlenIs DEF LineOK
  <2>2. CASE length < Size
    <3>1. Edits(completed, length, length)
      BY <1>2, <2>2 DEF Tab
    <3>2. length \in 0..(Size - 1) /\ length \in 0..length
      BY <2>1, <2>2
    <3>. HIDE DEF completed, length
    <3>. QED  BY <2>1, <3>1, <3>2, EditsTypes
  <2>3. CASE ~(length < Size)
    <3>1. /\ UNCHANGED <<line, line_position, line_curpos, discarded>>
          /\ unbounded' = TRUE /\ executed' = Nothing
      BY <1>2, <2>3 DEF Tab
    <3>2. LineOK'
      BY <3>1 DEF LineOK
    <3>3. FlagsOK'
      BY <3>1 DEF FlagsOK
    <3>. QED  BY <3>2, <3>3
  <2>. QED  BY <2>2, <2>3
<1>3. CASE Backspace /\ line_curpos # 0
  <2>1. Edits(Erased(line, line_curpos - 1, line_position - 1),
              line_position - 1, line_curpos - 1)
    BY <1>3 DEF Backspace
  <2>2. line_position - 1 \in 0..(Size - 1) /\ line_curpos - 1 \in 0..(line_position - 1)
    BY <1>3 DEF LineOK
  <2>. QED  BY <1>3, <2>1, <2>2, ErasedType, EditsTypes
<1>4. CASE Enter
  <2>1. /\ line' = Empty /\ line_position' = 0 /\ line_curpos' = 0
        /\ executed' = [board |-> String(line), msh |-> SubSeq(line, 1, line_position)]
        /\ discarded' = FALSE /\ unbounded' = unbounded
    BY <1>4 DEF Enter, Cleared
  <2>2. LineOK'
    BY <2>1, EmptyType DEF LineOK
  <2>3. DOMAIN executed' = {"board", "msh"}
    BY <2>1
  <2>4. FlagsOK'
    BY <2>1, <2>3 DEF FlagsOK
  <2>. QED  BY <2>2, <2>4
<1>5. CASE ch \in Characters /\ Insert(ch)
  <2>. DEFINE array == Inserted(line, line_curpos, line_position, ch)
  <2>1. array \in Arrays
    BY <1>5, InsertedType
  <2>2. CASE line_position + 1 < Size
    <3>1. Edits(array, line_position + 1, line_curpos + 1)
      BY <1>5, <2>2 DEF Insert
    <3>2. line_position + 1 \in 0..(Size - 1) /\ line_curpos + 1 \in 0..(line_position + 1)
      BY <2>2 DEF LineOK
    <3>. HIDE DEF array
    <3>. QED  BY <2>1, <3>1, <3>2, EditsTypes
  <2>3. CASE ~(line_position + 1 < Size)
    <3>1. /\ line' = array /\ line_position' = 0 /\ line_curpos' = 0
          /\ discarded' = TRUE /\ executed' = Nothing /\ unbounded' = unbounded
      BY <1>5, <2>3 DEF Insert
    <3>2. LineOK'
      BY <2>1, <3>1 DEF LineOK
    <3>3. FlagsOK'
      BY <3>1 DEF FlagsOK
    <3>. QED  BY <3>2, <3>3
  <2>. QED  BY <2>2, <2>3
<1>6. Ignored \/ Tab \/ (Backspace /\ line_curpos # 0) \/ Enter \/ (ch \in Characters /\ Insert(ch))
  BY DEF Normal, NUL, Bytes, Backspace
<1>. QED  BY <1>1, <1>2, <1>3, <1>4, <1>5, <1>6

LEMMA KeyTypes ==
  ASSUME LineOK, FlagsOK, stat \in States, NEW ch \in Bytes, Key(ch)
  PROVE  LineOK' /\ FlagsOK' /\ stat' \in States
<1>1. stat' \in States
  BY DEF Key, States
<1>2. LineOK' /\ FlagsOK'
  <2>1. CASE Ignored
    BY <2>1, EditsTypes DEF Ignored, LineOK
  <2>2. CASE Left /\ line_curpos > 0
    <3>1. Edits(line, line_position, line_curpos - 1)
      BY <2>2 DEF Left
    <3>2. line_curpos - 1 \in 0..line_position
      BY <2>2, ShellAssumption DEF LineOK
    <3>. QED  BY <3>1, <3>2, EditsTypes DEF LineOK
  <2>3. CASE Right /\ line_curpos < line_position
    <3>1. Edits(line, line_position, line_curpos + 1)
      BY <2>3 DEF Right
    <3>2. line_curpos + 1 \in 0..line_position
      BY <2>3, ShellAssumption DEF LineOK
    <3>. QED  BY <3>1, <3>2, EditsTypes DEF LineOK
  <2>4. CASE ch \notin {"ESC", "CR"} /\ Normal(ch)
    BY <2>4, NormalTypes
  <2>5. \/ Ignored \/ (Left /\ line_curpos > 0) \/ (Right /\ line_curpos < line_position)
        \/ (ch \notin {"ESC", "CR"} /\ Normal(ch))
    BY DEF Key, Left, Right
  <2>. QED  BY <2>1, <2>2, <2>3, <2>4, <2>5
<1>. QED  BY <1>1, <1>2

(* TypeOK, in the parts that different steps disturb.                      *)
QueueOK ==
  /\ rx \in 0..RxBytes /\ rx_sem \in 0..(SemRange - 1)
  /\ taking \in {"no", "asks", "waits"}

LEMMA TypeParts ==
  /\ TypeOK <=> LineOK /\ stat \in States /\ QueueOK /\ wrapped \in BOOLEAN /\ FlagsOK
  /\ TypeOK' <=> LineOK' /\ stat' \in States /\ QueueOK' /\ wrapped' \in BOOLEAN /\ FlagsOK'
BY DEF TypeOK, LineOK, States, QueueOK, FlagsOK, Arrays

LEMMA InitTypes == Init => TypeOK
<1>. SUFFICES ASSUME Init  PROVE TypeOK
  OBVIOUS
<1>1. LineOK
  BY EmptyType, ShellAssumption DEF Init, LineOK
<1>2. stat \in States /\ QueueOK
  BY ShellAssumption DEF Init, States, QueueOK
<1>3. wrapped \in BOOLEAN /\ FlagsOK
  BY DEF Init, FlagsOK
<1>. QED  BY <1>1, <1>2, <1>3, TypeParts

LEMMA NextTypes == TypeOK /\ [Next]_vars => TypeOK'
<1>. SUFFICES ASSUME TypeOK, [Next]_vars  PROVE TypeOK'
  OBVIOUS
<1>0. LineOK /\ stat \in States /\ QueueOK /\ wrapped \in BOOLEAN /\ FlagsOK
  BY TypeParts
<1>1. CASE Read
  <2>1. PICK ch \in Bytes : Key(ch)
    BY <1>1 DEF Read
  <2>2. LineOK' /\ FlagsOK' /\ stat' \in States
    BY <1>0, <2>1, KeyTypes
  <2>3. QueueOK'
    BY <1>0, <1>1, ShellAssumption DEF Read, CanRead, QueueOK
  <2>4. wrapped' \in BOOLEAN
    BY <1>0, <1>1 DEF Read
  <2>. QED  BY <2>2, <2>3, <2>4, TypeParts
<1>2. CASE finsh_rx_ind \/ Miss \/ Take \/ Suspend \/ UNCHANGED vars
  <2>1. UNCHANGED <<line, line_position, line_curpos, stat, unbounded, discarded, executed>>
    BY <1>2 DEF finsh_rx_ind, Miss, Take, Suspend, vars, editor
  <2>2. LineOK' /\ stat' \in States
    BY <1>0, <2>1 DEF LineOK
  <2>3. FlagsOK'
    BY <1>0, <2>1 DEF FlagsOK
  <2>4. QueueOK'
    <3>1. CASE finsh_rx_ind
      <4>1. (rx_sem + 1) % SemRange \in 0..(SemRange - 1)
        BY <1>0, ShellAssumption DEF QueueOK
      <4>2. rx' \in 1..RxBytes
        BY <3>1 DEF finsh_rx_ind
      <4>3. rx' \in 0..RxBytes
        BY <4>2, ShellAssumption
      <4>4. CASE taking = "waits"
        <5>1. rx_sem' = rx_sem /\ taking' = "no"
          BY <3>1, <4>4 DEF finsh_rx_ind
        <5>. QED  BY <1>0, <4>3, <5>1 DEF QueueOK
      <4>5. CASE taking # "waits"
        <5>1. rx_sem' = (rx_sem + 1) % SemRange /\ taking' = taking
          BY <3>1, <4>5 DEF finsh_rx_ind
        <5>. QED  BY <1>0, <4>1, <4>3, <5>1 DEF QueueOK
      <4>. QED  BY <4>4, <4>5
    <3>2. CASE Miss \/ Take \/ Suspend \/ UNCHANGED vars
      BY <1>0, <3>2, ShellAssumption DEF Miss, Take, Suspend, vars, queue, QueueOK
    <3>. QED  BY <1>2, <3>1, <3>2
  <2>5. wrapped' \in BOOLEAN
    BY <1>0, <1>2 DEF finsh_rx_ind, Miss, Take, Suspend, vars, queue
  <2>. QED  BY <2>2, <2>3, <2>4, <2>5, TypeParts
<1>. QED  BY <1>1, <1>2 DEF Next, finsh_getchar

(* The types hold, and with them the bounds of the length and the cursor   *)
(* of the line, as long as strlen has not run beyond the array.            *)
THEOREM ShellTypes == Spec => []TypeOK
BY InitTypes, NextTypes, PTL DEF Spec

-----------------------------------------------------------------------------
(* The array holds a text of n characters, and nothing behind it.          *)
Holds(array, n) ==
  /\ array \in Arrays /\ n \in 0..(Size - 1)
  /\ \A i \in 1..Size : array[i] = NUL <=> i > n

LEMMA HoldsLength ==
  ASSUME NEW array, NEW n, Holds(array, n)
  PROVE  strlen(array) = n
<1>1. array \in Arrays /\ n \in 0..(Size - 1)
  BY DEF Holds
<1>2. array[n + 1] = NUL /\ \A i \in 1..n : array[i] # NUL
  BY ShellAssumption DEF Holds
<1>. QED  BY <1>1, <1>2, StrlenOf

(* Equal parts of two arrays.                                              *)
LEMMA SamePart ==
  ASSUME NEW a \in Arrays, NEW b \in Arrays, NEW m \in 1..(Size + 1), NEW n \in 0..Size,
         NEW d \in Int, m + d \in 1..(Size + 1), n + d \in 0..Size,
         \A i \in m..n : a[i] = b[i + d]
  PROVE  SubSeq(a, m, n) = SubSeq(b, m + d, n + d)
<1>. DEFINE s == SubSeq(a, m, n)
            t == SubSeq(b, m + d, n + d)
<1>1. /\ s \in Seq(Characters) /\ Len(s) = IF m <= n THEN n - m + 1 ELSE 0
      /\ \A i \in 1..(n - m + 1) : s[i] = a[m + i - 1]
  BY Part
<1>2. /\ t \in Seq(Characters)
      /\ Len(t) = IF m + d <= n + d THEN (n + d) - (m + d) + 1 ELSE 0
      /\ \A i \in 1..((n + d) - (m + d) + 1) : t[i] = b[(m + d) + i - 1]
  BY Part
<1>3. m \in Nat /\ n \in Nat
  BY ShellAssumption
<1>. HIDE DEF s, t
<1>4. Len(s) = Len(t)
  BY <1>1, <1>2, <1>3
<1>5. ASSUME NEW i \in 1..Len(s)  PROVE s[i] = t[i]
  <2>1. m <= n /\ i \in 1..(n - m + 1)
    BY <1>1, <1>3
  <2>2. s[i] = a[m + i - 1] /\ m + i - 1 \in m..n
    BY <1>1, <1>3, <2>1
  <2>3. t[i] = b[(m + d) + i - 1]
    BY <1>2, <1>3, <2>1
  <2>4. (m + d) + i - 1 = (m + i - 1) + d
    BY <1>3, <2>1
  <2>. QED  BY <2>2, <2>3, <2>4
<1>6. s = t
  BY <1>1, <1>2, <1>4, <1>5, SeqEqual
<1>. QED  BY <1>6 DEF s, t

(* The last character of a part.                                           *)
LEMMA PartAppend ==
  ASSUME NEW a \in Arrays, NEW k \in 1..Size
  PROVE  SubSeq(a, 1, k) = Append(SubSeq(a, 1, k - 1), a[k])
<1>. DEFINE s == SubSeq(a, 1, k)
            r == SubSeq(a, 1, k - 1)
<1>0. /\ k \in Nat /\ k \in 0..Size /\ k - 1 \in 0..Size /\ 1 \in 1..(Size + 1)
      /\ a[k] \in Characters
  BY ShellAssumption DEF Arrays
<1>1. /\ s \in Seq(Characters) /\ Len(s) = IF 1 <= k THEN k - 1 + 1 ELSE 0
      /\ \A i \in 1..(k - 1 + 1) : s[i] = a[1 + i - 1]
  BY <1>0, Part
<1>2. /\ r \in Seq(Characters) /\ Len(r) = IF 1 <= k - 1 THEN k - 1 - 1 + 1 ELSE 0
      /\ \A i \in 1..(k - 1 - 1 + 1) : r[i] = a[1 + i - 1]
  BY <1>0, Part
<1>. HIDE DEF s, r
<1>3. Len(s) = k /\ Len(r) = k - 1
  BY <1>0, <1>1, <1>2
<1>4. /\ Append(r, a[k]) \in Seq(Characters)
      /\ Len(Append(r, a[k])) = Len(r) + 1
      /\ \A i \in 1..Len(r) : Append(r, a[k])[i] = r[i]
      /\ Append(r, a[k])[Len(r) + 1] = a[k]
  BY <1>0, <1>2, AppendProperties
<1>5. ASSUME NEW i \in 1..Len(s)  PROVE s[i] = Append(r, a[k])[i]
  BY <1>0, <1>1, <1>2, <1>3, <1>4
<1>6. s = Append(r, a[k])
  BY <1>0, <1>1, <1>3, <1>4, <1>5, SeqEqual
<1>. QED  BY <1>6 DEF s, r

LEMMA FrontOfPart ==
  ASSUME NEW a \in Arrays, NEW k \in 1..Size
  PROVE  /\ SubSeq(a, 1, k) # <<>>
         /\ Front(SubSeq(a, 1, k)) = SubSeq(a, 1, k - 1)
         /\ Last(SubSeq(a, 1, k)) = a[k]
<1>. DEFINE s == SubSeq(a, 1, k)
            r == SubSeq(a, 1, k - 1)
<1>0. k \in Nat /\ k - 1 \in 0..Size /\ 1 \in 1..(Size + 1) /\ a[k] \in Characters
  BY ShellAssumption DEF Arrays
<1>1. r \in Seq(Characters)
  BY <1>0, Part
<1>2. s = Append(r, a[k])
  BY PartAppend
<1>. HIDE DEF s, r
<1>3. /\ s \in Seq(Characters) /\ s # <<>> /\ Len(s) = Len(r) + 1
      /\ \A i \in 1..Len(r) : s[i] = r[i]
      /\ s[Len(r) + 1] = a[k]
  BY <1>0, <1>1, <1>2, AppendProperties
<1>4. Len(r) \in Nat
  BY <1>1, LenProperties
<1>5. 1 \in Int /\ Len(s) - 1 \in Int /\ \A i \in 1..(Len(s) - 1) : s[i] \in Characters
  BY <1>3, <1>4, ElementOfSeq
<1>6. /\ SubSeq(s, 1, Len(s) - 1) \in Seq(Characters)
      /\ Len(SubSeq(s, 1, Len(s) - 1)) = IF 1 <= Len(s) - 1 THEN Len(s) - 1 - 1 + 1 ELSE 0
      /\ \A i \in 1..(Len(s) - 1 - 1 + 1) : SubSeq(s, 1, Len(s) - 1)[i] = s[1 + i - 1]
  BY <1>5, SubSeqProperties
<1>7. Len(SubSeq(s, 1, Len(s) - 1)) = Len(r)
  BY <1>3, <1>4, <1>6
<1>8. ASSUME NEW i \in 1..Len(r)  PROVE SubSeq(s, 1, Len(s) - 1)[i] = r[i]
  BY <1>3, <1>4, <1>6
<1>9. SubSeq(s, 1, Len(s) - 1) = r
  BY <1>1, <1>6, <1>7, <1>8, SeqEqual
<1>. QED  BY <1>3, <1>9 DEF Front, Last, s, r

(* The first character of a part.                                          *)
LEMMA HeadOfPart ==
  ASSUME NEW a \in Arrays, NEW m \in 1..Size, NEW n \in m..Size
  PROVE  /\ SubSeq(a, m, n) # <<>>
         /\ SubSeq(a, m, n) = <<a[m]>> \o SubSeq(a, m + 1, n)
         /\ Head(SubSeq(a, m, n)) = a[m]
         /\ Tail(SubSeq(a, m, n)) = SubSeq(a, m + 1, n)
<1>1. a \in Seq(Characters) /\ Len(a) = Size
  BY ShellAssumption DEF Arrays
<1>2. m \in 1..Len(a) /\ n \in m..Len(a)
  BY <1>1
<1>3. /\ SubSeq(a, m, n) = <<a[m]>> \o SubSeq(a, m + 1, n)
      /\ Head(SubSeq(a, m, n)) = a[m]
      /\ Tail(SubSeq(a, m, n)) = SubSeq(a, m + 1, n)
  BY <1>1, <1>2, SubSeqRecursiveFirst, HeadTailOfSubSeq
<1>4. m \in 1..(Size + 1) /\ n \in 0..Size /\ m <= n /\ m \in Nat /\ n \in Nat
  BY ShellAssumption
<1>5. Len(SubSeq(a, m, n)) = n - m + 1
  BY <1>4, Part
<1>6. SubSeq(a, m, n) # <<>>
  <2>. DEFINE s == SubSeq(a, m, n)
  <2>1. Len(s) > 0
    BY <1>4, <1>5
  <2>. HIDE DEF s
  <2>2. s # <<>>
    BY <2>1
  <2>. QED  BY <2>2 DEF s
<1>. QED  BY <1>3, <1>6

(* What the keys make of the text.                                         *)
LEMMA InsertedText ==
  ASSUME NEW a, NEW n, Holds(a, n), NEW k \in 0..n, NEW c \in Printable, n + 1 < Size
  PROVE  LET b == Inserted(a, k, n, c)
         IN  /\ Holds(b, n + 1)
             /\ SubSeq(b, 1, k + 1) = Append(SubSeq(a, 1, k), c)
             /\ SubSeq(b, k + 2, n + 1) = SubSeq(a, k + 1, n)
<1>. DEFINE b == Inserted(a, k, n, c)
<1>0. /\ a \in Arrays /\ n \in Nat /\ k \in Nat /\ Size \in Nat /\ k <= n
      /\ c \in Characters /\ c # NUL
  BY ShellAssumption DEF Holds, Characters
<1>1. b = [i \in 1..Size |-> IF i = k + 1 THEN c
             ELSE IF i > k + 1 /\ i <= n + 1 THEN a[i - 1] ELSE a[i]]
  BY DEF Inserted
<1>2. b \in Arrays
  BY <1>0, <1>1 DEF Arrays
<1>3. /\ b[k + 1] = c
      /\ \A i \in 1..k : b[i] = a[i]
      /\ \A i \in (k + 1)..n : a[i] = b[i + 1]
      /\ \A i \in (n + 2)..Size : b[i] = a[i]
  BY <1>0, <1>1
<1>. HIDE DEF b
<1>4. Holds(b, n + 1)
  <2>1. ASSUME NEW i \in 1..Size  PROVE b[i] = NUL <=> i > n + 1
    <3>1. CASE i <= k
      BY <1>0, <1>3, <3>1 DEF Holds
    <3>2. CASE i = k + 1
      BY <1>0, <1>3, <3>2
    <3>3. CASE i > k + 1 /\ i <= n + 1
      <4>1. i - 1 \in (k + 1)..n /\ i - 1 \in 1..Size /\ (i - 1) + 1 = i
        BY <1>0, <3>3
      <4>2. b[i] = a[i - 1]
        BY <1>3, <4>1
      <4>. QED  BY <1>0, <3>3, <4>1, <4>2 DEF Holds
    <3>4. CASE i > n + 1
      BY <1>0, <1>3, <3>4 DEF Holds
    <3>. QED  BY <1>0, <3>1, <3>2, <3>3, <3>4
  <2>. QED  BY <1>0, <1>2, <2>1 DEF Holds
<1>5. SubSeq(b, 1, k) = SubSeq(a, 1, k)
  <2>1. 1 \in 1..(Size + 1) /\ k \in 0..Size /\ 0 \in Int /\ 1 + 0 = 1 /\ k + 0 = k
    BY <1>0
  <2>2. \A i \in 1..k : b[i] = a[i + 0]
    BY <1>0, <1>3
  <2>. QED  BY <1>0, <1>2, <2>1, <2>2, SamePart
<1>6. SubSeq(b, 1, k + 1) = Append(SubSeq(b, 1, k), b[k + 1])
  <2>1. k + 1 \in 1..Size /\ (k + 1) - 1 = k
    BY <1>0
  <2>. QED  BY <1>2, <2>1, PartAppend
<1>7. SubSeq(a, k + 1, n) = SubSeq(b, k + 2, n + 1)
  <2>1. /\ k + 1 \in 1..(Size + 1) /\ n \in 0..Size /\ 1 \in Int
        /\ (k + 1) + 1 = k + 2 /\ k + 2 \in 1..(Size + 1) /\ n + 1 \in 0..Size
    BY <1>0
  <2>. QED  BY <1>0, <1>2, <1>3, <2>1, SamePart
<1>. QED  BY <1>3, <1>4, <1>5, <1>6, <1>7 DEF b

LEMMA ErasedText ==
  ASSUME NEW a, NEW n, Holds(a, n), NEW k \in 1..n
  PROVE  LET b == Erased(a, k - 1, n - 1)
         IN  /\ Holds(b, n - 1)
             /\ SubSeq(b, 1, k - 1) = SubSeq(a, 1, k - 1)
             /\ SubSeq(b, k, n - 1) = SubSeq(a, k + 1, n)
<1>. DEFINE b == Erased(a, k - 1, n - 1)
<1>0. a \in Arrays /\ n \in Nat /\ k \in Nat /\ Size \in Nat /\ 1 <= k /\ k <= n /\ n < Size
  BY ShellAssumption DEF Holds
<1>1. b = [i \in 1..Size |-> IF i = n THEN NUL
             ELSE IF i > k - 1 /\ i <= n - 1 THEN a[i + 1] ELSE a[i]]
  BY <1>0 DEF Erased
<1>2. b \in Arrays
  BY <1>0, <1>1 DEF Arrays, Characters
<1>3. /\ b[n] = NUL
      /\ \A i \in 1..(k - 1) : b[i] = a[i]
      /\ \A i \in k..(n - 1) : b[i] = a[i + 1]
      /\ \A i \in (n + 1)..Size : b[i] = a[i]
  BY <1>0, <1>1
<1>. HIDE DEF b
<1>4. Holds(b, n - 1)
  <2>1. ASSUME NEW i \in 1..Size  PROVE b[i] = NUL <=> i > n - 1
    <3>1. CASE i <= k - 1
      BY <1>0, <1>3, <3>1 DEF Holds
    <3>2. CASE i = n
      BY <1>0, <1>3, <3>2
    <3>3. CASE i > k - 1 /\ i <= n - 1
      <4>1. i \in k..(n - 1) /\ i + 1 \in 1..Size /\ ~(i + 1 > n)
        BY <1>0, <3>3
      <4>2. b[i] = a[i + 1]
        BY <1>3, <4>1
      <4>. QED  BY <1>0, <3>3, <4>1, <4>2 DEF Holds
    <3>4. CASE i > n
      BY <1>0, <1>3, <3>4 DEF Holds
    <3>. QED  BY <1>0, <3>1, <3>2, <3>3, <3>4
  <2>2. n - 1 \in 0..(Size - 1)
    BY <1>0
  <2>. QED  BY <1>2, <2>1, <2>2 DEF Holds
<1>5. SubSeq(b, 1, k - 1) = SubSeq(a, 1, k - 1)
  <2>1. /\ 1 \in 1..(Size + 1) /\ k - 1 \in 0..Size /\ 0 \in Int
        /\ 1 + 0 = 1 /\ (k - 1) + 0 = k - 1
    BY <1>0
  <2>2. \A i \in 1..(k - 1) : b[i] = a[i + 0]
    BY <1>0, <1>3
  <2>. QED  BY <1>0, <1>2, <2>1, <2>2, SamePart
<1>6. SubSeq(b, k, n - 1) = SubSeq(a, k + 1, n)
  <2>1. /\ k \in 1..(Size + 1) /\ n - 1 \in 0..Size /\ 1 \in Int
        /\ k + 1 \in 1..(Size + 1) /\ (n - 1) + 1 = n /\ n \in 0..Size
    BY <1>0
  <2>. QED  BY <1>0, <1>2, <1>3, <2>1, SamePart
<1>. QED  BY <1>4, <1>5, <1>6 DEF b

LEMMA StringOf ==
  ASSUME NEW a, NEW n, Holds(a, n)
  PROVE  /\ String(a) = SubSeq(a, 1, n)
         /\ String(a) \in Seq(Characters)
         /\ Len(String(a)) = n
<1>1. a \in Arrays /\ n \in Nat /\ n \in 0..Size /\ 1 \in 1..(Size + 1)
  BY ShellAssumption DEF Holds
<1>2. String(a) = SubSeq(a, 1, n)
  BY HoldsLength DEF String
<1>3. SubSeq(a, 1, n) \in Seq(Characters) /\ Len(SubSeq(a, 1, n)) = IF 1 <= n THEN n - 1 + 1 ELSE 0
  BY <1>1, Part
<1>4. Len(SubSeq(a, 1, n)) = n
  BY <1>1, <1>3
<1>. QED  BY <1>2, <1>3, <1>4

(* The names Tab chooses from are those of the promise.                    *)
LEMMA SameCompletion ==
  ASSUME NEW text
  PROVE  Promise!Completion(text)
           = IF text = <<>> \/ {n \in Names : IsPrefix(text, n)} = {} THEN text
             ELSE LongestCommonPrefix({n \in Names : IsPrefix(text, n)})
<1>1. Promise!Matches(text) = {n \in Names : IsPrefix(text, n)}
  BY DEF Promise!Matches, Promise!IsPrefix, IsPrefix
<1>2. Promise!LongestCommonPrefix(Promise!Matches(text)) = LongestCommonPrefix(Promise!Matches(text))
  BY DEF Promise!LongestCommonPrefix, LongestCommonPrefix, Promise!CommonPrefixes, CommonPrefixes,
         Promise!Prefixes, Prefixes, Promise!IsPrefix, IsPrefix
<1>. QED  BY <1>1, <1>2 DEF Promise!Completion

LEMMA CompletedText ==
  ASSUME NEW a, NEW n, Holds(a, n)
  PROVE  LET b == msh_auto_complete(a)
         IN  /\ Holds(b, strlen(b))
             /\ SubSeq(b, 1, strlen(b)) = Promise!Completion(SubSeq(a, 1, n))
<1>. DEFINE text == String(a)
            matches == {t \in Names : IsPrefix(text, t)}
            common == LongestCommonPrefix(matches)
            b == msh_auto_complete(a)
<1>1. /\ a \in Arrays /\ n \in Nat /\ Size \in Nat /\ n < Size
      /\ text = SubSeq(a, 1, n) /\ text \in Seq(Characters) /\ Len(text) = n
  <2>1. a \in Arrays /\ n \in Nat /\ Size \in Nat /\ n < Size
    BY ShellAssumption DEF Holds
  <2>. QED  BY <2>1, StringOf
<1>2. Promise!Completion(text) = IF text = <<>> \/ matches = {} THEN text ELSE common
  BY SameCompletion
<1>3. CASE text = <<>> \/ matches = {}
  <2>1. b = a
    BY <1>3 DEF msh_auto_complete
  <2>. HIDE DEF b, matches, text
  <2>2. strlen(b) = n
    BY <2>1, HoldsLength
  <2>. QED  BY <1>1, <1>2, <1>3, <2>1, <2>2 DEF b
<1>4. CASE text # <<>> /\ matches # {}
  <2>1. b = [i \in 1..Size |-> IF i <= Len(common) THEN common[i] ELSE a[i]]
    BY <1>4 DEF msh_auto_complete
  <2>2. common \in Seq(Printable) /\ Len(common) \in Len(text)..(Size - 1)
    BY <1>1, <1>4, CommonStart
  <2>. DEFINE m == Len(common)
  <2>3. /\ m \in Nat /\ n <= m /\ m < Size
        /\ \A i \in 1..m : common[i] \in Characters /\ common[i] # NUL
    <3>1. \A i \in 1..Len(common) : common[i] \in Printable
      BY <2>2, ElementOfSeq
    <3>2. Len(common) \in Nat /\ n <= Len(common) /\ Len(common) < Size
      BY <1>1, <2>2
    <3>. QED  BY <3>1, <3>2, ShellAssumption DEF Characters
  <2>. HIDE DEF common, b, matches, text
  <2>4. b \in Arrays
    BY <1>1, <2>1, <2>3 DEF Arrays
  <2>5. \A i \in 1..Size : b[i] = NUL <=> i > m
    BY <1>1, <2>1, <2>3 DEF Holds
  <2>6. Holds(b, m)
    BY <2>3, <2>4, <2>5, <1>1 DEF Holds
  <2>7. strlen(b) = m
    BY <2>6, HoldsLength
  <2>8. SubSeq(b, 1, m) \in Seq(Characters) /\ Len(SubSeq(b, 1, m)) = m
    BY <2>6, StringOf
  <2>9. ASSUME NEW i \in 1..m  PROVE SubSeq(b, 1, m)[i] = common[i]
    <3>1. 1 \in 1..(Size + 1) /\ m \in 0..Size /\ i \in 1..(m - 1 + 1) /\ 1 + i - 1 = i /\ i \in 1..Size
      BY <1>1, <2>3
    <3>2. SubSeq(b, 1, m)[i] = b[1 + i - 1]
      BY <2>4, <3>1, Part
    <3>. QED  BY <2>1, <2>3, <3>1, <3>2
  <2>10. common \in Seq(Characters)
    BY <2>2, SeqMonotonic DEF Characters
  <2>11. SubSeq(b, 1, m) = common
    BY <2>8, <2>9, <2>10, SeqEqual
  <2>. QED  BY <1>1, <1>2, <1>4, <2>6, <2>7, <2>11 DEF b
<1>. QED  BY <1>3, <1>4

-----------------------------------------------------------------------------
(* Between two discards the array holds the line and nothing behind it.    *)
Clean == ~discarded => Holds(line, line_position)

(* A step of the line editor that changes the text and nothing else.       *)
LEMMA BecomeStep ==
  ASSUME NEW array, NEW position, NEW curpos, NEW left, NEW right, ~discarded,
         Edits(array, position, curpos), Holds(array, position),
         left = SubSeq(array, 1, curpos), right = SubSeq(array, curpos + 1, position)
  PROVE  Promise!Become(left, right) /\ Clean'
<1>1. /\ line' = array /\ line_position' = position /\ line_curpos' = curpos
      /\ executed' = Nothing /\ discarded' = discarded
  BY DEF Edits
<1>2. Clean'
  BY <1>1 DEF Clean
<1>3. Promise!Become(left, right)
  BY <1>1 DEF Promise!Become, Nothing, Promise!Nothing
<1>. QED  BY <1>2, <1>3

LEMMA LineFacts ==
  ASSUME LineOK, Clean, ~discarded
  PROVE  /\ Holds(line, line_position) /\ line \in Arrays
         /\ line_position \in Nat /\ line_curpos \in Nat /\ Size \in Nat
         /\ line_curpos <= line_position /\ line_position < Size
         /\ SubSeq(line, 1, line_curpos) \o SubSeq(line, line_curpos + 1, line_position)
              = SubSeq(line, 1, line_position)
         /\ Len(SubSeq(line, 1, line_curpos)) = line_curpos
         /\ Len(SubSeq(line, line_curpos + 1, line_position)) = line_position - line_curpos
<1>1. /\ Holds(line, line_position) /\ line \in Arrays
      /\ line_position \in Nat /\ line_curpos \in Nat /\ Size \in Nat
      /\ line_curpos <= line_position /\ line_position < Size
  BY ShellAssumption DEF LineOK, Clean
<1>2. /\ line_position \in 0..Size /\ line_curpos \in 0..line_position /\ line_curpos \in 0..Size
      /\ 1 \in 1..(Size + 1) /\ line_curpos + 1 \in 1..(Size + 1)
  BY <1>1
<1>3. SubSeq(line, 1, line_curpos) \o SubSeq(line, line_curpos + 1, line_position)
        = SubSeq(line, 1, line_position)
  BY <1>1, <1>2, PartsJoin
<1>4. Len(SubSeq(line, 1, line_curpos)) = IF 1 <= line_curpos THEN line_curpos - 1 + 1 ELSE 0
  BY <1>1, <1>2, Part
<1>5. Len(SubSeq(line, line_curpos + 1, line_position))
        = IF line_curpos + 1 <= line_position
          THEN line_position - (line_curpos + 1) + 1 ELSE 0
  BY <1>1, <1>2, Part
<1>6. Len(SubSeq(line, 1, line_curpos)) = line_curpos
  BY <1>1, <1>4
<1>7. Len(SubSeq(line, line_curpos + 1, line_position)) = line_position - line_curpos
  BY <1>1, <1>5
<1>. QED  BY <1>1, <1>3, <1>6, <1>7

LEMMA IgnoredStep ==
  ASSUME LineOK, Clean, ~discarded, Ignored
  PROVE  Promise!Edit /\ Clean'
<1>1. Holds(line, line_position)
  BY DEF Clean
<1>2. Promise!Become(SubSeq(line, 1, line_curpos),
                     SubSeq(line, line_curpos + 1, line_position)) /\ Clean'
  BY <1>1, BecomeStep DEF Ignored
<1>. QED  BY <1>2 DEF Promise!Edit, Promise!Ignore

LEMMA LeftStep ==
  ASSUME LineOK, Clean, ~discarded, Left, line_curpos > 0
  PROVE  Promise!Edit /\ Clean'
<1>. DEFINE b == SubSeq(line, 1, line_curpos)
            r == SubSeq(line, line_curpos + 1, line_position)
<1>0. /\ Holds(line, line_position) /\ line \in Arrays
      /\ line_curpos \in 1..Size /\ line_position \in line_curpos..Size
      /\ (line_curpos - 1) + 1 = line_curpos
  BY LineFacts
<1>1. Edits(line, line_position, line_curpos - 1)
  BY DEF Left
<1>2. b # <<>> /\ Front(b) = SubSeq(line, 1, line_curpos - 1) /\ Last(b) = line[line_curpos]
  BY <1>0, FrontOfPart
<1>3. SubSeq(line, line_curpos, line_position) = <<line[line_curpos]>> \o r
  BY <1>0, HeadOfPart
<1>. HIDE DEF b, r
<1>4. <<Last(b)>> \o r = SubSeq(line, (line_curpos - 1) + 1, line_position)
  BY <1>0, <1>2, <1>3
<1>5. Promise!Become(Front(b), <<Last(b)>> \o r) /\ Clean'
  BY <1>0, <1>1, <1>2, <1>4, BecomeStep
<1>6. Promise!Left
  BY <1>2, <1>5 DEF Promise!Left, Promise!Front, Front, Promise!Last, Last, b, r
<1>. QED  BY <1>5, <1>6 DEF Promise!Edit

LEMMA RightStep ==
  ASSUME LineOK, Clean, ~discarded, Right, line_curpos < line_position
  PROVE  Promise!Edit /\ Clean'
<1>. DEFINE b == SubSeq(line, 1, line_curpos)
            r == SubSeq(line, line_curpos + 1, line_position)
<1>0. /\ Holds(line, line_position) /\ line \in Arrays
      /\ line_curpos + 1 \in 1..Size /\ line_position \in (line_curpos + 1)..Size
      /\ (line_curpos + 1) - 1 = line_curpos
  BY LineFacts
<1>1. Edits(line, line_position, line_curpos + 1)
  BY DEF Right
<1>2. SubSeq(line, 1, line_curpos + 1) = Append(b, line[line_curpos + 1])
  BY <1>0, PartAppend
<1>3. /\ r # <<>> /\ Head(r) = line[line_curpos + 1]
      /\ Tail(r) = SubSeq(line, (line_curpos + 1) + 1, line_position)
  BY <1>0, HeadOfPart
<1>. HIDE DEF b, r
<1>4. Promise!Become(Append(b, Head(r)), Tail(r)) /\ Clean'
  BY <1>0, <1>1, <1>2, <1>3, BecomeStep
<1>5. Promise!Right
  BY <1>3, <1>4 DEF Promise!Right, b, r
<1>. QED  BY <1>4, <1>5 DEF Promise!Edit

LEMMA EmptyPart ==
  ASSUME NEW a, NEW m \in Nat
  PROVE  SubSeq(a, m + 1, m) = <<>>
BY SubSeqEmpty

LEMMA TabStep ==
  ASSUME LineOK, Clean, ~discarded, Tab
  PROVE  Promise!Edit /\ Clean'
<1>. DEFINE c == msh_auto_complete(line)
            n == strlen(c)
<1>1. Holds(c, n) /\ SubSeq(c, 1, n) = Promise!Completion(SubSeq(line, 1, line_position))
  BY CompletedText DEF Clean
<1>2. n < Size /\ n \in Nat
  BY <1>1, ShellAssumption DEF Holds
<1>3. Edits(c, n, n)
  BY <1>2 DEF Tab
<1>4. SubSeq(c, n + 1, n) = <<>>
  BY <1>2, EmptyPart
<1>. HIDE DEF c, n
<1>5. Promise!Become(Promise!Completion(SubSeq(line, 1, line_position)), <<>>) /\ Clean'
  BY <1>1, <1>3, <1>4, BecomeStep
<1>6. SubSeq(line, 1, line_curpos) \o SubSeq(line, line_curpos + 1, line_position)
        = SubSeq(line, 1, line_position)
  BY LineFacts
<1>7. Promise!Complete
  BY <1>5, <1>6 DEF Promise!Complete
<1>. QED  BY <1>5, <1>7 DEF Promise!Edit

LEMMA BackspaceStep ==
  ASSUME LineOK, Clean, ~discarded, Backspace, line_curpos # 0
  PROVE  Promise!Edit /\ Clean'
<1>. DEFINE b == SubSeq(line, 1, line_curpos)
            r == SubSeq(line, line_curpos + 1, line_position)
            e == Erased(line, line_curpos - 1, line_position - 1)
<1>0. /\ Holds(line, line_position) /\ line \in Arrays
      /\ line_curpos \in 1..Size /\ line_curpos \in 1..line_position
      /\ (line_curpos - 1) + 1 = line_curpos
  BY LineFacts
<1>1. Edits(e, line_position - 1, line_curpos - 1)
  BY DEF Backspace
<1>2. b # <<>> /\ Front(b) = SubSeq(line, 1, line_curpos - 1)
  BY <1>0, FrontOfPart
<1>3. /\ Holds(e, line_position - 1)
      /\ SubSeq(e, 1, line_curpos - 1) = SubSeq(line, 1, line_curpos - 1)
      /\ SubSeq(e, line_curpos, line_position - 1) = r
  BY <1>0, ErasedText, ZenonT(60)
<1>. HIDE DEF b, r, e
<1>4. Promise!Become(Front(b), r) /\ Clean'
  BY <1>0, <1>1, <1>2, <1>3, BecomeStep
<1>5. Promise!Erase
  BY <1>2, <1>4 DEF Promise!Erase, Promise!Front, Front, b, r
<1>. QED  BY <1>4, <1>5 DEF Promise!Edit

LEMMA EmptyHolds == Holds(Empty, 0)
BY EmptyType, ShellAssumption DEF Holds, Empty

LEMMA EnterStep ==
  ASSUME LineOK, FlagsOK, Clean, ~discarded, Enter
  PROVE  Promise!Edit /\ Clean'
<1>. DEFINE text == SubSeq(line, 1, line_position)
<1>1. /\ line' = Empty /\ line_position' = 0 /\ line_curpos' = 0 /\ discarded' = discarded
      /\ executed' = [board |-> String(line), msh |-> text]
  BY DEF Enter, Cleared, FlagsOK
<1>2. String(line) = text
  BY StringOf DEF Clean
<1>3. SubSeq(line, 1, line_curpos) \o SubSeq(line, line_curpos + 1, line_position) = text
  BY LineFacts
<1>4. Clean'
  BY <1>1, EmptyHolds DEF Clean
<1>5. SubSeq(line', 1, line_curpos') = <<>> /\ SubSeq(line', line_curpos' + 1, line_position') = <<>>
  BY <1>1, SubSeqEmpty
<1>. HIDE DEF text
<1>6. Promise!Enter
  BY <1>1, <1>2, <1>3, <1>5 DEF Promise!Enter, Promise!Both
<1>. QED  BY <1>4, <1>6 DEF Promise!Edit

LEMMA InsertStep ==
  ASSUME LineOK, Clean, ~discarded, NEW ch \in Printable, Insert(ch)
  PROVE  (Promise!Edit \/ Promise!Overflow) /\ Clean'
<1>. DEFINE b == SubSeq(line, 1, line_curpos)
            r == SubSeq(line, line_curpos + 1, line_position)
            e == Inserted(line, line_curpos, line_position, ch)
<1>0. /\ Holds(line, line_position) /\ line_curpos \in 0..line_position
      /\ line_position \in Nat /\ line_curpos \in Nat /\ Size \in Nat
      /\ (line_curpos + 1) + 1 = line_curpos + 2
      /\ line_position < Size
      /\ Len(b) + Len(r) = line_position
  BY LineFacts
<1>1. CASE line_position + 1 < Size
  <2>1. Edits(e, line_position + 1, line_curpos + 1)
    BY <1>1 DEF Insert
  <2>2. /\ Holds(e, line_position + 1)
        /\ SubSeq(e, 1, line_curpos + 1) = Append(b, ch)
        /\ SubSeq(e, line_curpos + 2, line_position + 1) = r
    BY <1>0, <1>1, InsertedText, ZenonT(60)
  <2>. HIDE DEF b, r, e
  <2>3. Promise!Become(Append(b, ch), r) /\ Clean'
    BY <1>0, <2>1, <2>2, BecomeStep
  <2>4. Len(b) + Len(r) + 1 < Size
    BY <1>0, <1>1
  <2>5. Promise!Type
    BY <2>3, <2>4 DEF Promise!Type, b, r
  <2>. QED  BY <2>3, <2>5 DEF Promise!Edit
<1>2. CASE ~(line_position + 1 < Size)
  <2>1. discarded' = TRUE /\ executed' = Nothing
    BY <1>2 DEF Insert
  <2>2. Len(b) + Len(r) + 1 = Size
    BY <1>0, <1>2
  <2>. HIDE DEF b, r
  <2>3. Promise!Discard
    BY <2>1 DEF Promise!Discard, Nothing, Promise!Nothing
  <2>4. Promise!Overflow
    BY <2>2, <2>3 DEF Promise!Overflow, b, r
  <2>. QED  BY <2>1, <2>4 DEF Clean
<1>. QED  BY <1>1, <1>2

(* After a discard nothing is promised, and Enter starts afresh.           *)
LEMMA UnknownStep ==
  ASSUME LineOK, FlagsOK, discarded, NEW ch \in Bytes, Key(ch)
  PROVE  Promise!Unknown /\ Clean'
<1>1. CASE discarded' = TRUE /\ executed' = Nothing
  <2>1. Clean'
    BY <1>1 DEF Clean
  <2>2. Promise!Unknown
    BY <1>1 DEF Promise!Unknown, Nothing, Promise!Nothing
  <2>. QED  BY <2>1, <2>2
<1>2. CASE Enter
  <2>1. /\ line' = Empty /\ line_position' = 0 /\ line_curpos' = 0 /\ discarded' = FALSE
        /\ executed' = [board |-> String(line), msh |-> SubSeq(line, 1, line_position)]
    BY <1>2 DEF Enter, Cleared
  <2>2. Clean'
    BY <2>1, EmptyHolds DEF Clean
  <2>3. SubSeq(line', 1, line_curpos') = <<>> /\ SubSeq(line', line_curpos' + 1, line_position') = <<>>
    BY <2>1, SubSeqEmpty
  <2>4. DOMAIN executed' = {"board", "msh"}
    BY <2>1
  <2>5. Promise!Unknown
    BY <2>1, <2>3, <2>4 DEF Promise!Unknown
  <2>. QED  BY <2>2, <2>5
<1>3. Enter \/ (discarded' = TRUE /\ executed' = Nothing)
  <2>1. discarded = TRUE
    BY DEF FlagsOK
  <2>2. ASSUME NEW array, NEW position, NEW curpos, Edits(array, position, curpos)
        PROVE  discarded' = TRUE /\ executed' = Nothing
    BY <2>1, <2>2 DEF Edits
  <2>3. ASSUME Ignored \/ Left \/ Right \/ Backspace  PROVE discarded' = TRUE /\ executed' = Nothing
    BY <2>2, <2>3 DEF Ignored, Left, Right, Backspace
  <2>4. ASSUME Tab  PROVE discarded' = TRUE /\ executed' = Nothing
    BY <2>1, <2>2, <2>4 DEF Tab
  <2>5. ASSUME Insert(ch)  PROVE discarded' = TRUE /\ executed' = Nothing
    BY <2>1, <2>2, <2>5 DEF Insert
  <2>6. Ignored \/ Left \/ Right \/ Backspace \/ Tab \/ Insert(ch) \/ Enter
    BY DEF Key, Normal
  <2>. QED  BY <2>3, <2>4, <2>5, <2>6
<1>. QED  BY <1>1, <1>2, <1>3

LEMMA KeyStep ==
  ASSUME LineOK, FlagsOK, Clean, ~discarded, NEW ch \in Bytes, Key(ch)
  PROVE  (Promise!Edit \/ Promise!Overflow) /\ Clean'
<1>1. CASE Ignored
  BY <1>1, IgnoredStep
<1>2. CASE Left /\ line_curpos > 0
  BY <1>2, LeftStep
<1>3. CASE Right /\ line_curpos < line_position
  BY <1>3, RightStep
<1>4. CASE Tab
  BY <1>4, TabStep
<1>5. CASE Backspace /\ line_curpos # 0
  BY <1>5, BackspaceStep
<1>6. CASE Enter
  BY <1>6, EnterStep
<1>7. CASE ch \in Printable /\ Insert(ch)
  BY <1>7, InsertStep
<1>8. \/ Ignored \/ (Left /\ line_curpos > 0) \/ (Right /\ line_curpos < line_position)
      \/ Tab \/ (Backspace /\ line_curpos # 0) \/ Enter \/ (ch \in Printable /\ Insert(ch))
  BY DEF Key, Normal, Left, Right, Backspace, Bytes, Characters, NUL
<1>. QED  BY <1>1, <1>2, <1>3, <1>4, <1>5, <1>6, <1>7, <1>8

LEMMA InitPromise == Init => Promise!Init /\ Clean
<1>. SUFFICES ASSUME Init  PROVE Promise!Init /\ Clean
  OBVIOUS
<1>1. line = Empty /\ line_position = 0 /\ line_curpos = 0 /\ discarded = FALSE /\ executed = Nothing
  BY DEF Init
<1>2. SubSeq(line, 1, line_curpos) = <<>> /\ SubSeq(line, line_curpos + 1, line_position) = <<>>
  BY <1>1, SubSeqEmpty
<1>3. Promise!Init
  BY <1>1, <1>2 DEF Promise!Init, Nothing, Promise!Nothing
<1>. QED  BY <1>1, <1>3, EmptyHolds DEF Clean

LEMMA NextPromise == TypeOK /\ Clean /\ [Next]_vars => [Promise!Next]_Promise!vars /\ Clean'
<1>. SUFFICES ASSUME TypeOK, Clean, [Next]_vars
              PROVE  [Promise!Next]_Promise!vars /\ Clean'
  OBVIOUS
<1>0. LineOK /\ FlagsOK
  BY TypeParts
<1>1. CASE Read
  <2>1. PICK ch \in Bytes : Key(ch)
    BY <1>1 DEF Read
  <2>2. CASE discarded
    BY <1>0, <2>1, <2>2, UnknownStep DEF Promise!Next
  <2>3. CASE ~discarded
    BY <1>0, <2>1, <2>3, KeyStep DEF Promise!Next
  <2>. QED  BY <2>2, <2>3
<1>2. CASE finsh_rx_ind \/ Miss \/ Take \/ Suspend \/ UNCHANGED vars
  <2>1. UNCHANGED <<line, line_position, line_curpos, discarded, executed>>
    BY <1>2 DEF finsh_rx_ind, Miss, Take, Suspend, vars, editor
  <2>2. Clean'
    BY <2>1 DEF Clean, Holds
  <2>3. UNCHANGED Promise!vars
    BY <2>1 DEF Promise!vars
  <2>. QED  BY <2>2, <2>3
<1>. QED  BY <1>1, <1>2 DEF Next, finsh_getchar

(* The shell implements the line editor, for every length of the line and  *)
(* every set of commands: nothing that was erased, completed over or       *)
(* executed before is ever executed, and both kinds of command read the    *)
(* same line, unless a line that grew too long was discarded before.       *)
THEOREM ShellIsLineEditor == Spec => IsLineEditor
<1>1. Init => Promise!Init /\ Clean
  BY InitPromise
<1>2. TypeOK /\ Clean /\ [Next]_vars => [Promise!Next]_Promise!vars /\ Clean'
  BY NextPromise
<1>. QED  BY <1>1, <1>2, ShellTypes, PTL DEF Spec, IsLineEditor, Promise!Spec
-----------------------------------------------------------------------------
(* The wake-up of the thread.                                              *)

LEMMA WakeUpStays ==
  ASSUME TypeOK, TypeOK', WakeUpPending, [Next]_vars
  PROVE  WakeUpPending'
<1>1. rx \in Nat /\ rx_sem \in Nat /\ rx' \in Nat /\ rx_sem' \in Nat
  BY ShellAssumption DEF TypeOK
<1>2. CASE Read
  BY <1>2 DEF Read, CanRead, WakeUpPending
<1>3. CASE finsh_rx_ind
  <2>1. CASE taking = "waits"
    BY <1>3, <2>1 DEF finsh_rx_ind, WakeUpPending
  <2>2. CASE taking = "asks" /\ rx_sem' # 0
    BY <1>1, <1>3, <2>2 DEF finsh_rx_ind, WakeUpPending
  <2>3. CASE taking = "asks" /\ rx_sem' = 0
    BY <1>3, <2>3 DEF finsh_rx_ind, WakeUpPending
  <2>4. CASE taking = "no"
    BY <1>3, <2>4 DEF finsh_rx_ind, WakeUpPending
  <2>. QED  BY <2>1, <2>2, <2>3, <2>4 DEF TypeOK
<1>4. CASE Miss
  BY <1>1, <1>4 DEF Miss, WakeUpPending
<1>5. CASE Take
  BY <1>5 DEF Take, WakeUpPending
<1>6. CASE Suspend
  BY <1>6 DEF Suspend, WakeUpPending
<1>7. CASE UNCHANGED vars
  BY <1>7 DEF vars, queue, WakeUpPending
<1>. QED  BY <1>2, <1>3, <1>4, <1>5, <1>6, <1>7 DEF Next, finsh_getchar

(* The thread never sleeps over bytes that are there, whatever the size of *)
(* the buffer, unless the count wraps between its look at the buffer and   *)
(* its wait: the interrupt may come in there, the bytes may come two at a  *)
(* time, tokens may be left over from bytes long read, and a wrap at any   *)
(* other time does no harm.                                                *)
THEOREM NoWakeUpLost == Spec => []WakeUpPending
<1>1. Init => WakeUpPending
  BY DEF Init, WakeUpPending
<1>. QED  BY <1>1, InitTypes, NextTypes, WakeUpStays, PTL DEF Spec

(* What is handed to the commands of the board and to those of RT-Thread   *)
(* is one and the same line, unless a line that grew too long was          *)
(* discarded since the last Enter.                                         *)
ReadAlike ==
  [][~discarded => executed' = Nothing \/ executed'.board = executed'.msh
                     \/ UNCHANGED executed]_vars

LEMMA StepReadsAlike ==
  ASSUME TypeOK, Clean, [Next]_vars
  PROVE  [~discarded => executed' = Nothing \/ executed'.board = executed'.msh
                          \/ UNCHANGED executed]_vars
<1>. SUFFICES ASSUME ~discarded
              PROVE  executed' = Nothing \/ executed'.board = executed'.msh
                       \/ UNCHANGED executed
  OBVIOUS
<1>1. CASE UNCHANGED Promise!vars
  BY <1>1 DEF Promise!vars
<1>2. CASE Promise!Edit \/ Promise!Overflow
  <2>1. ASSUME Promise!Type \/ Promise!Erase \/ Promise!Left \/ Promise!Right
                 \/ Promise!Complete \/ Promise!Ignore
        PROVE  executed' = Promise!Nothing
    BY <2>1, Zenon DEF Promise!Become, Promise!Type, Promise!Erase, Promise!Left,
                Promise!Right, Promise!Complete, Promise!Ignore
  <2>2. CASE Promise!Enter
    BY <2>2 DEF Promise!Enter, Promise!Both
  <2>3. CASE Promise!Overflow
    BY <2>3 DEF Promise!Overflow, Promise!Discard, Promise!Nothing, Nothing
  <2>. QED  BY <1>2, <2>1, <2>2, <2>3
         DEF Promise!Edit, Promise!Nothing, Nothing
<1>. QED  BY <1>1, <1>2, NextPromise DEF Promise!Next, Promise!Unknown

THEOREM BothReadAlike == Spec => ReadAlike
<1>1. Init => Clean
  BY InitPromise
<1>2. TypeOK /\ Clean /\ [Next]_vars => Clean'
  BY NextPromise
<1>. QED  BY <1>1, <1>2, ShellTypes, StepReadsAlike, PTL DEF Spec, ReadAlike
=============================================================================
