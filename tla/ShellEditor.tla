----------------------------- MODULE ShellEditor -----------------------------
(***************************************************************************)
(* The shell thread: bytes come in from the UART under interrupt, wake the *)
(* thread through a semaphore, and are edited into shell->line, an array   *)
(* with a length and a cursor beside it.  Enter hands the array to the     *)
(* board's commands, which read it up to its first NUL, and its length as  *)
(* well to the commands of RT-Thread, which read that many characters: the *)
(* two agree only as long as nothing is left behind the length.            *)
(*                                                                         *)
(* As configured for the board: no history, no lower-casing of keys.  A    *)
(* byte gets its value when it is read, which loses no order of bytes.     *)
(***************************************************************************)
EXTENDS SequencesExt

CONSTANTS
  Printable,   \* the characters typed, "[" and those of the arrows included
  Names,       \* the commands msh_auto_complete knows
  Size,        \* FINSH_CMD_SIZE
  RxBytes,     \* RT_SERIAL_RB_BUFSZ
  SemRange     \* 65536: the count of a semaphore is taken modulo it

NUL == "NUL"

ASSUME ShellAssumption ==
  /\ {"[", "A", "B", "C", "D"} \cap Printable # {} /\ NUL \notin Printable
  /\ {"ESC", "TAB", "BS", "LF", "CR"} \cap Printable = {}
  /\ Size \in Nat \ {0}
  /\ Names \subseteq Seq(Printable) /\ \A n \in Names : Len(n) < Size
  /\ RxBytes \in Nat \ {0} /\ SemRange \in Nat \ {0, 1}

VARIABLES
  line, line_position, line_curpos, stat,
  rx,         \* bytes received and not yet read
  rx_sem,     \* tokens of shell->rx_sem
  taking,     \* the thread found no byte and "asks" for a token, or "waits"
  unbounded,  \* strlen has run beyond line: what follows is not modelled
  \* bookkeeping
  wrapped,    \* the count wrapped to 0 since the thread began to ask
  discarded,  \* a large line has been discarded since the last Enter
  executed    \* what the commands just got to read, or Nothing

editor == <<line, line_position, line_curpos, stat>>
queue == <<rx, rx_sem, taking, wrapped>>
vars == <<editor, queue, unbounded, discarded, executed>>

Promise == INSTANCE LineEditor WITH
  before <- IF discarded THEN <<>> ELSE SubSeq(line, 1, line_curpos),
  after <- IF discarded THEN <<>> ELSE SubSeq(line, line_curpos + 1, line_position)

Nothing == [none |-> TRUE]

Characters == Printable \cup {NUL}
Bytes == Characters \cup {"ESC", "TAB", "BS", "LF", "CR"}

Empty == [i \in 1..Size |-> NUL]

(* The string an array holds, up to its first NUL.                         *)
strlen(array) ==
  CHOOSE n \in 0..Size :
    /\ n = Size \/ array[n + 1] = NUL
    /\ \A i \in 1..n : array[i] # NUL

String(array) == SubSeq(array, 1, strlen(array))

-----------------------------------------------------------------------------
(* The keys.  Each leaves line, line_position, line_curpos and discarded.  *)
Edits(array, position, curpos) ==
  /\ line' = array /\ line_position' = position /\ line_curpos' = curpos
  /\ executed' = Nothing
  /\ UNCHANGED <<unbounded, discarded>>

Ignored == Edits(line, line_position, line_curpos)

Left ==
  IF line_curpos > 0 THEN Edits(line, line_position, line_curpos - 1) ELSE Ignored

(* A variant: the cursor is held back by the room in line alone.           *)
Right_PastEnd ==
  IF line_curpos < Size
  THEN Edits(line, line_position, line_curpos + 1) ELSE Ignored

Right ==
  IF line_curpos < line_position
  THEN Edits(line, line_position, line_curpos + 1) ELSE Ignored

(* A variant: what follows the cursor moves, and its last character stays. *)
Erased_KeepsLast(array, curpos, position) ==
  [i \in 1..Size |-> IF i > curpos /\ i <= position THEN array[i + 1] ELSE array[i]]

(* line without the character after curpos, when position are left.        *)
Erased(array, curpos, position) ==
  [i \in 1..Size |->
     CASE i = position + 1 -> NUL
       [] i > curpos /\ i <= position -> array[i + 1]
       [] OTHER -> array[i]]

Backspace ==
  IF line_curpos = 0 THEN Ignored
  ELSE Edits(Erased(line, line_curpos - 1, line_position - 1),
             line_position - 1, line_curpos - 1)

(* msh_auto_complete writes the start all matching names share.            *)
msh_auto_complete(array) ==
  LET prefix == String(array)
      matches == {n \in Names : IsPrefix(prefix, n)}
      common == LongestCommonPrefix(matches)
  IN  IF prefix = <<>> \/ matches = {} THEN array
      ELSE [i \in 1..Size |-> IF i <= Len(common) THEN common[i] ELSE array[i]]

(* After a discarded line the array may have no NUL left: strlen then goes *)
(* on into line_position.                                                  *)
Tab ==
  LET completed == msh_auto_complete(line)
      length == strlen(completed)
  IN  IF length < Size THEN Edits(completed, length, length)
      ELSE /\ unbounded' = TRUE /\ executed' = Nothing
           /\ UNCHANGED <<line, line_position, line_curpos, discarded>>

Cleared(array) == Empty

(* UserMsh_Commands, then the line is cleared.                             *)
Enter ==
  /\ executed' = [board |-> String(line), msh |-> SubSeq(line, 1, line_position)]
  /\ line' = Cleared(line)
  /\ line_position' = 0 /\ line_curpos' = 0
  /\ discarded' = FALSE
  /\ UNCHANGED unbounded

(* line with a character put in at the cursor.                             *)
Inserted(array, curpos, position, c) ==
  [i \in 1..Size |->
     CASE i = curpos + 1 -> c
       [] i > curpos + 1 /\ i <= position + 1 -> array[i - 1]
       [] OTHER -> array[i]]

(* A large line is discarded by its length alone.                          *)
Insert(c) ==
  LET array == Inserted(line, line_curpos, line_position, c)
  IN  IF line_position + 1 < Size
      THEN Edits(array, line_position + 1, line_curpos + 1)
      ELSE /\ line' = array
           /\ line_position' = 0 /\ line_curpos' = 0
           /\ discarded' = TRUE /\ executed' = Nothing
           /\ UNCHANGED unbounded

(* What a key does once it is no part of an escape sequence.               *)
Normal(ch) ==
  CASE ch = NUL -> Ignored
    [] ch = "TAB" -> Tab
    [] ch = "BS" -> Backspace
    [] ch = "LF" -> Enter
    [] OTHER -> Insert(ch)

(* The four arrows.  A key after ESC that starts no sequence, and one that *)
(* ends an unknown sequence, are keys of their own.                        *)
Key(ch) ==
  IF ch = "CR" THEN Ignored /\ UNCHANGED stat
  ELSE IF ch = "ESC" THEN Ignored /\ stat' = "WAIT_SPEC_KEY"
  ELSE IF stat = "WAIT_SPEC_KEY" /\ ch = "[" THEN Ignored /\ stat' = "WAIT_FUNC_KEY"
  ELSE /\ stat' = "WAIT_NORMAL"
       /\ IF stat = "WAIT_FUNC_KEY" /\ ch \in {"A", "B", "C", "D"}
          THEN CASE ch = "D" -> Left [] ch = "C" -> Right [] OTHER -> Ignored
          ELSE Normal(ch)

-----------------------------------------------------------------------------
(* The serial interrupt: some bytes, one release of the semaphore.  When   *)
(* the buffer is full the oldest byte makes room.  A release resumes the   *)
(* thread that waits, or else counts, without a limit, in 16 bits.         *)
finsh_rx_ind ==
  /\ rx' \in 1..RxBytes /\ rx' >= rx /\ rx' <= rx + 2
  /\ \/ /\ taking = "waits"
        /\ taking' = "no" /\ wrapped' = FALSE
        /\ UNCHANGED rx_sem
     \/ /\ taking # "waits"
        /\ rx_sem' = (rx_sem + 1) % SemRange
        /\ wrapped' = IF taking = "asks" /\ rx_sem' = 0 THEN TRUE ELSE wrapped
        /\ UNCHANGED taking
  /\ UNCHANGED <<editor, unbounded, discarded, executed>>

(* A variant: a byte is read only by a thread that has taken a token.      *)
CanRead_WithToken == taking = "no" /\ rx > 0 /\ rx_sem > 0

CanRead == taking = "no" /\ rx > 0

(* finsh_getchar reads a byte, and its caller handles the key.             *)
Read ==
  /\ CanRead /\ ~unbounded
  /\ rx' = rx - 1
  /\ \E ch \in Bytes : Key(ch)
  /\ UNCHANGED <<rx_sem, taking, wrapped>>

(* A variant: a token is taken before each byte.                            *)
Miss_Unasked ==
  /\ taking = "no"
  /\ taking' = "asks"
  /\ UNCHANGED <<editor, rx, rx_sem, wrapped, unbounded, discarded, executed>>

Miss ==
  /\ taking = "no" /\ rx = 0
  /\ taking' = "asks"
  /\ UNCHANGED <<editor, rx, rx_sem, wrapped, unbounded, discarded, executed>>

(* rt_sem_take: a token is there, or the thread is suspended.              *)
Take ==
  /\ taking = "asks" /\ rx_sem > 0
  /\ rx_sem' = rx_sem - 1 /\ taking' = "no" /\ wrapped' = FALSE
  /\ UNCHANGED <<editor, rx, unbounded, discarded, executed>>

Suspend ==
  /\ taking = "asks" /\ rx_sem = 0
  /\ taking' = "waits"
  /\ UNCHANGED <<editor, rx, rx_sem, wrapped, unbounded, discarded, executed>>

finsh_getchar == Read \/ Miss \/ Take \/ Suspend

Init ==
  /\ line = Empty /\ line_position = 0 /\ line_curpos = 0
  /\ stat = "WAIT_NORMAL"
  /\ rx = 0 /\ rx_sem = 0 /\ taking = "no" /\ wrapped = FALSE
  /\ unbounded = FALSE /\ discarded = FALSE /\ executed = Nothing

Next == finsh_rx_ind \/ finsh_getchar

Spec == Init /\ [][Next]_vars

(* The thread runs on whenever it can: none is above it, and the timer     *)
(* thread, which has its priority, sleeps between timeouts.                *)
FairSpec == Spec /\ WF_vars(finsh_getchar)

-----------------------------------------------------------------------------
(* Length and cursor stay within the array, the cursor within the length.  *)
TypeOK ==
  /\ line \in [1..Size -> Characters]
  /\ line_position \in 0..(Size - 1) /\ line_curpos \in 0..line_position
  /\ stat \in {"WAIT_NORMAL", "WAIT_SPEC_KEY", "WAIT_FUNC_KEY"}
  /\ rx \in 0..RxBytes /\ rx_sem \in 0..(SemRange - 1)
  /\ taking \in {"no", "asks", "waits"} /\ wrapped \in BOOLEAN
  /\ unbounded \in BOOLEAN /\ discarded \in BOOLEAN
  /\ executed = Nothing \/ DOMAIN executed = {"board", "msh"}

(* The array with its length and cursor is the line editor a user expects: *)
(* whatever keys come, in whole or broken escape sequences, both kinds of  *)
(* command read the line as it was edited, and nothing of what was erased, *)
(* completed over or executed before.                                      *)
IsLineEditor == Promise!Spec

(* The thread does not ask for a token over bytes that are there unless    *)
(* one is left for it, and does not sleep over them: it asks only after it *)
(* found no byte, and each byte since has released a token.  Only a count  *)
(* that wraps just then loses the wake-up.                                 *)
WakeUpPending ==
  rx > 0 /\ ~wrapped => taking # "waits" /\ (taking = "asks" => rx_sem > 0)

(* No byte waits for a wake-up that has already been used: as long as any  *)
(* are there, and no wake-up was lost to a wrapped count, keys are handled.*)
KeysHandled == <>[](rx > 0 /\ ~unbounded /\ ~wrapped) => []<><<Read>>_vars
=============================================================================
