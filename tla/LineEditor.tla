----------------------------- MODULE LineEditor -----------------------------
(***************************************************************************)
(* What the console promises whoever types: an ordinary line editor.  The  *)
(* line is the text before and after the cursor, keys insert, erase and    *)
(* move there, and Enter executes the line as it stands, nothing more and  *)
(* nothing less.  A line that grows too long is discarded, and the promise *)
(* with it until the next Enter.                                           *)
(***************************************************************************)
EXTENDS SequencesExt

CONSTANTS
  Printable,   \* characters that stand for themselves
  Names,       \* the commands Tab completes
  Size         \* characters a line may not reach

VARIABLES
  before, after,   \* the line, left and right of the cursor
  discarded,       \* whether a line was discarded since the last Enter
  executed         \* the line just executed, or Nothing

vars == <<before, after, discarded, executed>>

Texts == Seq(Printable)
Nothing == [none |-> TRUE]

(* The readings of a line: that of the board's own commands, which take it *)
(* up to its NUL, and that of the RT-Thread commands, which take a length. *)
Both(text) == [board |-> text, msh |-> text]

Matches(text) == {n \in Names : IsPrefix(text, n)}

(* What Tab makes of a text: the longest start its completions agree on.   *)
Completion(text) ==
  IF text = <<>> \/ Matches(text) = {} THEN text ELSE LongestCommonPrefix(Matches(text))

Init == before = <<>> /\ after = <<>> /\ discarded = FALSE /\ executed = Nothing

Become(left, right) ==
  before' = left /\ after' = right /\ executed' = Nothing /\ UNCHANGED discarded

Type == \E c \in Printable :
  Len(before) + Len(after) + 1 < Size /\ Become(Append(before, c), after)

Erase == before # <<>> /\ Become(Front(before), after)
Left == before # <<>> /\ Become(Front(before), <<Last(before)>> \o after)
Right == after # <<>> /\ Become(Append(before, Head(after)), Tail(after))
Complete == Become(Completion(before \o after), <<>>)

(* A key that changes nothing.                                             *)
Ignore == Become(before, after)

Discard ==
  /\ before' = <<>> /\ after' = <<>> /\ executed' = Nothing
  /\ discarded' = TRUE

Enter ==
  /\ executed' = Both(before \o after)
  /\ before' = <<>> /\ after' = <<>> /\ UNCHANGED discarded

Edit == ~discarded /\ (Type \/ Erase \/ Left \/ Right \/ Complete \/ Ignore \/ Enter)

Overflow == ~discarded /\ Len(before) + Len(after) + 1 = Size /\ Discard

(* Until the next Enter no promise is made, of what it executes neither.   *)
Unknown ==
  /\ discarded
  /\ before' = <<>> /\ after' = <<>>
  /\ \/ discarded' = TRUE /\ executed' = Nothing
     \/ /\ discarded' = FALSE
        /\ DOMAIN executed' = {"board", "msh"}

Next == Edit \/ Overflow \/ Unknown

Spec == Init /\ [][Next]_vars
=============================================================================
