----------------------------- MODULE LineEditor -----------------------------
(***************************************************************************)
(* What the console promises: a line of limited length that is edited at   *)
(* its end, words with one space between them and their number, and the    *)
(* lines that were entered and wait for their execution, in the order in   *)
(* which they were entered.  Spec is the promise of its comments.  The     *)
(* steps by which the code breaks it are named, as slips.                  *)
(***************************************************************************)
EXTENDS Integers, Sequences, SequencesExt

CONSTANTS Symbol, Space, Limit, ArgcValues

VARIABLES
  text,     \* the line
  args,     \* how many spaces it is said to have
  entered,  \* lines with their args
  damaged   \* whether memory other than the line's has been written to

vars == <<text, args, entered, damaged>>

Init == text = <<>> /\ args = 0 /\ entered = <<>> /\ damaged = FALSE

-----------------------------------------------------------------------------
(* The promise *)

\* The line with room for another symbol: a full one without its last.
Room == IF Len(text) = Limit THEN Front(text) ELSE text

EndsInSpace(line) == line # <<>> /\ Last(line) = Space

\* The number of spaces when symbol s has come, or the last one of the line gone.
More(n, s)    == IF s = Space THEN (n + 1) % ArgcValues ELSE n
Fewer(n, line) == IF EndsInSpace(line) THEN (n - 1) % ArgcValues ELSE n

\* A symbol comes to the end of the line, in place of the last one if the line
\* is full.  A space is kept only behind a word.
Insert(s) ==
  /\ s = Space => Room # <<>> /\ ~EndsInSpace(Room)
  /\ text' = Append(Room, s)
  /\ args' = More(IF Room = text THEN args ELSE Fewer(args, text), s)
  /\ UNCHANGED <<entered, damaged>>

Erase ==
  /\ text # <<>>
  /\ text' = Front(text)
  /\ args' = Fewer(args, text)
  /\ UNCHANGED <<entered, damaged>>

\* The line is entered, or lost if there is no place for it; a new one begins.
EnterLine ==
  /\ text # <<>>
  /\ text' = <<>> /\ args' = 0
  /\ entered' \in {entered, Append(entered, [argc |-> args, text |-> text])}

Enter == EnterLine /\ UNCHANGED damaged

Execute ==
  /\ entered # <<>>
  /\ entered' = Tail(entered)
  /\ UNCHANGED <<text, args, damaged>>

Next == (\E s \in Symbol : Insert(s)) \/ Erase \/ Enter \/ Execute

Spec == Init /\ [][Next]_vars

-----------------------------------------------------------------------------
(* The slips *)

\* A space is kept behind a space, or the last symbol of a full line was a space,
\* which makes room but stays counted.
SlipInsert(s) ==
  /\ s = Space => Room # <<>>
  /\ \/ s = Space /\ EndsInSpace(Room)
     \/ Len(text) = Limit /\ EndsInSpace(text)
  /\ text' = Append(Room, s)
  /\ args' = More(args, s)
  /\ UNCHANGED <<entered, damaged>>

\* A space is erased but stays counted.
SlipErase ==
  /\ EndsInSpace(text)
  /\ text' = Front(text)
  /\ UNCHANGED <<args, entered, damaged>>

\* A full line is entered, and its end written behind the place it has.
SlipEnter == Len(text) = Limit /\ EnterLine /\ damaged' = TRUE

Slip == (\E s \in Symbol : SlipInsert(s)) \/ SlipErase \/ SlipEnter

SlipSpec == Init /\ [][Next \/ Slip]_vars

=============================================================================
