----------------------------- MODULE AdpConsole -----------------------------
(***************************************************************************)
(* The console: adp_console_task publishes each character it reads;        *)
(* console_handler, a subscriber at the CLI dispatcher, assembles them to  *)
(* a command line and publishes the line to the same dispatcher, where     *)
(* app_cmd_handler executes it.  The task print_info publishes whole       *)
(* commands as if they had been typed.  The dispatcher is a bounded queue  *)
(* and one task (AdpDispatcher shows that it is).                          *)
(*                                                                         *)
(* A character is one of four kinds: a letter, a space, one that edits     *)
(* (backspace, enter) and any other that cannot be printed, such as the    *)
(* NUL that ends the string print_info publishes.                          *)
(***************************************************************************)
EXTENDS Integers, Sequences, FiniteSets, SequencesExt

CONSTANTS
  Letter,       \* printable characters other than the space
  SPACE, BACKSPACE, ENTER, UNPRINTABLE,
  NUL,          \* 0x00, which stands for a delimiter in cmd_line
  BufferSize,   \* ADP_CONSOLE_MAX_CMD_SIZE
  QueueLength,  \* max_items of the CLI dispatcher
  ArgcValues,   \* values of an unsigned char (256)
  FOREIGN,      \* what another object keeps in the byte after buffer
  Injected      \* the strings that print_info publishes

ASSUME ConsoleAssumption ==
  /\ BufferSize \in Nat /\ BufferSize >= 3
  /\ QueueLength \in Nat \ {0}
  /\ ArgcValues \in Nat \ {0}
  /\ NUL \notin Letter \cup {SPACE}
  /\ FOREIGN \notin Letter \cup {NUL}
  /\ Injected \subseteq Seq(Letter \cup {SPACE, BACKSPACE, ENTER, UNPRINTABLE})

VARIABLES
  queue,     \* messages in the queue of the CLI dispatcher
  input,     \* what console_handler has still to look at of its message
  cmd_line,  \* &buffer[1], to the end of buffer
  behind,    \* the byte after the end of buffer, which is not the console's
  cmd_idx,   \* the length of the line
  argc       \* buffer[0], an unsigned char

vars == <<queue, input, cmd_line, behind, cmd_idx, argc>>

-----------------------------------------------------------------------------
Char  == Letter \cup {SPACE, BACKSPACE, ENTER, UNPRINTABLE}
Cell  == 0..(BufferSize - 2)   \* buffer[0] is argc
Limit == BufferSize - 1        \* the length at which the line is full

\* A message of the topics CLI_INPUT_STREAM and CLI_EXECUTE_CMD.  A command is
\* a copy of argc, of the line and of the byte behind the line.
Stream(s)          == [topic |-> "INPUT_STREAM", data |-> s]
Command(n, s, end) == [topic |-> "EXECUTE_CMD", argc |-> n, text |-> s, end |-> end]

\* cmd_line[i], and what cmd_line[i] = byte does.  Behind cmd_line comes what is
\* behind buffer.
Load(i) == IF i \in Cell THEN cmd_line[i] ELSE behind
Store(i, byte) ==
  IF i \in Cell
  THEN cmd_line' = [cmd_line EXCEPT ![i] = byte] /\ UNCHANGED behind
  ELSE behind' = byte /\ UNCHANGED cmd_line

\* The first n bytes of cmd_line.
Bytes(n) == [i \in 1..n |-> Load(i - 1)]

Init ==
  /\ queue = <<>>
  /\ input = <<>>
  /\ cmd_line = [i \in Cell |-> NUL]
  /\ behind = FOREIGN
  /\ cmd_idx = 0
  /\ argc = 0

\* adp_topic_publish: the message is queued, or the timed put to the full queue
\* fails.  (A sleep before it is queued is a stuttering step.)
Publish(m) ==
  IF Len(queue) < QueueLength THEN queue' = Append(queue, m) ELSE UNCHANGED queue

-----------------------------------------------------------------------------
\* adp_console_task has read a character.
ConsoleTaskPublishes(ch) ==
  /\ Publish(Stream(<<ch>>))
  /\ UNCHANGED <<input, cmd_line, behind, cmd_idx, argc>>

\* print_info publishes a command line of its own.
PrintInfoPublishes(s) ==
  /\ Publish(Stream(s))
  /\ UNCHANGED <<input, cmd_line, behind, cmd_idx, argc>>

\* The dispatcher hands a message of the input stream to console_handler ...
ReceiveStream ==
  /\ input = <<>>
  /\ queue # <<>> /\ Head(queue).topic = "INPUT_STREAM"
  /\ input' = Head(queue).data
  /\ queue' = Tail(queue)
  /\ UNCHANGED <<cmd_line, behind, cmd_idx, argc>>

\* ... or a command to app_cmd_handler.
ReceiveCommand ==
  /\ input = <<>>
  /\ queue # <<>> /\ Head(queue).topic = "EXECUTE_CMD"
  /\ queue' = Tail(queue)
  /\ UNCHANGED <<input, cmd_line, behind, cmd_idx, argc>>

-----------------------------------------------------------------------------
(* console_handler, one round of its loop *)

Reads(chars) == input # <<>> /\ Head(input) \in chars /\ input' = Tail(input)

\* The NUL at the end of the line, and the one that empties the line.
StoreEnd ==
  /\ cmd_line' = [i \in Cell |-> IF i \in {0, cmd_idx} THEN NUL ELSE cmd_line[i]]
  /\ behind' = IF cmd_idx \in Cell THEN behind ELSE NUL

\* What is copied as the end of the line: this NUL, but behind a full line its
\* owner may have stored something else by then.
End == IF cmd_idx \in Cell THEN {NUL} ELSE {NUL, FOREIGN}

\* Mutant: the line is reset only after it was published with success.
HandleEnterKeepsLine ==
  /\ cmd_idx # 0
  /\ Reads({ENTER})
  /\ \E end \in End : Publish(Command(argc, Bytes(cmd_idx), end))
  /\ IF queue' = queue
     THEN UNCHANGED <<cmd_idx, argc>>
     ELSE cmd_idx' = 0 /\ argc' = 0
  /\ StoreEnd

\* Enter on a line that is not empty: the line is closed with a NUL and
\* published, and a new one begins.  This task is the one that would empty the
\* queue it puts to: if it is full, the command is lost.  A full line fills
\* cmd_line, so that its NUL is stored, and copied, from behind the buffer.
HandleEnter ==
  /\ cmd_idx # 0
  /\ Reads({ENTER})
  /\ \E end \in End : Publish(Command(argc, Bytes(cmd_idx), end))
  /\ StoreEnd
  /\ cmd_idx' = 0
  /\ argc' = 0

\* Backspace takes the last character away; argc keeps counting a delimiter.
HandleBackspace ==
  /\ cmd_idx # 0
  /\ Reads({BACKSPACE})
  /\ cmd_idx' = cmd_idx - 1
  /\ UNCHANGED <<queue, cmd_line, behind, argc>>

\* Mutant: a full line is not looked for.
PlaceAtEnd == cmd_idx

\* "Prevent overflow": the place for the next character is the last one if the
\* line is full.
Place == IF cmd_idx = Limit THEN cmd_idx - 1 ELSE cmd_idx

\* A character that is not kept: one that cannot be printed, a space at the
\* beginning of the line, or one behind a space, as the code has it.  (It stores
\* spaces as NUL and looks at the place behind them: the last case never comes up,
\* whatever "Skip multiple delimiters between words" says.)
IsSkipped(ch) ==
  \/ ch \notin Letter \cup {SPACE}
  \/ ch = SPACE /\ (Place = 0 \/ Load(Place) = SPACE)

\* Any other character.  A full line has lost its last one by then.
HandleSkipped ==
  /\ Reads(Char)
  /\ cmd_idx # 0 => Head(input) \notin {ENTER, BACKSPACE}
  /\ IsSkipped(Head(input))
  /\ cmd_idx' = Place
  /\ UNCHANGED <<queue, cmd_line, behind, argc>>

\* Mutant: spaces at the beginning of the line are kept.
HandleSpaceAnywhere ==
  /\ Reads({SPACE})
  /\ Store(Place, NUL)
  /\ cmd_idx' = Place + 1
  /\ argc' = (argc + 1) % ArgcValues
  /\ UNCHANGED queue

\* A space ends an argument.
HandleSpace ==
  /\ Reads({SPACE})
  /\ ~IsSkipped(SPACE)
  /\ Store(Place, NUL)
  /\ cmd_idx' = Place + 1
  /\ argc' = (argc + 1) % ArgcValues
  /\ UNCHANGED queue

HandleLetter ==
  /\ Reads(Letter)
  /\ Store(Place, Head(input))
  /\ cmd_idx' = Place + 1
  /\ UNCHANGED <<queue, argc>>

Handle ==
  HandleEnter \/ HandleBackspace \/ HandleSkipped \/ HandleSpace \/ HandleLetter

-----------------------------------------------------------------------------
Next ==
  \/ \E ch \in Char : ConsoleTaskPublishes(ch)
  \/ \E s \in Injected : PrintInfoPublishes(s)
  \/ ReceiveStream \/ ReceiveCommand \/ Handle

Spec == Init /\ [][Next]_vars

-----------------------------------------------------------------------------
(* Properties *)

\* The commands among the messages of a queue, in order: the n-th is at the n-th
\* of their places.
Places(messages) == {i \in 1..Len(messages) : messages[i].topic = "EXECUTE_CMD"}
Nth(places, n)   == CHOOSE i \in places : Cardinality({k \in places : k <= i}) = n
CommandsOf(messages) ==
  [n \in 1..Cardinality(Places(messages)) |-> messages[Nth(Places(messages), n)]]
Commands == CommandsOf(queue)

\* Type invariant: the queue and the counters are within their bounds, and so is
\* the line: however it is edited, its symbols are in cmd_line.  Nothing but the
\* NUL of a full line is ever stored behind the buffer or copied from there.
TypeOK ==
  /\ \A i \in 1..Len(queue) :
       \/ queue[i].topic = "INPUT_STREAM" /\ queue[i].data \in Injected \cup {<<ch>> : ch \in Char}
       \/ /\ queue[i].topic = "EXECUTE_CMD" /\ queue[i].argc \in 0..(ArgcValues - 1)
          /\ Len(queue[i].text) \in 1..Cardinality(Cell)
          /\ queue[i].end # NUL => queue[i].end = FOREIGN /\ Len(queue[i].text) = Limit
  /\ Len(queue) <= QueueLength
  /\ input \in Seq(Char)
  /\ cmd_line \in [Cell -> Letter \cup {NUL}]
  /\ behind \in {FOREIGN, NUL}
  /\ cmd_idx \in 0..Cardinality(Cell)
  /\ argc \in 0..(ArgcValues - 1)

\* app_cmd_handler takes what comes before the first delimiter for the name of
\* the command: it is never empty, however spaces, backspaces, full lines and
\* the commands of print_info are mixed.
CommandHasName ==
  \A i \in 1..Len(Commands) : Head(Commands[i].text) # NUL

\* LineEditor is the console as its comments describe it, seen from the typist
\* and from app_cmd_handler.
Editor == INSTANCE LineEditor WITH
  Symbol <- Letter \cup {NUL},
  Space <- NUL,
  text <- Bytes(cmd_idx),
  args <- argc,
  entered <- [i \in 1..Len(Commands) |-> [argc |-> Commands[i].argc, text |-> Commands[i].text]],
  damaged <- (behind # FOREIGN)

\* Whoever typed the characters and whatever the buffer still holds of older
\* lines, cmd_line is the line as it was edited, argc counts its delimiters, and
\* what is published is both of them: lines are executed whole, once, in the
\* order in which they were entered, and a line that is lost to a full queue does
\* not come back.  The console falls short of its comments ("Prevent overflow",
\* "Start of new argument detected", "Skip multiple delimiters between words") in
\* the slips that LineEditor names, and in no other step.
EditsLines == Editor!SlipSpec

-----------------------------------------------------------------------------
(* What the comments of console_handler promise, and the code does not do *)

\* "Prevent overflow": nothing is stored behind the buffer.
NeverOverruns == behind = FOREIGN

\* "Skip multiple delimiters between words": no command has two in a row.
DelimitersOnce ==
  \A i \in 1..Len(Commands) : \A k \in 1..Len(Commands[i].text) - 1 :
    ~(Commands[i].text[k] = NUL /\ Commands[i].text[k + 1] = NUL)

\* "Start of new argument detected": a command has the arguments it counts.
ArgcCounts ==
  \A i \in 1..Len(Commands) :
    Commands[i].argc =
      Cardinality({k \in 1..Len(Commands[i].text) : Commands[i].text[k] = NUL}) % ArgcValues

=============================================================================
