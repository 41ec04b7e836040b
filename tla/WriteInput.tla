----------------------------- MODULE WriteInput -----------------------------
(***************************************************************************)
(* Reading private input from the standard input (write-input.ts): an      *)
(* approval receipt typed at a raw terminal, the same receipt from a pipe, *)
(* or a JSON object from a pipe.  All three take the input piece by piece  *)
(* through nextInput, which listens for data, end and error and sets a     *)
(* timer for what is left until the deadline, and lets go of all of them   *)
(* at the first that comes.                                                *)
(*                                                                         *)
(* A piece is a run of keys; a pipe's bytes are keys as well.  Between an  *)
(* event and the next nextInput only promise continuations run, so one     *)
(* action takes the event, its reduction and the next request.  A pipe is  *)
(* collected through Readable.from, which asks for the next piece before   *)
(* the reducer sees the one that came.                                     *)
(***************************************************************************)
EXTENDS Naturals, Sequences, FiniteSets, SequencesExt

CONSTANTS
  Letters,    \* the characters of a receipt
  Size,       \* the length of a receipt: 43 in the code
  Limit,      \* the bytes a pipe may bring: 45 or 16384 in the code
  MaxTyped    \* bound: how many keys the writer sends

ASSUME InputAssumption ==
  /\ Size \in Nat \ {0} /\ Limit \in Nat \ {0} /\ MaxTyped \in Nat
  /\ Letters \cap {"enter", "erase", "cancel", "other"} = {}

\* "enter" is a carriage return or a line feed, "erase" a backspace or a
\* delete, "cancel" control-C or control-D, "other" any other character.
Keys == Letters \cup {"enter", "erase", "cancel", "other"}

VARIABLES
  kind,      \* "terminal", "piped" or "changes": which function reads
  tty,       \* whether the standard input is a terminal
  wasRaw,    \* the terminal's mode when the read began
  raw,       \* the terminal's mode
  typed,     \* all that was ever sent
  closed,    \* the writer's end is closed
  delivered, \* how many keys the stream has given out
  listening, \* a nextInput waits: its listeners and its timer are set
  flowing,   \* the stream is resumed
  late,      \* the deadline has passed
  text,      \* what has been gathered
  outcome,   \* "idle", "reading", or how it ended: "read", "invalid", "refused"
  value      \* what it returned

terminal == <<kind, tty, wasRaw>>
writer   == <<typed, closed>>
wvars == <<terminal, writer, raw, delivered, listening, flowing, late, text,
          outcome, value>>

WInit ==
  /\ kind \in {"terminal", "piped", "changes"}
  /\ tty \in BOOLEAN
  /\ wasRaw \in BOOLEAN
  /\ wasRaw => tty
  /\ raw = wasRaw
  /\ typed = <<>> /\ closed = FALSE
  /\ delivered = 0 /\ listening = FALSE /\ flowing = FALSE /\ late = FALSE
  /\ text = <<>> /\ outcome = "idle" /\ value = <<>>

-----------------------------------------------------------------------------
Room(t) == Len(t) < Size

\* receiptCharacters: one key of a receipt.  An invalid key throws, which is
\* a state of its own here; what follows the end of the line is ignored.
Press(line, key) ==
  CASE line.state # "open" -> line
    [] line.state = "open" /\ key = "cancel" -> [line EXCEPT !.state = "invalid"]
    [] line.state = "open" /\ key = "enter"  -> [line EXCEPT !.state = "done"]
    [] line.state = "open" /\ key = "erase"  ->
         [line EXCEPT !.text = IF @ = <<>> THEN @ ELSE Front(@)]
    [] line.state = "open" /\ key \in Letters /\ Room(line.text) ->
         [line EXCEPT !.text = Append(@, key)]
    [] OTHER -> [line EXCEPT !.state = "invalid"]

receiptCharacters(gathered, chunk) ==
  LET line[n \in 0 .. Len(chunk)] ==
        IF n = 0 THEN [text |-> gathered, state |-> "open"]
                 ELSE Press(line[n - 1], chunk[n])
  IN line[Len(chunk)]

IsReceipt(t) == Len(t) = Size /\ Range(t) \subseteq Letters

\* String.prototype.trim, of which only line ends matter here.
trim(t) ==
  LET marks == {i \in DOMAIN t : t[i] # "enter"}
      first == CHOOSE i \in marks : \A j \in marks : i <= j
      last  == CHOOSE i \in marks : \A j \in marks : j <= i
  IN IF marks = {} THEN <<>> ELSE SubSeq(t, first, last)

-----------------------------------------------------------------------------
\* nextInput: listen, set the timer and resume.
Ask == listening' = TRUE /\ flowing' = TRUE

\* Variant: the stream is not paused.
CleanupFlowing == [listening |-> FALSE, flowing |-> TRUE]

\* cleanup: the listeners and the timer go, and the stream is paused.  A
\* stream left flowing would hand its next pieces to nobody.
Cleanup == [listening |-> FALSE, flowing |-> FALSE]

\* Variant: the terminal's mode is restored when a receipt was read.
LetGoOfReceipt(pending) ==
  /\ listening' = pending
  /\ flowing' = (kind = "changes" /\ pending)
  /\ raw' = IF kind = "terminal" /\ outcome' = "read" THEN wasRaw ELSE raw

\* The finally of readApprovalReceipt.  readChanges and readProposal have
\* none.  `pending` says whether a nextInput is still under way.
LetGo(pending) ==
  /\ listening' = pending
  /\ flowing' = (kind = "changes" /\ pending)
  /\ raw' = IF kind = "terminal" THEN wasRaw ELSE raw

Return(v)     == outcome' = "read" /\ value' = v
Throw(reason) == outcome' = reason /\ UNCHANGED value

\* The last check of a receipt, or of an object.
Judge(t) ==
  IF kind = "changes" THEN Return(t) \/ Throw("invalid")
  ELSE IF IsReceipt(t) THEN Return(t) ELSE Throw("invalid")

\* readApprovalReceipt, readChanges, readProposal: a terminal where a pipe
\* belongs, or the other way round, is refused before anything is touched.
Begin ==
  /\ outcome = "idle"
  /\ IF tty # (kind = "terminal")
     THEN Throw("refused") /\ UNCHANGED <<raw, listening, flowing>>
     ELSE /\ Ask
          /\ raw' = (raw \/ kind = "terminal")
          /\ outcome' = "reading" /\ UNCHANGED value
  /\ UNCHANGED <<terminal, writer, delivered, late, text>>

\* A piece for the receipt at the terminal.
Typing(chunk) ==
  LET line == receiptCharacters(text, chunk)
  IN /\ text' = line.text
     /\ \/ /\ line.state = "open"
           /\ Ask /\ UNCHANGED <<raw, outcome, value>>
        \/ line.state = "done" /\ Judge(line.text) /\ LetGo(FALSE)
        \/ line.state = "invalid" /\ Throw("invalid") /\ LetGo(FALSE)

\* A piece from a pipe.  The next nextInput is under way when the reducer
\* finds the limit exceeded or the bytes no UTF-8, and nothing ends it.
Collecting(chunk) ==
  \/ /\ Len(text) + Len(chunk) <= Limit
     /\ text' = text \o chunk
     /\ Ask /\ UNCHANGED <<raw, outcome, value>>
  \/ /\ Len(text) + Len(chunk) > Limit \/ "other" \in Range(chunk)
     /\ Throw("invalid") /\ LetGo(TRUE) /\ UNCHANGED text

\* A piece that nobody waits for any more.
Unwanted ==
  /\ listening' = Cleanup.listening /\ flowing' = Cleanup.flowing
  /\ UNCHANGED <<raw, text, outcome, value>>

\* The data event: a piece of what has been sent.
Data ==
  /\ listening /\ flowing
  /\ \E n \in delivered + 1 .. Len(typed) :
       /\ delivered' \in IF Cleanup.flowing THEN n .. Len(typed) ELSE {n}
       /\ LET chunk == SubSeq(typed, delivered + 1, n)
          IN \/ outcome = "reading" /\ kind = "terminal" /\ Typing(chunk)
             \/ outcome = "reading" /\ kind # "terminal" /\ Collecting(chunk)
             \/ outcome # "reading" /\ Unwanted
  /\ UNCHANGED <<terminal, writer, late>>

\* The end event: a terminal's is no receipt; a pipe's ends the collection.
End ==
  /\ listening /\ flowing /\ closed /\ delivered = Len(typed)
  /\ \/ /\ outcome = "reading" /\ kind = "terminal"
        /\ Throw("invalid") /\ LetGo(FALSE) /\ UNCHANGED text
     \/ /\ outcome = "reading" /\ kind = "piped"
        /\ Judge(trim(text)) /\ LetGo(FALSE) /\ UNCHANGED text
     \/ /\ outcome = "reading" /\ kind = "changes"
        /\ Judge(text) /\ LetGo(FALSE) /\ UNCHANGED text
     \/ outcome # "reading" /\ Unwanted
  /\ UNCHANGED <<terminal, writer, delivered, late>>

\* An error event, or the timer, which fires at the deadline, or at once
\* when it has passed: the promise is rejected.
Rejected ==
  /\ \/ /\ outcome = "reading"
        /\ Throw("invalid") /\ LetGo(FALSE) /\ UNCHANGED text
     \/ outcome # "reading" /\ Unwanted
  /\ UNCHANGED <<terminal, writer, delivered, late>>

Error == listening /\ flowing /\ Rejected

\* Variant: the timer is not set again after the first piece.
TimeoutOnce == listening /\ late /\ delivered = 0 /\ Rejected

Timeout == listening /\ late /\ Rejected

-----------------------------------------------------------------------------
\* The writer: a person at the terminal or the other end of the pipe.  What
\* was sent before the read began waits in the stream, as if sent after; what
\* is sent when nothing listens any more is left out.
Send(key) ==
  /\ listening /\ Len(typed) < MaxTyped /\ ~closed
  /\ typed' = Append(typed, key)
  /\ UNCHANGED <<terminal, closed, raw, delivered, listening, flowing, late,
                 text, outcome, value>>

Hangup ==
  /\ listening /\ ~closed /\ closed' = TRUE
  /\ UNCHANGED <<terminal, typed, raw, delivered, listening, flowing, late,
                 text, outcome, value>>

\* The deadline, 30 seconds or five minutes after the read began, passes.
PassDeadline ==
  /\ listening /\ ~late /\ late' = TRUE
  /\ UNCHANGED <<terminal, writer, raw, delivered, listening, flowing, text,
                 outcome, value>>

WNext ==
  \/ Begin \/ Data \/ End \/ Error \/ Timeout
  \/ (\E key \in Keys : Send(key))
  \/ Hangup \/ PassDeadline

\* Timers fire and time passes; nothing is assumed of the writer or of how
\* soon the stream hands over what it has.
WSpec ==
  /\ WInit /\ [][WNext]_wvars
  /\ WF_wvars(Begin) /\ WF_wvars(Timeout) /\ WF_wvars(PassDeadline)

-----------------------------------------------------------------------------
\* What a line of keys says, told without processing it: the letters that no
\* later erasure takes back, in their order.  A letter is taken back when some
\* stretch after it has more erasures than letters.
Count(line, keys, i, j) == Cardinality({k \in i .. j : line[k] \in keys})

Survives(line, i) ==
  /\ line[i] \in Letters
  /\ \A j \in i + 1 .. Len(line) :
       Count(line, {"erase"}, i + 1, j) <= Count(line, Letters, i + 1, j)

Spells(line, word) ==
  \E order \in [DOMAIN word -> DOMAIN line] :
    /\ \A m, n \in DOMAIN word : m < n => order[m] < order[n]
    /\ {order[n] : n \in DOMAIN word} = {i \in DOMAIN line : Survives(line, i)}
    /\ \A n \in DOMAIN word : word[n] = line[order[n]]

IsFirstLine(line) ==
  /\ \E rest \in 0 .. Len(typed) : line = SubSeq(typed, 1, rest)
  /\ "enter" \notin Range(line)
  /\ Len(line) < Len(typed) /\ typed[Len(line) + 1] = "enter"

\* However the input is cut into pieces, and whatever else races for it, a
\* value is what the writer sent: at a terminal, the letters of the first
\* line that were not erased; from a pipe, all of it up to its end, which
\* around a receipt may be blank.  However much is sent meanwhile, the command
\* holds no more of it than its limit (write-input.ts 10-18, 42-69, 101-114).
ValueIsWhatWasSent ==
  /\ Len(text) <= IF kind = "terminal" THEN Size ELSE Limit
  /\ outcome = "read" =>
    CASE kind = "terminal" ->
           /\ IsReceipt(value)
           /\ \E n \in 0 .. Len(typed) :
                LET line == SubSeq(typed, 1, n)
                IN IsFirstLine(line) /\ Spells(line, value)
      [] kind = "piped" ->
           /\ closed /\ IsReceipt(value) /\ Len(typed) <= Limit
           /\ \E m, n \in 0 .. Len(typed) :
                /\ value = SubSeq(typed, m + 1, n)
                /\ \A i \in DOMAIN typed \ (m + 1 .. n) : typed[i] = "enter"
      [] kind = "changes" -> closed /\ value = typed /\ Len(typed) <= Limit

\* Whichever way a read ends, the terminal has its mode back, and a read at
\* the terminal leaves no listener, no timer and no flowing stream behind
\* (write-input.ts 98 and 115-118).
TerminalRestored ==
  outcome \notin {"idle", "reading"} =>
    /\ raw = wasRaw
    /\ kind = "terminal" => ~listening /\ ~flowing

\* A read ends and all it set up is gone, even if nothing is ever sent, if a
\* piece never comes, or if a pipe brought too much (write-input.ts 36).
InputEnds == <>(outcome \notin {"idle", "reading"} /\ ~listening)
=============================================================================
