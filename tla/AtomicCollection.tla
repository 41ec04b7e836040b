-------------------------- MODULE AtomicCollection --------------------------
(***************************************************************************)
(* What the locked rewrites of a private JSON file promise their callers:  *)
(* one collection of records by name, in which each change takes effect at *)
(* one moment between its call and its answer, and for no other name.      *)
(***************************************************************************)
CONSTANTS
  Procs,   \* the callers
  Names,   \* the names records are stored under
  Values,  \* the records
  None     \* no record

Changes == [name : Names, value : Values \cup {None}]
Collections == [Names -> Values \cup {None}]
Empty == [n \in Names |-> None]
Changed(content, c) == [content EXCEPT ![c.name] = c.value]

VARIABLES
  content, \* the collection
  change,  \* the change each caller asks for
  phase,   \* whether it has been called, and applied
  answer   \* what the last change was answered

avars == <<content, change, phase, answer>>

Init ==
  /\ content = Empty
  /\ change \in [Procs -> Changes]
  /\ phase = [p \in Procs |-> "idle"]
  /\ answer = [p \in Procs |-> "none"]

Call(p, c) ==
  /\ phase[p] = "idle" /\ phase' = [phase EXCEPT ![p] = "called"]
  /\ change' = [change EXCEPT ![p] = c]
  /\ answer' = [answer EXCEPT ![p] = "none"]
  /\ UNCHANGED content

Apply(p) ==
  /\ phase[p] = "called" /\ phase' = [phase EXCEPT ![p] = "applied"]
  /\ content' = Changed(content, change[p])
  /\ UNCHANGED <<change, answer>>

\* A change is confirmed, possibly with a cleanup warning, once it is applied,
\* and refused only if it never is.
Return(p) ==
  /\ phase' = [phase EXCEPT ![p] = "idle"]
  /\ \E a \in {"saved", "cleanup", "failed"} :
       /\ a = "failed" => phase[p] = "called"
       /\ a # "failed" => phase[p] = "applied"
       /\ answer' = [answer EXCEPT ![p] = a]
  /\ UNCHANGED <<content, change>>

\* The caller dies; nobody is told whether the change was made.
Die(p) ==
  /\ phase[p] # "idle" /\ phase' = [phase EXCEPT ![p] = "idle"]
  /\ UNCHANGED <<content, change, answer>>

Next == \E p \in Procs :
  \/ \E c \in Changes : Call(p, c)
  \/ Apply(p) \/ Return(p) \/ Die(p)

Spec == Init /\ [][Next]_avars
=============================================================================
