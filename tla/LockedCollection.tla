-------------------------- MODULE LockedCollection --------------------------
(***************************************************************************)
(* One private JSON file that commands rewrite under its lock directory:   *)
(* credentials.json under .credentials.lock and credential-authority.json  *)
(* under .credential-authority.lock (profile-store.ts).  A change waits    *)
(* for the lock, reads the collection, writes a temporary file beside it   *)
(* and renames that over the original; readers take no lock.  Commands may *)
(* die at any step and any call to the file system may fail.               *)
(***************************************************************************)
EXTENDS Naturals

CONSTANTS
  Procs,     \* the processes that change the file
  Names,     \* profile names
  Values,    \* records
  None,      \* no record
  Absent,    \* the file does not exist, or no temporary file does
  Partial,   \* a file in the middle of being written
  Free,      \* the lock directory does not exist
  Abandoned, \* it exists and its owner is gone
  Retries    \* times a taken lock is tried again (50 in the code)

Changes == [name : Names, value : Values \cup {None}]
Collections == [Names -> Values \cup {None}]
Empty == [n \in Names |-> None]
Changed(content, c) == [content EXCEPT ![c.name] = c.value]
Content(f) == IF f = Absent THEN Empty ELSE f

ASSUME CollectionAssumption ==
  /\ None \notin Values
  /\ Absent # Partial /\ {Absent, Partial} \cap Collections = {}
  /\ Free # Abandoned /\ {Free, Abandoned} \cap Procs = {}
  /\ Retries \in Nat

VARIABLES
  lock,      \* the lock directory: its owner, Free or Abandoned
  file,      \* the file
  temporary, \* the temporary file of each process
  pc,        \* the step of each process
  change,    \* the change it makes: a value for a name, or its removal
  existing,  \* the collection it read
  remaining, \* attempts it has left to take the lock
  done,      \* it has made its change, or found nothing to do
  answer     \* how its last change ended

disk == <<lock, file, temporary>>
cvars == <<disk, pc, change, existing, remaining, done, answer>>

Holding == {"read", "create", "write", "rename", "unlink", "release"}

CTypeOK ==
  /\ lock \in Procs \cup {Free, Abandoned}
  /\ file \in Collections \cup {Absent}
  /\ temporary \in [Procs -> Collections \cup {Absent, Partial}]
  /\ pc \in [Procs -> Holding \cup {"idle", "look", "return", "lock"}]
  /\ change \in [Procs -> Changes]
  /\ existing \in [Procs -> Collections]
  /\ remaining \in [Procs -> 0..Retries]
  /\ done \in [Procs -> BOOLEAN]
  /\ answer \in [Procs -> {"none", "saved", "cleanup", "failed"}]

CInit ==
  /\ lock = Free /\ file = Absent
  /\ temporary = [p \in Procs |-> Absent]
  /\ pc = [p \in Procs |-> "idle"]
  /\ \E c \in Changes : change = [p \in Procs |-> c]
  /\ existing = [p \in Procs |-> Empty]
  /\ remaining = [p \in Procs |-> 0]
  /\ done = [p \in Procs |-> FALSE]
  /\ answer = [p \in Procs |-> "none"]

Goto(p, s) == pc' = [pc EXCEPT ![p] = s]
Answer(p, a) == Goto(p, "idle") /\ answer' = [answer EXCEPT ![p] = a]

\* The change is over but for the lock.
Release(p, made) == Goto(p, "release") /\ done' = [done EXCEPT ![p] = made]

-----------------------------------------------------------------------------
(* saveFallbackCredentials, removeFallbackCredentials, session.write *)

\* A save goes for the lock; a removal first looks whether there is a file.
Ask(p, c) ==
  /\ pc[p] = "idle"
  /\ Goto(p, IF c.value = None THEN "look" ELSE "lock")
  /\ change' = [change EXCEPT ![p] = c]
  /\ remaining' = [remaining EXCEPT ![p] = Retries]
  /\ done' = [done EXCEPT ![p] = FALSE]
  /\ answer' = [answer EXCEPT ![p] = "none"]
  /\ UNCHANGED <<disk, existing>>

\* Nothing to remove: the removal takes effect here, with no lock.
FindNoFile(p) ==
  /\ pc[p] = "look" /\ file = Absent
  /\ Goto(p, "return") /\ done' = [done EXCEPT ![p] = TRUE]
  /\ UNCHANGED <<disk, change, existing, remaining, answer>>

Return(p) ==
  /\ pc[p] = "return"
  /\ Answer(p, "saved")
  /\ UNCHANGED <<disk, change, existing, remaining, done>>

FindFile(p) ==
  /\ pc[p] = "look" /\ file # Absent
  /\ Goto(p, "lock")
  /\ UNCHANGED <<disk, change, existing, remaining, done, answer>>

\* Before the lock is taken any failure is a plain one.
Fail(p) ==
  /\ pc[p] \in {"look", "lock"}
  /\ Answer(p, "failed")
  /\ UNCHANGED <<disk, change, existing, remaining, done>>

Take(p) ==
  /\ pc[p] = "lock" /\ lock = Free
  /\ lock' = p /\ Goto(p, "read")
  /\ remaining' = [remaining EXCEPT ![p] = 0]
  /\ UNCHANGED <<file, temporary, change, existing, done, answer>>

\* Variant: the attempts are not counted.
RetryForever(p) ==
  /\ pc[p] = "lock" /\ lock # Free
  /\ UNCHANGED cvars

\* The lock is taken: try again in a while, for so many times.
Retry(p) ==
  /\ pc[p] = "lock" /\ lock # Free
  /\ IF remaining[p] = 0 THEN Answer(p, "failed") /\ UNCHANGED remaining
     ELSE /\ remaining' = [remaining EXCEPT ![p] = @ - 1]
          /\ UNCHANGED <<pc, answer>>
  /\ UNCHANGED <<disk, change, existing, done>>

\* The collection is read whole; a removal that finds no record is over.
Read(p) ==
  /\ pc[p] = "read"
  /\ existing' = [existing EXCEPT ![p] = Content(file)]
  /\ IF change[p].value = None /\ Content(file)[change[p].name] = None
     THEN Release(p, TRUE)
     ELSE Goto(p, "create") /\ UNCHANGED done
  /\ UNCHANGED <<disk, change, remaining, answer>>

\* Unreadable, unsafe, or no temporary file could be created: nothing to undo.
Refuse(p) ==
  /\ pc[p] \in {"read", "create"}
  /\ Release(p, FALSE)
  /\ UNCHANGED <<disk, change, existing, remaining, answer>>

Create(p) ==
  /\ pc[p] = "create"
  /\ temporary' = [temporary EXCEPT ![p] = Partial] /\ Goto(p, "write")
  /\ UNCHANGED <<lock, file, change, existing, remaining, done, answer>>

Write(p) ==
  /\ pc[p] = "write"
  /\ temporary' = [temporary EXCEPT ![p] = Changed(existing[p], change[p])]
  /\ Goto(p, "rename")
  /\ UNCHANGED <<lock, file, change, existing, remaining, done, answer>>

\* Writing, chmod, close or the rename failed: the temporary file goes.
Break(p) ==
  /\ pc[p] \in {"write", "rename"}
  /\ Goto(p, "unlink")
  /\ UNCHANGED <<disk, change, existing, remaining, done, answer>>

\* The change takes effect.
Rename(p) ==
  /\ pc[p] = "rename"
  /\ file' = temporary[p]
  /\ temporary' = [temporary EXCEPT ![p] = Absent]
  /\ Release(p, TRUE)
  /\ UNCHANGED <<lock, change, existing, remaining, answer>>

\* A temporary file that cannot be removed stays behind, under a name no other
\* change uses; the change has failed either way.
Unlink(p) ==
  /\ pc[p] = "unlink"
  /\ temporary' = [temporary EXCEPT ![p] = Absent]
  /\ Release(p, FALSE)
  /\ UNCHANGED <<lock, file, change, existing, remaining, answer>>

Rmdir(p) ==
  /\ pc[p] = "release"
  /\ lock' = Free
  /\ Answer(p, IF done[p] THEN "saved" ELSE "failed")
  /\ UNCHANGED <<file, temporary, change, existing, remaining, done>>

\* Variant: a failing cleanup makes the whole change a failure.
RmdirFailsPlainly(p) ==
  /\ pc[p] = "release"
  /\ lock' \in {Free, Abandoned}
  /\ Answer(p, "failed")
  /\ UNCHANGED <<file, temporary, change, existing, remaining, done>>

\* withCredentialCleanup keeps what was done apart from the failed cleanup.
RmdirFails(p) ==
  /\ pc[p] = "release"
  /\ lock' \in {Free, Abandoned}
  /\ Answer(p, IF done[p] THEN "cleanup" ELSE "failed")
  /\ UNCHANGED <<file, temporary, change, existing, remaining, done>>

-----------------------------------------------------------------------------
(* The process ends; the operator removes a lock whose owner is gone *)

Die(p) ==
  /\ pc[p] # "idle" /\ Goto(p, "idle")
  /\ lock' = IF lock = p THEN Abandoned ELSE lock
  /\ temporary' = [temporary EXCEPT ![p] = Absent]
  /\ UNCHANGED <<file, change, existing, remaining, done, answer>>

RemoveLock ==
  /\ lock = Abandoned /\ lock' = Free
  /\ UNCHANGED <<file, temporary, pc, change, existing, remaining, done, answer>>

Advance(p) ==
  \/ FindNoFile(p) \/ Return(p) \/ FindFile(p) \/ Take(p) \/ Retry(p)
  \/ Read(p) \/ Create(p) \/ Write(p) \/ Rename(p) \/ Unlink(p) \/ Rmdir(p)

Fault(p) == Fail(p) \/ Refuse(p) \/ Break(p) \/ RmdirFails(p) \/ Die(p)

CNext ==
  \/ \E p \in Procs : Advance(p) \/ Fault(p) \/ \E c \in Changes : Ask(p, c)
  \/ RemoveLock

CSpec == CInit /\ [][CNext]_cvars

\* Calls to the file system and timers complete; nothing else is promised, not
\* that an abandoned lock is ever removed.
FairSpec == CSpec /\ \A p \in Procs : WF_cvars(Advance(p))

-----------------------------------------------------------------------------
(* Properties *)

\* The file is the atomic collection of AtomicCollection: no change is lost to
\* another one, none is seen before it is complete, and what a caller is told
\* of its change is what happened to it.
Atomic == INSTANCE AtomicCollection WITH
  content <- Content(file),
  phase <- [p \in Procs |-> IF pc[p] = "idle" THEN "idle"
                            ELSE IF done[p] THEN "applied" ELSE "called"]

ImplementsAtomic == Atomic!Spec

\* Only the owner of the lock is between taking and removing it, and what it
\* read is still what the file holds until it renames.
OwnerAlone ==
  \A p \in Procs :
    /\ pc[p] \in Holding => lock = p
    /\ pc[p] \in {"create", "write", "rename"} => existing[p] = Content(file)

\* The inductive invariant: what each step of a change has established.
StepsAgree ==
  \A p \in Procs :
    /\ pc[p] = "look" => change[p].value = None
    /\ pc[p] = "rename" => temporary[p] = Changed(existing[p], change[p])
    /\ pc[p] \notin {"idle", "return", "release"} => ~done[p]
    /\ pc[p] = "return" => done[p]

CInv == CTypeOK /\ OwnerAlone /\ StepsAgree

\* Every change ends, even against a lock that nobody ever removes.
ChangesEnd == \A p \in Procs : pc[p] # "idle" ~> pc[p] = "idle"
=============================================================================
