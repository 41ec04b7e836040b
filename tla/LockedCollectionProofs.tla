----------------------- MODULE LockedCollectionProofs -----------------------
(***************************************************************************)
(* That the locked rewrites of a private file implement AtomicCollection,  *)
(* for any processes, names, records and number of retries.  The argument: *)
(* whoever is past the lock owns it, so what it has read stays what the    *)
(* file holds, and its rename applies its own change to it and no other.   *)
(***************************************************************************)
EXTENDS LockedCollection, TLAPS

\* Applying a change to a collection gives a collection.
LEMMA ChangedType ==
  ASSUME NEW f \in Collections, NEW c \in Changes
  PROVE  Changed(f, c) \in Collections
BY DEF Changed, Collections, Changes

\* The content of a file is a collection.
LEMMA ContentType ==
  ASSUME NEW f \in Collections \cup {Absent}
  PROVE  /\ Content(f) \in Collections
         /\ f # Absent => Content(f) = f
BY DEF Content, Collections, Empty

\* Removing a record that is not there changes nothing.
LEMMA NothingToRemove ==
  ASSUME NEW f \in Collections, NEW c \in Changes,
         c.value = None, f[c.name] = None
  PROVE  Changed(f, c) = f
BY DEF Changed, Collections, Changes

LEMMA InitInv == CInit => CInv
BY CollectionAssumption DEF CInit, CInv, CTypeOK, OwnerAlone, StepsAgree, Changes, Collections, Empty, Holding

LEMMA NextInv == CInv /\ [CNext]_cvars => CInv'
<1> SUFFICES ASSUME CInv, [CNext]_cvars PROVE CInv'
  OBVIOUS
<1> USE CollectionAssumption DEF CInv, CTypeOK, OwnerAlone, StepsAgree
<1>1. ASSUME NEW p \in Procs, NEW c \in Changes, Ask(p, c) PROVE CInv'
  BY <1>1 DEF Ask, Goto, disk, Holding, Changes
<1>2. ASSUME NEW p \in Procs, FindNoFile(p) PROVE CInv'
  BY <1>2 DEF FindNoFile, Goto, disk, Holding
<1>3. ASSUME NEW p \in Procs, Return(p) PROVE CInv'
  BY <1>3 DEF Return, Answer, Goto, disk, Holding
<1>4. ASSUME NEW p \in Procs, FindFile(p) PROVE CInv'
  BY <1>4 DEF FindFile, Goto, disk, Holding
<1>5. ASSUME NEW p \in Procs, Fail(p) PROVE CInv'
  BY <1>5 DEF Fail, Answer, Goto, disk, Holding
<1>6. ASSUME NEW p \in Procs, Take(p) PROVE CInv'
  BY <1>6 DEF Take, Goto, disk, Holding
<1>7. ASSUME NEW p \in Procs, Retry(p) PROVE CInv'
  BY <1>7 DEF Retry, Answer, Goto, disk, Holding
<1>8. ASSUME NEW p \in Procs, Read(p) PROVE CInv'
  <2>1. Content(file) \in Collections
    BY ContentType
  <2>2. \/ pc' = [pc EXCEPT ![p] = "release"] /\ done' = [done EXCEPT ![p] = TRUE]
        \/ pc' = [pc EXCEPT ![p] = "create"] /\ done' = done
    BY <1>8 DEF Read, Release, Goto
  <2>3. /\ pc[p] = "read" /\ existing' = [existing EXCEPT ![p] = Content(file)]
        /\ UNCHANGED <<lock, file, temporary, change, remaining, answer>>
    BY <1>8 DEF Read, disk
  <2>4. CTypeOK'
    BY <2>1, <2>2, <2>3 DEF Holding
  <2>5. OwnerAlone'
    BY <2>2, <2>3 DEF Holding
  <2>6. StepsAgree'
    BY <2>2, <2>3
  <2> QED
    BY <2>4, <2>5, <2>6
<1>9. ASSUME NEW p \in Procs, Refuse(p) PROVE CInv'
  BY <1>9 DEF Refuse, Release, Goto, disk, Holding
<1>10. ASSUME NEW p \in Procs, Create(p) PROVE CInv'
  BY <1>10 DEF Create, Goto, disk, Holding
<1>11. ASSUME NEW p \in Procs, Write(p) PROVE CInv'
  BY <1>11, ChangedType DEF Write, Goto, disk, Holding
<1>12. ASSUME NEW p \in Procs, Break(p) PROVE CInv'
  BY <1>12 DEF Break, Goto, disk, Holding
<1>13. ASSUME NEW p \in Procs, Rename(p) PROVE CInv'
  BY <1>13, ChangedType DEF Rename, Release, Goto, disk, Holding
<1>14. ASSUME NEW p \in Procs, Unlink(p) PROVE CInv'
  BY <1>14 DEF Unlink, Release, Goto, disk, Holding
<1>15. ASSUME NEW p \in Procs, Rmdir(p) PROVE CInv'
  BY <1>15 DEF Rmdir, Answer, Goto, disk, Holding
<1>16. ASSUME NEW p \in Procs, RmdirFails(p) PROVE CInv'
  BY <1>16 DEF RmdirFails, Answer, Goto, disk, Holding
<1>17. ASSUME NEW p \in Procs, Die(p) PROVE CInv'
  BY <1>17 DEF Die, Goto, disk, Holding
<1>18. CASE RemoveLock
  BY <1>18 DEF RemoveLock, Holding
<1>19. CASE UNCHANGED cvars
  BY <1>19 DEF cvars, disk, Holding
<1> QED
  BY <1>1, <1>2, <1>3, <1>4, <1>5, <1>6, <1>7, <1>8, <1>9, <1>10, <1>11, <1>12,
     <1>13, <1>14, <1>15, <1>16, <1>17, <1>18, <1>19 DEF CNext, Advance, Fault

\* The inductive invariant holds of every behaviour.
THEOREM CollectionInvariant == CSpec => []CInv
BY InitInv, NextInv, PTL DEF CSpec

\* The file, the lock and each process's variables keep their types: the file
\* is never found half written.
THEOREM CollectionTypes == CSpec => []CTypeOK
<1>1. CInv => CTypeOK
  BY DEF CInv
<1> QED
  BY <1>1, CollectionInvariant, PTL

\* Whoever is past the lock owns it, and has read what the file still holds.
THEOREM OwnersAlone == CSpec => []OwnerAlone
<1>1. CInv => OwnerAlone
  BY DEF CInv
<1> QED
  BY <1>1, CollectionInvariant, PTL

-----------------------------------------------------------------------------
(* The refinement.  phase is what the mapping makes of a process. *)

Phase == [p \in Procs |-> IF pc[p] = "idle" THEN "idle"
                          ELSE IF done[p] THEN "applied" ELSE "called"]

LEMMA InitRefines == CInit => Atomic!Init
BY CollectionAssumption DEF CInit, Atomic!Init, Atomic!Changes, Atomic!Empty, Changes, Empty, Content

\* A process that moves between steps of the same phase, the file's content
\* being what it was, stutters.
LEMMA Stutter ==
  ASSUME Content(file)' = Content(file), Phase' = Phase, UNCHANGED <<change, answer>>
  PROVE  UNCHANGED Atomic!avars
BY DEF Atomic!avars, Phase

LEMMA StepRefines == CInv /\ [CNext]_cvars => [Atomic!Next]_(Atomic!avars)
<1> SUFFICES ASSUME CInv, [CNext]_cvars PROVE [Atomic!Next]_(Atomic!avars)
  OBVIOUS
<1> USE DEF CInv, CTypeOK, StepsAgree
<1>1. ASSUME NEW p \in Procs, NEW c \in Changes, Ask(p, c) PROVE Atomic!Call(p, c)
  BY <1>1 DEF Ask, Goto, disk, Atomic!Call, Content, Empty
<1>2. ASSUME NEW p \in Procs, FindNoFile(p) PROVE Atomic!Apply(p)
  <2>1. Content(file) \in Collections /\ Content(file)[change[p].name] = None
    BY <1>2, ContentType DEF FindNoFile, Content, Empty, Changes
  <2>2. Changed(Content(file), change[p]) = Content(file)
    BY <1>2, <2>1, NothingToRemove DEF FindNoFile
  <2> QED
    BY <1>2, <2>2 DEF FindNoFile, Goto, disk, Atomic!Apply, Atomic!Changed, Changed, Content, Empty
<1>3. ASSUME NEW p \in Procs, Return(p) PROVE Atomic!Return(p)
  BY <1>3 DEF Return, Answer, Goto, disk, Atomic!Return, Content, Empty
<1>4. ASSUME NEW p \in Procs, FindFile(p) PROVE UNCHANGED Atomic!avars
  BY <1>4, Stutter DEF FindFile, Goto, disk, Phase, Content, Empty
<1>5. ASSUME NEW p \in Procs, Fail(p) PROVE Atomic!Return(p)
  BY <1>5 DEF Fail, Answer, Goto, disk, Atomic!Return, Content, Empty
<1>6. ASSUME NEW p \in Procs, Take(p) PROVE UNCHANGED Atomic!avars
  BY <1>6, Stutter DEF Take, Goto, disk, Phase, Content, Empty
<1>7. ASSUME NEW p \in Procs, Retry(p) PROVE Atomic!Return(p) \/ UNCHANGED Atomic!avars
  <2>1. CASE remaining[p] = 0
    BY <1>7, <2>1 DEF Retry, Answer, Goto, disk, Atomic!Return, Content, Empty
  <2>2. CASE remaining[p] # 0
    BY <1>7, <2>2, Stutter DEF Retry, disk, Phase, Content, Empty
  <2> QED
    BY <2>1, <2>2
<1>8. ASSUME NEW p \in Procs, Read(p) PROVE Atomic!Apply(p) \/ UNCHANGED Atomic!avars
  <2>1. CASE change[p].value = None /\ Content(file)[change[p].name] = None
    <3>1. Changed(Content(file), change[p]) = Content(file)
      BY <2>1, ContentType, NothingToRemove
    <3> QED
      BY <1>8, <2>1, <3>1 DEF Read, Release, Goto, disk, Atomic!Apply, Atomic!Changed, Changed, Content, Empty
  <2>2. CASE ~(change[p].value = None /\ Content(file)[change[p].name] = None)
    BY <1>8, <2>2, Stutter DEF Read, Goto, disk, Phase, Content, Empty
  <2> QED
    BY <2>1, <2>2
<1>9. ASSUME NEW p \in Procs, Refuse(p) PROVE UNCHANGED Atomic!avars
  BY <1>9, Stutter DEF Refuse, Release, Goto, disk, Phase, Content, Empty
<1>10. ASSUME NEW p \in Procs, Create(p) PROVE UNCHANGED Atomic!avars
  BY <1>10, Stutter DEF Create, Goto, disk, Phase, Content, Empty
<1>11. ASSUME NEW p \in Procs, Write(p) PROVE UNCHANGED Atomic!avars
  BY <1>11, Stutter DEF Write, Goto, disk, Phase, Content, Empty
<1>12. ASSUME NEW p \in Procs, Break(p) PROVE UNCHANGED Atomic!avars
  BY <1>12, Stutter DEF Break, Goto, disk, Phase, Content, Empty
<1>13. ASSUME NEW p \in Procs, Rename(p) PROVE Atomic!Apply(p)
  <2>1. file' = Changed(Content(file), change[p])
    BY <1>13 DEF Rename, OwnerAlone
  <2>2. Content(file)' = Changed(Content(file), change[p])
    BY <2>1, ContentType, ChangedType, CollectionAssumption DEF Content
  <2> QED
    BY <1>13, <2>2 DEF Rename, Release, Goto, Atomic!Apply, Atomic!Changed, Changed
<1>14. ASSUME NEW p \in Procs, Unlink(p) PROVE UNCHANGED Atomic!avars
  BY <1>14, Stutter DEF Unlink, Release, Goto, disk, Phase, Content, Empty
<1>15. ASSUME NEW p \in Procs, Rmdir(p) PROVE Atomic!Return(p)
  BY <1>15 DEF Rmdir, Answer, Goto, Atomic!Return, Content, Empty
<1>16. ASSUME NEW p \in Procs, RmdirFails(p) PROVE Atomic!Return(p)
  BY <1>16 DEF RmdirFails, Answer, Goto, Atomic!Return, Content, Empty
<1>17. ASSUME NEW p \in Procs, Die(p) PROVE Atomic!Die(p)
  BY <1>17 DEF Die, Goto, Atomic!Die, Content, Empty
<1>18. CASE RemoveLock
  BY <1>18, Stutter DEF RemoveLock, Phase, Content, Empty
<1>19. CASE UNCHANGED cvars
  BY <1>19, Stutter DEF cvars, disk, Phase, Content, Empty
<1>20. Changes = Atomic!Changes
  BY DEF Changes, Atomic!Changes
<1> QED
  BY <1>1, <1>2, <1>3, <1>4, <1>5, <1>6, <1>7, <1>8, <1>9, <1>10, <1>11, <1>12, <1>13,
     <1>14, <1>15, <1>16, <1>17, <1>18, <1>19, <1>20 DEF CNext, Advance, Fault, Atomic!Next

\* The locked rewrites implement the atomic collection: no change is lost, none
\* is seen half made, and every caller is told what happened to its own.
THEOREM CollectionRefines == CSpec => ImplementsAtomic
BY InitRefines, StepRefines, CollectionInvariant, PTL DEF CSpec, ImplementsAtomic, Atomic!Spec
=============================================================================
