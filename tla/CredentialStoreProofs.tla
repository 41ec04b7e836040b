------------------------ MODULE CredentialStoreProofs ------------------------
(***************************************************************************)
(* Proofs about CredentialStore, for every number of commands, profiles    *)
(* and generations.                                                        *)
(***************************************************************************)
EXTENDS CredentialStoreInvariant, TLAPS

\* The records the actions build have the types of the variables that keep them.
LEMMA ValueTypes ==
  /\ NoCredential \in Credential
  /\ \A g \in Nat : Stamped(g) \in Credential /\ Unstamped(g) \in Credential
  /\ NoAuthority \in Authority
  /\ \A b \in {"pending", "native", "fallback", "removed"}, g \in Nat :
       Record(b, g) \in Authority
  /\ NoPromise \in Promise
  /\ \A k \in {"held", "removed"}, g \in Nat : [kind |-> k, gen |-> g] \in Promise
BY DEF NoCredential, Credential, Stamped, Unstamped, NoAuthority, Authority,
       Record, NoPromise, Promise

\* A generation in 1..n is a positive number.
LEMMA PositiveRange ==
  ASSUME NEW n \in Nat  PROVE \A g \in 1..n : g \in Nat /\ g # 0
OBVIOUS

\* Whatever answers, a read selects a credential or none.
LEMMA SelectionType ==
  ASSUME TypeOK, NEW f \in Profiles, NEW r \in Reach
  PROVE  Selection(f, r) \in Credential
<1>1. native[f] \in Credential /\ file[f] \in Credential
  BY DEF TypeOK
<1>2. \A g : \A c \in Credential : Matching(c, g) \in Credential
  BY ValueTypes DEF Matching
<1>3. NativeSeen(f, r) \in Credential
  BY <1>1, ValueTypes DEF NativeSeen
<1>4. PendingChoice(f, r) \in Credential
  BY <1>1, <1>2, <1>3, ValueTypes DEF PendingChoice
<1>5. LegacyChoice(f, r) \in Credential
  BY <1>1, <1>3, ValueTypes DEF LegacyChoice
<1> QED
  BY <1>1, <1>2, <1>4, <1>5, ValueTypes DEF Selection

\* The initial states are well typed.
LEMMA InitType == Init => TypeOK
<1> SUFFICES ASSUME Init PROVE TypeOK
  OBVIOUS
<1>1. {NoCredential} \cup {Unstamped(t) : t \in LegacyTokens} \subseteq Credential
  BY ConstantsAssumption, ValueTypes
<1>2. native \in [Profiles -> Credential] /\ file \in [Profiles -> Credential]
  BY <1>1 DEF Init
<1> QED
  BY <1>2, ValueTypes DEF Init, TypeOK, Outcome, Operation, InLock, SaveSteps, RemoveSteps

\* No step of save breaks a type.
LEMMA SaveType ==
  ASSUME TypeOK, NEW p \in Procs, Save(p)
  PROVE  TypeOK'
<1> USE ValueTypes DEF TypeOK, Goto, Conclude, SaveFrame, storage, history, Displace,
            SetAuthority, SetNative, SetFile, InLock, SaveSteps, RemoveSteps, Outcome
<1>1. CASE SavePending(p)
  BY <1>1 DEF SavePending
<1>2. CASE SavePendingFails(p)
  <2>1. CASE UNCHANGED <<authority, promise, tainted>>
    BY <1>2, <2>1 DEF SavePendingFails
  <2>2. CASE SetAuthority(target[p], "pending", generation[p]) /\ Displace(target[p])
    BY <1>2, <2>2 DEF SavePendingFails
  <2> QED
    BY <1>2, <2>1, <2>2 DEF SavePendingFails
<1>3. CASE SaveNative(p)
  BY <1>3 DEF SaveNative
<1>4. CASE NativeUnavailable(p)
  BY <1>4 DEF NativeUnavailable
<1>5. CASE SaveNativeFails(p)
  BY <1>5 DEF SaveNativeFails
<1>6. CASE SaveFile(p)
  BY <1>6 DEF SaveFile
<1>7. CASE SaveFileFails(p)
  BY <1>7 DEF SaveFileFails
<1>8. CASE SaveFileLeavesLock(p)
  BY <1>8 DEF SaveFileLeavesLock
<1>9. CASE ClaimNative(p)
  BY <1>9 DEF ClaimNative
<1>10. CASE ClaimFails(p, "claimNative", "native")
  BY <1>10 DEF ClaimFails
<1>11. CASE ClaimFile(p)
  BY <1>11 DEF ClaimFile
<1>12. CASE ClaimFails(p, "claimFile", "fallback")
  BY <1>12 DEF ClaimFails
<1>13. CASE CleanFallback(p)
  BY <1>13 DEF CleanFallback
<1>14. CASE CleanFallbackFails(p)
  BY <1>14 DEF CleanFallbackFails
<1>15. CASE Recover(p)
  BY <1>15 DEF Recover
<1>16. CASE Retire(p)
  BY <1>16 DEF Retire
<1>17. CASE RetireFails(p)
  BY <1>17 DEF RetireFails
<1> QED
  BY <1>1, <1>2, <1>3, <1>4, <1>5, <1>6, <1>7, <1>8, <1>9, <1>10, <1>11, <1>12, <1>13, <1>14, <1>15, <1>16, <1>17 DEF Save

\* No step of remove breaks a type.
LEMMA RemoveType ==
  ASSUME TypeOK, NEW p \in Procs, Remove(p)
  PROVE  TypeOK'
<1> USE ValueTypes DEF TypeOK, Goto, Conclude, SaveFrame, storage, history, Displace,
            SetAuthority, SetNative, SetFile, InLock, SaveSteps, RemoveSteps, Outcome
<1>1. CASE RemoveNative(p)
  BY <1>1 DEF RemoveNative
<1>2. CASE RemoveNativeFails(p)
  <2>1. CASE UNCHANGED <<native, promise, tainted>>
    BY <1>2, <2>1 DEF RemoveNativeFails
  <2>2. CASE SetNative(target[p], NoCredential) /\ Displace(target[p])
    BY <1>2, <2>2 DEF RemoveNativeFails
  <2> QED
    BY <1>2, <2>1, <2>2 DEF RemoveNativeFails
<1>3. CASE RemoveFile(p)
  BY <1>3 DEF RemoveFile
<1>4. CASE RemoveFileFails(p)
  BY <1>4 DEF RemoveFileFails
<1>5. CASE RemoveAuthority(p)
  BY <1>5 DEF RemoveAuthority
<1>6. CASE RemoveAuthorityFails(p)
  BY <1>6 DEF RemoveAuthorityFails
<1> QED
  BY <1>1, <1>2, <1>3, <1>4, <1>5, <1>6 DEF Remove

\* Each step of save keeps the invariant.
LEMMA SaveStep ==
  ASSUME IInv, NEW p \in Procs, Save(p), TypeOK'
  PROVE  IInv'
<1> DEFINE f == target[p]  g == generation[p]
<1> USE DEF IInv, Goto, SaveFrame, InLock, SaveSteps, RemoveSteps
<1>1. /\ owner = p /\ pc[p] \in SaveSteps /\ f \in Profiles /\ op[p] = "save"
      /\ g \in 1..issued /\ g \notin refused
      /\ \A q \in Procs \ {p} : pc[q] \notin InLock
  BY DEF LockInv, SaveInv, Fresh, Save, Conclude, ClaimFails, ClaimFile,
        ClaimNative, CleanFallback, CleanFallbackFails, NativeUnavailable, Recover,
        Retire, RetireFails, SaveFile, SaveFileFails, SaveFileLeavesLock,
        SaveNative, SaveNativeFails, SavePending, SavePendingFails
<1>2. CASE SavePending(p)
  <2>1. /\ target' = target /\ generation' = generation
        /\ pc'[p] = "saveNative"
        /\ authority'[f] = Record("pending", g)
        /\ UNCHANGED <<native, file>>
        /\ native[f].gen # g /\ file[f].gen # g
    BY <1>1, <1>2 DEF SaveInv, Reached, TypeOK, Credential, Authority, NoCredential,
        Record, Stamped, NoPromise, SavePending, Displace, SetAuthority
  <2>2. LockInv' /\ RemoveInv'
    BY <1>1, <1>2 DEF LockInv, RemoveInv, TypeOK, SavePending, Displace,
        SetAuthority
  <2>3. StampInv'
    BY <1>1, <1>2 DEF StampInv, TypeOK, Credential, NoCredential, Record, Stamped,
        SavePending, Displace, SetAuthority
  <2>4. Fresh(p)'
    BY <1>1, <1>2 DEF SaveInv, Fresh, OnlyIn, TypeOK, SavePending, Displace,
        SetAuthority
  <2>5. Reached(p)'
    BY <2>1 DEF Reached, Holds, Dead, Record, Stamped
  <2>6. SaveInv'
    BY <1>1, <1>2, <2>4, <2>5 DEF SaveInv, Displace, NoPromise, TypeOK, SavePending,
        Displace, SetAuthority
  <2>7. RefusedInv'
    BY <1>1, <1>2 DEF SaveInv, Fresh, RefusedInv, Dead, TypeOK, Credential,
        Authority, NoCredential, Record, Stamped, SavePending, Displace,
        SetAuthority
  <2>8. PromiseInv'
    BY <1>1, <1>2 DEF SaveInv, Fresh, PromiseInv, Holds, TypeOK, NoPromise,
        SavePending, Displace, SetAuthority
  <2> QED
    BY <2>2, <2>3, <2>4, <2>5, <2>6, <2>7, <2>8
<1>3. CASE SavePendingFails(p)
  <2>1. /\ target' = target /\ generation' = generation
        /\ pc'[p] = "release" /\ outcome'[p] = "plain"
        /\ UNCHANGED <<native, file, issued>>
        /\ \A h \in Profiles : authority'[h] \in {authority[h], Record("pending", g)}
        /\ native[f].gen # g /\ file[f].gen # g
    BY <1>1, <1>3 DEF SaveInv, Reached, TypeOK, Credential, Authority, NoCredential,
        Record, Stamped, NoPromise, SavePendingFails, Conclude, Displace,
        SetAuthority
  <2>2. LockInv' /\ RemoveInv'
    BY <1>1, <1>3 DEF LockInv, RemoveInv, TypeOK, SavePendingFails, Conclude,
        Displace, SetAuthority
  <2>3. StampInv'
    BY <1>1, <2>1 DEF StampInv, TypeOK, Record
  <2>4. Fresh(p)'
    BY <1>1, <1>3 DEF SaveInv, Fresh, OnlyIn, TypeOK, SavePendingFails, Conclude,
        Displace, SetAuthority
  <2>5. Reached(p)'
    BY <2>1 DEF Reached, Holds, Dead, Record, Stamped
  <2>6. SaveInv'
    BY <1>1, <1>3, <2>4, <2>5 DEF SaveInv, Displace, NoPromise, TypeOK,
        SavePendingFails, Conclude, Displace, SetAuthority
  <2>7. RefusedInv'
    BY <1>1, <1>3 DEF SaveInv, Fresh, RefusedInv, Dead, TypeOK, Credential,
        Authority, NoCredential, Record, Stamped, SavePendingFails, Conclude,
        Displace, SetAuthority
  <2>8. PromiseInv'
    BY <1>1, <1>3 DEF SaveInv, Fresh, PromiseInv, Holds, TypeOK, NoPromise,
        SavePendingFails, Conclude, Displace, SetAuthority
  <2> QED
    BY <2>2, <2>3, <2>4, <2>5, <2>6, <2>7, <2>8
<1>4. CASE SaveNative(p)
  <2>1. LockInv' /\ RemoveInv'
    BY <1>1, <1>4 DEF LockInv, RemoveInv, TypeOK, SaveNative, SetNative
  <2>2. StampInv'
    BY <1>1, <1>4 DEF StampInv, TypeOK, Credential, NoCredential, Record, Stamped,
        SaveNative, SetNative
  <2>3. Fresh(p)'
    BY <1>1, <1>4 DEF SaveInv, Fresh, OnlyIn, TypeOK, SaveNative, SetNative
  <2>4. Reached(p)'
    BY <1>1, <1>4 DEF SaveInv, Reached, Fresh, Holds, Dead, TypeOK, Credential,
        Authority, NoCredential, Record, Stamped, SaveNative, SetNative
  <2>5. SaveInv'
    BY <1>1, <1>4, <2>3, <2>4 DEF SaveInv, Displace, NoPromise, TypeOK, SaveNative,
        SetNative
  <2>6. RefusedInv'
    BY <1>1, <1>4 DEF SaveInv, Fresh, RefusedInv, Dead, TypeOK, Credential,
        Authority, NoCredential, Record, Stamped, SaveNative, SetNative
  <2>7. PromiseInv'
    BY <1>1, <1>4 DEF SaveInv, Fresh, PromiseInv, Holds, TypeOK, NoPromise,
        SaveNative, SetNative
  <2> QED
    BY <2>1, <2>2, <2>3, <2>4, <2>5, <2>6, <2>7
<1>5. CASE NativeUnavailable(p)
  <2>1. LockInv' /\ RemoveInv'
    BY <1>1, <1>5 DEF LockInv, RemoveInv, TypeOK, NativeUnavailable, storage
  <2>2. StampInv'
    BY <1>1, <1>5 DEF StampInv, TypeOK, Credential, NoCredential, Record, Stamped,
        NativeUnavailable, storage
  <2>3. Fresh(p)'
    BY <1>1, <1>5 DEF SaveInv, Fresh, OnlyIn, TypeOK, NativeUnavailable, storage
  <2>4. Reached(p)'
    BY <1>1, <1>5 DEF SaveInv, Reached, Fresh, Holds, Dead, TypeOK, Credential,
        Authority, NoCredential, Record, Stamped, NativeUnavailable, storage
  <2>5. SaveInv'
    BY <1>1, <1>5, <2>3, <2>4 DEF SaveInv, Displace, NoPromise, TypeOK,
        NativeUnavailable, storage
  <2>6. RefusedInv'
    BY <1>1, <1>5 DEF SaveInv, Fresh, RefusedInv, Dead, TypeOK, Credential,
        Authority, NoCredential, Record, Stamped, NativeUnavailable, storage
  <2>7. PromiseInv'
    BY <1>1, <1>5 DEF SaveInv, Fresh, PromiseInv, Holds, TypeOK, NoPromise,
        NativeUnavailable, storage
  <2> QED
    BY <2>1, <2>2, <2>3, <2>4, <2>5, <2>6, <2>7
<1>6. CASE SaveNativeFails(p)
  <2>1. /\ target' = target /\ generation' = generation
        /\ pc'[p] = "recover"
        /\ UNCHANGED authority
        /\ authority[f] = Record("pending", g)
    BY <1>1, <1>6 DEF SaveInv, Reached, TypeOK, Credential, Authority, NoCredential,
        Record, Stamped, NoPromise, SaveNativeFails, SetNative
  <2>2. LockInv' /\ RemoveInv'
    BY <1>1, <1>6 DEF LockInv, RemoveInv, TypeOK, SaveNativeFails, SetNative
  <2>3. StampInv'
    BY <1>1, <1>6 DEF StampInv, TypeOK, Credential, NoCredential, Record, Stamped,
        SaveNativeFails, SetNative
  <2>4. Fresh(p)'
    BY <1>1, <1>6 DEF SaveInv, Fresh, OnlyIn, TypeOK, SaveNativeFails, SetNative
  <2>5. Reached(p)'
    BY <2>1 DEF Reached, Holds, Dead, Record, Stamped
  <2>6. SaveInv'
    BY <1>1, <1>6, <2>4, <2>5 DEF SaveInv, Displace, NoPromise, TypeOK,
        SaveNativeFails, SetNative
  <2>7. RefusedInv'
    BY <1>1, <1>6 DEF SaveInv, Fresh, RefusedInv, Dead, TypeOK, Credential,
        Authority, NoCredential, Record, Stamped, SaveNativeFails, SetNative
  <2>8. PromiseInv'
    BY <1>1, <1>6 DEF SaveInv, Fresh, PromiseInv, Holds, TypeOK, NoPromise,
        SaveNativeFails, SetNative
  <2> QED
    BY <2>2, <2>3, <2>4, <2>5, <2>6, <2>7, <2>8
<1>7. CASE SaveFile(p)
  <2>1. LockInv' /\ RemoveInv'
    BY <1>1, <1>7 DEF LockInv, RemoveInv, TypeOK, SaveFile, SetFile
  <2>2. StampInv'
    BY <1>1, <1>7 DEF StampInv, TypeOK, Credential, NoCredential, Record, Stamped,
        SaveFile, SetFile
  <2>3. Fresh(p)'
    BY <1>1, <1>7 DEF SaveInv, Fresh, OnlyIn, TypeOK, SaveFile, SetFile
  <2>4. Reached(p)'
    BY <1>1, <1>7 DEF SaveInv, Reached, Fresh, Holds, Dead, TypeOK, Credential,
        Authority, NoCredential, Record, Stamped, SaveFile, SetFile
  <2>5. SaveInv'
    BY <1>1, <1>7, <2>3, <2>4 DEF SaveInv, Displace, NoPromise, TypeOK, SaveFile,
        SetFile
  <2>6. RefusedInv'
    BY <1>1, <1>7 DEF SaveInv, Fresh, RefusedInv, Dead, TypeOK, Credential,
        Authority, NoCredential, Record, Stamped, SaveFile, SetFile
  <2>7. PromiseInv'
    BY <1>1, <1>7 DEF SaveInv, Fresh, PromiseInv, Holds, TypeOK, NoPromise,
        SaveFile, SetFile
  <2> QED
    BY <2>1, <2>2, <2>3, <2>4, <2>5, <2>6, <2>7
<1>8. CASE SaveFileFails(p)
  <2>1. /\ target' = target /\ generation' = generation
        /\ pc'[p] = "recover"
        /\ UNCHANGED authority
        /\ authority[f] = Record("pending", g)
    BY <1>1, <1>8 DEF SaveInv, Reached, TypeOK, Credential, Authority, NoCredential,
        Record, Stamped, NoPromise, SaveFileFails, SetFile
  <2>2. LockInv' /\ RemoveInv'
    BY <1>1, <1>8 DEF LockInv, RemoveInv, TypeOK, SaveFileFails, SetFile
  <2>3. StampInv'
    BY <1>1, <1>8 DEF StampInv, TypeOK, Credential, NoCredential, Record, Stamped,
        SaveFileFails, SetFile
  <2>4. Fresh(p)'
    BY <1>1, <1>8 DEF SaveInv, Fresh, OnlyIn, TypeOK, SaveFileFails, SetFile
  <2>5. Reached(p)'
    BY <2>1 DEF Reached, Holds, Dead, Record, Stamped
  <2>6. SaveInv'
    BY <1>1, <1>8, <2>4, <2>5 DEF SaveInv, Displace, NoPromise, TypeOK,
        SaveFileFails, SetFile
  <2>7. RefusedInv'
    BY <1>1, <1>8 DEF SaveInv, Fresh, RefusedInv, Dead, TypeOK, Credential,
        Authority, NoCredential, Record, Stamped, SaveFileFails, SetFile
  <2>8. PromiseInv'
    BY <1>1, <1>8 DEF SaveInv, Fresh, PromiseInv, Holds, TypeOK, NoPromise,
        SaveFileFails, SetFile
  <2> QED
    BY <2>2, <2>3, <2>4, <2>5, <2>6, <2>7, <2>8
<1>9. CASE SaveFileLeavesLock(p)
  <2>1. /\ target' = target /\ generation' = generation
        /\ pc'[p] = "release" /\ outcome'[p] = "committed"
        /\ authority'[f] = Record("pending", g)
        /\ native'[f].gen # g
        /\ file'[f] = Stamped(g)
    BY <1>1, <1>9 DEF SaveInv, Reached, TypeOK, Credential, Authority, NoCredential,
        Record, Stamped, NoPromise, SaveFileLeavesLock, Conclude, SetFile
  <2>2. LockInv' /\ RemoveInv'
    BY <1>1, <1>9 DEF LockInv, RemoveInv, TypeOK, SaveFileLeavesLock, Conclude,
        SetFile
  <2>3. StampInv'
    BY <1>1, <1>9 DEF StampInv, TypeOK, Credential, NoCredential, Record, Stamped,
        SaveFileLeavesLock, Conclude, SetFile
  <2>4. Fresh(p)'
    BY <1>1, <1>9 DEF SaveInv, Fresh, OnlyIn, TypeOK, SaveFileLeavesLock, Conclude,
        SetFile
  <2>5. Reached(p)'
    BY <2>1 DEF Reached, Holds, Dead, Record, Stamped
  <2>6. SaveInv'
    BY <1>1, <1>9, <2>4, <2>5 DEF SaveInv, Displace, NoPromise, TypeOK,
        SaveFileLeavesLock, Conclude, SetFile
  <2>7. RefusedInv'
    BY <1>1, <1>9 DEF SaveInv, Fresh, RefusedInv, Dead, TypeOK, Credential,
        Authority, NoCredential, Record, Stamped, SaveFileLeavesLock, Conclude,
        SetFile
  <2>8. PromiseInv'
    BY <1>1, <1>9 DEF SaveInv, Fresh, PromiseInv, Holds, TypeOK, NoPromise,
        SaveFileLeavesLock, Conclude, SetFile
  <2> QED
    BY <2>2, <2>3, <2>4, <2>5, <2>6, <2>7, <2>8
<1>10. CASE ClaimNative(p)
  <2>1. LockInv' /\ RemoveInv'
    BY <1>1, <1>10 DEF LockInv, RemoveInv, TypeOK, ClaimNative, SetAuthority
  <2>2. StampInv'
    BY <1>1, <1>10 DEF StampInv, TypeOK, Credential, NoCredential, Record, Stamped,
        ClaimNative, SetAuthority
  <2>3. Fresh(p)'
    BY <1>1, <1>10 DEF SaveInv, Fresh, OnlyIn, TypeOK, ClaimNative, SetAuthority
  <2>4. Reached(p)'
    BY <1>1, <1>10 DEF SaveInv, Reached, Fresh, Holds, Dead, TypeOK, Credential,
        Authority, NoCredential, Record, Stamped, ClaimNative, SetAuthority
  <2>5. SaveInv'
    BY <1>1, <1>10, <2>3, <2>4 DEF SaveInv, Displace, NoPromise, TypeOK,
        ClaimNative, SetAuthority
  <2>6. RefusedInv'
    BY <1>1, <1>10 DEF SaveInv, Fresh, RefusedInv, Dead, TypeOK, Credential,
        Authority, NoCredential, Record, Stamped, ClaimNative, SetAuthority
  <2>7. PromiseInv'
    BY <1>1, <1>10 DEF SaveInv, Fresh, PromiseInv, Holds, TypeOK, NoPromise,
        ClaimNative, SetAuthority
  <2> QED
    BY <2>1, <2>2, <2>3, <2>4, <2>5, <2>6, <2>7
<1>11. CASE ClaimFails(p, "claimNative", "native")
  <2>1. /\ target' = target /\ generation' = generation
        /\ pc'[p] = "recover"
        /\ authority[f] = Record("pending", g)
        /\ authority'[f] \in {authority[f], Record("native", g)}
        /\ native'[f] = native[f]
        /\ "native" = "fallback" => native[f].gen # g
    BY <1>1, <1>11 DEF SaveInv, Reached, TypeOK, Credential, Authority,
        NoCredential, Record, Stamped, NoPromise, ClaimFails, SetAuthority
  <2>2. LockInv' /\ RemoveInv'
    BY <1>1, <1>11 DEF LockInv, RemoveInv, TypeOK, ClaimFails, SetAuthority
  <2>3. StampInv'
    BY <1>1, <1>11 DEF StampInv, TypeOK, Credential, NoCredential, Record, Stamped,
        ClaimFails, SetAuthority
  <2>4. Fresh(p)'
    BY <1>1, <1>11 DEF SaveInv, Fresh, OnlyIn, TypeOK, ClaimFails, SetAuthority
  <2>5. Reached(p)'
    BY <2>1 DEF Reached, Holds, Dead, Record, Stamped
  <2>6. SaveInv'
    BY <1>1, <1>11, <2>4, <2>5 DEF SaveInv, Displace, NoPromise, TypeOK, ClaimFails,
        SetAuthority
  <2>7. RefusedInv'
    BY <1>1, <1>11 DEF SaveInv, Fresh, RefusedInv, Dead, TypeOK, Credential,
        Authority, NoCredential, Record, Stamped, ClaimFails, SetAuthority
  <2>8. PromiseInv'
    BY <1>1, <1>11 DEF SaveInv, Fresh, PromiseInv, Holds, TypeOK, NoPromise,
        ClaimFails, SetAuthority
  <2> QED
    BY <2>2, <2>3, <2>4, <2>5, <2>6, <2>7, <2>8
<1>12. CASE ClaimFile(p)
  <2>1. LockInv' /\ RemoveInv'
    BY <1>1, <1>12 DEF LockInv, RemoveInv, TypeOK, ClaimFile, Conclude, SetAuthority
  <2>2. StampInv'
    BY <1>1, <1>12 DEF StampInv, TypeOK, Credential, NoCredential, Record, Stamped,
        ClaimFile, Conclude, SetAuthority
  <2>3. Fresh(p)'
    BY <1>1, <1>12 DEF SaveInv, Fresh, OnlyIn, TypeOK, ClaimFile, Conclude,
        SetAuthority
  <2>4. Reached(p)'
    BY <1>1, <1>12 DEF SaveInv, Reached, Fresh, Holds, Dead, TypeOK, Credential,
        Authority, NoCredential, Record, Stamped, ClaimFile, Conclude, SetAuthority
  <2>5. SaveInv'
    BY <1>1, <1>12, <2>3, <2>4 DEF SaveInv, Displace, NoPromise, TypeOK, ClaimFile,
        Conclude, SetAuthority
  <2>6. RefusedInv'
    BY <1>1, <1>12 DEF SaveInv, Fresh, RefusedInv, Dead, TypeOK, Credential,
        Authority, NoCredential, Record, Stamped, ClaimFile, Conclude, SetAuthority
  <2>7. PromiseInv'
    BY <1>1, <1>12 DEF SaveInv, Fresh, PromiseInv, Holds, TypeOK, NoPromise,
        ClaimFile, Conclude, SetAuthority
  <2> QED
    BY <2>1, <2>2, <2>3, <2>4, <2>5, <2>6, <2>7
<1>13. CASE ClaimFails(p, "claimFile", "fallback")
  <2>1. /\ target' = target /\ generation' = generation
        /\ pc'[p] = "recover"
        /\ authority[f] = Record("pending", g)
        /\ authority'[f] \in {authority[f], Record("fallback", g)}
        /\ native'[f] = native[f]
        /\ "fallback" = "fallback" => native[f].gen # g
    BY <1>1, <1>13 DEF SaveInv, Reached, TypeOK, Credential, Authority,
        NoCredential, Record, Stamped, NoPromise, ClaimFails, SetAuthority
  <2>2. LockInv' /\ RemoveInv'
    BY <1>1, <1>13 DEF LockInv, RemoveInv, TypeOK, ClaimFails, SetAuthority
  <2>3. StampInv'
    BY <1>1, <1>13 DEF StampInv, TypeOK, Credential, NoCredential, Record, Stamped,
        ClaimFails, SetAuthority
  <2>4. Fresh(p)'
    BY <1>1, <1>13 DEF SaveInv, Fresh, OnlyIn, TypeOK, ClaimFails, SetAuthority
  <2>5. Reached(p)'
    BY <2>1 DEF Reached, Holds, Dead, Record, Stamped
  <2>6. SaveInv'
    BY <1>1, <1>13, <2>4, <2>5 DEF SaveInv, Displace, NoPromise, TypeOK, ClaimFails,
        SetAuthority
  <2>7. RefusedInv'
    BY <1>1, <1>13 DEF SaveInv, Fresh, RefusedInv, Dead, TypeOK, Credential,
        Authority, NoCredential, Record, Stamped, ClaimFails, SetAuthority
  <2>8. PromiseInv'
    BY <1>1, <1>13 DEF SaveInv, Fresh, PromiseInv, Holds, TypeOK, NoPromise,
        ClaimFails, SetAuthority
  <2> QED
    BY <2>2, <2>3, <2>4, <2>5, <2>6, <2>7, <2>8
<1>14. CASE CleanFallback(p)
  <2>1. /\ target' = target /\ generation' = generation
        /\ pc'[p] = "release" /\ outcome'[p] = "ok"
        /\ authority'[f] = Record("native", g)
        /\ native'[f] = Stamped(g)
    BY <1>1, <1>14 DEF SaveInv, Reached, TypeOK, Credential, Authority,
        NoCredential, Record, Stamped, NoPromise, CleanFallback, Conclude, SetFile
  <2>2. LockInv' /\ RemoveInv'
    BY <1>1, <1>14 DEF LockInv, RemoveInv, TypeOK, CleanFallback, Conclude, SetFile
  <2>3. StampInv'
    BY <1>1, <1>14 DEF StampInv, TypeOK, Credential, NoCredential, Record, Stamped,
        CleanFallback, Conclude, SetFile
  <2>4. Fresh(p)'
    BY <1>1, <1>14 DEF SaveInv, Fresh, OnlyIn, TypeOK, CleanFallback, Conclude,
        SetFile
  <2>5. Reached(p)'
    BY <2>1 DEF Reached, Holds, Dead, Record, Stamped
  <2>6. SaveInv'
    BY <1>1, <1>14, <2>4, <2>5 DEF SaveInv, Displace, NoPromise, TypeOK,
        CleanFallback, Conclude, SetFile
  <2>7. RefusedInv'
    BY <1>1, <1>14 DEF SaveInv, Fresh, RefusedInv, Dead, TypeOK, Credential,
        Authority, NoCredential, Record, Stamped, CleanFallback, Conclude, SetFile
  <2>8. PromiseInv'
    BY <1>1, <1>14 DEF SaveInv, Fresh, PromiseInv, Holds, TypeOK, NoPromise,
        CleanFallback, Conclude, SetFile
  <2> QED
    BY <2>2, <2>3, <2>4, <2>5, <2>6, <2>7, <2>8
<1>15. CASE CleanFallbackFails(p)
  <2>1. /\ target' = target /\ generation' = generation
        /\ pc'[p] = "release" /\ outcome'[p] = "committed"
        /\ authority'[f] = Record("native", g)
        /\ native'[f] = Stamped(g)
    BY <1>1, <1>15 DEF SaveInv, Reached, TypeOK, Credential, Authority,
        NoCredential, Record, Stamped, NoPromise, CleanFallbackFails, Conclude,
        SetFile
  <2>2. LockInv' /\ RemoveInv'
    BY <1>1, <1>15 DEF LockInv, RemoveInv, TypeOK, CleanFallbackFails, Conclude,
        SetFile
  <2>3. StampInv'
    BY <1>1, <1>15 DEF StampInv, TypeOK, Credential, NoCredential, Record, Stamped,
        CleanFallbackFails, Conclude, SetFile
  <2>4. Fresh(p)'
    BY <1>1, <1>15 DEF SaveInv, Fresh, OnlyIn, TypeOK, CleanFallbackFails, Conclude,
        SetFile
  <2>5. Reached(p)'
    BY <2>1 DEF Reached, Holds, Dead, Record, Stamped
  <2>6. SaveInv'
    BY <1>1, <1>15, <2>4, <2>5 DEF SaveInv, Displace, NoPromise, TypeOK,
        CleanFallbackFails, Conclude, SetFile
  <2>7. RefusedInv'
    BY <1>1, <1>15 DEF SaveInv, Fresh, RefusedInv, Dead, TypeOK, Credential,
        Authority, NoCredential, Record, Stamped, CleanFallbackFails, Conclude,
        SetFile
  <2>8. PromiseInv'
    BY <1>1, <1>15 DEF SaveInv, Fresh, PromiseInv, Holds, TypeOK, NoPromise,
        CleanFallbackFails, Conclude, SetFile
  <2> QED
    BY <2>2, <2>3, <2>4, <2>5, <2>6, <2>7, <2>8
<1>16. CASE Recover(p)
  <2>1. LockInv' /\ RemoveInv'
    BY <1>1, <1>16 DEF LockInv, RemoveInv, TypeOK, Recover, Conclude, storage
  <2>2. StampInv'
    BY <1>1, <1>16 DEF StampInv, TypeOK, Credential, NoCredential, Record, Stamped,
        Recover, Conclude, storage
  <2>3. Fresh(p)'
    BY <1>1, <1>16 DEF SaveInv, Fresh, OnlyIn, TypeOK, Recover, Conclude, storage
  <2>4. Reached(p)'
    <3>1. UNCHANGED <<authority, native, file, tainted, target, generation>>
      BY <1>16 DEF Recover, storage
    <3>2. CASE pc'[p] = "retire"
      BY <1>1, <1>16, <3>1, <3>2 DEF SaveInv, Reached, Recover
    <3>3. ASSUME NEW r \in Reach, Recoverable(f, g, r), Conclude(p, "recover", "committed")
          PROVE  Reached(p)'
      <4>1. authority[f] \in {Record("pending", g), Record("native", g), Record("fallback", g)}
        BY <1>1, <3>3 DEF Recoverable, TypeOK, Authority, Record
      <4>2. native[f] = Stamped(g) \/ file[f] = Stamped(g)
        <5>1. NativeSeen(f, r).gen = g => NativeSeen(f, r) = native[f]
          BY <1>1 DEF NativeSeen, NoCredential
        <5> QED
          BY <3>3, <4>1, <5>1 DEF Recoverable, Record
      <4>3. authority[f].backend = "native" => native[f] = Stamped(g)
        BY <3>3 DEF Recoverable
      <4>4. native[f].gen = g => native[f] = Stamped(g)
        BY <1>1 DEF StampInv
      <4>5. authority[f].backend = "fallback" => native[f].gen # g
        BY <1>1, <1>16 DEF SaveInv, Reached, Recover
      <4> QED
        BY <1>1, <3>1, <3>3, <4>1, <4>2, <4>3, <4>4, <4>5 DEF Reached, Holds, Conclude, TypeOK
    <3> QED
      BY <1>1, <1>16, <3>2, <3>3 DEF Recover, TypeOK
  <2>5. SaveInv'
    BY <1>1, <1>16, <2>3, <2>4 DEF SaveInv, Displace, NoPromise, TypeOK, Recover,
        Conclude, storage
  <2>6. RefusedInv'
    BY <1>1, <1>16 DEF SaveInv, Fresh, RefusedInv, Dead, TypeOK, Credential,
        Authority, NoCredential, Record, Stamped, Recover, Conclude, storage
  <2>7. PromiseInv'
    BY <1>1, <1>16 DEF SaveInv, Fresh, PromiseInv, Holds, TypeOK, NoPromise,
        Recover, Conclude, storage
  <2> QED
    BY <2>1, <2>2, <2>3, <2>4, <2>5, <2>6, <2>7
<1>17. CASE Retire(p)
  <2>1. LockInv' /\ RemoveInv'
    BY <1>1, <1>17 DEF LockInv, RemoveInv, TypeOK, Retire, Conclude, SetAuthority
  <2>2. StampInv'
    BY <1>1, <1>17 DEF StampInv, TypeOK, Credential, NoCredential, Record, Stamped,
        Retire, Conclude, SetAuthority
  <2>3. Fresh(p)'
    BY <1>1, <1>17 DEF SaveInv, Fresh, OnlyIn, TypeOK, Retire, Conclude,
        SetAuthority
  <2>4. Reached(p)'
    BY <1>1, <1>17 DEF SaveInv, Reached, Fresh, Holds, Dead, TypeOK, Credential,
        Authority, NoCredential, Record, Stamped, Retire, Conclude, SetAuthority
  <2>5. SaveInv'
    BY <1>1, <1>17, <2>3, <2>4 DEF SaveInv, Displace, NoPromise, TypeOK, Retire,
        Conclude, SetAuthority
  <2>6. RefusedInv'
    BY <1>1, <1>17 DEF SaveInv, Fresh, RefusedInv, Dead, TypeOK, Credential,
        Authority, NoCredential, Record, Stamped, Retire, Conclude, SetAuthority
  <2>7. PromiseInv'
    BY <1>1, <1>17 DEF SaveInv, Fresh, PromiseInv, Holds, TypeOK, NoPromise, Retire,
        Conclude, SetAuthority
  <2> QED
    BY <2>1, <2>2, <2>3, <2>4, <2>5, <2>6, <2>7
<1>18. CASE RetireFails(p)
  <2>1. /\ target' = target /\ generation' = generation
        /\ pc'[p] = "release" /\ outcome'[p] = "uncertain"
        /\ UNCHANGED <<native, file, issued>>
        /\ \A h \in Profiles : authority'[h] \in {authority[h], Record("removed", g)}
    BY <1>1, <1>18 DEF SaveInv, Reached, TypeOK, Credential, Authority,
        NoCredential, Record, Stamped, NoPromise, RetireFails, Conclude,
        SetAuthority
  <2>2. LockInv' /\ RemoveInv'
    BY <1>1, <1>18 DEF LockInv, RemoveInv, TypeOK, RetireFails, Conclude,
        SetAuthority
  <2>3. StampInv'
    BY <1>1, <2>1 DEF StampInv, TypeOK, Record
  <2>4. Fresh(p)'
    BY <1>1, <1>18 DEF SaveInv, Fresh, OnlyIn, TypeOK, RetireFails, Conclude,
        SetAuthority
  <2>5. Reached(p)'
    BY <2>1 DEF Reached, Holds, Dead, Record, Stamped
  <2>6. SaveInv'
    BY <1>1, <1>18, <2>4, <2>5 DEF SaveInv, Displace, NoPromise, TypeOK,
        RetireFails, Conclude, SetAuthority
  <2>7. RefusedInv'
    BY <1>1, <1>18 DEF SaveInv, Fresh, RefusedInv, Dead, TypeOK, Credential,
        Authority, NoCredential, Record, Stamped, RetireFails, Conclude,
        SetAuthority
  <2>8. PromiseInv'
    BY <1>1, <1>18 DEF SaveInv, Fresh, PromiseInv, Holds, TypeOK, NoPromise,
        RetireFails, Conclude, SetAuthority
  <2> QED
    BY <2>2, <2>3, <2>4, <2>5, <2>6, <2>7, <2>8
<1> QED
  BY <1>2, <1>3, <1>4, <1>5, <1>6, <1>7, <1>8, <1>9, <1>10, <1>11, <1>12, <1>13, <1>14, <1>15, <1>16, <1>17, <1>18 DEF Save

\* Each step of remove keeps the invariant.
LEMMA RemoveStep ==
  ASSUME IInv, NEW p \in Procs, Remove(p), TypeOK'
  PROVE  IInv'
<1> DEFINE f == target[p]  g == generation[p]
<1> USE DEF IInv, Goto, SaveFrame, InLock, SaveSteps, RemoveSteps
<1>1. /\ owner = p /\ pc[p] \in RemoveSteps /\ f \in Profiles /\ op[p] = "remove"
      /\ g \in 1..issued
      /\ \A q \in Procs \ {p} : pc[q] \notin InLock
  BY DEF LockInv, RemoveInv, Remove, Conclude, RemoveNative, RemoveNativeFails,
        RemoveFile, RemoveFileFails, RemoveAuthority, RemoveAuthorityFails
<1>2. CASE RemoveNative(p)
  <2>1. /\ target' = target /\ generation' = generation
        /\ pc'[p] = "removeFile"
        /\ native'[f] = NoCredential
        /\ promise'[f].kind = "none"
    BY <1>1, <1>2 DEF RemoveInv, Reached, TypeOK, Credential, Authority,
        NoCredential, Record, Stamped, NoPromise, RemoveNative, SetNative, Displace
  <2>2. LockInv' /\ SaveInv'
    BY <1>1, <1>2 DEF LockInv, SaveInv, TypeOK, RemoveNative, SetNative, Displace
  <2>3. RemoveInv'
    BY <1>1, <1>2, <2>1 DEF RemoveInv, TypeOK, RemoveNative
  <2>4. StampInv'
    BY <1>1, <1>2 DEF StampInv, TypeOK, Credential, NoCredential, Record, Stamped,
        RemoveNative, SetNative, Displace
  <2>5. RefusedInv'
    BY <1>1, <1>2 DEF RefusedInv, Dead, TypeOK, Credential, Authority, NoCredential,
        Record, Stamped, RemoveNative, SetNative, Displace
  <2>6. PromiseInv'
    BY <1>1, <1>2 DEF RemoveInv, PromiseInv, Holds, TypeOK, NoPromise, RemoveNative,
        SetNative, Displace
  <2> QED
    BY <2>2, <2>3, <2>4, <2>5, <2>6
<1>3. CASE RemoveNativeFails(p)
  <2>1. LockInv' /\ SaveInv'
    BY <1>1, <1>3 DEF LockInv, SaveInv, TypeOK, RemoveNativeFails, Conclude,
        SetNative, Displace
  <2>2. RemoveInv'
    BY <1>1, <1>3 DEF RemoveInv, TypeOK, RemoveNativeFails, Conclude, SetNative,
        Displace
  <2>3. StampInv'
    BY <1>1, <1>3 DEF StampInv, TypeOK, Credential, NoCredential, Record, Stamped,
        RemoveNativeFails, Conclude, SetNative, Displace
  <2>4. RefusedInv'
    BY <1>1, <1>3 DEF RefusedInv, Dead, TypeOK, Credential, Authority, NoCredential,
        Record, Stamped, RemoveNativeFails, Conclude, SetNative, Displace
  <2>5. PromiseInv'
    BY <1>1, <1>3 DEF RemoveInv, PromiseInv, Holds, TypeOK, NoPromise,
        RemoveNativeFails, Conclude, SetNative, Displace
  <2> QED
    BY <2>1, <2>2, <2>3, <2>4, <2>5
<1>4. CASE RemoveFile(p)
  <2>1. LockInv' /\ SaveInv'
    BY <1>1, <1>4 DEF LockInv, SaveInv, TypeOK, RemoveFile, SetFile
  <2>2. RemoveInv'
    BY <1>1, <1>4 DEF RemoveInv, TypeOK, RemoveFile, SetFile
  <2>3. StampInv'
    BY <1>1, <1>4 DEF StampInv, TypeOK, Credential, NoCredential, Record, Stamped,
        RemoveFile, SetFile
  <2>4. RefusedInv'
    BY <1>1, <1>4 DEF RefusedInv, Dead, TypeOK, Credential, Authority, NoCredential,
        Record, Stamped, RemoveFile, SetFile
  <2>5. PromiseInv'
    BY <1>1, <1>4 DEF RemoveInv, PromiseInv, Holds, TypeOK, NoPromise, RemoveFile,
        SetFile
  <2> QED
    BY <2>1, <2>2, <2>3, <2>4, <2>5
<1>5. CASE RemoveFileFails(p)
  <2>1. /\ target' = target /\ generation' = generation
        /\ UNCHANGED <<authority, native, issued, refused>>
        /\ \A h \in Profiles : file'[h] \in {file[h], NoCredential}
    BY <1>1, <1>5 DEF RemoveInv, Reached, TypeOK, Credential, Authority,
        NoCredential, Record, Stamped, NoPromise, RemoveFileFails, Conclude, SetFile
  <2>2. LockInv' /\ SaveInv'
    BY <1>1, <1>5 DEF LockInv, SaveInv, TypeOK, RemoveFileFails, Conclude, SetFile
  <2>3. RemoveInv'
    BY <1>1, <1>5 DEF RemoveInv, TypeOK, RemoveFileFails, Conclude, SetFile
  <2>4. StampInv'
    BY <1>1, <1>5 DEF StampInv, TypeOK, Credential, NoCredential, Record, Stamped,
        RemoveFileFails, Conclude, SetFile
  <2>5. RefusedInv'
    BY <1>1, <2>1, PositiveRange DEF RefusedInv, Dead, TypeOK, NoCredential
  <2>6. PromiseInv'
    BY <1>1, <1>5 DEF RemoveInv, PromiseInv, Holds, TypeOK, NoPromise,
        RemoveFileFails, Conclude, SetFile
  <2> QED
    BY <2>2, <2>3, <2>4, <2>5, <2>6
<1>6. CASE RemoveAuthority(p)
  <2>1. /\ target' = target /\ generation' = generation
        /\ pc'[p] = "release" /\ outcome'[p] = "ok"
        /\ UNCHANGED <<native, file, tainted>>
        /\ authority'[f].backend = "removed"
        /\ native[f] = NoCredential /\ (tainted[f] \/ file[f] = NoCredential)
    BY <1>1, <1>6 DEF RemoveInv, Reached, TypeOK, Credential, Authority,
        NoCredential, Record, Stamped, NoPromise, RemoveAuthority, Conclude,
        SetAuthority
  <2>2. LockInv' /\ SaveInv'
    BY <1>1, <1>6 DEF LockInv, SaveInv, TypeOK, RemoveAuthority, Conclude,
        SetAuthority
  <2>3. RemoveInv'
    BY <1>1, <1>6, <2>1 DEF RemoveInv, TypeOK, RemoveAuthority, Conclude
  <2>4. StampInv'
    BY <1>1, <1>6 DEF StampInv, TypeOK, Credential, NoCredential, Record, Stamped,
        RemoveAuthority, Conclude, SetAuthority
  <2>5. RefusedInv'
    BY <1>1, <1>6 DEF RefusedInv, Dead, TypeOK, Credential, Authority, NoCredential,
        Record, Stamped, RemoveAuthority, Conclude, SetAuthority
  <2>6. PromiseInv'
    BY <1>1, <1>6 DEF RemoveInv, PromiseInv, Holds, TypeOK, NoPromise,
        RemoveAuthority, Conclude, SetAuthority
  <2> QED
    BY <2>2, <2>3, <2>4, <2>5, <2>6
<1>7. CASE RemoveAuthorityFails(p)
  <2>1. /\ target' = target /\ generation' = generation
        /\ UNCHANGED <<native, file, issued>>
        /\ \A h \in Profiles : authority'[h] \in {authority[h], Record("removed", g)}
    BY <1>1, <1>7 DEF RemoveInv, Reached, TypeOK, Credential, Authority,
        NoCredential, Record, Stamped, NoPromise, RemoveAuthorityFails, Conclude,
        SetAuthority
  <2>2. LockInv' /\ SaveInv'
    BY <1>1, <1>7 DEF LockInv, SaveInv, TypeOK, RemoveAuthorityFails, Conclude,
        SetAuthority
  <2>3. RemoveInv'
    BY <1>1, <1>7 DEF RemoveInv, TypeOK, RemoveAuthorityFails, Conclude,
        SetAuthority
  <2>4. StampInv'
    BY <1>1, <2>1 DEF StampInv, TypeOK, Record
  <2>5. RefusedInv'
    BY <1>1, <1>7 DEF RefusedInv, Dead, TypeOK, Credential, Authority, NoCredential,
        Record, Stamped, RemoveAuthorityFails, Conclude, SetAuthority
  <2>6. PromiseInv'
    BY <1>1, <1>7 DEF RemoveInv, PromiseInv, Holds, TypeOK, NoPromise,
        RemoveAuthorityFails, Conclude, SetAuthority
  <2> QED
    BY <2>2, <2>3, <2>4, <2>5, <2>6
<1> QED
  BY <1>2, <1>3, <1>4, <1>5, <1>6, <1>7 DEF Remove

\* Calling the store keeps the invariant.
LEMMA CallStep ==
  ASSUME IInv, NEW p \in Procs, NEW f \in Profiles,
         NEW o \in {"read", "save", "remove"}, Call(p, o, f)
  PROVE  IInv'
<1> USE DEF IInv, Call, storage, history
<1>1. TypeOK'
  BY ValueTypes DEF TypeOK, Operation, Outcome
<1>2. LockInv'
  BY DEF LockInv, TypeOK, InLock, SaveSteps, RemoveSteps
<1>3. SaveInv' /\ RemoveInv'
  BY DEF SaveInv, RemoveInv, Fresh, Reached, OnlyIn, Holds, Dead, TypeOK, InLock,
     SaveSteps, RemoveSteps
<1>4. StampInv' /\ RefusedInv' /\ PromiseInv'
  BY DEF StampInv, RefusedInv, PromiseInv, Dead, Holds
<1> QED
  BY <1>1, <1>2, <1>3, <1>4

\* Taking the lock, with a fresh generation for a mutation, keeps the invariant.
LEMMA AcquireStep ==
  ASSUME IInv, NEW p \in Procs, Acquire(p)
  PROVE  IInv'
<1> DEFINE f == target[p]
<1> USE DEF IInv, Acquire, FirstStep, storage, history
<1>1. TypeOK'
  BY DEF TypeOK, Operation, InLock, SaveSteps, RemoveSteps
<1>2. /\ \A q \in Procs : pc[q] \notin InLock
      /\ f \in Profiles /\ op[p] \in {"read", "save", "remove"}
      /\ \A q \in Procs \ {p} : pc'[q] = pc[q]
      /\ issued \in Nat
  BY ConstantsAssumption DEF LockInv, Free, TypeOK, Operation
<1>3. LockInv'
  BY <1>2 DEF LockInv, TypeOK, Operation, InLock, SaveSteps, RemoveSteps
<1>4. StampInv' /\ RefusedInv' /\ PromiseInv'
  BY <1>2 DEF StampInv, RefusedInv, PromiseInv, Dead, Holds, TypeOK
<1>5. RemoveInv'
  BY <1>2 DEF RemoveInv, TypeOK, InLock, SaveSteps, RemoveSteps
<1>6. SaveInv'
  <2>1. CASE op[p] = "save"
    <3>1. /\ generation'[p] = issued + 1 /\ issued' = issued + 1
          /\ pc'[p] = "savePending" /\ op' = op /\ target' = target
          /\ UNCHANGED <<authority, native, file, refused>>
      BY <1>2, <2>1 DEF TypeOK
    <3>2. /\ issued + 1 \notin refused
          /\ \A h \in Profiles : /\ authority[h].gen # issued + 1
                                /\ native[h].gen # issued + 1
                                /\ file[h].gen # issued + 1
      BY <1>2 DEF RefusedInv, StampInv
    <3>3. Fresh(p)' /\ Reached(p)'
      BY <1>2, <3>1, <3>2 DEF Fresh, Reached, OnlyIn
    <3> QED
      BY <1>2, <3>1, <3>3 DEF SaveInv
  <2>2. CASE op[p] # "save"
    BY <1>2, <2>2 DEF SaveInv
  <2> QED
    BY <2>1, <2>2
<1> QED
  BY <1>1, <1>3, <1>4, <1>5, <1>6

\* Giving up on the lock, or being killed, keeps the invariant.
LEMMA ReturnSteps ==
  ASSUME IInv, NEW p \in Procs, GiveUp(p) \/ Crash(p)
  PROVE  IInv'
<1> USE DEF IInv, Return, Goto, storage, history
<1>1. TypeOK'
  <2>1. CASE GiveUp(p)
    BY <2>1 DEF GiveUp, TypeOK, Operation, Outcome
  <2>2. CASE Crash(p)
    BY <2>2, ValueTypes DEF Crash, TypeOK, Operation, Outcome
  <2> QED
    BY <2>1, <2>2
<1>2. /\ pc'[p] = "idle" /\ \A q \in Procs \ {p} : /\ pc'[q] = pc[q] /\ op'[q] = op[q]
                                                  /\ target'[q] = target[q]
                                                  /\ generation'[q] = generation[q]
                                                  /\ outcome'[q] = outcome[q]
      /\ UNCHANGED <<authority, native, file, issued, promise, tainted, refused>>
      /\ \A q \in Procs \ {p} : owner = q => owner' = q
  BY DEF GiveUp, Crash, TypeOK
<1>3. LockInv'
  BY <1>2 DEF LockInv, InLock, SaveSteps, RemoveSteps
<1>4. SaveInv' /\ RemoveInv'
  BY <1>2 DEF SaveInv, RemoveInv, Fresh, Reached, OnlyIn, Holds, Dead, InLock,
     SaveSteps, RemoveSteps
<1>5. StampInv' /\ RefusedInv' /\ PromiseInv'
  BY <1>2 DEF StampInv, RefusedInv, PromiseInv, Dead, Holds
<1> QED
  BY <1>1, <1>3, <1>4, <1>5

\* Removing the lock, or failing to, makes only promises and refusals that hold.
LEMMA ReleaseStep ==
  ASSUME IInv, NEW p \in Procs, Release(p)
  PROVE  IInv'
<1> DEFINE f == target[p]  g == generation[p]
<1> USE DEF IInv, Return, Goto, storage
<1>1. TypeOK'
  BY ValueTypes DEF Release, TypeOK, Operation, Outcome, Told, AfterCleanup
<1>2. LockInv'
  BY DEF Release, LockInv, TypeOK, InLock, SaveSteps, RemoveSteps
<1>3. SaveInv' /\ RemoveInv'
  BY DEF Release, LockInv, SaveInv, RemoveInv, Fresh, Reached, OnlyIn, Holds, Dead,
     TypeOK, InLock, SaveSteps, RemoveSteps
<1>4. PICK how \in Outcome :
        /\ how = "plain" => outcome[p] = "plain"
        /\ how = "ok" => outcome[p] = "ok"
        /\ how = "committed" => outcome[p] \in {"ok", "committed"}
        /\ Told(op[p], f, g, how)
        /\ refused' = IF op[p] = "save" /\ how = "plain" THEN refused \cup {g} ELSE refused
        /\ UNCHANGED <<authority, native, file, issued, tainted>>
  BY DEF Release, AfterCleanup, TypeOK, Outcome
<1>5. /\ pc[p] = "release" /\ f \in Profiles
      /\ op[p] = "save" => Fresh(p) /\ Reached(p)
      /\ op[p] = "remove" /\ outcome[p] = "ok" =>
           /\ native[f] = NoCredential /\ (tainted[f] \/ file[f] = NoCredential)
           /\ authority[f].backend = "removed"
  BY DEF Release, LockInv, SaveInv, RemoveInv, InLock, SaveSteps, RemoveSteps
<1>6. StampInv'
  BY <1>4 DEF StampInv
<1>7. RefusedInv'
  <2>1. CASE op[p] = "save" /\ how = "plain"
    <3>1. Dead(f, g) /\ g \in 1..issued /\ OnlyIn(f, g)
      BY <1>4, <1>5, <2>1 DEF Fresh, Reached
    <3>2. \A h \in Profiles : Dead(h, g)
      BY <3>1 DEF Dead, OnlyIn
    <3> QED
      BY <1>4, <2>1, <3>1, <3>2 DEF RefusedInv, Dead
  <2>2. CASE ~(op[p] = "save" /\ how = "plain")
    BY <1>4, <2>2 DEF RefusedInv, Dead
  <2> QED
    BY <2>1, <2>2
<1>8. PromiseInv'
  <2>1. CASE op[p] = "save" /\ how \in {"ok", "committed"}
    <3>1. Holds(f, g) /\ g \in 1..issued
      BY <1>4, <1>5, <2>1 DEF Fresh, Reached
    <3>2. promise' = [promise EXCEPT ![f] = [kind |-> "held", gen |-> g]]
      BY <1>4, <2>1 DEF Told
    <3> QED
      BY <1>4, <1>5, <3>1, <3>2 DEF PromiseInv, Holds, TypeOK
  <2>2. CASE op[p] = "remove" /\ how = "ok"
    <3>1. promise' = [promise EXCEPT ![f] = [kind |-> "removed", gen |-> 0]]
      BY <1>4, <2>2 DEF Told
    <3> QED
      BY <1>4, <1>5, <2>2, <3>1 DEF PromiseInv, Holds, TypeOK
  <2>3. CASE ~(op[p] = "save" /\ how \in {"ok", "committed"}) /\ ~(op[p] = "remove" /\ how = "ok")
    BY <1>4, <2>3 DEF PromiseInv, Holds, Told
  <2> QED
    BY <2>1, <2>2, <2>3
<1> QED
  BY <1>1, <1>2, <1>3, <1>6, <1>7, <1>8

\* A read keeps the invariant.
LEMMA ReadSteps ==
  ASSUME IInv, NEW p \in Procs, ReadStored(p) \/ ReadFails(p)
  PROVE  IInv'
<1> USE DEF IInv, Conclude, Goto, storage, history
<1>1. TypeOK'
  <2>1. CASE ReadFails(p)
    BY <2>1 DEF ReadFails, TypeOK, Outcome, InLock
  <2>2. CASE ReadStored(p)
    <3>1. target[p] \in Profiles
      BY <2>2 DEF ReadStored, LockInv
    <3>2. \A r \in Reach : Selection(target[p], r) \in Credential
      BY <3>1, SelectionType
    <3> QED
      BY <2>2, <3>2 DEF ReadStored, TypeOK, Outcome, InLock
  <2> QED
    BY <2>1, <2>2
<1>2. LockInv'
  BY DEF LockInv, ReadStored, ReadFails, TypeOK, InLock, SaveSteps, RemoveSteps
<1>3. /\ UNCHANGED <<authority, native, file, owner, op, target, generation, issued,
                     promise, tainted, refused>>
      /\ pc[p] = "read" /\ op[p] = "read"
      /\ \A q \in Procs \ {p} : pc'[q] = pc[q] /\ outcome'[q] = outcome[q]
  BY DEF LockInv, ReadStored, ReadFails, TypeOK
<1>4. SaveInv' /\ RemoveInv'
  BY <1>3 DEF SaveInv, RemoveInv, Fresh, Reached, OnlyIn, Holds, Dead, InLock,
     SaveSteps, RemoveSteps
<1>5. StampInv' /\ RefusedInv' /\ PromiseInv'
  BY <1>3 DEF StampInv, RefusedInv, PromiseInv, Dead, Holds
<1> QED
  BY <1>1, <1>2, <1>4, <1>5

\* So do the operator's lock recovery and file-mode commands.
LEMMA OutsideSteps ==
  ASSUME IInv,
         \/ RemoveAbandonedLock
         \/ \E f \in Profiles, t \in LegacyTokens : FileModeSave(f, t)
         \/ \E f \in Profiles : FileModeRemove(f)
  PROVE  IInv'
<1> USE ConstantsAssumption DEF IInv, SetFile, storage, commands, history
<1>1. CASE RemoveAbandonedLock
  <2>1. /\ \A q \in Procs : pc[q] \notin InLock
        /\ owner' = Free
        /\ UNCHANGED <<authority, native, file, pc, op, target, generation, outcome,
                       seen, issued, promise, tainted, refused>>
    BY <1>1 DEF RemoveAbandonedLock, LockInv, Abandoned
  <2>2. TypeOK' /\ LockInv' /\ SaveInv' /\ RemoveInv'
    BY <2>1 DEF TypeOK, LockInv, SaveInv, RemoveInv
  <2>3. StampInv' /\ RefusedInv' /\ PromiseInv'
    BY <2>1 DEF StampInv, RefusedInv, PromiseInv, Dead, Holds
  <2> QED
    BY <2>2, <2>3
<1>2. ASSUME NEW f \in Profiles, NEW c \in {NoCredential} \cup {Unstamped(t) : t \in LegacyTokens},
             file' = [file EXCEPT ![f] = c], tainted' = [tainted EXCEPT ![f] = TRUE],
             UNCHANGED <<authority, native, owner, commands, promise, refused>>
      PROVE  IInv'
  <2>1. c \in Credential /\ c.gen = 0
    <3>1. NoCredential.gen = 0 /\ \A t \in LegacyTokens : t \in Nat /\ Unstamped(t).gen = 0
      BY DEF NoCredential, Unstamped
    <3> QED
      BY <3>1, ValueTypes
  <2>2. TypeOK'
    BY <1>2, <2>1 DEF TypeOK
  <2>3. /\ file'[f] = c /\ tainted'[f] = TRUE
        /\ \A h \in Profiles \ {f} : file'[h] = file[h] /\ tainted'[h] = tainted[h]
        /\ UNCHANGED <<authority, native, owner, pc, op, target, generation, outcome,
                       issued, promise, refused>>
    BY <1>2 DEF TypeOK
  <2>4. issued \in Nat /\ \A g \in 1..issued : g \in Nat /\ g # 0
    <3>1. issued \in Nat
      BY DEF TypeOK
    <3> QED
      BY <3>1, PositiveRange
  <2>5. LockInv' /\ RemoveInv'
    BY <2>3 DEF LockInv, RemoveInv
  <2>6. StampInv'
    BY <2>1, <2>3 DEF StampInv
  <2>7. RefusedInv'
    BY <2>1, <2>3, <2>4 DEF RefusedInv, Dead
  <2>8. \A h \in Profiles, g \in Nat : Holds(h, g) => Holds(h, g)'
    BY <2>3 DEF Holds
  <2>9. PromiseInv'
    BY <2>3, <2>8, <2>4 DEF PromiseInv
  <2>10. ASSUME NEW p \in Procs, pc[p] \in InLock, op[p] = "save"
        PROVE  Fresh(p)' /\ Reached(p)'
    <3>1. Fresh(p) /\ Reached(p) /\ target[p] \in Profiles /\ generation[p] \in 1..issued
      BY <2>10 DEF SaveInv, Fresh, LockInv, InLock, SaveSteps, RemoveSteps
    <3>2. generation[p] \in Nat /\ generation[p] # 0
      BY <2>4, <3>1
    <3>3. Fresh(p)'
      BY <2>1, <2>3, <3>1, <3>2 DEF Fresh, OnlyIn
    <3>4. Dead(target[p], generation[p]) => Dead(target[p], generation[p])'
      BY <2>1, <2>3, <3>1, <3>2 DEF Dead
    <3>5. Reached(p)'
      BY <2>1, <2>3, <2>8, <3>1, <3>2, <3>4 DEF Reached
    <3> QED
      BY <3>3, <3>5
  <2>11. SaveInv'
    BY <2>3, <2>10 DEF SaveInv
  <2> QED
    BY <2>2, <2>5, <2>6, <2>9, <2>11, <2>7
<1> QED
  BY <1>1, <1>2 DEF FileModeSave, FileModeRemove

\* A dead generation is not selected, nor one the authority does not name.
LEMMA SelectionOfAuthority ==
  ASSUME TypeOK, NEW f \in Profiles, NEW r \in Reach,
         Selection(f, r) # NoCredential, Selection(f, r).gen # 0
  PROVE  /\ Selection(f, r) \in {native[f], file[f]}
         /\ Selection(f, r).gen = authority[f].gen
         /\ authority[f].backend \in {"pending", "native", "fallback"}
BY DEF Selection, Matching, PendingChoice, LegacyChoice, NativeSeen, NoCredential, TypeOK,
       Authority, Credential

\* With its invariant, the store satisfies its three state properties.
LEMMA InvariantSuffices ==
  ASSUME IInv
  PROVE  RefusedNeverSelected /\ HeldIsSelected /\ RemovedLeavesNothing
<1> USE DEF IInv
<1>1. RefusedNeverSelected
  <2> SUFFICES ASSUME NEW f \in Profiles, NEW r \in Reach,
                      Selection(f, r) # NoCredential, Selection(f, r).gen \in refused
               PROVE  FALSE
    BY DEF RefusedNeverSelected, Selectable
  <2>1. Selection(f, r).gen # 0
    BY DEF RefusedInv, TypeOK
  <2>2. Dead(f, Selection(f, r).gen)
    BY DEF RefusedInv
  <2> QED
    BY <2>1, <2>2, SelectionOfAuthority DEF Dead
<1>2. HeldIsSelected
  <2> SUFFICES ASSUME NEW f \in Profiles, promise[f].kind = "held"
               PROVE  /\ Selectable(f) \subseteq {Stamped(promise[f].gen)}
                      /\ Untouched(f) => Selection(f, AllUp) = Stamped(promise[f].gen)
    BY DEF HeldIsSelected
  <2> DEFINE g == promise[f].gen
  <2>1. g \in 1..issued /\ g # 0 /\ Holds(f, g)
    BY DEF PromiseInv, TypeOK
  <2>2. Selectable(f) \subseteq {Stamped(g)}
    <3> SUFFICES ASSUME NEW r \in Reach, Selection(f, r) # NoCredential
                 PROVE  Selection(f, r) = Stamped(g)
      BY DEF Selectable
    <3>1. authority[f].gen = g /\ authority[f].backend \in {"pending", "native", "fallback"}
      BY <2>1 DEF Holds, Record
    <3>2. Selection(f, r).gen = g
      BY <2>1, <3>1 DEF Selection, Matching, PendingChoice
    <3> QED
      BY <2>1, <3>2, SelectionOfAuthority DEF StampInv
  <2>3. ASSUME Untouched(f)
        PROVE  Selection(f, AllUp) = Stamped(g)
    <3>1. authority[f] \in {Record("pending", g), Record("native", g), Record("fallback", g)}
      BY <2>1 DEF Holds
    <3>2. native[f] # Stamped(g) => native[f].gen # g /\ file[f] = Stamped(g)
      BY <2>1, <2>3 DEF Holds, Untouched
    <3>3. Stamped(g).gen = g /\ Stamped(g) # NoCredential
      BY <2>1 DEF Stamped, NoCredential
    <3>4. NativeSeen(f, AllUp) = native[f]
      BY DEF NativeSeen, AllUp
    <3>5. file[f].gen = g => file[f] = Stamped(g)
      BY <2>1 DEF StampInv
    <3>6. CASE authority[f] = Record("pending", g)
      BY <3>2, <3>3, <3>4, <3>5, <3>6 DEF Selection, PendingChoice, Matching, Record
    <3>7. CASE authority[f] = Record("native", g)
      BY <2>1, <3>3, <3>7 DEF Selection, Matching, Record, Holds
    <3>8. CASE authority[f] = Record("fallback", g)
      <4>1. file[f] = Stamped(g)
        BY <2>1, <3>2, <3>3, <3>8 DEF Holds, Record
      <4> QED
        BY <4>1, <3>3, <3>8 DEF Selection, Matching, Record
    <3> QED
      BY <3>1, <3>6, <3>7, <3>8
  <2> QED
    BY <2>2, <2>3
<1>3. RemovedLeavesNothing
  BY DEF PromiseInv, RemovedLeavesNothing, Selectable, Selection
<1> QED
  BY <1>1, <1>2, <1>3

\* The initial states satisfy the inductive invariant.
LEMMA InitInvariant == Init => IInv
<1> SUFFICES ASSUME Init PROVE IInv
  OBVIOUS
<1>1. TypeOK
  BY InitType
<1>2. \A f \in Profiles : native[f].gen = 0 /\ file[f].gen = 0
  BY DEF Init, NoCredential, Unstamped
<1> QED
  BY <1>1, <1>2 DEF Init, IInv, LockInv, StampInv, SaveInv, RemoveInv, RefusedInv, PromiseInv,
     NoAuthority, NoPromise, InLock, SaveSteps, RemoveSteps

\* Each step keeps it.
LEMMA NextInvariant == IInv /\ [Next]_vars => IInv'
<1> SUFFICES ASSUME IInv, [Next]_vars PROVE IInv'
  OBVIOUS
<1>1. ASSUME NEW p \in Procs, Save(p)
      PROVE  IInv'
  BY <1>1, SaveType, SaveStep DEF IInv
<1>2. ASSUME NEW p \in Procs, Remove(p)
      PROVE  IInv'
  BY <1>2, RemoveType, RemoveStep DEF IInv
<1>3. ASSUME NEW p \in Procs, Transact(p) \/ Crash(p)
      PROVE  IInv'
  BY <1>1, <1>2, <1>3, AcquireStep, ReturnSteps, ReleaseStep, ReadSteps DEF Transact
<1>4. ASSUME NEW p \in Procs, NEW o \in {"read", "save", "remove"}, NEW f \in Profiles,
             Call(p, o, f)
      PROVE  IInv'
  BY <1>4, CallStep
<1>5. CASE UNCHANGED vars
  BY <1>5 DEF vars, IInv, TypeOK, LockInv, StampInv, SaveInv, Fresh, Reached, OnlyIn,
     Holds, Dead, RemoveInv, RefusedInv, PromiseInv
<1> QED
  BY <1>3, <1>4, <1>5, OutsideSteps DEF Next

\* The inductive invariant holds in every reachable state of every instance.
THEOREM InvariantHolds == Spec => []IInv
  BY InitInvariant, NextInvariant, PTL DEF Spec

\* Every variable keeps its type.
THEOREM TypeCorrect == Spec => []TypeOK
<1>1. IInv => TypeOK
  BY DEF IInv
<1> QED
  BY <1>1, InvariantHolds, PTL

\* A credential whose save failed plainly, so that its caller revokes it, is
\* selected by no later read.
THEOREM RefusedStayOut == Spec => []RefusedNeverSelected
<1>1. IInv => RefusedNeverSelected
  BY InvariantSuffices
<1> QED
  BY <1>1, InvariantHolds, PTL

\* A credential reported saved is what every read selects until the next
\* mutation of its profile.
THEOREM HeldAreSelected == Spec => []HeldIsSelected
<1>1. IInv => HeldIsSelected
  BY InvariantSuffices
<1> QED
  BY <1>1, InvariantHolds, PTL

\* A profile reported removed has no secret left in either place.
THEOREM RemovedAreEmpty == Spec => []RemovedLeavesNothing
<1>1. IInv => RemovedLeavesNothing
  BY InvariantSuffices
<1> QED
  BY <1>1, InvariantHolds, PTL

-----------------------------------------------------------------------------
(* What can become selectable, and how *)

\* A record that says anything names the generation of a mutation.
NumberInv ==
  \A f \in Profiles : authority[f] # NoAuthority =>
    authority[f].backend # "none" /\ authority[f].gen # 0

\* Profile f is said to have generation g, and has it where that is said.
Chosen(f, g) ==
  /\ authority[f].gen = g
  /\ \/ authority[f].backend \in {"pending", "native"} /\ native[f] = Stamped(g)
     \/ authority[f].backend \in {"pending", "fallback"} /\ file[f] = Stamped(g)

\* Everything may be up.
LEMMA AllReach == AllUp \in Reach
BY DEF AllUp, Reach

\* What an authority record lets a read select, and no other credential.
LEMMA SelectableChosen ==
  ASSUME TypeOK, StampInv, NumberInv, NEW f \in Profiles, authority[f] # NoAuthority
  PROVE  /\ \A c \in Selectable(f) : c = Stamped(authority[f].gen) /\ Chosen(f, authority[f].gen)
         /\ Chosen(f, authority[f].gen) =>
              /\ Stamped(authority[f].gen) \in Selectable(f)
              /\ Selection(f, AllUp) = Stamped(authority[f].gen)
<1> DEFINE g == authority[f].gen  b == authority[f].backend
<1>1. /\ g \in Nat /\ g # 0 /\ b \in {"pending", "native", "fallback", "removed"}
      /\ native[f] \in Credential /\ file[f] \in Credential
  BY DEF TypeOK, Authority, NumberInv
<1>2. /\ native[f].gen = g => native[f] = Stamped(g)
      /\ file[f].gen = g => file[f] = Stamped(g)
  BY <1>1 DEF StampInv
<1>3. Stamped(g) # NoCredential /\ Stamped(g).gen = g /\ NoCredential.gen # g
  BY <1>1 DEF Stamped, NoCredential
<1>4. /\ Matching(native[f], g) = IF native[f] = Stamped(g) THEN Stamped(g) ELSE NoCredential
      /\ Matching(file[f], g) = IF file[f] = Stamped(g) THEN Stamped(g) ELSE NoCredential
      /\ Matching(NoCredential, g) = NoCredential
  BY <1>2, <1>3 DEF Matching
<1>5. ASSUME NEW r \in Reach, Selection(f, r) # NoCredential
      PROVE  Selection(f, r) = Stamped(g) /\ Chosen(f, g)
  <2>1. CASE b = "pending"
    <3>1. Selection(f, r) = PendingChoice(f, r)
      BY <2>1 DEF Selection
    <3>2. NativeSeen(f, r) \in {native[f], NoCredential}
      BY DEF NativeSeen
    <3> QED BY <1>3, <1>4, <1>5, <2>1, <3>1, <3>2 DEF PendingChoice, Chosen
  <2>2. CASE b = "native"
    BY <1>3, <1>4, <1>5, <2>2 DEF Selection, Chosen
  <2>3. CASE b = "fallback"
    BY <1>3, <1>4, <1>5, <2>3 DEF Selection, Chosen
  <2>4. CASE b = "removed"
    BY <1>5, <2>4 DEF Selection
  <2> QED BY <1>1, <2>1, <2>2, <2>3, <2>4
<1>6. Chosen(f, g) => Selection(f, AllUp) = Stamped(g)
  <2>1. CASE b = "pending"
    <3>1. Selection(f, AllUp) = PendingChoice(f, AllUp)
      BY <2>1 DEF Selection
    <3>2. NativeSeen(f, AllUp) = native[f]
      BY DEF NativeSeen, AllUp
    <3> QED BY <1>3, <1>4, <2>1, <3>1, <3>2 DEF PendingChoice, Chosen
  <2>2. CASE b = "native"
    BY <1>3, <1>4, <2>2 DEF Selection, Chosen
  <2>3. CASE b = "fallback"
    BY <1>3, <1>4, <2>3 DEF Selection, Chosen
  <2>4. CASE b = "removed"
    BY <2>4 DEF Chosen
  <2> QED BY <1>1, <2>1, <2>2, <2>3, <2>4
<1>7. Readable(f, AllUp)
  BY DEF Readable, AllUp
<1> QED BY <1>3, <1>5, <1>6, <1>7, AllReach DEF Selectable

\* Without a record, none that carries a generation is selected.
LEMMA SelectableUnclaimed ==
  ASSUME TypeOK, NEW f \in Profiles, authority[f] = NoAuthority
  PROVE  \A c \in Selectable(f) : c.gen = 0
<1>1. authority[f].backend = "none"
  BY DEF NoAuthority
<1>2. ASSUME NEW r \in Reach PROVE Selection(f, r).gen = 0
  <2>1. Selection(f, r) = LegacyChoice(f, r)
    BY <1>1 DEF Selection
  <2>2. NoCredential.gen = 0
    BY DEF NoCredential
  <2> QED BY <2>1, <2>2 DEF LegacyChoice
<1> QED BY <1>2 DEF Selectable

\* What a step may do to profile f: take something away, let the save of the
\* lock's owner write its credential, or change what is said of f.
LEMMA StepOfProfile ==
  ASSUME IInv, Next, NEW f \in Profiles
  PROVE  \/ /\ authority'[f] = authority[f]
            /\ native'[f].gen = 0 \/ native'[f] = native[f]
            /\ file'[f].gen = 0 \/ file'[f] = file[f]
         \/ /\ owner \in Procs /\ target[owner] = f
            /\ pc[owner] \in {"saveNative", "saveFile"}
            /\ authority[f] = Record("pending", generation[owner])
            /\ authority' = authority
         \/ /\ native' = native /\ file' = file
            /\ \E g \in 1..issued :
                 \/ authority'[f] = Record("removed", g)
                 \/ /\ authority'[f] = Record("pending", g)
                    /\ native[f].gen # g /\ file[f].gen # g
                 \/ /\ authority'[f] \in {Record("native", g), Record("fallback", g)}
                    /\ authority[f] = Record("pending", g)
<1> DEFINE Goal ==
      \/ /\ authority'[f] = authority[f]
         /\ native'[f].gen = 0 \/ native'[f] = native[f]
         /\ file'[f].gen = 0 \/ file'[f] = file[f]
      \/ /\ owner \in Procs /\ target[owner] = f
         /\ pc[owner] \in {"saveNative", "saveFile"}
         /\ authority[f] = Record("pending", generation[owner])
         /\ authority' = authority
      \/ /\ native' = native /\ file' = file
         /\ \E g \in 1..issued :
              \/ authority'[f] = Record("removed", g)
              \/ /\ authority'[f] = Record("pending", g)
                 /\ native[f].gen # g /\ file[f].gen # g
              \/ /\ authority'[f] \in {Record("native", g), Record("fallback", g)}
                 /\ authority[f] = Record("pending", g)
<1> SUFFICES Goal
  OBVIOUS
<1>1. UNCHANGED storage => Goal
  BY DEF storage
<1>2. NoCredential.gen = 0 /\ \A t : Unstamped(t).gen = 0
  BY DEF NoCredential, Unstamped
<1>3. authority \in [Profiles -> Authority] /\ native \in [Profiles -> Credential] /\ file \in [Profiles -> Credential]
  BY DEF IInv, TypeOK
<1>4. ASSUME NEW p \in Procs, Save(p) PROVE Goal
  <2> DEFINE g == generation[p]
  <2>1. /\ owner = p /\ pc[p] \in SaveSteps /\ target[p] \in Profiles
        /\ g \in 1..issued /\ Reached(p)
    <3>1. pc[p] \in SaveSteps
      BY <1>4 DEF Save, Goto, SaveSteps, Conclude, ClaimFails, ClaimFile,
        ClaimNative, CleanFallback, CleanFallbackFails, NativeUnavailable, Recover,
        Retire, RetireFails, SaveFile, SaveFileFails, SaveFileLeavesLock,
        SaveNative, SaveNativeFails, SavePending, SavePendingFails
    <3> QED BY <3>1 DEF IInv, LockInv, SaveInv, Fresh, InLock, SaveSteps, RemoveSteps
  <2>2. CASE target[p] # f
    <3>1. authority'[f] = authority[f] /\ native'[f] = native[f] /\ file'[f] = file[f]
      BY <1>3, <1>4, <2>2 DEF Save, storage, SetAuthority, SetNative, SetFile, ClaimFails, ClaimFile,
        ClaimNative, CleanFallback, CleanFallbackFails, NativeUnavailable, Recover,
        Retire, RetireFails, SaveFile, SaveFileFails, SaveFileLeavesLock,
        SaveNative, SaveNativeFails, SavePending, SavePendingFails
    <3> QED BY <3>1
  <2>3. CASE target[p] = f
    <3> USE <1>3, <2>1, <2>3 DEF Goto, Conclude, SetAuthority, SetNative, SetFile
    <3>1. CASE SavePending(p) \/ SavePendingFails(p)
      <4>1. /\ native' = native /\ file' = file
            /\ authority'[f] = Record("pending", g) \/ authority' = authority
        BY <3>1 DEF SavePending, SavePendingFails
      <4>2. native[f].gen # g /\ file[f].gen # g
        BY <3>1 DEF SavePending, SavePendingFails, Reached
      <4> QED BY <4>1, <4>2
    <3>2. CASE SaveNative(p) \/ SaveNativeFails(p) \/ SaveFile(p) \/ SaveFileFails(p) \/ SaveFileLeavesLock(p)
      <4>1. pc[p] \in {"saveNative", "saveFile"} /\ authority' = authority
        BY <3>2 DEF SaveNative, SaveNativeFails, SaveFile, SaveFileFails, SaveFileLeavesLock
      <4>2. authority[f] = Record("pending", g)
        BY <4>1 DEF Reached
      <4> QED BY <4>1, <4>2
    <3>3. CASE NativeUnavailable(p) \/ Recover(p)
      BY <1>1, <3>3 DEF NativeUnavailable, Recover
    <3>4. CASE ClaimNative(p) \/ ClaimFails(p, "claimNative", "native")
      <4>1. /\ native' = native /\ file' = file
            /\ authority'[f] = Record("native", g) \/ authority' = authority
        BY <3>4 DEF ClaimNative, ClaimFails
      <4>2. authority[f] = Record("pending", g)
        BY <3>4 DEF ClaimNative, ClaimFails, Reached
      <4> QED BY <4>1, <4>2
    <3>5. CASE ClaimFile(p) \/ ClaimFails(p, "claimFile", "fallback")
      <4>1. /\ native' = native /\ file' = file
            /\ authority'[f] = Record("fallback", g) \/ authority' = authority
        BY <3>5 DEF ClaimFile, ClaimFails
      <4>2. authority[f] = Record("pending", g)
        BY <3>5 DEF ClaimFile, ClaimFails, Reached
      <4> QED BY <4>1, <4>2
    <3>6. CASE CleanFallback(p) \/ CleanFallbackFails(p)
      BY <1>2, <3>6 DEF CleanFallback, CleanFallbackFails
    <3>7. CASE Retire(p) \/ RetireFails(p)
      <4>1. /\ native' = native /\ file' = file
            /\ authority'[f] = Record("removed", g) \/ authority' = authority
        BY <3>7 DEF Retire, RetireFails
      <4> QED BY <4>1
    <3> QED BY <1>4, <3>1, <3>2, <3>3, <3>4, <3>5, <3>6, <3>7 DEF Save
  <2> QED BY <2>2, <2>3
<1>5. ASSUME NEW p \in Procs, Remove(p) PROVE Goal
  <2> DEFINE g == generation[p]
  <2>1. pc[p] \in RemoveSteps
    BY <1>5 DEF Remove, RemoveSteps, Goto, Conclude, RemoveNative, RemoveNativeFails,
       RemoveFile, RemoveFileFails, RemoveAuthority, RemoveAuthorityFails
  <2>2. target[p] \in Profiles /\ g \in 1..issued
    BY <2>1 DEF IInv, LockInv, RemoveInv, InLock, SaveSteps, RemoveSteps
  <2>3. CASE RemoveNative(p) \/ RemoveNativeFails(p)
    BY <1>2, <1>3, <2>2, <2>3 DEF RemoveNative, RemoveNativeFails, SetNative
  <2>4. CASE RemoveFile(p) \/ RemoveFileFails(p)
    BY <1>2, <1>3, <2>2, <2>4 DEF RemoveFile, RemoveFileFails, SetFile
  <2>5. CASE RemoveAuthority(p) \/ RemoveAuthorityFails(p)
    <3>1. /\ native' = native /\ file' = file
          /\ authority'[f] = Record("removed", g) \/ authority'[f] = authority[f]
      BY <1>3, <2>2, <2>5 DEF RemoveAuthority, RemoveAuthorityFails, SetAuthority
    <3> QED BY <2>2, <3>1
  <2> QED BY <1>5, <2>3, <2>4, <2>5 DEF Remove
<1>6. ASSUME NEW p \in Procs, Transact(p) \/ Crash(p) PROVE Goal
  <2>1. CASE Acquire(p) \/ GiveUp(p) \/ Release(p) \/ ReadStored(p) \/ ReadFails(p) \/ Crash(p)
    BY <1>1, <2>1 DEF Acquire, GiveUp, Release, ReadStored, ReadFails, Crash
  <2> QED BY <1>4, <1>5, <1>6, <2>1 DEF Transact
<1>7. CASE \E p \in Procs, o \in {"read", "save", "remove"}, h \in Profiles : Call(p, o, h)
  BY <1>1, <1>7 DEF Call
<1>8. CASE RemoveAbandonedLock
  BY <1>1, <1>8 DEF RemoveAbandonedLock
<1>9. CASE \/ \E h \in Profiles, t \in LegacyTokens : FileModeSave(h, t)
           \/ \E h \in Profiles : FileModeRemove(h)
  <2>1. PICK h \in Profiles, c \in {NoCredential} \cup {Unstamped(t) : t \in LegacyTokens} :
          c.gen = 0 /\ file' = [file EXCEPT ![h] = c] /\ UNCHANGED <<authority, native>>
    BY <1>2, <1>9 DEF FileModeSave, FileModeRemove, SetFile
  <2> QED BY <1>3, <2>1
<1> QED BY <1>6, <1>7, <1>8, <1>9 DEF Next

\* What reads select is what the record says, if there is one.
SelectsChosen ==
  \A f \in Profiles :
    IF authority[f] = NoAuthority THEN \A c \in Selectable(f) : c.gen = 0
    ELSE \A c \in Selectable(f) : c = Stamped(authority[f].gen) /\ Chosen(f, c.gen)

\* It follows from the invariants, in every state.
LEMMA OnlyChosen == IInv /\ NumberInv => SelectsChosen
<1> SUFFICES ASSUME IInv, NumberInv PROVE SelectsChosen
  OBVIOUS
<1>1. \A g : Stamped(g).gen = g
  BY DEF Stamped
<1> QED BY <1>1, SelectableChosen, SelectableUnclaimed DEF SelectsChosen, IInv

\* A record, once there, keeps naming a generation.
LEMMA NextNumberInv == IInv /\ NumberInv /\ [Next]_vars => NumberInv'
<1> SUFFICES ASSUME IInv, NumberInv, [Next]_vars PROVE NumberInv'
  OBVIOUS
<1>1. issued \in Nat /\ \A g \in 1..issued : g # 0
  <2>1. issued \in Nat
    BY DEF IInv, TypeOK
  <2> QED BY <2>1, PositiveRange
<1>2. ASSUME NEW f \in Profiles, Next, authority'[f] # NoAuthority
      PROVE  authority'[f].backend # "none" /\ authority'[f].gen # 0
  <2>1. CASE authority'[f] = authority[f]
    BY <1>2, <2>1 DEF NumberInv
  <2>2. CASE \E g \in 1..issued, b \in {"removed", "pending", "native", "fallback"} :
               authority'[f] = Record(b, g)
    BY <1>1, <2>2 DEF Record
  <2> QED BY <1>2, <2>1, <2>2, StepOfProfile
<1> QED BY <1>2 DEF NumberInv, vars

\* A credential becomes selectable in its own save only.
LEMMA SavesAloneSelect ==
  ASSUME IInv, NumberInv, IInv', NumberInv', SelectsChosen', Next,
         NEW f \in Profiles, NEW c \in Selectable(f)' \ Selectable(f)
  PROVE  IF c.gen = 0 THEN authority[f] = NoAuthority
         ELSE owner \in Procs /\ target[owner] = f
              /\ pc[owner] \in {"saveNative", "saveFile"}
              /\ c = Stamped(generation[owner])
<1> DEFINE g == c.gen
<1>1. issued \in Nat /\ \A i \in 1..issued : i \in Nat /\ i # 0
  <2>1. issued \in Nat
    BY DEF IInv, TypeOK
  <2> QED BY <2>1, PositiveRange
<1>2. CASE authority'[f] = NoAuthority
  <2>1. c.gen = 0
    BY <1>2 DEF SelectsChosen
  <2>2. \A b, i : Record(b, i) = NoAuthority => b = "none"
    BY DEF NoAuthority, Record
  <2>3. authority[f] = NoAuthority
    BY <1>1, <1>2, <2>2, StepOfProfile
  <2> QED BY <2>1, <2>3
<1>3. CASE authority'[f] # NoAuthority
  <2>1. c = Stamped(g) /\ g = authority'[f].gen
    BY <1>3 DEF SelectsChosen, Stamped
  <2>2. Chosen(f, g)'
    BY <1>3 DEF SelectsChosen
  <2>3. g # 0 /\ Stamped(g).gen = g
    BY <1>3, <2>1 DEF NumberInv, Stamped
  <2>4. ~(authority[f].gen = g /\ Chosen(f, g))
    <3>1. SUFFICES ASSUME authority[f].gen = g, Chosen(f, g) PROVE FALSE
      OBVIOUS
    <3>2. authority[f] # NoAuthority
      BY <2>3, <3>1 DEF NoAuthority
    <3> QED BY <2>1, <3>1, <3>2, SelectableChosen DEF IInv
  <2>5. CASE /\ authority'[f] = authority[f]
             /\ native'[f].gen = 0 \/ native'[f] = native[f]
             /\ file'[f].gen = 0 \/ file'[f] = file[f]
    BY <2>1, <2>2, <2>3, <2>4, <2>5 DEF Chosen
  <2>6. CASE /\ owner \in Procs /\ target[owner] = f
             /\ pc[owner] \in {"saveNative", "saveFile"}
             /\ authority[f] = Record("pending", generation[owner])
             /\ authority' = authority
    BY <2>1, <2>3, <2>6 DEF Record
  <2>7. ASSUME native' = native, file' = file, NEW i \in 1..issued,
               \/ authority'[f] = Record("removed", i)
               \/ /\ authority'[f] = Record("pending", i)
                  /\ native[f].gen # i /\ file[f].gen # i
               \/ /\ authority'[f] \in {Record("native", i), Record("fallback", i)}
                  /\ authority[f] = Record("pending", i)
        PROVE  FALSE
    <3>1. \A b : Record(b, i).gen = i /\ Record(b, i).backend = b
      BY DEF Record
    <3>2. i = g
      BY <2>1, <2>7, <3>1
    <3>3. native[f] = Stamped(g) \/ file[f] = Stamped(g)
      BY <2>2, <2>7 DEF Chosen
    <3>4. CASE authority'[f] = Record("removed", i)
      BY <2>2, <3>1, <3>4 DEF Chosen
    <3>5. CASE native[f].gen # i /\ file[f].gen # i
      BY <2>3, <3>2, <3>3, <3>5
    <3>6. CASE authority[f] = Record("pending", i)
      BY <2>4, <3>1, <3>2, <3>3, <3>6 DEF Chosen
    <3> QED BY <2>7, <3>4, <3>5, <3>6
  <2> QED BY <2>3, <2>5, <2>6, <2>7, StepOfProfile
<1> QED BY <1>2, <1>3

\* Only a save's own writes make its credential selectable: nothing revives an
\* older one.
THEOREM SavesAlone == Spec => OnlyItsSaveSelects
<1>1. Init => NumberInv
  BY DEF Init, NumberInv
<1>2. Spec => []NumberInv
  BY <1>1, NextNumberInv, InvariantHolds, PTL DEF Spec
<1>3. IInv /\ NumberInv /\ IInv' /\ NumberInv' /\ SelectsChosen' /\ [Next]_vars =>
        [\A f \in Profiles : \A c \in Selectable(f)' \ Selectable(f) :
           IF c.gen = 0 THEN authority[f] = NoAuthority
           ELSE owner \in Procs /\ target[owner] = f
                /\ pc[owner] \in {"saveNative", "saveFile"}
                /\ c = Stamped(generation[owner])]_vars
  BY SavesAloneSelect
<1> QED
  BY <1>2, <1>3, OnlyChosen, InvariantHolds, PTL DEF Spec, OnlyItsSaveSelects

-----------------------------------------------------------------------------
(* The register the store implements *)

\* A step of a transaction, and what it may do to its profile and its command.
LEMMA TransactFrame ==
  ASSUME IInv, NEW p \in Procs, Transact(p) \/ Crash(p)
  PROVE  /\ pc[p] # "idle" /\ target[p] \in Profiles
         /\ \A q \in Procs \ {p} :
              pc'[q] = pc[q] /\ op'[q] = op[q] /\ generation'[q] = generation[q] /\ seen'[q] = seen[q]
         /\ pc'[p] # "idle" => op'[p] = op[p]
         /\ op[p] # "read" => seen'[p] \in {seen[p], NoCredential}
         /\ \A f \in Profiles :
              promise'[f] \in {promise[f], NoPromise} \/ promise'[f].kind # "none"
         /\ \A f \in Profiles \ {target[p]} :
              /\ native'[f] = native[f] /\ file'[f] = file[f] /\ authority'[f] = authority[f]
              /\ promise'[f] = promise[f] /\ tainted'[f] = tainted[f]
         /\ \A f \in Profiles :
              /\ native'[f] = native[f] \/ native'[f].gen = 0
                   \/ (op[p] = "save" /\ pc[p] \in InLock /\ native'[f].gen = generation[p])
              /\ file'[f] = file[f] \/ file'[f].gen = 0
                   \/ (op[p] = "save" /\ pc[p] \in InLock /\ file'[f].gen = generation[p])
         /\ \/ UNCHANGED issued
            \/ /\ pc'[p] \in {"savePending", "removeNative", "read"}
               /\ generation'[p] = issued' /\ issued' = issued + 1 /\ issued' <= MaxGeneration
<1> USE DEF Goto, Conclude, Return, SaveFrame, storage, history, Displace,
            SetAuthority, SetNative, SetFile
<1>1. TypeOK /\ NoCredential.gen = 0 /\ \A g : Stamped(g).gen = g
  BY DEF IInv, NoCredential, Stamped
<1>2. /\ pc[p] # "idle" => target[p] \in Profiles
      /\ pc[p] \in SaveSteps => op[p] = "save" /\ pc[p] \in InLock
      /\ pc[p] = "read" => op[p] = "read"
  BY DEF IInv, LockInv, InLock
<1>3. CASE Save(p)
  <2> USE <1>1, <1>2 DEF TypeOK, SaveSteps
  <2>1. CASE SavePending(p) \/ SavePendingFails(p)
    BY <2>1 DEF SavePending, SavePendingFails
  <2>2. CASE SaveNative(p) \/ NativeUnavailable(p) \/ SaveNativeFails(p)
    BY <2>2 DEF SaveNative, NativeUnavailable, SaveNativeFails
  <2>3. CASE SaveFile(p) \/ SaveFileFails(p) \/ SaveFileLeavesLock(p)
    BY <2>3 DEF SaveFile, SaveFileFails, SaveFileLeavesLock
  <2>4. CASE ClaimNative(p) \/ ClaimFails(p, "claimNative", "native")
              \/ ClaimFile(p) \/ ClaimFails(p, "claimFile", "fallback")
    BY <2>4 DEF ClaimNative, ClaimFile, ClaimFails
  <2>5. CASE CleanFallback(p) \/ CleanFallbackFails(p)
    BY <2>5 DEF CleanFallback, CleanFallbackFails
  <2>6. CASE Recover(p) \/ Retire(p) \/ RetireFails(p)
    BY <2>6 DEF Recover, Retire, RetireFails
  <2> QED BY <1>3, <2>1, <2>2, <2>3, <2>4, <2>5, <2>6 DEF Save
<1>4. CASE Remove(p)
  <2> USE <1>1, <1>2 DEF TypeOK
  <2>1. CASE RemoveNative(p) \/ RemoveNativeFails(p)
    BY <2>1 DEF RemoveNative, RemoveNativeFails
  <2>2. CASE RemoveFile(p) \/ RemoveFileFails(p)
    BY <2>2 DEF RemoveFile, RemoveFileFails
  <2>3. CASE RemoveAuthority(p) \/ RemoveAuthorityFails(p)
    BY <2>3 DEF RemoveAuthority, RemoveAuthorityFails
  <2> QED BY <1>4, <2>1, <2>2, <2>3 DEF Remove
<1>5. CASE Acquire(p)
  <2>1. \/ UNCHANGED issued
        \/ issued' = issued + 1 /\ issued' <= MaxGeneration
    <3>1. issued \in Nat /\ MaxGeneration \in Nat
      BY <1>1, ConstantsAssumption DEF TypeOK
    <3> QED BY <1>5, <3>1 DEF Acquire
  <2>2. FirstStep(op[p]) \in {"savePending", "removeNative", "read"}
    BY DEF FirstStep
  <2>3. pc'[p] = FirstStep(op[p]) /\ generation'[p] = issued'
    BY <1>1, <1>5 DEF Acquire, TypeOK
  <2> QED BY <1>1, <1>2, <1>5, <2>1, <2>2, <2>3 DEF Acquire, TypeOK
<1>6. CASE GiveUp(p)
  BY <1>1, <1>2, <1>6 DEF GiveUp, TypeOK
<1>7. CASE Release(p)
  <2>1. \/ UNCHANGED promise
        \/ \E k \in {"held", "removed"} : \E g :
             promise' = [promise EXCEPT ![target[p]] = [kind |-> k, gen |-> g]]
    BY <1>7 DEF Release, Told
  <2> QED BY <1>1, <1>2, <1>7, <2>1 DEF Release, TypeOK
<1>8. CASE ReadStored(p) \/ ReadFails(p) \/ Crash(p)
  BY <1>1, <1>2, <1>8 DEF ReadStored, ReadFails, Crash, TypeOK
<1> QED
  BY <1>3, <1>4, <1>5, <1>6, <1>7, <1>8 DEF Transact

\* The rest of the refinement's invariant is kept.
LEMMA NextRegisterInv == IInv /\ RegisterInv /\ [Next]_vars => RegisterInv'
<1> SUFFICES ASSUME IInv, RegisterInv, [Next]_vars PROVE RegisterInv'
  OBVIOUS
<1>1. /\ native \in [Profiles -> Credential] /\ file \in [Profiles -> Credential]
      /\ pc \in [Procs -> InLock \cup {"idle", "lock"}] /\ op \in [Procs -> Operation]
      /\ seen \in [Procs -> Credential] /\ issued \in Nat
      /\ NoCredential.gen = 0 /\ \A t : Unstamped(t).gen = 0
  BY DEF IInv, TypeOK, NoCredential, Unstamped
<1>2. ASSUME NEW p \in Procs, Transact(p) \/ Crash(p) PROVE RegisterInv'
  <2>1. issued' <= MaxGeneration
    BY <1>2, TransactFrame DEF RegisterInv
  <2>2. \A f \in Profiles : promise'[f].kind = "none" => promise'[f] = NoPromise
    BY <1>2, TransactFrame DEF RegisterInv
  <2>3. \A q \in Procs : pc'[q] # "idle" /\ op'[q] # "read" => seen'[q] = NoCredential
    BY <1>2, TransactFrame DEF RegisterInv
  <2>4. ASSUME NEW f \in Profiles, NEW h \in Profiles, f # h,
               NEW c \in {native'[f], file'[f]}, NEW d \in {native'[h], file'[h]}, c.gen = d.gen
        PROVE  c.gen = 0
    <3>1. CASE target[p] # f /\ target[p] # h
      <4>1. c \in {native[f], file[f]} /\ d \in {native[h], file[h]}
        BY <1>2, <3>1, TransactFrame
      <4> QED BY <2>4, <4>1 DEF RegisterInv
    <3>2. ASSUME NEW k \in Profiles, NEW l \in Profiles, k # l, target[p] = k,
                 NEW x \in {native'[k], file'[k]}, NEW y \in {native'[l], file'[l]}, x.gen = y.gen
          PROVE  x.gen = 0
      <4>1. y \in {native[l], file[l]}
        BY <1>2, <3>2, TransactFrame
      <4>2. \/ x \in {native[k], file[k]} \/ x.gen = 0
            \/ (op[p] = "save" /\ pc[p] \in InLock /\ x.gen = generation[p])
        BY <1>2, <3>2, TransactFrame
      <4>3. op[p] = "save" /\ pc[p] \in InLock => y.gen # generation[p]
        BY <3>2, <4>1 DEF IInv, SaveInv, Fresh, OnlyIn
      <4> QED BY <3>2, <4>1, <4>2, <4>3 DEF RegisterInv
    <3> QED BY <2>4, <3>1, <3>2
  <2> QED BY <2>1, <2>2, <2>3, <2>4 DEF RegisterInv
<1>3. ASSUME NEW p \in Procs, NEW o \in {"read", "save", "remove"}, NEW f \in Profiles,
             Call(p, o, f)
      PROVE  RegisterInv'
  <2>1. \A q \in Procs : seen'[q] = NoCredential \/ (pc'[q] = pc[q] /\ op'[q] = op[q] /\ seen'[q] = seen[q])
    BY <1>1, <1>3 DEF Call
  <2> QED BY <1>3, <2>1 DEF Call, RegisterInv, storage, history
<1>4. CASE RemoveAbandonedLock \/ UNCHANGED vars
  BY <1>4 DEF RemoveAbandonedLock, RegisterInv, storage, commands, history, vars
<1>5. ASSUME NEW f \in Profiles, NEW c, c.gen = 0, SetFile(f, c), UNCHANGED <<native, commands, promise>>
      PROVE  RegisterInv'
  <2>1. \A h \in Profiles : file'[h] = file[h] \/ file'[h].gen = 0
    BY <1>1, <1>5 DEF SetFile
  <2> QED BY <1>5, <2>1 DEF RegisterInv, commands
<1> QED
  BY <1>1, <1>2, <1>3, <1>4, <1>5 DEF Next, FileModeSave, FileModeRemove

\* The register's content is the generation that reads are to believe.
ContentInv ==
  \A f \in Profiles :
    /\ Content[f] \in Nat
    /\ \A g \in Nat \ {0} : Content[f] = g <=> authority[f].gen = g /\ Chosen(f, g)
    /\ Content[f] # 0 => Stamped(Content[f]) \in Selectable(f)
    /\ \A c \in Selectable(f) : c.gen \in {0, Content[f]}

LEMMA ContentHolds == IInv /\ NumberInv => ContentInv
<1> SUFFICES ASSUME IInv, NumberInv, NEW f \in Profiles
             PROVE  /\ Content[f] \in Nat
                    /\ \A g \in Nat \ {0} : Content[f] = g <=> authority[f].gen = g /\ Chosen(f, g)
                    /\ Content[f] # 0 => Stamped(Content[f]) \in Selectable(f)
                    /\ \A c \in Selectable(f) : c.gen \in {0, Content[f]}
  BY DEF ContentInv
<1>1. TypeOK /\ StampInv /\ NoCredential.gen = 0 /\ \A g : Stamped(g).gen = g
  BY DEF IInv, NoCredential, Stamped
<1>2. Content[f] = Selection(f, AllUp).gen
  BY DEF Content
<1>3. Selection(f, AllUp) # NoCredential => Selection(f, AllUp) \in Selectable(f)
  <2>1. Readable(f, AllUp)
    BY DEF Readable, AllUp
  <2> QED BY <2>1, AllReach DEF Selectable
<1>4. CASE authority[f] = NoAuthority
  <2>1. authority[f].gen = 0 /\ \A c \in Selectable(f) : c.gen = 0
    BY <1>1, <1>4, SelectableUnclaimed DEF NoAuthority
  <2>2. Content[f] = 0
    BY <1>1, <1>2, <1>3, <2>1
  <2> QED BY <2>1, <2>2
<1>5. CASE authority[f] # NoAuthority
  <2> DEFINE a == authority[f].gen
  <2>1. a \in Nat /\ a # 0
    BY <1>1, <1>5 DEF TypeOK, Authority, NumberInv
  <2>2. \A c \in Selectable(f) : c = Stamped(a) /\ Chosen(f, a)
    BY <1>1, <1>5, SelectableChosen
  <2>3. Chosen(f, a) => Selection(f, AllUp) = Stamped(a)
    BY <1>1, <1>5, SelectableChosen
  <2>4. IF Chosen(f, a) THEN Content[f] = a ELSE Content[f] = 0 /\ Selectable(f) = {}
    BY <1>1, <1>2, <1>3, <2>1, <2>2, <2>3
  <2> HIDE DEF a
  <2>5. Content[f] # 0 => Stamped(Content[f]) \in Selectable(f)
    BY <1>1, <1>2, <1>3, <2>2, <2>3, <2>4
  <2>6. \A c \in Selectable(f) : c.gen \in {0, Content[f]}
    BY <1>1, <2>2, <2>4
  <2>7. \A g \in Nat \ {0} : Content[f] = g <=> a = g /\ Chosen(f, g)
    BY <2>1, <2>4
  <2> QED BY <2>1, <2>4, <2>5, <2>6, <2>7 DEF a
<1> QED
  BY <1>4, <1>5

\* What is in the register is in storage, of one profile, and not in flight.
LEMMA ContentLanded ==
  ASSUME IInv, RegisterInv, ContentInv, NEW f \in Profiles, Content[f] # 0
  PROVE  /\ Content[f] \in 1..issued
         /\ Content[f] \notin InFlight
         /\ \A h \in Profiles \ {f} : Content[h] # Content[f]
<1> DEFINE g == Content[f]
<1>1. g \in Nat \ {0} /\ authority[f].gen = g /\ Chosen(f, g) /\ Stamped(g).gen = g
  BY DEF ContentInv, Stamped
<1>2. \E c \in {native[f], file[f]} : c.gen = g
  BY <1>1 DEF Chosen
<1>3. g \in 1..issued
  BY <1>1, <1>2 DEF IInv, StampInv
<1>4. ASSUME NEW p \in Procs, pc[p] \in {"savePending", "saveNative", "saveFile"}, generation[p] = g
      PROVE  FALSE
  <2>1. /\ pc[p] \in InLock /\ op[p] = "save"
    BY <1>4 DEF InLock, SaveSteps, IInv, LockInv
  <2>2. OnlyIn(target[p], g) /\ Reached(p)
    BY <1>4, <2>1 DEF IInv, SaveInv, Fresh
  <2>3. target[p] = f
    BY <1>1, <2>2 DEF OnlyIn
  <2> QED BY <1>1, <1>2, <1>4, <2>2, <2>3 DEF Reached
<1>5. ASSUME NEW h \in Profiles \ {f}, Content[h] = g PROVE FALSE
  <2>1. \E c \in {native[h], file[h]} : c.gen = g
    BY <1>1, <1>5 DEF ContentInv, Chosen
  <2> QED BY <1>1, <1>2, <2>1 DEF RegisterInv
<1> QED
  BY <1>3, <1>4, <1>5 DEF InFlight

\* The content changes by a save's own write, or is lost.
LEMMA ContentStep ==
  ASSUME IInv, NumberInv, ContentInv, IInv', NumberInv', SelectsChosen', ContentInv', Next,
         NEW f \in Profiles
  PROVE  \/ Content'[f] \in {Content[f], 0}
         \/ /\ owner \in Procs /\ target[owner] = f
            /\ pc[owner] \in {"saveNative", "saveFile"}
            /\ Content'[f] = generation[owner]
<1> SUFFICES ASSUME Content'[f] # 0, Content'[f] # Content[f]
             PROVE  /\ owner \in Procs /\ target[owner] = f
                    /\ pc[owner] \in {"saveNative", "saveFile"}
                    /\ Content'[f] = generation[owner]
  OBVIOUS
<1> DEFINE c == Stamped(Content'[f])
<1>1. \A g : Stamped(g).gen = g
  BY DEF Stamped
<1>2. c \in Selectable(f)' /\ c \notin Selectable(f)
  BY <1>1 DEF ContentInv
<1>3. c.gen # 0
  BY <1>1
<1> HIDE DEF c
<1>4. /\ owner \in Procs /\ target[owner] = f
      /\ pc[owner] \in {"saveNative", "saveFile"}
      /\ c = Stamped(generation[owner])
  BY <1>2, <1>3, SavesAloneSelect
<1> QED
  BY <1>1, <1>4 DEF c

\* Only the lock's acquisition brings a generation in flight.
LEMMA InFlightStep ==
  ASSUME IInv, Next
  PROVE  /\ \A g \in InFlight' : g \in InFlight \/ (g = issued' /\ issued' = issued + 1)
         /\ issued' \in {issued, issued + 1}
<1> DEFINE F == {"savePending", "saveNative", "saveFile"}
           Came(p) == pc'[p] \in F => \/ pc[p] \in F /\ generation'[p] = generation[p]
                                      \/ generation'[p] = issued' /\ issued' = issued + 1
<1> SUFFICES /\ \A p \in Procs : Came(p)
             /\ issued' \in {issued, issued + 1}
  BY DEF InFlight
<1>1. /\ pc \in [Procs -> InLock \cup {"idle", "lock"}] /\ generation \in [Procs -> Nat]
      /\ issued \in Nat
  BY DEF IInv, TypeOK
<1>2. ASSUME NEW p \in Procs, Transact(p) \/ Crash(p)
      PROVE  /\ \A q \in Procs : Came(q)
             /\ issued' \in {issued, issued + 1}
  <2>1. \A q \in Procs \ {p} : pc'[q] = pc[q] /\ generation'[q] = generation[q]
    BY <1>2, TransactFrame
  <2>2. issued' \in {issued, issued + 1}
    BY <1>2, TransactFrame
  <2>3. Came(p)
    <3> USE <1>1 DEF Goto, Conclude, Return, SaveFrame
    <3>1. CASE Acquire(p)
      BY <3>1 DEF Acquire, FirstStep
    <3>2. CASE GiveUp(p) \/ Release(p) \/ ReadStored(p) \/ ReadFails(p) \/ Crash(p)
      BY <3>2 DEF GiveUp, Release, ReadStored, ReadFails, Crash
    <3>3. CASE Remove(p)
      BY <3>3 DEF Remove, RemoveNative, RemoveNativeFails, RemoveFile, RemoveFileFails,
                  RemoveAuthority, RemoveAuthorityFails
    <3>4. CASE Save(p)
      <4>1. CASE SavePending(p) \/ SavePendingFails(p) \/ NativeUnavailable(p)
        BY <4>1 DEF SavePending, SavePendingFails, NativeUnavailable
      <4>2. CASE SaveNative(p) \/ SaveNativeFails(p) \/ SaveFile(p) \/ SaveFileFails(p) \/ SaveFileLeavesLock(p)
        BY <4>2 DEF SaveNative, SaveNativeFails, SaveFile, SaveFileFails, SaveFileLeavesLock
      <4>3. CASE ClaimNative(p) \/ ClaimFails(p, "claimNative", "native")
                  \/ ClaimFile(p) \/ ClaimFails(p, "claimFile", "fallback")
        BY <4>3 DEF ClaimNative, ClaimFile, ClaimFails
      <4>4. CASE \/ CleanFallback(p) \/ CleanFallbackFails(p)
                 \/ Recover(p) \/ Retire(p) \/ RetireFails(p)
        BY <4>4 DEF CleanFallback, CleanFallbackFails, Recover, Retire, RetireFails
      <4> QED BY <3>4, <4>1, <4>2, <4>3, <4>4 DEF Save
    <3> QED BY <1>2, <3>1, <3>2, <3>3, <3>4 DEF Transact
  <2> QED BY <2>1, <2>2, <2>3
<1>3. ASSUME NEW p \in Procs, NEW o \in {"read", "save", "remove"}, NEW f \in Profiles,
             Call(p, o, f)
      PROVE  /\ \A q \in Procs : Came(q)
             /\ issued' \in {issued, issued + 1}
  BY <1>1, <1>3 DEF Call
<1>4. CASE \/ RemoveAbandonedLock
           \/ \E f \in Profiles, t \in LegacyTokens : FileModeSave(f, t)
           \/ \E f \in Profiles : FileModeRemove(f)
  BY <1>4 DEF RemoveAbandonedLock, FileModeSave, FileModeRemove, commands
<1> QED
  BY <1>2, <1>3, <1>4 DEF Next

\* What is spent stays spent, and out of the register.
LEMMA SpendStep ==
  ASSUME IInv, NumberInv, ContentInv, IInv', NumberInv', SelectsChosen', ContentInv', Next
  PROVE  Register!Spend
<1>1. issued \in Nat /\ 0 \notin 1..issued
  BY DEF IInv, TypeOK
<1>2. 1..issued \subseteq 1..issued' /\ issued + 1 \notin 1..issued
  BY <1>1, InFlightStep
<1>3. ASSUME NEW g \in Spent PROVE g \in Spent'
  <2>1. g \in 1..issued /\ g \notin InFlight /\ \A f \in Profiles : Content[f] # g
    BY <1>3 DEF Spent
  <2>2. g \in 1..issued' /\ g \notin InFlight'
    BY <1>1, <1>2, <2>1, InFlightStep
  <2>3. ASSUME NEW f \in Profiles, Content'[f] = g PROVE FALSE
    <3>1. g # 0 /\ g # Content[f]
      BY <1>1, <2>1
    <3>2. owner \in Procs /\ pc[owner] \in {"saveNative", "saveFile"} /\ g = generation[owner]
      BY <2>3, <3>1, ContentStep
    <3> QED BY <2>1, <3>2 DEF InFlight
  <2> QED BY <2>2, <2>3 DEF Spent
<1>4. \A f \in Profiles : Content'[f] \notin Spent'
  BY DEF Spent
<1> QED
  BY <1>3, <1>4 DEF Register!Spend

\* Where nothing of a profile changes, neither does its register.
LEMMA ContentSame ==
  ASSUME NEW f \in Profiles, authority'[f] = authority[f], native'[f] = native[f], file'[f] = file[f]
  PROVE  Content'[f] = Content[f]
<1>1. Selection(f, AllUp)' = Selection(f, AllUp)
  BY DEF Selection, Matching, PendingChoice, LegacyChoice, NativeSeen
<1> QED
  BY <1>1 DEF Content

LEMMA StandingSame ==
  ASSUME NEW f \in Profiles, promise'[f] = promise[f], tainted'[f] = tainted[f],
         native'[f] = native[f] \/ promise[f].kind # "held"
  PROVE  Standing'[f] = Standing[f]
BY DEF Standing, Untouched

\* The generations each reader was handed.
Handed == [p \in Procs |-> seen[p].gen]

\* Steps of one profile's register.
LEMMA Erases ==
  ASSUME IInv, NumberInv, RegisterInv, ContentInv,
         IInv', NumberInv', SelectsChosen', ContentInv', Next,
         NEW f \in Profiles, Content'[f] = 0, Standing'[f] = NoPromise, seen' = seen,
         \A h \in Profiles \ {f} : Content'[h] = Content[h] /\ Standing'[h] = Standing[h]
  PROVE  Register!RNext
<1>1. Content' = [Content EXCEPT ![f] = 0]
  BY DEF Content
<1>2. Standing' = [Standing EXCEPT ![f] = NoPromise]
  BY DEF Standing
<1>3. Handed' = Handed
  BY DEF Handed
<1>4. Content[f] # 0 => Content[f] \in Spent'
  <2> SUFFICES ASSUME Content[f] # 0 PROVE Content[f] \in Spent'
    OBVIOUS
  <2>1. /\ Content[f] \in 1..issued /\ Content[f] \notin InFlight
        /\ \A h \in Profiles \ {f} : Content[h] # Content[f]
    BY ContentLanded
  <2>2. issued \in Nat /\ Content[f] \in Nat
    BY DEF IInv, TypeOK, ContentInv
  <2>3. Content[f] \in 1..issued' /\ Content[f] \notin InFlight'
    BY <2>1, <2>2, InFlightStep
  <2>4. \A h \in Profiles : Content'[h] # Content[f]
    BY <2>1
  <2> QED BY <2>3, <2>4 DEF Spent
<1>5. Register!Erase(f)
  BY <1>1, <1>2, <1>3, <1>4, SpendStep DEF Register!Erase, Register!NoPromise, NoPromise, Handed
<1> QED
  BY <1>5 DEF Register!RNext

LEMMA Withdraws ==
  ASSUME NEW f \in Profiles, Content' = Content, InFlight' = InFlight, issued' = issued, seen' = seen,
         Standing'[f] = NoPromise, \A h \in Profiles \ {f} : Standing'[h] = Standing[h]
  PROVE  Register!RNext
<1>1. Spent' = Spent
  BY DEF Spent
<1>2. Standing' = [Standing EXCEPT ![f] = NoPromise]
  BY DEF Standing
<1>3. Handed' = Handed
  BY DEF Handed
<1>4. Register!Withdraw(f)
  BY <1>1, <1>2, <1>3 DEF Register!Withdraw, Register!NoPromise, NoPromise, Handed
<1> QED
  BY <1>4 DEF Register!RNext

LEMMA Writes ==
  ASSUME IInv, NumberInv, RegisterInv, ContentInv,
         IInv', NumberInv', SelectsChosen', ContentInv', Next,
         NEW f \in Profiles, NEW g \in 1..issued, g \in InFlight,
         Content[f] = 0, Standing[f] = NoPromise, Content'[f] = g,
         \A h \in Profiles \ {f} : Content'[h] = Content[h],
         Standing' = Standing, seen' = seen
  PROVE  Register!RNext
<1>1. Content' = [Content EXCEPT ![f] = g]
  BY DEF Content
<1>2. g \in 1..MaxGeneration
  <2>1. issued \in Nat /\ issued <= MaxGeneration /\ MaxGeneration \in Nat
    BY ConstantsAssumption DEF IInv, TypeOK, RegisterInv
  <2> QED BY <2>1
<1>3. g \notin Spent
  BY DEF Spent
<1>4. Handed' = Handed
  BY DEF Handed
<1>5. Register!Write(f)
  BY <1>1, <1>2, <1>3, <1>4, SpendStep DEF Register!Write, Register!NoPromise, NoPromise, Handed
<1> QED
  BY <1>5 DEF Register!RNext

LEMMA Discards ==
  ASSUME IInv, NumberInv, ContentInv, IInv', NumberInv', SelectsChosen', ContentInv', Next,
         Content' = Content, Standing' = Standing, seen' = seen
  PROVE  Register!RNext
<1>1. Handed' = Handed
  BY DEF Handed
<1>2. Register!Discard
  BY <1>1, SpendStep DEF Register!Discard, Handed
<1> QED
  BY <1>2 DEF Register!RNext

LEMMA Forgets ==
  ASSUME IInv, NumberInv, ContentInv, IInv', NumberInv', SelectsChosen', ContentInv', Next,
         Content' = Content, Standing' = Standing,
         NEW p \in Procs, seen' = [seen EXCEPT ![p] = NoCredential]
  PROVE  Register!RNext
<1>1. Handed' = [Handed EXCEPT ![p] = 0]
  <2>1. seen \in [Procs -> Credential] /\ NoCredential.gen = 0
    BY DEF IInv, TypeOK, NoCredential
  <2> QED BY <2>1 DEF Handed
<1>2. Register!Forget(p)
  BY <1>1 DEF Register!Forget, Handed
<1> QED
  BY <1>2, SpendStep DEF Register!RNext

\* A mutation leaves other profiles, and every reader, alone.
LEMMA OthersSame ==
  ASSUME IInv, RegisterInv, NEW p \in Procs, Transact(p)
  PROVE  /\ \A h \in Profiles \ {target[p]} : Content'[h] = Content[h] /\ Standing'[h] = Standing[h]
         /\ target[p] \in Profiles
<1> QED
  BY TransactFrame, ContentSame, StandingSame

\* The register's maps change where their values do.
LEMMA MapsSame ==
  /\ (\A f \in Profiles : Content'[f] = Content[f]) => Content' = Content
  /\ (\A f \in Profiles : Standing'[f] = Standing[f]) => Standing' = Standing
  /\ UNCHANGED storage => Content' = Content
  /\ UNCHANGED <<promise, tainted, native>> => Standing' = Standing
<1>1. (\A f \in Profiles : Content'[f] = Content[f]) => Content' = Content
  BY DEF Content
<1>2. (\A f \in Profiles : Standing'[f] = Standing[f]) => Standing' = Standing
  BY DEF Standing
<1>3. UNCHANGED storage => Content' = Content
  BY <1>1, ContentSame DEF storage
<1>4. UNCHANGED <<promise, tainted, native>> => Standing' = Standing
  BY <1>2, StandingSame
<1> QED
  BY <1>1, <1>2, <1>3, <1>4

\* A save enters the register by its one write, and leaves it by its retirement.
LEMMA SaveRefines ==
  ASSUME IInv, NumberInv, RegisterInv, ContentInv,
         IInv', NumberInv', SelectsChosen', ContentInv',
         NEW p \in Procs, Save(p)
  PROVE  Register!RNext
<1> DEFINE f == target[p]  g == generation[p]
<1>1. Next /\ Transact(p)
  BY DEF Next, Transact
<1>2. pc[p] \in SaveSteps
  BY DEF Save, Goto, SaveSteps, Conclude, ClaimFails, ClaimFile,
    ClaimNative, CleanFallback, CleanFallbackFails, NativeUnavailable, Recover,
    Retire, RetireFails, SaveFile, SaveFileFails, SaveFileLeavesLock,
    SaveNative, SaveNativeFails, SavePending, SavePendingFails
<1>3. /\ pc[p] \in InLock /\ op[p] = "save" /\ Reached(p) /\ g \in 1..issued
      /\ pc[p] # "savePending" => promise[f] = NoPromise /\ Standing[f] = NoPromise
  <2>1. pc[p] \in InLock /\ op[p] = "save" /\ f \in Profiles
    BY <1>2 DEF InLock, SaveSteps, IInv, LockInv
  <2>2. Reached(p) /\ g \in 1..issued
    BY <2>1 DEF IInv, SaveInv, Fresh
  <2>3. pc[p] # "savePending" => promise[f] = NoPromise
    BY <1>2, <2>1 DEF IInv, SaveInv, RegisterInv
  <2>4. promise[f] = NoPromise => Standing[f] = NoPromise
    BY <2>1 DEF Standing, NoPromise
  <2> QED BY <2>1, <2>2, <2>3, <2>4
<1>4. /\ f \in Profiles
      /\ \A h \in Profiles \ {f} : Content'[h] = Content[h] /\ Standing'[h] = Standing[h]
  BY <1>1, OthersSame
<1>5. g \in Nat \ {0} /\ issued \in Nat /\ seen' = seen
  <2>1. issued \in Nat
    BY DEF IInv, TypeOK
  <2>2. seen' = seen
    BY DEF Save, SaveFrame, ClaimFails, ClaimFile,
      ClaimNative, CleanFallback, CleanFallbackFails, NativeUnavailable, Recover,
      Retire, RetireFails, SaveFile, SaveFileFails, SaveFileLeavesLock,
      SaveNative, SaveNativeFails, SavePending, SavePendingFails
  <2> QED BY <1>3, <2>1, <2>2
<1>6. /\ authority \in [Profiles -> Authority] /\ native \in [Profiles -> Credential]
      /\ file \in [Profiles -> Credential] /\ promise \in [Profiles -> Promise]
  BY DEF IInv, TypeOK
<1>7. /\ Stamped(g).gen = g
      /\ \A b : Record(b, g).gen = g /\ Record(b, g).backend = b
  BY DEF Stamped, Record
\* When the profile's register keeps its value, the step is no more than a discard.
<1>8. ASSUME Content'[f] = Content[f], UNCHANGED <<promise, tainted, native>>
      PROVE  Register!RNext
  BY <1>1, <1>4, <1>5, <1>8, MapsSame, Discards
<1>9. ASSUME UNCHANGED <<storage, promise, tainted>> PROVE Register!RNext
  BY <1>4, <1>8, <1>9, ContentSame DEF storage
<1>10. ASSUME SetAuthority(f, "pending", g), Displace(f), UNCHANGED <<native, file>>,
              pc[p] = "savePending"
       PROVE  Register!RNext
  <2>1. authority'[f].gen = g /\ promise'[f] = NoPromise
    BY <1>4, <1>6, <1>7, <1>10 DEF SetAuthority, Displace
  <2>2. native'[f].gen # g /\ file'[f].gen # g
    BY <1>10, <1>3 DEF Reached
  <2>3. Content'[f] = 0
    BY <1>4, <1>7, <2>1, <2>2 DEF ContentInv, Chosen
  <2>4. Standing'[f] = NoPromise
    BY <1>4, <2>1 DEF Standing, NoPromise
  <2> QED BY <1>1, <1>4, <1>5, <2>3, <2>4, Erases
<1>11. ASSUME pc[p] \in {"saveNative", "saveFile"}, UNCHANGED <<authority, promise, tainted>>,
              \/ native' = [native EXCEPT ![f] = Stamped(g)] /\ file' = file
              \/ file' = [file EXCEPT ![f] = Stamped(g)] /\ native' = native
       PROVE  Register!RNext
  <2>1. authority[f] = Record("pending", g) /\ native[f].gen # g /\ file[f].gen # g
    BY <1>3, <1>11 DEF Reached
  <2>2. Content[f] = 0
    BY <1>4, <1>7, <2>1 DEF ContentInv, Chosen
  <2>3. native'[f] = Stamped(g) \/ file'[f] = Stamped(g)
    BY <1>4, <1>6, <1>11
  <2>4. Content'[f] = g
    BY <1>4, <1>5, <1>7, <1>11, <2>1, <2>3 DEF ContentInv, Chosen
  <2>5. Standing'[f] = Standing[f]
    BY <1>3, <1>4, <1>11, StandingSame DEF NoPromise
  <2>6. Standing' = Standing
    BY <1>4, <2>5, MapsSame
  <2>7. g \in InFlight
    BY <1>11 DEF InFlight
  <2> QED BY <1>1, <1>3, <1>4, <1>5, <1>11, <2>2, <2>4, <2>6, <2>7, Writes
<1>12. CASE SavePending(p) \/ SavePendingFails(p)
  BY <1>9, <1>10, <1>12 DEF SavePending, SavePendingFails, Goto, Conclude, storage
<1>13. CASE SaveNative(p) \/ NativeUnavailable(p) \/ SaveNativeFails(p)
  BY <1>9, <1>11, <1>13 DEF SaveNative, NativeUnavailable, SaveNativeFails, SetNative, Goto, storage
<1>14. CASE SaveFile(p) \/ SaveFileFails(p) \/ SaveFileLeavesLock(p)
  BY <1>9, <1>11, <1>14 DEF SaveFile, SaveFileFails, SaveFileLeavesLock, SetFile, Goto, Conclude, storage
<1>15. CASE ClaimNative(p) \/ ClaimFails(p, "claimNative", "native")
  <2>1. /\ authority[f] = Record("pending", g) /\ native[f] = Stamped(g)
        /\ UNCHANGED <<native, file, promise, tainted>>
        /\ authority' = authority \/ authority' = [authority EXCEPT ![f] = Record("native", g)]
    BY <1>3, <1>15 DEF ClaimNative, ClaimFails, Goto, SetAuthority, Reached
  <2>2. authority'[f] \in {Record("pending", g), Record("native", g)}
    BY <1>4, <1>6, <2>1
  <2>3. Content[f] = g /\ Content'[f] = g
    BY <1>4, <1>5, <1>7, <2>1, <2>2 DEF ContentInv, Chosen
  <2> QED BY <1>8, <2>1, <2>3
<1>16. CASE ClaimFile(p) \/ ClaimFails(p, "claimFile", "fallback")
  <2>1. /\ authority[f] = Record("pending", g) /\ native[f].gen # g
        /\ UNCHANGED <<native, file, promise, tainted>>
        /\ authority' = authority \/ authority' = [authority EXCEPT ![f] = Record("fallback", g)]
    BY <1>3, <1>16 DEF ClaimFile, ClaimFails, Goto, Conclude, SetAuthority, Reached
  <2>2. authority'[f] \in {Record("pending", g), Record("fallback", g)}
    BY <1>4, <1>6, <2>1
  <2>3. CASE file[f] = Stamped(g)
    <3>1. Content[f] = g /\ Content'[f] = g
      BY <1>4, <1>5, <1>7, <2>1, <2>2, <2>3 DEF ContentInv, Chosen
    <3> QED BY <1>8, <2>1, <3>1
  <2>4. CASE file[f] # Stamped(g)
    <3>1. Content[f] = 0 /\ Content'[f] = 0
      BY <1>4, <1>5, <1>7, <2>1, <2>2, <2>4 DEF ContentInv, Chosen
    <3> QED BY <1>8, <2>1, <3>1
  <2> QED BY <2>3, <2>4
<1>17. CASE CleanFallback(p) \/ CleanFallbackFails(p)
  <2>1. /\ authority[f] = Record("native", g) /\ native[f] = Stamped(g)
        /\ UNCHANGED <<authority, native, promise, tainted>>
    BY <1>3, <1>17 DEF CleanFallback, CleanFallbackFails, Conclude, Goto, Reached
  <2>2. Content[f] = g /\ Content'[f] = g
    BY <1>4, <1>5, <1>7, <2>1 DEF ContentInv, Chosen
  <2> QED BY <1>8, <2>1, <2>2
<1>18. CASE Recover(p)
  BY <1>9, <1>18 DEF Recover
<1>19. CASE Retire(p) \/ RetireFails(p)
  <2>1. /\ UNCHANGED <<native, file, promise, tainted>> /\ pc[p] = "retire"
        /\ authority' = authority \/ authority' = [authority EXCEPT ![f] = Record("removed", g)]
    BY <1>19 DEF Retire, RetireFails, Conclude, Goto, SetAuthority
  <2>2. CASE authority' = authority
    BY <1>9, <2>1, <2>2 DEF storage
  <2>3. CASE authority' = [authority EXCEPT ![f] = Record("removed", g)]
    <3>1. authority'[f].backend = "removed"
      BY <1>4, <1>6, <1>7, <2>3
    <3>2. Content'[f] = 0
      BY <1>4, <3>1 DEF ContentInv, Chosen
    <3>3. Standing'[f] = NoPromise
      BY <1>3, <1>4, <2>1, StandingSame
    <3> QED BY <1>1, <1>4, <1>5, <3>2, <3>3, Erases
  <2> QED BY <2>1, <2>2, <2>3
<1> QED
  BY <1>12, <1>13, <1>14, <1>15, <1>16, <1>17, <1>18, <1>19 DEF Save

\* A removal empties the register, or only ends what it promised.
LEMMA RemoveRefines ==
  ASSUME IInv, NumberInv, RegisterInv, ContentInv,
         IInv', NumberInv', SelectsChosen', ContentInv',
         NEW p \in Procs, Remove(p)
  PROVE  Register!RNext
<1> DEFINE f == target[p]  g == generation[p]
<1>1. Next /\ Transact(p)
  BY DEF Next, Transact
<1>2. pc[p] \in RemoveSteps
  BY DEF Remove, RemoveSteps, Goto, Conclude, RemoveNative, RemoveNativeFails,
     RemoveFile, RemoveFileFails, RemoveAuthority, RemoveAuthorityFails
<1>3. /\ pc[p] \in InLock /\ op[p] = "remove" /\ owner = p
      /\ pc[p] # "removeNative" => native[f] = NoCredential /\ promise[f] = NoPromise
      /\ pc[p] \notin {"savePending", "saveNative", "saveFile"}
  <2>1. pc[p] \in InLock /\ op[p] = "remove" /\ f \in Profiles /\ owner = p
    BY <1>2 DEF InLock, IInv, LockInv, RemoveSteps
  <2>2. pc[p] # "removeNative" => native[f] = NoCredential /\ promise[f].kind = "none"
    BY <1>2, <2>1 DEF IInv, RemoveInv, RemoveSteps
  <2> QED BY <1>2, <2>1, <2>2 DEF RegisterInv, RemoveSteps
<1>4. /\ f \in Profiles
      /\ \A h \in Profiles \ {f} : Content'[h] = Content[h] /\ Standing'[h] = Standing[h]
  BY <1>1, OthersSame
<1>5. seen' = seen /\ issued' = issued
  BY DEF Remove, SaveFrame, RemoveNative, RemoveNativeFails,
     RemoveFile, RemoveFileFails, RemoveAuthority, RemoveAuthorityFails
<1>6. /\ authority \in [Profiles -> Authority] /\ native \in [Profiles -> Credential]
      /\ file \in [Profiles -> Credential] /\ promise \in [Profiles -> Promise]
      /\ \A b : Record(b, g).backend = b
      /\ \A k \in Nat \ {0} : NoCredential # Stamped(k)
  BY DEF IInv, TypeOK, Record, NoCredential, Stamped
\* Nothing is in flight while the lock's owner removes.
<1>7. InFlight = {} /\ InFlight' = {}
  <2>1. \A q \in Procs : pc[q] \in {"savePending", "saveNative", "saveFile"} => q = p
    BY <1>3 DEF IInv, LockInv, InLock, SaveSteps
  <2>2. InFlight = {}
    BY <1>3, <2>1 DEF InFlight
  <2>3. issued \in Nat /\ issued' # issued + 1
    BY <1>5 DEF IInv, TypeOK
  <2> QED BY <1>1, <2>2, <2>3, InFlightStep
<1>8. Content'[f] \in {Content[f], 0}
  BY <1>1, <1>3, <1>4, ContentStep
<1>9. ASSUME UNCHANGED <<storage, promise, tainted>> PROVE Register!RNext
  BY <1>1, <1>5, <1>9, MapsSame, Discards DEF storage
<1>10. ASSUME Standing'[f] = NoPromise, Content'[f] = 0 PROVE Register!RNext
  BY <1>1, <1>4, <1>5, <1>10, Erases
<1>11. CASE RemoveNative(p) \/ RemoveNativeFails(p)
  <2>1. UNCHANGED <<authority, file>> /\ (Displace(f) \/ UNCHANGED <<storage, promise, tainted>>)
    BY <1>11 DEF RemoveNative, RemoveNativeFails, storage
  <2>2. CASE Displace(f)
    <3>1. promise'[f] = NoPromise
      BY <1>4, <1>6, <2>2 DEF Displace
    <3>2. Standing'[f] = NoPromise
      BY <1>4, <3>1 DEF Standing, NoPromise
    <3>3. CASE Content'[f] = Content[f]
      <4>1. Content' = Content
        BY <1>4, <3>3, MapsSame
      <4> QED BY <1>4, <1>5, <1>7, <3>2, <4>1, Withdraws
    <3> QED BY <1>8, <1>10, <3>2, <3>3
  <2> QED BY <1>9, <2>1, <2>2
<1>12. ASSUME UNCHANGED <<authority, native, promise>>, pc[p] = "removeFile",
              file' = [file EXCEPT ![f] = NoCredential]
       PROVE  Register!RNext
  <2>1. native'[f] = NoCredential /\ file'[f] = NoCredential
    BY <1>3, <1>4, <1>6, <1>12
  <2>2. Content'[f] = 0
    BY <1>4, <1>6, <2>1 DEF ContentInv, Chosen
  <2>3. promise'[f] = NoPromise
    BY <1>3, <1>12
  <2>4. Standing'[f] = NoPromise
    BY <1>4, <2>3 DEF Standing, NoPromise
  <2> QED BY <1>10, <2>2, <2>4
<1>13. CASE RemoveFile(p) \/ RemoveFileFails(p)
  BY <1>9, <1>12, <1>13 DEF RemoveFile, RemoveFileFails, Goto, Conclude, SetFile, storage
<1>14. CASE RemoveAuthority(p) \/ RemoveAuthorityFails(p)
  <2>1. /\ UNCHANGED <<native, file, promise, tainted>> /\ pc[p] = "removeAuthority"
        /\ authority' = authority \/ authority' = [authority EXCEPT ![f] = Record("removed", g)]
    BY <1>14 DEF RemoveAuthority, RemoveAuthorityFails, Conclude, Goto, SetAuthority
  <2>2. CASE authority' = authority
    BY <1>9, <2>1, <2>2 DEF storage
  <2>3. CASE authority' = [authority EXCEPT ![f] = Record("removed", g)]
    <3>1. authority'[f].backend = "removed"
      BY <1>4, <1>6, <2>3
    <3>2. Content'[f] = 0
      BY <1>4, <3>1 DEF ContentInv, Chosen
    <3>3. Standing'[f] = NoPromise
      BY <1>3, <1>4, <2>1 DEF Standing, NoPromise
    <3> QED BY <1>10, <3>2, <3>3
  <2> QED BY <2>1, <2>2, <2>3
<1> QED
  BY <1>11, <1>13, <1>14 DEF Remove

\* A transaction's end confirms what its caller is told.
LEMMA ReleaseRefines ==
  ASSUME IInv, NumberInv, RegisterInv, ContentInv,
         IInv', NumberInv', SelectsChosen', ContentInv', HeldIsSelected', RemovedLeavesNothing',
         NEW p \in Procs, Release(p)
  PROVE  Register!RNext
<1> DEFINE g == generation[p]
<1>1. Next /\ Transact(p)
  BY DEF Next, Transact
<1> PICK f \in Profiles : f = target[p]
  BY <1>1, OthersSame
<1>2. \A h \in Profiles \ {f} : Content'[h] = Content[h] /\ Standing'[h] = Standing[h]
  BY <1>1, OthersSame
<1>3. /\ Content' = Content /\ UNCHANGED <<storage, tainted, issued>>
      /\ seen' = seen \/ seen' = [seen EXCEPT ![p] = NoCredential]
      /\ pc[p] = "release"
  BY MapsSame DEF Release, Return, Goto
<1>4. CASE UNCHANGED promise
  <2>1. Standing' = Standing
    BY <1>3, <1>4, MapsSame DEF storage
  <2> QED BY <1>1, <1>3, <2>1, Discards, Forgets
<1>5. ASSUME NEW k \in {"held", "removed"}, NEW n,
             promise' = [promise EXCEPT ![f] = [kind |-> k, gen |-> n]],
             op[p] # "read", k = "removed" => n = 0
      PROVE  Register!RNext
  <2>1. seen' = seen
    <3>1. seen[p] = NoCredential /\ seen \in [Procs -> Credential]
      BY <1>3, <1>5 DEF RegisterInv, IInv, TypeOK
    <3> QED BY <1>3, <3>1
  <2>2. promise'[f] = [kind |-> k, gen |-> n]
    BY <1>2, <1>5 DEF IInv, TypeOK
  <2>3. InFlight' = InFlight
    <3>1. \A q \in Procs \ {p} : pc'[q] = pc[q] /\ generation'[q] = generation[q]
      BY <1>1, TransactFrame
    <3>2. pc'[p] = "idle"
      BY DEF Release, Return, Goto, IInv, TypeOK
    <3> QED BY <1>3, <3>1, <3>2 DEF InFlight
  <2>4. CASE Standing'[f] = NoPromise
    BY <1>2, <1>3, <2>1, <2>3, <2>4, Withdraws
  <2>5. CASE Standing'[f] # NoPromise
    <3>1. /\ Standing'[f] = promise'[f]
          /\ k = "held" => Untouched(f)'
      BY <1>2, <2>2, <2>5 DEF Standing
    <3>2. Content[f] = IF k = "held" THEN n ELSE 0
      <4>1. CASE k = "held"
        <5>1. Selection(f, AllUp)' = Stamped(n)
          BY <1>2, <2>2, <3>1, <4>1 DEF HeldIsSelected
        <5>2. Content'[f] = n
          BY <1>2, <5>1 DEF Content, Stamped
        <5> QED BY <1>3, <4>1, <5>2
      <4>2. CASE k = "removed"
        <5>1. Selectable(f)' = {}
          BY <1>2, <2>2, <4>2 DEF RemovedLeavesNothing
        <5> QED BY <1>2, <1>3, <4>2, <5>1 DEF ContentInv
      <4> QED BY <4>1, <4>2
    <3>3. k = "held" => n # 0
      <4>1. k = "held" => promise'[f].gen \in 1..issued' /\ issued' \in Nat
        BY <1>2, <2>2 DEF IInv, PromiseInv, TypeOK
      <4> QED BY <2>2, <4>1
    <3>4. Standing' = [Standing EXCEPT ![f] = [kind |-> k, gen |-> Content[f]]]
      <4>1. Standing'[f] = [kind |-> k, gen |-> Content[f]]
        BY <1>5, <2>2, <3>1, <3>2
      <4> QED BY <1>2, <4>1 DEF Standing
    <3>5. Spent' = Spent /\ Handed' = Handed
      BY <1>3, <2>1, <2>3 DEF Spent, Handed
    <3>6. Register!Confirm(f) /\ Handed' = Handed
      BY <1>3, <1>5, <3>2, <3>3, <3>4, <3>5 DEF Register!Confirm
    <3> QED BY <1>2, <3>6 DEF Register!RNext, Handed
  <2> QED BY <2>4, <2>5
<1>6. \/ UNCHANGED promise
      \/ op[p] # "read" /\ promise' = [promise EXCEPT ![f] = [kind |-> "held", gen |-> g]]
      \/ op[p] # "read" /\ promise' = [promise EXCEPT ![f] = [kind |-> "removed", gen |-> 0]]
  BY DEF Release, Told
<1> QED
  BY <1>4, <1>5, <1>6

\* A read answers with the register's content.
LEMMA ReadRefines ==
  ASSUME IInv, NumberInv, RegisterInv, ContentInv,
         NEW p \in Procs, ReadStored(p)
  PROVE  Register!RNext
<1>1. PICK r \in Reach : /\ pc[p] = "read" /\ Readable(target[p], r)
                         /\ seen' = [seen EXCEPT ![p] = Selection(target[p], r)]
  BY DEF ReadStored, Conclude, Goto
<1>2. target[p] \in Profiles /\ Transact(p)
  BY <1>1 DEF IInv, LockInv, Transact
<1>3. Content' = Content /\ Standing' = Standing /\ issued' = issued
  BY MapsSame DEF ReadStored, storage, history
<1>4. InFlight' = InFlight
  <2>1. \A q \in Procs \ {p} : pc'[q] = pc[q] /\ generation'[q] = generation[q]
    BY <1>2, TransactFrame
  <2>2. pc'[p] = "release" /\ pc[p] = "read"
    BY DEF ReadStored, Conclude, Goto, IInv, TypeOK
  <2> QED BY <2>1, <2>2 DEF InFlight
<1>5. Spent' = Spent
  BY <1>3, <1>4 DEF Spent
<1>6. Selection(target[p], r).gen \in {0, Content[target[p]]}
  <2>1. Selection(target[p], r) = NoCredential \/ Selection(target[p], r) \in Selectable(target[p])
    BY <1>1 DEF Selectable
  <2> QED BY <1>2, <2>1 DEF ContentInv, NoCredential
<1>7. Handed' = [Handed EXCEPT ![p] = Selection(target[p], r).gen]
  BY <1>1 DEF Handed, IInv, TypeOK
<1>8. Register!Answer(p)
  BY <1>2, <1>3, <1>6, <1>7 DEF Register!Answer, Handed
<1> QED
  BY <1>5, <1>8 DEF Register!RNext

\* A command that goes round the store empties the register, or takes away what
\* was promised of it, unless the keychain holds it.
LEMMA FileModeRefines ==
  ASSUME IInv, NumberInv, RegisterInv, ContentInv,
         IInv', NumberInv', SelectsChosen', ContentInv', Next,
         NEW f \in Profiles, NEW c, c.gen = 0, SetFile(f, c),
         tainted' = [tainted EXCEPT ![f] = TRUE],
         UNCHANGED <<authority, native, commands, promise>>
  PROVE  Register!RNext
<1>1. /\ file \in [Profiles -> Credential] /\ tainted \in [Profiles -> BOOLEAN]
      /\ promise \in [Profiles -> Promise]
      /\ \A k \in Nat \ {0} : c # Stamped(k)
  BY DEF IInv, TypeOK, Stamped
<1>2. /\ file'[f] = c /\ tainted'[f] = TRUE
      /\ \A h \in Profiles \ {f} : file'[h] = file[h] /\ tainted'[h] = tainted[h]
  BY <1>1 DEF SetFile
<1>3. \A h \in Profiles \ {f} : Content'[h] = Content[h] /\ Standing'[h] = Standing[h]
  BY <1>2, ContentSame, StandingSame
<1>4. seen' = seen /\ issued' = issued /\ InFlight' = InFlight
  BY DEF commands, InFlight
\* The file's own generation is lost.
<1>5. Content'[f] \in {Content[f], 0}
  <2>1. ASSUME Content'[f] # 0 PROVE Content[f] = Content'[f]
    <3>1. /\ Content'[f] \in Nat \ {0} /\ authority[f].gen = Content'[f]
          /\ Chosen(f, Content'[f])
      BY <1>1, <1>2, <2>1 DEF ContentInv, Chosen
    <3> QED BY <3>1 DEF ContentInv
  <2> QED BY <2>1
<1>6. CASE Standing'[f] = NoPromise
  <2>1. CASE Content'[f] = Content[f]
    <3>1. Content' = Content
      BY <1>3, <2>1, MapsSame
    <3> QED BY <1>3, <1>4, <1>6, <3>1, Withdraws
  <2>2. CASE Content'[f] = 0
    BY <1>3, <1>4, <1>6, <2>2, Erases
  <2> QED BY <1>5, <2>1, <2>2
<1>7. CASE Standing'[f] # NoPromise
  <2>1. promise[f].kind = "held" /\ native[f].gen = promise[f].gen /\ Standing'[f] = promise[f]
    <3>1. promise[f].kind \in {"none", "held", "removed"}
      BY <1>1 DEF Promise
    <3>2. promise[f].kind # "none"
      BY <1>7 DEF Standing, RegisterInv
    <3> QED BY <1>2, <1>7, <3>1, <3>2 DEF Standing, Untouched
  <2>2. Standing[f] = promise[f]
    BY <2>1 DEF Standing, Untouched
  <2>3. Content'[f] = Content[f]
    <3> DEFINE n == promise[f].gen
    <3>1. Holds(f, n) /\ n \in 1..issued /\ issued \in Nat
      BY <2>1 DEF IInv, PromiseInv, TypeOK
    <3>2. /\ n \in Nat \ {0} /\ native[f] = Stamped(n)
          /\ authority[f] \in {Record("pending", n), Record("native", n)}
      BY <2>1, <3>1 DEF Holds, Record
    <3>3. Content[f] = n /\ Content'[f] = n
      BY <3>2 DEF ContentInv, Chosen, Record
    <3> QED BY <3>3
  <2>4. Content' = Content /\ Standing' = Standing
    BY <1>3, <2>1, <2>2, <2>3, MapsSame
  <2> QED BY <1>4, <2>4, Discards
<1> QED
  BY <1>6, <1>7

\* Every step of the store is one of the register, or changes nothing of it.
LEMMA StepRefines ==
  ASSUME IInv, NumberInv, RegisterInv, ContentInv,
         IInv', NumberInv', SelectsChosen', ContentInv', HeldIsSelected', RemovedLeavesNothing',
         [Next]_vars
  PROVE  [Register!RNext]_(Register!rvars)
<1>1. ASSUME NEW p \in Procs, Transact(p), Next PROVE Register!RNext
  <2>1. CASE Acquire(p) \/ GiveUp(p) \/ ReadFails(p)
    <3>1. UNCHANGED <<storage, promise, tainted, seen>>
      BY <2>1 DEF Acquire, GiveUp, ReadFails, history
    <3> QED BY <1>1, <3>1, MapsSame, Discards DEF storage
  <2> QED
    BY <1>1, <2>1, ReleaseRefines, ReadRefines, SaveRefines, RemoveRefines DEF Transact
<1>2. ASSUME NEW p \in Procs, Crash(p), Next PROVE Register!RNext
  BY <1>2, MapsSame, Forgets DEF Crash, storage, history
<1>3. ASSUME NEW p \in Procs, NEW o \in {"read", "save", "remove"}, NEW f \in Profiles,
             Call(p, o, f), Next
      PROVE  Register!RNext
  BY <1>3, MapsSame, Forgets DEF Call, storage, history
<1>4. CASE RemoveAbandonedLock /\ Next
  BY <1>4, MapsSame, Discards DEF RemoveAbandonedLock, storage, commands, history
<1>5. ASSUME NEW f \in Profiles, Next,
             FileModeRemove(f) \/ \E t \in LegacyTokens : FileModeSave(f, t)
      PROVE  Register!RNext
  <2>1. NoCredential.gen = 0 /\ \A t : Unstamped(t).gen = 0
    BY DEF NoCredential, Unstamped
  <2> QED BY <1>5, <2>1, FileModeRefines DEF FileModeSave, FileModeRemove
<1>6. CASE UNCHANGED vars
  <2>1. Content' = Content /\ Standing' = Standing /\ Handed' = Handed /\ Spent' = Spent
    BY <1>6, MapsSame DEF vars, storage, Handed, Spent, InFlight
  <2> QED BY <2>1 DEF Register!rvars, Handed
<1> QED
  BY <1>1, <1>2, <1>3, <1>4, <1>5, <1>6 DEF Next

\* The store implements the register: whatever fails, crashes, or comes back,
\* reads answer with the one credential that was saved last or with nothing,
\* and a generation that has left never returns.
THEOREM StoreImplementsRegister == Spec => ImplementsRegister
<1>1. Init => NumberInv /\ RegisterInv /\ Register!RInit
  <2> SUFFICES ASSUME Init PROVE NumberInv /\ RegisterInv /\ Register!RInit
    OBVIOUS
  <2>1. NumberInv
    BY DEF Init, NumberInv
  <2>2. /\ issued = 0 /\ 1..0 = {} /\ 0 <= MaxGeneration
        /\ NoCredential.gen = 0 /\ \A t : Unstamped(t).gen = 0
    <3>1. 1..0 = {}
      OBVIOUS
    <3>2. MaxGeneration \in Nat
      BY ConstantsAssumption
    <3>3. 0 <= MaxGeneration
      BY <3>2
    <3> QED BY <3>1, <3>3 DEF Init, NoCredential, Unstamped
  <2>3. \A f \in Profiles : native[f].gen = 0 /\ file[f].gen = 0
    BY <2>2 DEF Init
  <2>4. RegisterInv
    BY <2>2, <2>3 DEF Init, RegisterInv
  <2>5. Content = [f \in Profiles |-> 0]
    <3>1. \A f \in Profiles : authority[f].backend = "none"
      BY DEF Init, NoAuthority
    <3>2. \A f \in Profiles : Selection(f, AllUp).gen = 0
      BY <2>2, <3>1 DEF Selection, LegacyChoice
    <3> QED BY <3>2 DEF Content
  <2>6. Spent = {}
    BY <2>2 DEF Spent
  <2>7. Standing = [f \in Profiles |-> NoPromise]
    BY DEF Init, Standing, NoPromise
  <2>8. [p \in Procs |-> seen[p].gen] = [p \in Procs |-> 0]
    BY <2>2 DEF Init
  <2> QED
    BY <2>1, <2>4, <2>5, <2>6, <2>7, <2>8 DEF Register!RInit, Register!NoPromise, NoPromise
<1>2. Spec => [](NumberInv /\ RegisterInv)
  BY <1>1, NextNumberInv, NextRegisterInv, InvariantHolds, PTL DEF Spec
<1>3. IInv /\ NumberInv => ContentInv /\ SelectsChosen /\ HeldIsSelected /\ RemovedLeavesNothing
  BY ContentHolds, OnlyChosen, InvariantSuffices
<1>4. IInv /\ NumberInv /\ RegisterInv /\ ContentInv /\ IInv' /\ NumberInv' /\ SelectsChosen'
        /\ ContentInv' /\ HeldIsSelected' /\ RemovedLeavesNothing' /\ [Next]_vars =>
        [Register!RNext]_(Register!rvars)
  BY StepRefines
<1> QED
  BY <1>1, <1>2, <1>3, <1>4, InvariantHolds, PTL DEF Spec, ImplementsRegister, Register!RSpec
=============================================================================
