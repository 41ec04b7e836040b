------------------------- MODULE ProfileSessionProofs -------------------------
(***************************************************************************)
(* Proofs about ProfileSession, for any number of commands, generations    *)
(* and tokens: no grant is left behind in silence, what a failed save      *)
(* makes the client revoke is never read, and refreshes use the newest     *)
(* token.                                                                  *)
(***************************************************************************)
EXTENDS ProfileSessionInvariant, CredentialStoreProofs

-----------------------------------------------------------------------------
(* What the session does to the store *)

\* A command that ends outside the store leaves the store's invariant as it is.
LEMMA ExitStep ==
  ASSUME IInv, NEW p \in Procs, pc[p] = "idle", Exit(p)
  PROVE  IInv'
<1> USE DEF Exit, storage, history
<1>1. TypeOK'
  BY ValueTypes DEF IInv, TypeOK, Outcome
<1>2. LockInv' /\ StampInv' /\ RefusedInv' /\ PromiseInv'
  BY DEF IInv, LockInv, StampInv, RefusedInv, PromiseInv, Dead, Holds
<1>3. SaveInv' /\ RemoveInv'
  BY DEF IInv, SaveInv, RemoveInv, Fresh, Reached, OnlyIn, Holds, Dead, TypeOK, InLock,
         SaveSteps, RemoveSteps
<1> QED
  BY <1>1, <1>2, <1>3 DEF IInv

\* Every other step of the session is one of the store, or leaves it alone.
LEMMA SessionStoreStep ==
  ASSUME [SNext]_svars
  PROVE  [Next]_vars \/ \E p \in Procs : pc[p] = "idle" /\ Exit(p)
<1> USE DEF At
<1>1. Main \in Profiles
  BY SessionAssumption
<1>2. \A p \in Procs, o \in {"read", "save", "remove"} : Operate(p, o) => Next
  BY <1>1 DEF Operate, Next
<1>3. ASSUME NEW p \in Procs, Advance(p)
      PROVE  [Next]_vars \/ (pc[p] = "idle" /\ Exit(p))
  <2>1. CASE Enter(p) \/ FoundNothing(p) \/ Revoke(p) \/ Authorize(p) \/ Refresh(p)
    BY <1>2, <1>3, <2>1 DEF Enter, FoundNothing, Revoke, Authorize, Refresh
  <2>2. CASE Busy(p) \/ Unlock(p)
    BY <2>2 DEF Busy, Unlock
  <2>3. CASE StoreStep(p)
    BY <2>3 DEF StoreStep, Next
  <2>4. CASE ReadFailed(p) \/ FoundRecord(p) \/ RevokePrevious(p) \/ NotRefreshed(p)
             \/ SaveEnded(p) \/ Compensate(p) \/ Removed(p)
    BY <2>4 DEF ReadFailed, FoundRecord, RevokePrevious, NotRefreshed, SaveEnded, Compensate, Removed
  <2> QED BY <1>3, <2>1, <2>2, <2>3, <2>4 DEF Advance
<1>4. ASSUME NEW p \in Procs, Kill(p)
      PROVE  Next \/ (pc[p] = "idle" /\ Exit(p))
  BY <1>4 DEF Kill, Next
<1>5. ASSUME NEW p \in Procs, NEW k \in {"login", "logout", "use"}, Start(p, k)
      PROVE  UNCHANGED vars
  BY <1>5 DEF Start
<1>6. RemoveProfileLock \/ RemoveStoreLock => [Next]_vars
  BY DEF RemoveProfileLock, RemoveStoreLock, Next
<1>7. UNCHANGED svars => UNCHANGED vars
  BY DEF svars
<1> QED
  BY <1>3, <1>4, <1>5, <1>6, <1>7 DEF SNext

\* So the store's invariants hold in the session as well.
LEMMA SessionKeepsStore == IInv /\ NumberInv /\ [SNext]_svars => IInv' /\ NumberInv'
<1> SUFFICES ASSUME IInv, NumberInv, [SNext]_svars PROVE IInv' /\ NumberInv'
  OBVIOUS
<1>1. CASE [Next]_vars
  BY <1>1, NextInvariant, NextNumberInv
<1>2. ASSUME NEW p \in Procs, pc[p] = "idle", Exit(p) PROVE IInv' /\ NumberInv'
  <2>1. IInv'
    BY <1>2, ExitStep
  <2>2. authority' = authority
    BY <1>2 DEF Exit, storage
  <2> QED BY <2>1, <2>2 DEF NumberInv
<1> QED
  BY <1>1, <1>2, SessionStoreStep

THEOREM SessionStoreInvariant == SSpec => [](IInv /\ NumberInv)
<1>1. SInit => IInv /\ NumberInv
  BY InitInvariant DEF SInit, Init, NumberInv
<1> QED
  BY <1>1, SessionKeepsStore, PTL DEF SSpec

-----------------------------------------------------------------------------
(* Types and turns *)

\* Something is put at the end of a sequence.
LEMMA AppendNat ==
  ASSUME NEW s \in Seq(Nat), NEW n \in Nat
  PROVE  /\ Append(s, n) \in Seq(Nat)
         /\ Len(s) \in Nat /\ Len(Append(s, n)) = Len(s) + 1
         /\ Append(s, n)[Len(s) + 1] = n
         /\ \A i \in 1..Len(s) : s[i] \in Nat /\ Append(s, n)[i] = s[i]
         /\ 1..Len(Append(s, n)) = 1..Len(s) \cup {Len(s) + 1}
<1> QED OBVIOUS

\* Only the lock's acquisition by a mutation draws a generation.
LEMMA IssuedStep ==
  ASSUME NEW p \in Procs, Transact(p)
  PROVE  issued' = issued \/ (Acquire(p) /\ issued' = issued + 1 /\ op[p] # "read")
<1> USE DEF SaveFrame
<1>1. CASE Acquire(p)
  BY <1>1 DEF Acquire
<1>2. CASE GiveUp(p) \/ Release(p) \/ ReadStored(p) \/ ReadFails(p)
  BY <1>2 DEF GiveUp, Release, ReadStored, ReadFails
<1>3. CASE Save(p)
  BY <1>3 DEF Save, ClaimFails, ClaimFile,
        ClaimNative, CleanFallback, CleanFallbackFails, NativeUnavailable, Recover,
        Retire, RetireFails, SaveFile, SaveFileFails, SaveFileLeavesLock,
        SaveNative, SaveNativeFails, SavePending, SavePendingFails
<1>4. CASE Remove(p)
  BY <1>4 DEF Remove, RemoveNative, RemoveNativeFails,
        RemoveFile, RemoveFileFails, RemoveAuthority, RemoveAuthorityFails
<1> QED
  BY <1>1, <1>2, <1>3, <1>4 DEF Transact

\* What the server hands out is a new token of an old or of a new grant.
LEMMA MintToken ==
  ASSUME SessionTypeOK, NEW g \in 1..(Len(grant) + 1), NEW spent, Mint(g, spent)
  PROVE  /\ grant' \in Seq(Nat) /\ Len(grant) \in Nat /\ Len(grant') = Len(grant) + 1
         /\ grant'[Len(grant')] = g
         /\ \A t \in Tokens : grant[t] \in 1..t /\ grant'[t] = grant[t]
         /\ Tokens' = Tokens \cup {Len(grant')}
         /\ Len(grant') \notin Tokens
         /\ \A t \in Tokens' : grant'[t] \in 1..t
         /\ valid' = (valid \ spent) \cup {Len(grant')}
         /\ valid' \subseteq Tokens'
<1>1. /\ grant \in Seq(Nat) /\ Len(grant) \in Nat /\ g \in Nat /\ g <= Len(grant) + 1
      /\ \A t \in Tokens : grant[t] \in 1..t
      /\ valid \subseteq Tokens
      /\ grant' = Append(grant, g)
      /\ valid' = (valid \ spent) \cup {Len(grant')}
  BY DEF SessionTypeOK, Mint
<1>2. /\ grant' \in Seq(Nat) /\ Len(grant') = Len(grant) + 1
      /\ grant'[Len(grant) + 1] = g
      /\ \A i \in 1..Len(grant) : grant[i] \in Nat /\ grant'[i] = grant[i]
      /\ 1..Len(grant') = 1..Len(grant) \cup {Len(grant) + 1}
  BY <1>1, AppendNat
<1>3. \A t \in Tokens' : grant'[t] \in 1..t
  BY <1>1, <1>2 DEF Tokens
<1>4. /\ Tokens' = Tokens \cup {Len(grant) + 1}
      /\ Len(grant) + 1 \notin Tokens
  BY <1>1, <1>2 DEF Tokens
<1>5. valid' = (valid \ spent) \cup {Len(grant) + 1}
  BY <1>1, <1>2
<1>6. valid' \subseteq Tokens'
  BY <1>1, <1>4, <1>5
<1>7. \A t \in Tokens : grant[t] \in 1..t /\ grant'[t] = grant[t]
  BY <1>1, <1>2 DEF Tokens
<1> QED
  BY <1>1, <1>2, <1>3, <1>4, <1>5, <1>6, <1>7

\* A login or a refresh gets a new token in hand, loses it, or gets none.
LEMMA Minting ==
  ASSUME SessionTypeOK, NEW p \in Procs, Authorize(p) \/ Refresh(p)
  PROVE  \/ Finish(p) /\ UNCHANGED <<vars, server>>
         \/ \E g \in 1..(Len(grant) + 1) : \E spent :
              /\ Mint(g, spent)
              /\ \/ Finish(p) /\ UNCHANGED vars
                 \/ hand' = [hand EXCEPT ![p] = Len(grant')] /\ Operate(p, "save")
<1>1. Len(grant) + 1 \in 1..(Len(grant) + 1)
  BY DEF SessionTypeOK
<1>2. ASSUME Held(p) \in valid PROVE grant[Held(p)] \in 1..(Len(grant) + 1)
  <2>1. Held(p) \in Tokens /\ grant[Held(p)] \in 1..Held(p)
    BY <1>2 DEF SessionTypeOK
  <2> QED BY <1>1, <2>1 DEF Tokens
<1> QED
  BY <1>1, <1>2 DEF Authorize, Refresh

\* A step of the store adds at most one payload, for a generation just drawn.
LEMMA PayloadStep ==
  ASSUME SessionTypeOK, IInv, NEW p \in Procs, StoreStep(p)
  PROVE  /\ payload' \in Seq(Nat) /\ Len(payload') = issued'
         /\ \A g \in 1..issued : payload'[g] = payload[g]
         /\ \/ issued' = issued /\ payload' = payload
            \/ /\ Acquire(p) /\ issued' = issued + 1 /\ op[p] # "read"
               /\ 1..issued' = 1..issued \cup {issued'}
               /\ payload'[issued'] = IF op[p] = "save" THEN hand[p] ELSE 0
<1>1. payload \in Seq(Nat) /\ Len(payload) = issued /\ issued \in Nat /\ hand[p] \in Nat
  BY DEF SessionTypeOK, IInv, TypeOK
<1>2. CASE issued' = issued
  BY <1>1, <1>2 DEF StoreStep
<1>3. CASE Acquire(p) /\ issued' = issued + 1 /\ op[p] # "read"
  <2> DEFINE x == IF op[p] = "save" THEN hand[p] ELSE 0
  <2>1. payload' = Append(payload, x) /\ x \in Nat
    BY <1>1, <1>3 DEF StoreStep
  <2>2. /\ Append(payload, x) \in Seq(Nat)
        /\ Len(Append(payload, x)) = Len(payload) + 1
        /\ Append(payload, x)[Len(payload) + 1] = x
        /\ \A i \in 1..Len(payload) : Append(payload, x)[i] = payload[i]
        /\ 1..Len(Append(payload, x)) = 1..Len(payload) \cup {Len(payload) + 1}
    BY <1>1, <2>1, AppendNat
  <2> QED BY <1>1, <1>3, <2>1, <2>2
<1> QED
  BY <1>2, <1>3, IssuedStep DEF StoreStep

\* A store operation's step is its command's own: it takes away, or writes the
\* generation of its command, and taints nothing.
LEMMA TransactEffects ==
  ASSUME IInv, NEW p \in Procs, Transact(p), NEW f \in Profiles
  PROVE  /\ pc[p] # "idle"
         /\ \A q \in Procs \ {p} :
              /\ pc'[q] = pc[q] /\ op'[q] = op[q] /\ target'[q] = target[q]
              /\ generation'[q] = generation[q] /\ outcome'[q] = outcome[q]
              /\ seen'[q] = seen[q]
         /\ pc'[p] # "idle" => op'[p] = op[p] /\ target'[p] = target[p]
         /\ native'[f] \in {native[f], NoCredential, Stamped(generation[p])}
         /\ file'[f] \in {file[f], NoCredential, Stamped(generation[p])}
         /\ tainted'[f] => tainted[f]
<1> USE DEF Goto, Conclude, Return, SaveFrame, storage, history, Displace,
            SetAuthority, SetNative, SetFile
<1>1. TypeOK
  BY DEF IInv
<1>2. CASE Save(p)
  <2> USE <1>1 DEF TypeOK
  <2>1. CASE SavePending(p) \/ SavePendingFails(p)
    BY <2>1 DEF SavePending, SavePendingFails
  <2>2. CASE SaveNative(p) \/ NativeUnavailable(p) \/ SaveNativeFails(p)
    BY <2>2 DEF SaveNative, NativeUnavailable, SaveNativeFails
  <2>3. CASE SaveFile(p) \/ SaveFileFails(p) \/ SaveFileLeavesLock(p)
    BY <2>3 DEF SaveFile, SaveFileFails, SaveFileLeavesLock
  <2>4. CASE ClaimNative(p) \/ ClaimFails(p, "claimNative", "native")
              \/ ClaimFile(p) \/ ClaimFails(p, "claimFile", "fallback")
    BY <2>4 DEF ClaimNative, ClaimFile, ClaimFails
  <2>5. CASE CleanFallback(p) \/ CleanFallbackFails(p)
    BY <2>5 DEF CleanFallback, CleanFallbackFails
  <2>6. CASE Recover(p) \/ Retire(p) \/ RetireFails(p)
    BY <2>6 DEF Recover, Retire, RetireFails
  <2> QED BY <1>2, <2>1, <2>2, <2>3, <2>4, <2>5, <2>6 DEF Save
<1>3. CASE Remove(p)
  <2> USE <1>1 DEF TypeOK
  <2>1. CASE RemoveNative(p) \/ RemoveNativeFails(p)
    BY <2>1 DEF RemoveNative, RemoveNativeFails
  <2>2. CASE RemoveFile(p) \/ RemoveFileFails(p)
    BY <2>2 DEF RemoveFile, RemoveFileFails
  <2>3. CASE RemoveAuthority(p) \/ RemoveAuthorityFails(p)
    BY <2>3 DEF RemoveAuthority, RemoveAuthorityFails
  <2> QED BY <1>3, <2>1, <2>2, <2>3 DEF Remove
<1>4. CASE Acquire(p)
  BY <1>1, <1>4 DEF Acquire, TypeOK, FirstStep
<1>5. CASE GiveUp(p)
  BY <1>1, <1>5 DEF GiveUp, TypeOK
<1>6. CASE Release(p)
  BY <1>1, <1>6 DEF Release, TypeOK
<1>7. CASE ReadStored(p) \/ ReadFails(p)
  BY <1>1, <1>7 DEF ReadStored, ReadFails, TypeOK
<1> QED
  BY <1>2, <1>3, <1>4, <1>5, <1>6, <1>7 DEF Transact

\* The commands' steps keep the types: first of what is the commands' own,
LEMMA CommandTypes ==
  ASSUME SessionTypeOK, [SNext]_svars
  PROVE  /\ profileLock' \in Procs \cup {Free, Abandoned}
         /\ step' \in [Procs -> Steps]
         /\ command' \in [Procs -> {"none", "login", "logout", "use"}]
<1> USE DEF At, Move, Finish, Exit, Operate, session
<1>1. /\ profileLock \in Procs \cup {Free, Abandoned}
      /\ step \in [Procs -> Steps]
      /\ command \in [Procs -> {"none", "login", "logout", "use"}]
  BY DEF SessionTypeOK
<1>2. ASSUME NEW p \in Procs, NEW s \in Steps, Move(p, s)
      PROVE  step' \in [Procs -> Steps]
  BY <1>1, <1>2
<1>3. ASSUME NEW p \in Procs, Advance(p) \/ Kill(p) PROVE step' \in [Procs -> Steps]
  <2>1. StoreSteps \cup {"idle", "unlock", "revokePrevious", "revoke", "authorize", "use", "compensate"} \subseteq Steps
    BY DEF Steps
  <2>2. CASE Enter(p) \/ Busy(p) \/ Unlock(p) \/ Kill(p)
    BY <1>2, <2>1, <2>2 DEF Enter, Busy, Unlock, Kill, StoreSteps
  <2>3. CASE ReadFailed(p) \/ FoundRecord(p) \/ NotRefreshed(p) \/ SaveEnded(p) \/ Removed(p)
    BY <1>2, <2>1, <2>3 DEF ReadFailed, FoundRecord, NotRefreshed, SaveEnded, Removed
  <2>4. CASE FoundNothing(p)
    BY <1>2, <2>1, <2>4 DEF FoundNothing, StoreSteps
  <2>5. CASE RevokePrevious(p) \/ Revoke(p) \/ Compensate(p)
    BY <1>2, <2>1, <2>5 DEF RevokePrevious, Revoke, Compensate, StoreSteps
  <2>6. CASE Authorize(p) \/ Refresh(p)
    BY <1>2, <2>1, <2>6 DEF Authorize, Refresh, StoreSteps
  <2>7. CASE StoreStep(p)
    BY <1>1, <2>7 DEF StoreStep
  <2> QED BY <1>3, <2>2, <2>3, <2>4, <2>5, <2>6, <2>7 DEF Advance
<1>4. ASSUME NEW p \in Procs, Advance(p) \/ Kill(p)
      PROVE  /\ profileLock' \in Procs \cup {Free, Abandoned}
             /\ command' \in [Procs -> {"none", "login", "logout", "use"}]
  BY <1>1, <1>4 DEF Advance, Kill, Enter, Busy, Unlock, StoreStep, ReadFailed, FoundNothing,
     FoundRecord, RevokePrevious, Revoke, Authorize, NotRefreshed, Refresh, SaveEnded,
     Compensate, Removed
<1>5. ASSUME NEW p \in Procs, NEW k \in {"login", "logout", "use"}, Start(p, k)
      PROVE  /\ profileLock' \in Procs \cup {Free, Abandoned}
             /\ step' \in [Procs -> Steps]
             /\ command' \in [Procs -> {"none", "login", "logout", "use"}]
  BY <1>1, <1>5 DEF Start, Steps
<1>6. CASE RemoveProfileLock \/ RemoveStoreLock \/ UNCHANGED svars
  BY <1>1, <1>6 DEF RemoveProfileLock, RemoveStoreLock, svars
<1> QED
  BY <1>3, <1>4, <1>5, <1>6 DEF SNext

\* then of the tokens.
LEMMA TokenTypes ==
  ASSUME SessionTypeOK, TurnInv, IInv, [SNext]_svars
  PROVE  /\ hand' \in [Procs -> Nat]
         /\ payload' \in Seq(Nat) /\ Len(payload') = issued'
         /\ grant' \in Seq(Nat) /\ \A t \in Tokens' : grant'[t] \in 1..t
         /\ valid' \subseteq Tokens' /\ compensated' \subseteq Tokens'
<1> DEFINE Goal ==
      /\ hand' \in [Procs -> Nat]
      /\ payload' \in Seq(Nat) /\ Len(payload') = issued'
      /\ grant' \in Seq(Nat) /\ \A t \in Tokens' : grant'[t] \in 1..t
      /\ valid' \subseteq Tokens' /\ compensated' \subseteq Tokens'
<1> SUFFICES Goal
  OBVIOUS
<1> USE DEF At, Move, Finish, Exit, Operate, Call, session, server, vars
<1>1. /\ hand \in [Procs -> Nat] /\ Len(grant) \in Nat
      /\ payload \in Seq(Nat) /\ Len(payload) = issued
      /\ grant \in Seq(Nat) /\ valid \subseteq Tokens /\ compensated \subseteq Tokens
  BY DEF SessionTypeOK
<1>2. \A t \in Tokens : grant[t] \in 1..t
  BY DEF SessionTypeOK
\* Steps of which neither the store's payload nor the server knows anything.
<1>3. ASSUME UNCHANGED <<issued, payload, grant>>, valid' \subseteq valid,
             compensated' \subseteq Tokens,
             NEW p \in Procs, hand' = hand \/ hand' = [hand EXCEPT ![p] = 0]
      PROVE  Goal
  <2>1. hand' \in [Procs -> Nat]
    BY <1>1, <1>3
  <2>2. Tokens' = Tokens
    BY <1>3 DEF Tokens
  <2> QED BY <1>1, <1>2, <1>3, <2>1, <2>2
<1>4. ASSUME NEW p \in Procs,
             \/ Enter(p) \/ Busy(p) \/ Unlock(p) \/ ReadFailed(p) \/ FoundNothing(p)
             \/ FoundRecord(p) \/ NotRefreshed(p) \/ SaveEnded(p) \/ Removed(p)
      PROVE  Goal
  <2>1. UNCHANGED <<issued, payload, grant, valid, compensated>>
    BY <1>4 DEF Enter, Busy, Unlock, ReadFailed, FoundNothing, FoundRecord, NotRefreshed,
                SaveEnded, Removed
  <2>2. hand' = hand \/ hand' = [hand EXCEPT ![p] = 0]
    BY <1>4 DEF Enter, Busy, Unlock, ReadFailed, FoundNothing, FoundRecord, NotRefreshed,
                SaveEnded, Removed
  <2> QED BY <1>1, <1>3, <2>1, <2>2
<1>5. ASSUME NEW p \in Procs, RevokePrevious(p) \/ Revoke(p) \/ Compensate(p)
      PROVE  Goal
  <2>1. UNCHANGED <<issued, payload, grant>>
    BY <1>5 DEF RevokePrevious, Revoke, Compensate, Revoked
  <2>2. valid' \subseteq valid
    BY <1>5 DEF RevokePrevious, Revoke, Compensate, Revoked
  <2>3. hand' = hand \/ hand' = [hand EXCEPT ![p] = 0]
    BY <1>5 DEF RevokePrevious, Revoke, Compensate
  <2>4. compensated' \subseteq Tokens
    <3>1. Compensate(p) => hand[p] \in Tokens
      BY DEF Compensate, TurnInv
    <3> QED BY <1>1, <1>5, <3>1 DEF RevokePrevious, Revoke, Compensate
  <2> QED BY <1>3, <2>1, <2>2, <2>3, <2>4
<1>6. ASSUME NEW p \in Procs, Authorize(p) \/ Refresh(p) PROVE Goal
  <2>1. UNCHANGED <<issued, payload, compensated>>
    BY <1>6 DEF Authorize, Refresh
  <2>2. CASE UNCHANGED server /\ hand' = [hand EXCEPT ![p] = 0]
    BY <1>1, <1>3, <2>1, <2>2
  <2>3. ASSUME NEW g \in 1..(Len(grant) + 1), NEW spent, Mint(g, spent),
               hand' = [hand EXCEPT ![p] = Len(grant')] \/ hand' = [hand EXCEPT ![p] = 0]
        PROVE  Goal
    <3>1. Len(grant') \in Nat
      BY <1>1, <2>3, MintToken
    <3>2. hand' \in [Procs -> Nat]
      BY <1>1, <2>3, <3>1
    <3>3. compensated' \subseteq Tokens'
      BY <1>1, <2>1, <2>3, MintToken
    <3>4. /\ grant' \in Seq(Nat) /\ \A t \in Tokens' : grant'[t] \in 1..t
          /\ valid' \subseteq Tokens'
      BY <2>3, MintToken
    <3> QED BY <1>1, <2>1, <3>2, <3>3, <3>4
  <2> QED BY <1>6, <2>2, <2>3, Minting DEF Finish
<1>7. ASSUME NEW p \in Procs, StoreStep(p) PROVE Goal
  <2>1. UNCHANGED <<hand, grant, valid, compensated>>
    BY <1>7 DEF StoreStep
  <2>2. payload' \in Seq(Nat) /\ Len(payload') = issued'
    BY <1>7, PayloadStep
  <2> QED BY <1>1, <1>2, <2>1, <2>2 DEF Tokens
<1>8. ASSUME NEW p \in Procs, Kill(p) PROVE Goal
  <2>1. UNCHANGED <<issued, payload, grant, valid, compensated>>
    BY <1>8 DEF Kill, Crash
  <2> QED BY <1>1, <1>3, <1>8, <2>1 DEF Kill
<1>9. CASE \/ \E p \in Procs, k \in {"login", "logout", "use"} : Start(p, k)
           \/ RemoveProfileLock \/ RemoveStoreLock \/ UNCHANGED svars
  <2>1. UNCHANGED <<issued, payload, grant, valid, compensated, hand>>
    BY <1>9 DEF Start, RemoveProfileLock, RemoveStoreLock, RemoveAbandonedLock, commands, svars
  <2> QED BY <1>1, <1>2, <2>1 DEF Tokens
<1> QED
  BY <1>4, <1>5, <1>6, <1>7, <1>8, <1>9 DEF SNext, Advance

\* A command that is past its first step has the others wait before theirs.
LEMMA Alone ==
  ASSUME TurnInv, NEW p \in Procs, NEW q \in Procs \ {p}, step[p] \notin {"idle", "lock"}
  PROVE  step[q] \in {"idle", "lock"} /\ pc[q] = "idle" /\ hand[q] = 0
BY DEF TurnInv, StoreSteps

\* The turns, and what is in hand, are kept.
LEMMA Turns ==
  ASSUME SessionTypeOK, TurnInv, IInv, TypeOK', SessionTypeOK', [SNext]_svars
  PROVE  TurnInv'
<1> USE DEF At, session, server
<1>1. /\ profileLock \in Procs \cup {Free, Abandoned}
      /\ step \in [Procs -> Steps] /\ hand \in [Procs -> Nat]
      /\ pc \in [Procs -> InLock \cup {"idle", "lock"}] /\ op \in [Procs -> Operation]
      /\ Free \notin Procs /\ Abandoned \notin Procs
  BY ConstantsAssumption DEF SessionTypeOK, IInv, TypeOK, Free, Abandoned
\* A step of p outside the store, with the profile lock.
<1>2. ASSUME NEW p \in Procs, profileLock' = p, NEW s, Move(p, s),
             \A q \in Procs \ {p} : step[q] \in {"idle", "lock"} /\ pc[q] = "idle" /\ hand[q] = 0,
             \A q \in Procs \ {p} : pc'[q] = pc[q] /\ hand'[q] = hand[q],
             pc'[p] # "idle" => s \in StoreSteps /\ op'[p] = s,
             IF s \in {"save", "compensate"} THEN hand'[p] \in Tokens' ELSE hand'[p] = 0
      PROVE  TurnInv'
  <2>1. step'[p] = s /\ \A q \in Procs \ {p} : step'[q] = step[q]
    BY <1>1, <1>2 DEF Move
  <2> QED BY <1>2, <2>1 DEF TurnInv
<1>3. \A q \in Procs : step[q] \in {"idle", "lock"} => pc[q] = "idle" /\ hand[q] = 0
  BY DEF TurnInv, StoreSteps
<1>4. ASSUME NEW p \in Procs, NEW o \in StoreSteps, Operate(p, o)
      PROVE  /\ Move(p, o) /\ pc'[p] = "lock" /\ op'[p] = o
             /\ \A q \in Procs \ {p} : pc'[q] = pc[q]
  BY <1>1, <1>4 DEF Operate, Call
<1>5. ASSUME NEW p \in Procs, Enter(p) PROVE TurnInv'
  <2>1. \A q \in Procs : step[q] \in {"idle", "lock"}
    BY <1>1, <1>5 DEF Enter, TurnInv
  <2>2. profileLock' = p /\ Operate(p, "read") /\ hand' = hand
    BY <1>5 DEF Enter
  <2> QED BY <1>2, <1>3, <1>4, <2>1, <2>2 DEF StoreSteps
<1>6. ASSUME NEW p \in Procs, profileLock' = profileLock, step[p] \notin {"idle", "lock"}
      PROVE  /\ profileLock' = p
             /\ \A q \in Procs \ {p} :
                  step[q] \in {"idle", "lock"} /\ pc[q] = "idle" /\ hand[q] = 0
  BY <1>6, Alone DEF TurnInv
<1>7. ASSUME NEW p \in Procs, Finish(p), pc' = pc, pc[p] = "idle",
             profileLock' = profileLock, step[p] \notin {"idle", "lock"}
      PROVE  TurnInv'
  <2>1. /\ Move(p, "unlock") /\ hand'[p] = 0
        /\ \A q \in Procs \ {p} : hand'[q] = hand[q]
    BY <1>1, <1>7 DEF Finish
  <2> QED BY <1>2, <1>6, <1>7, <2>1
<1>8. ASSUME NEW p \in Procs, NEW s, s \notin {"save", "compensate"}, Move(p, s), UNCHANGED vars,
             hand' = hand, pc[p] = "idle", profileLock' = profileLock,
             step[p] \in {"read", "revokePrevious", "revoke"}
      PROVE  TurnInv'
  <2>1. hand'[p] = 0 /\ pc' = pc /\ step[p] \notin {"idle", "lock"}
    BY <1>8 DEF TurnInv, vars
  <2>2. /\ profileLock' = p
        /\ \A q \in Procs \ {p} :
             step[q] \in {"idle", "lock"} /\ pc[q] = "idle" /\ hand[q] = 0
    BY <1>6, <1>8, <2>1
  <2> QED BY <1>2, <1>8, <2>1, <2>2
<1>9. ASSUME NEW p \in Procs, Operate(p, "remove"),
             hand' = hand, profileLock' = profileLock,
             step[p] \in {"read", "revoke"}
      PROVE  TurnInv'
  <2>1. hand'[p] = 0 /\ step[p] \notin {"idle", "lock"} /\ "remove" \in StoreSteps
    BY <1>9 DEF TurnInv, StoreSteps
  <2>2. /\ profileLock' = p
        /\ \A q \in Procs \ {p} :
             step[q] \in {"idle", "lock"} /\ pc[q] = "idle" /\ hand[q] = 0
    BY <1>6, <1>9, <2>1
  <2>3. /\ Move(p, "remove") /\ op'[p] = "remove"
        /\ \A q \in Procs \ {p} : pc'[q] = pc[q]
    BY <1>4, <1>9, <2>1
  <2> QED BY <1>2, <1>9, <2>1, <2>2, <2>3
<1>10. ASSUME NEW p \in Procs,
             \/ ReadFailed(p) \/ NotRefreshed(p) \/ Removed(p) \/ Compensate(p)
             \/ FoundNothing(p) \/ FoundRecord(p) \/ RevokePrevious(p) \/ Revoke(p)
      PROVE  TurnInv'
  <2>1. CASE ReadFailed(p) \/ NotRefreshed(p) \/ Removed(p) \/ Compensate(p)
    BY <1>7, <2>1 DEF ReadFailed, NotRefreshed, Removed, Compensate, vars
  <2>2. CASE FoundRecord(p)
    BY <1>8, <2>2 DEF FoundRecord
  <2>3. CASE FoundNothing(p)
    <3>1. /\ step[p] = "read" /\ pc[p] = "idle" /\ profileLock' = profileLock
          /\ \/ Move(p, "authorize") /\ UNCHANGED <<vars, hand>>
             \/ Operate(p, "remove") /\ UNCHANGED hand
             \/ Finish(p) /\ UNCHANGED vars
      BY <2>3 DEF FoundNothing
    <3> QED BY <1>7, <1>8, <1>9, <3>1 DEF vars
  <2>4. CASE RevokePrevious(p)
    <3>1. /\ step[p] = "revokePrevious" /\ pc[p] = "idle" /\ profileLock' = profileLock /\ UNCHANGED vars
          /\ (Move(p, "authorize") /\ UNCHANGED hand) \/ Finish(p)
      BY <2>4 DEF RevokePrevious
    <3> QED BY <1>7, <1>8, <3>1 DEF vars
  <2>5. CASE Revoke(p)
    <3>1. /\ step[p] = "revoke" /\ pc[p] = "idle" /\ profileLock' = profileLock
          /\ (Operate(p, "remove") /\ UNCHANGED hand) \/ (Finish(p) /\ UNCHANGED vars)
      BY <2>5 DEF Revoke
    <3> QED BY <1>7, <1>8, <1>9, <3>1 DEF vars
  <2> QED BY <1>10, <2>1, <2>2, <2>3, <2>4, <2>5
<1>11. ASSUME NEW p \in Procs, Authorize(p) \/ Refresh(p) PROVE TurnInv'
  <2>1. step[p] \in {"authorize", "use"} /\ pc[p] = "idle" /\ profileLock' = profileLock
    BY <1>11 DEF Authorize, Refresh
  <2>2. CASE Finish(p) /\ UNCHANGED vars
    BY <1>7, <2>1, <2>2 DEF vars
  <2>3. CASE hand' = [hand EXCEPT ![p] = Len(grant')] /\ Operate(p, "save")
             /\ \E g \in 1..(Len(grant) + 1) : \E spent : Mint(g, spent)
    <3>1. Len(grant') \in Tokens'
      BY <2>3, MintToken
    <3>2. hand'[p] \in Tokens' /\ \A q \in Procs \ {p} : hand'[q] = hand[q]
      BY <1>1, <2>3, <3>1
    <3> QED BY <1>2, <1>4, <1>6, <2>1, <2>3, <3>2 DEF StoreSteps
  <2> QED BY <1>11, <2>2, <2>3, Minting
<1>12. ASSUME NEW p \in Procs, SaveEnded(p) PROVE TurnInv'
  <2>1. step[p] = "save" /\ pc[p] = "idle" /\ profileLock' = profileLock /\ UNCHANGED vars
        /\ grant' = grant
    BY <1>12 DEF SaveEnded
  <2>2. CASE Finish(p)
    BY <1>7, <2>1, <2>2 DEF vars
  <2>3. CASE Move(p, "compensate") /\ UNCHANGED hand
    <3>1. hand'[p] \in Tokens'
      BY <2>1, <2>3 DEF TurnInv, Tokens
    <3> QED BY <1>2, <1>6, <2>1, <2>3, <3>1 DEF vars
  <2> QED BY <1>12, <2>2, <2>3 DEF SaveEnded
\* Steps that end the command, or begin it.
<1>13. ASSUME NEW p \in Procs, step' = [step EXCEPT ![p] = "idle"] \/ step' = [step EXCEPT ![p] = "lock"],
              pc'[p] = "idle", hand'[p] = 0, Tokens' = Tokens,
              profileLock' # profileLock => profileLock = p \/ profileLock = Abandoned,
              \A q \in Procs \ {p} : pc'[q] = pc[q] /\ op'[q] = op[q] /\ hand'[q] = hand[q]
       PROVE  TurnInv'
  <2>1. step'[p] \in {"idle", "lock"} /\ \A q \in Procs \ {p} : step'[q] = step[q]
    BY <1>1, <1>13
  <2> QED BY <1>1, <1>13, <2>1 DEF TurnInv
<1>14. ASSUME NEW p \in Procs, Busy(p) \/ Unlock(p) PROVE TurnInv'
  <2>1. /\ step' = [step EXCEPT ![p] = "idle"] /\ pc' = pc /\ op' = op /\ hand' = hand
        /\ pc[p] = "idle" /\ step[p] \in {"lock", "unlock"} /\ grant' = grant
        /\ step[p] = "lock" => profileLock' = profileLock
    BY <1>14 DEF Busy, Unlock, Exit, Move
  <2>2. hand[p] = 0 /\ Tokens' = Tokens /\ (step[p] = "unlock" => profileLock = p)
    BY <2>1 DEF TurnInv, Tokens
  <2> QED BY <1>13, <2>1, <2>2
<1>15. ASSUME NEW p \in Procs, Kill(p) PROVE TurnInv'
  <2>1. /\ step' = [step EXCEPT ![p] = "idle"] /\ pc'[p] = "idle" /\ grant' = grant
        /\ \A q \in Procs \ {p} : pc'[q] = pc[q] /\ op'[q] = op[q]
    BY <1>1, <1>15 DEF Kill, Exit, Crash, Return, Goto, Move
  <2>2. /\ hand'[p] = 0 /\ \A q \in Procs \ {p} : hand'[q] = hand[q]
        /\ profileLock' # profileLock => profileLock = p
    BY <1>1, <1>15 DEF Kill
  <2> QED BY <1>13, <2>1, <2>2 DEF Tokens
<1>16. ASSUME NEW p \in Procs, NEW k \in {"login", "logout", "use"}, Start(p, k) PROVE TurnInv'
  <2>1. /\ step' = [step EXCEPT ![p] = "lock"] /\ pc' = pc /\ op' = op /\ hand' = hand
        /\ pc[p] = "idle" /\ step[p] = "idle" /\ grant' = grant /\ profileLock' = profileLock
    BY <1>16 DEF Start, Move, vars
  <2> QED BY <1>3, <1>13, <2>1 DEF Tokens
<1>17. ASSUME NEW p \in Procs, StoreStep(p) PROVE TurnInv'
  <2>1. /\ step' = step /\ hand' = hand /\ profileLock' = profileLock /\ grant' = grant
        /\ step[p] \in StoreSteps /\ pc[p] # "idle" /\ Transact(p)
    BY <1>17 DEF StoreStep
  <2>2. \A q \in Procs \ {p} : pc'[q] = pc[q] /\ op'[q] = op[q]
    BY <2>1, SessionAssumption, TransactEffects
  <2>3. pc'[p] # "idle" => op'[p] = op[p]
    BY <2>1, SessionAssumption, TransactEffects
  <2> QED BY <2>1, <2>2, <2>3 DEF TurnInv, Tokens
<1>18. CASE RemoveProfileLock \/ RemoveStoreLock \/ UNCHANGED svars
  <2>1. /\ step' = step /\ hand' = hand /\ grant' = grant /\ pc' = pc /\ op' = op
        /\ profileLock' # profileLock => profileLock = Abandoned
    BY <1>18 DEF RemoveProfileLock, RemoveStoreLock, RemoveAbandonedLock, commands, svars, vars
  <2> QED BY <1>1, <2>1 DEF TurnInv, Tokens
<1> QED
  BY <1>5, <1>10, <1>11, <1>12, <1>14, <1>15, <1>16, <1>17, <1>18 DEF SNext, Advance

\* Outside its operations, nothing of the store changes but who is in it.
LEMMA OutsideStore ==
  ASSUME [SNext]_svars
  PROVE  \/ \E p \in Procs : StoreStep(p)
         \/ UNCHANGED <<storage, history, issued, payload>>
<1> USE DEF Operate, Call, Exit, vars
<1>1. \A p \in Procs : Advance(p) => StoreStep(p) \/ UNCHANGED <<storage, history, issued, payload>>
  BY DEF Advance, Enter, Busy, Unlock, ReadFailed, FoundNothing, FoundRecord, RevokePrevious,
         Revoke, Authorize, NotRefreshed, Refresh, SaveEnded, Compensate, Removed,
         storage, history
<1>2. \A p \in Procs : Kill(p) => UNCHANGED <<storage, history, issued, payload>>
  BY DEF Kill, Crash
<1>3. \A p \in Procs, k \in {"login", "logout", "use"} :
        Start(p, k) => UNCHANGED <<storage, history, issued, payload>>
  BY DEF Start, storage, history
<1>4. RemoveProfileLock \/ RemoveStoreLock \/ UNCHANGED svars =>
        UNCHANGED <<storage, history, issued, payload>>
  BY DEF RemoveProfileLock, RemoveStoreLock, RemoveAbandonedLock, commands, svars, storage, history
<1> QED
  BY <1>1, <1>2, <1>3, <1>4 DEF SNext

\* No record without a generation is ever written.
LEMMA Bound ==
  ASSUME BoundInv, IInv, [SNext]_svars
  PROVE  BoundInv'
<1>1. CASE UNCHANGED <<storage, history, issued, payload>>
  BY <1>1 DEF BoundInv, storage, history
<1>2. ASSUME NEW p \in Procs, StoreStep(p) PROVE BoundInv'
  <2>1. /\ native'[Main] \in {native[Main], NoCredential, Stamped(generation[p])}
        /\ file'[Main] \in {file[Main], NoCredential, Stamped(generation[p])}
        /\ tainted'[Main] => tainted[Main]
    BY <1>2, SessionAssumption, TransactEffects DEF StoreStep
  <2>2. \A g : Stamped(g).gen = 0 => Stamped(g) = NoCredential
    BY DEF Stamped, NoCredential
  <2> QED BY <2>1, <2>2 DEF BoundInv
<1> QED
  BY <1>1, <1>2, OutsideStore

\* The types and the turns hold in every reachable state.
THEOREM SessionTurns == SSpec => [](SessionTypeOK /\ TurnInv /\ BoundInv)
<1>1. SInit => SessionTypeOK /\ TurnInv /\ BoundInv
  <2> SUFFICES ASSUME SInit PROVE SessionTypeOK /\ TurnInv /\ BoundInv
    OBVIOUS
  <2>1. <<>> \in Seq(Nat) /\ Len(<<>>) = 0 /\ 1..0 = {}
    OBVIOUS
  <2>2. SessionTypeOK
    BY <2>1 DEF SInit, Init, SessionTypeOK, Steps, Tokens
  <2>3. TurnInv
    BY DEF SInit, Init, TurnInv
  <2>4. BoundInv
    BY SessionAssumption DEF SInit, Init, BoundInv
  <2> QED BY <2>2, <2>3, <2>4
<1>2. SessionTypeOK /\ TurnInv /\ BoundInv /\ IInv /\ IInv' /\ [SNext]_svars =>
        (SessionTypeOK /\ TurnInv /\ BoundInv)'
  <2> SUFFICES ASSUME SessionTypeOK, TurnInv, BoundInv, IInv, IInv', [SNext]_svars
               PROVE  SessionTypeOK' /\ TurnInv' /\ BoundInv'
    OBVIOUS
  <2>1. SessionTypeOK'
    BY CommandTypes, TokenTypes DEF SessionTypeOK
  <2>2. TypeOK'
    BY DEF IInv
  <2> QED BY <2>1, <2>2, Turns, Bound
<1> QED
  BY <1>1, <1>2, SessionStoreInvariant, PTL DEF SSpec

-----------------------------------------------------------------------------
(* Whose step it is *)

\* A command for which nothing changes.
Same(q) ==
  /\ step'[q] = step[q] /\ pc'[q] = pc[q] /\ generation'[q] = generation[q]
  /\ outcome'[q] = outcome[q] /\ seen'[q] = seen[q]

\* Nothing the commands share changes, nor a command past its first step.
Quiet ==
  /\ UNCHANGED <<storage, history, issued, payload, server, astray, compensated, hand>>
  /\ \A q \in Procs :
       \/ step'[q] \in {"idle", "lock"}
       \/ step'[q] = "read" /\ seen'[q] = NoCredential
       \/ Same(q)

\* A step is that of the one command past its first, or changes nothing shared.
LEMMA WhoseStep ==
  ASSUME SessionTypeOK, TurnInv, IInv, [SNext]_svars
  PROVE  Quiet \/ \E p \in Procs : step[p] \notin {"idle", "lock"} /\ (Advance(p) \/ Kill(p))
<1> USE DEF Move, session, server
<1>1. /\ step \in [Procs -> Steps] /\ hand \in [Procs -> Nat]
      /\ outcome \in [Procs -> Outcome] /\ seen \in [Procs -> Credential]
      /\ pc \in [Procs -> InLock \cup {"idle", "lock"}]
  BY DEF SessionTypeOK, IInv, TypeOK
<1>2. \A q \in Procs : step[q] \in {"idle", "lock"} => pc[q] = "idle" /\ hand[q] = 0
  BY DEF TurnInv, StoreSteps
<1>3. CASE UNCHANGED svars
  BY <1>3 DEF Quiet, Same, svars, vars, storage, history
<1>4. CASE RemoveProfileLock \/ RemoveStoreLock
  BY <1>4 DEF Quiet, Same, vars, RemoveProfileLock, RemoveStoreLock, RemoveAbandonedLock,
              storage, history, commands
<1>5. ASSUME NEW p \in Procs, NEW k \in {"login", "logout", "use"}, Start(p, k)
      PROVE  Quiet
  BY <1>1, <1>5 DEF Quiet, Same, vars, Start, storage, history
<1>6. ASSUME NEW p \in Procs, Enter(p)
      PROVE  Quiet
  <2>1. /\ UNCHANGED <<storage, history, issued, payload, server, astray, compensated, hand>>
        /\ Call(p, "read", Main) /\ step' = [step EXCEPT ![p] = "read"]
    BY <1>6 DEF Enter, Operate, Call, storage, history
  <2>2. /\ step'[p] = "read" /\ seen'[p] = NoCredential
        /\ \A q \in Procs \ {p} : Same(q)
    BY <1>1, <2>1 DEF Call, Same
  <2> QED BY <2>1, <2>2 DEF Quiet
<1>7. ASSUME NEW p \in Procs, Busy(p) \/ (Kill(p) /\ step[p] \in {"idle", "lock"})
      PROVE  Quiet
  <2>1. Exit(p)
    BY <1>2, <1>7 DEF Busy, Kill
  <2>2. UNCHANGED <<payload, server, astray, compensated, hand>>
    <3>1. CASE Busy(p)
      BY <3>1 DEF Busy
    <3>2. CASE Kill(p) /\ step[p] \in {"idle", "lock"}
      <4>1. hand[p] = 0
        BY <1>2, <3>2
      <4>2. [hand EXCEPT ![p] = 0] = hand
        BY <1>1, <4>1
      <4> QED BY <3>2, <4>1, <4>2 DEF Kill
    <3> QED BY <1>7, <3>1, <3>2
  <2>3. step'[p] = "idle" /\ \A q \in Procs \ {p} : Same(q)
    BY <1>1, <2>1 DEF Exit, Same
  <2> QED BY <2>1, <2>2, <2>3 DEF Quiet, Exit
<1>8. ASSUME NEW p \in Procs, Advance(p), step[p] \in {"idle", "lock"}
      PROVE  Enter(p) \/ Busy(p)
  BY <1>8 DEF Advance, At, StoreSteps, Unlock, StoreStep, ReadFailed, FoundNothing, FoundRecord,
     RevokePrevious, Revoke, Authorize, NotRefreshed, Refresh, SaveEnded, Compensate, Removed
<1> QED
  BY <1>3, <1>4, <1>5, <1>6, <1>7, <1>8 DEF SNext

\* The others are still at their first step when it has been taken.
LEMMA OthersWait ==
  ASSUME TurnInv, SessionTypeOK, NEW p \in Procs, step[p] \notin {"idle", "lock"},
         Advance(p) \/ Kill(p), NEW q \in Procs \ {p}
  PROVE  step'[q] \in {"idle", "lock"} /\ hand'[q] = 0
<1>1. step[q] \in {"idle", "lock"} /\ hand[q] = 0
  BY Alone
<1>2. step \in [Procs -> Steps] /\ hand \in [Procs -> Nat]
  BY DEF SessionTypeOK
<1>3. step'[q] = step[q] /\ hand'[q] = hand[q]
  BY <1>2 DEF Advance, Kill, Move, Finish, Exit, Operate, session, Enter, Busy, Unlock, StoreStep,
     ReadFailed, FoundNothing, FoundRecord, RevokePrevious, Revoke, Authorize, NotRefreshed,
     Refresh, SaveEnded, Compensate, Removed
<1> QED
  BY <1>1, <1>3

-----------------------------------------------------------------------------
(* What a read may find *)

\* There is one credential to find at most: a generation handed out and not
\* refused, the one that was promised if any was.
Believed ==
  /\ SelectsChosen
  /\ issued \in Nat
  /\ \A c \in Selectable(Main) :
       c = Stamped(c.gen) /\ c.gen # 0 /\ c.gen \in (1..issued) \ refused
  /\ \A c, d \in Selectable(Main) : c = d
  /\ promise[Main].kind = "held" =>
       /\ promise[Main].gen \in 1..issued
       /\ \A c \in Selectable(Main) : c.gen = promise[Main].gen
       /\ Selectable(Main) # {}

\* It follows from the store's invariants and the absence of foreign records.
LEMMA BelievedHolds == IInv /\ NumberInv /\ BoundInv => Believed
<1> SUFFICES ASSUME IInv, NumberInv, BoundInv PROVE Believed
  OBVIOUS
<1>1. /\ SelectsChosen /\ issued \in Nat /\ Main \in Profiles
      /\ RefusedNeverSelected /\ HeldIsSelected
  BY OnlyChosen, InvariantSuffices, SessionAssumption DEF IInv, TypeOK
<1>2. \A g : Stamped(g).gen = g
  BY DEF Stamped
<1>3. authority[Main] = NoAuthority => Selectable(Main) = {}
  <2> SUFFICES ASSUME authority[Main] = NoAuthority, NEW c \in Selectable(Main) PROVE FALSE
    OBVIOUS
  <2>1. PICK r \in Reach : c = LegacyChoice(Main, r) /\ c # NoCredential
    BY DEF Selectable, Selection, NoAuthority
  <2>2. c \in {native[Main], file[Main], NoCredential}
    BY <2>1 DEF LegacyChoice, NativeSeen
  <2>3. c.gen = 0
    BY <1>1 DEF SelectsChosen
  <2> QED BY <2>1, <2>2, <2>3 DEF BoundInv
<1>4. ASSUME NEW c \in Selectable(Main)
      PROVE  c = Stamped(authority[Main].gen) /\ c.gen # 0 /\ c.gen \in (1..issued) \ refused
  <2>1. authority[Main] # NoAuthority
    BY <1>3, <1>4
  <2>2. c = Stamped(authority[Main].gen) /\ authority[Main].gen # 0
    BY <1>1, <1>4, <2>1 DEF SelectsChosen, NumberInv
  <2>3. native[Main] = c \/ file[Main] = c
    BY <1>1, <1>2, <1>4, <2>1, <2>2 DEF SelectsChosen, Chosen
  <2>4. c.gen \in 1..issued
    BY <1>1, <1>2, <2>2, <2>3 DEF IInv, StampInv
  <2> QED BY <1>1, <1>2, <1>4, <2>2, <2>4 DEF RefusedNeverSelected
<1>5. ASSUME promise[Main].kind = "held"
      PROVE  /\ promise[Main].gen \in 1..issued
             /\ \A c \in Selectable(Main) : c.gen = promise[Main].gen
             /\ Selectable(Main) # {}
  <2>1. promise[Main].gen \in 1..issued
    BY <1>1, <1>5 DEF IInv, PromiseInv
  <2>2. promise[Main].gen # 0
    BY <1>1, <2>1
  <2>3. Selection(Main, AllUp) = Stamped(promise[Main].gen)
    BY <1>1, <1>5 DEF HeldIsSelected, Untouched, BoundInv
  <2>4. Selection(Main, AllUp) # NoCredential /\ Readable(Main, AllUp)
    BY <1>2, <2>2, <2>3 DEF NoCredential, Readable, AllUp
  <2>5. Selectable(Main) # {}
    BY <2>4, AllReach DEF Selectable
  <2>6. \A c \in Selectable(Main) : c.gen = promise[Main].gen
    BY <1>1, <1>2, <1>5 DEF HeldIsSelected
  <2> QED BY <2>1, <2>5, <2>6
<1> QED
  BY <1>1, <1>2, <1>4, <1>5 DEF Believed

\* A read finds the same while nothing is written.
LEMMA SelectableSame ==
  ASSUME UNCHANGED storage
  PROVE  Selectable(Main)' = Selectable(Main)
BY DEF storage, Selectable, Selection, Readable, Matching, PendingChoice, LegacyChoice, NativeSeen

\* What a step of the store lets reads find anew is its own save's credential.
LEMMA NewlySelectable ==
  ASSUME IInv, NumberInv, IInv', NumberInv', Believed, Believed', TurnInv,
         NEW p \in Procs, StoreStep(p), NEW c \in Selectable(Main)' \ Selectable(Main)
  PROVE  /\ step[p] = "save" /\ pc[p] \in {"saveNative", "saveFile"}
         /\ c = Stamped(generation[p])
<1>1. Next /\ Main \in Profiles /\ SelectsChosen' /\ c.gen # 0
  BY SessionAssumption DEF StoreStep, Next, Believed
<1>2. /\ owner \in Procs /\ pc[owner] \in {"saveNative", "saveFile"}
      /\ c = Stamped(generation[owner])
  BY <1>1, SavesAloneSelect
<1>3. owner = p
  <2>1. pc[p] # "idle" /\ step[p] \notin {"idle", "lock"}
    BY DEF StoreStep, StoreSteps
  <2> QED BY <1>2, <2>1, Alone
<1>4. op[p] = "save" /\ op[p] = step[p]
  BY <1>2, <1>3 DEF IInv, LockInv, SaveSteps, TurnInv
<1> QED
  BY <1>2, <1>3, <1>4

\* Where a step of the store leads its caller.
LEMMA StorePlaces ==
  ASSUME IInv, NEW p \in Procs, Transact(p)
  PROVE  /\ refused \subseteq refused'
         /\ \/ /\ Acquire(p) /\ pc[p] = "lock" /\ pc'[p] \in InLock
               /\ generation'[p] = issued' /\ refused' = refused
            \/ /\ pc[p] = "lock" /\ pc'[p] = "idle" /\ outcome'[p] = "plain"
               /\ UNCHANGED <<issued, refused>>
            \/ /\ pc[p] \in InLock /\ pc'[p] \in InLock /\ generation'[p] = generation[p]
               /\ UNCHANGED <<issued, refused>>
            \/ /\ pc[p] = "release" /\ pc'[p] = "idle" /\ UNCHANGED issued
               /\ op[p] = "save" /\ outcome'[p] = "plain" =>
                    refused' = refused \cup {generation[p]}
               /\ op[p] = "save" /\ outcome'[p] \in {"ok", "committed"} =>
                    promise'[target[p]] = [kind |-> "held", gen |-> generation[p]]
<1> USE DEF Goto, Conclude, Return, SaveFrame, storage, history, InLock, SaveSteps, RemoveSteps
<1>1. TypeOK /\ (pc[p] # "idle" => target[p] \in Profiles)
  BY DEF IInv, LockInv
<1>2. CASE Save(p)
  <2> USE <1>1 DEF TypeOK
  <2>1. CASE SavePending(p) \/ SavePendingFails(p)
    BY <2>1 DEF SavePending, SavePendingFails
  <2>2. CASE SaveNative(p) \/ NativeUnavailable(p) \/ SaveNativeFails(p)
    BY <2>2 DEF SaveNative, NativeUnavailable, SaveNativeFails
  <2>3. CASE SaveFile(p) \/ SaveFileFails(p) \/ SaveFileLeavesLock(p)
    BY <2>3 DEF SaveFile, SaveFileFails, SaveFileLeavesLock
  <2>4. CASE ClaimNative(p) \/ ClaimFails(p, "claimNative", "native")
              \/ ClaimFile(p) \/ ClaimFails(p, "claimFile", "fallback")
    BY <2>4 DEF ClaimNative, ClaimFile, ClaimFails
  <2>5. CASE CleanFallback(p) \/ CleanFallbackFails(p)
    BY <2>5 DEF CleanFallback, CleanFallbackFails
  <2>6. CASE Recover(p) \/ Retire(p) \/ RetireFails(p)
    BY <2>6 DEF Recover, Retire, RetireFails
  <2> QED BY <1>2, <2>1, <2>2, <2>3, <2>4, <2>5, <2>6 DEF Save
<1>3. CASE Remove(p)
  <2> USE <1>1 DEF TypeOK
  <2>1. CASE RemoveNative(p) \/ RemoveNativeFails(p)
    BY <2>1 DEF RemoveNative, RemoveNativeFails
  <2>2. CASE RemoveFile(p) \/ RemoveFileFails(p)
    BY <2>2 DEF RemoveFile, RemoveFileFails
  <2>3. CASE RemoveAuthority(p) \/ RemoveAuthorityFails(p)
    BY <2>3 DEF RemoveAuthority, RemoveAuthorityFails
  <2> QED BY <1>3, <2>1, <2>2, <2>3 DEF Remove
<1>4. CASE Acquire(p)
  BY <1>1, <1>4 DEF Acquire, TypeOK, FirstStep
<1>5. CASE GiveUp(p)
  BY <1>1, <1>5 DEF GiveUp, TypeOK
<1>6. CASE Release(p)
  BY <1>1, <1>6 DEF Release, TypeOK, Told
<1>7. CASE ReadStored(p) \/ ReadFails(p)
  BY <1>1, <1>7 DEF ReadStored, ReadFails, TypeOK
<1> QED
  BY <1>2, <1>3, <1>4, <1>5, <1>6, <1>7 DEF Transact

-----------------------------------------------------------------------------
(* Where each token is *)

\* The token in hand is where its save has brought it.
LEMMA HandStep ==
  ASSUME SessionTypeOK, TurnInv, IInv, HandInv, CarriedInv, [SNext]_svars
  PROVE  HandInv'
<1> USE DEF session, server
<1>1. CASE Quiet
  <2> SUFFICES ASSUME NEW q \in Procs, step'[q] \in {"save", "compensate"} PROVE InHand(q)'
    BY DEF HandInv
  <2>1. Same(q) /\ UNCHANGED <<history, issued, payload, server, compensated, hand>>
    BY <1>1 DEF Quiet
  <2>2. InHand(q)
    BY <2>1 DEF HandInv, Same
  <2> QED BY <2>1, <2>2 DEF InHand, CarriedBy, Same, history
<1>2. ASSUME NEW p \in Procs, step[p] \notin {"idle", "lock"}, Advance(p) \/ Kill(p)
      PROVE  HandInv'
  <2>1. \A q \in Procs \ {p} : step'[q] \in {"idle", "lock"}
    BY <1>2, OthersWait
  <2> SUFFICES ASSUME step'[p] \in {"save", "compensate"} PROVE InHand(p)'
    BY <2>1 DEF HandInv
  <2>2. /\ step \in [Procs -> Steps] /\ hand \in [Procs -> Nat]
        /\ pc \in [Procs -> InLock \cup {"idle", "lock"}]
        /\ outcome \in [Procs -> Outcome]
    BY DEF SessionTypeOK, IInv, TypeOK
  <2>3. \/ Authorize(p) \/ Refresh(p) \/ SaveEnded(p)
        \/ StoreStep(p)
    BY <1>2, <2>2 DEF Advance, Kill, Exit, Move, Finish, Operate, Enter, Busy, Unlock, ReadFailed,
       FoundNothing, FoundRecord, RevokePrevious, Revoke, NotRefreshed, Compensate, Removed
  <2>4. CASE Authorize(p) \/ Refresh(p)
    <3>1. \E g \in 1..(Len(grant) + 1) : \E s :
            /\ Mint(g, s) /\ hand' = [hand EXCEPT ![p] = Len(grant')]
            /\ Operate(p, "save") /\ UNCHANGED <<payload, compensated>>
      <4>1. step'[p] # "unlock"
        OBVIOUS
      <4>2. ~Finish(p)
        BY <2>2, <4>1 DEF Finish, Move
      <4>3. UNCHANGED <<payload, compensated>>
        BY <2>4 DEF Authorize, Refresh
      <4> QED BY <2>4, <4>2, <4>3, Minting
    <3>2. PICK i \in 1..(Len(grant) + 1) : \E s :
            /\ Mint(i, s) /\ hand' = [hand EXCEPT ![p] = Len(grant')]
            /\ Operate(p, "save") /\ UNCHANGED <<payload, compensated>>
      BY <3>1
    <3>3. PICK spent :
            /\ Mint(i, spent) /\ hand' = [hand EXCEPT ![p] = Len(grant')]
            /\ Operate(p, "save") /\ UNCHANGED <<payload, compensated>>
      BY <3>2
    <3> DEFINE new == Len(grant')
    <3>4. new \notin Tokens /\ new \in valid' /\ new \in Nat /\ new # 0
      <4>1. /\ Len(grant) \in Nat /\ Len(grant') = Len(grant) + 1 /\ Len(grant') \notin Tokens
            /\ valid' = (valid \ spent) \cup {Len(grant')}
        BY <3>3, MintToken
      <4> QED BY <4>1
    <3>5. hand'[p] = new /\ pc'[p] = "lock" /\ step'[p] = "save" /\ UNCHANGED <<issued, payload>>
      BY <2>2, <3>3 DEF Operate, Call, Move
    <3>6. hand'[p] \in valid' \ compensated'
      BY <3>3, <3>4, <3>5 DEF SessionTypeOK
    <3>7. \A g \in 1..issued : payload[g] # new
      BY <3>4 DEF CarriedInv
    <3> QED BY <3>5, <3>6, <3>7 DEF InHand, CarriedBy, InLock, SaveSteps, RemoveSteps
  <2>5. CASE SaveEnded(p)
    <3>1. /\ step[p] = "save" /\ outcome[p] = "plain" /\ UNCHANGED <<vars, hand, payload, server, compensated>>
      BY <2>2, <2>5 DEF SaveEnded, At, Finish, Move
    <3>2. InHand(p)
      BY <3>1 DEF HandInv
    <3> QED BY <3>1, <3>2 DEF InHand, CarriedBy, vars
  <2>6. CASE StoreStep(p)
    <3>1. /\ Transact(p) /\ UNCHANGED <<hand, step, valid, compensated>> /\ pc[p] # "idle"
      BY <2>6 DEF StoreStep
    <3>2. step[p] = "save" /\ InHand(p) /\ op[p] = "save" /\ target[p] = Main
      BY <2>6, SessionAssumption DEF StoreStep, StoreSteps, HandInv, TurnInv, IInv, LockInv
    <3>3. \A g \in 1..issued : payload'[g] = payload[g]
      BY <2>6, PayloadStep
    <3>4. hand'[p] \in valid' \ compensated'
      BY <3>1, <3>2 DEF InHand
    <3>5. "lock" \notin InLock /\ "idle" \notin InLock
      BY DEF InLock, SaveSteps, RemoveSteps
    <3>6. CASE Acquire(p) /\ pc[p] = "lock" /\ pc'[p] \in InLock /\ generation'[p] = issued' /\ refused' = refused
      <4>1. /\ issued' = issued + 1 /\ 1..issued' = 1..issued \cup {issued'}
            /\ payload'[issued'] = hand[p]
        <5>1. issued' = issued + 1 /\ issued \in Nat
          BY <3>2, <3>6 DEF Acquire, IInv, TypeOK
        <5> QED BY <2>6, <3>2, <5>1, PayloadStep
      <4>2. \A g \in 1..issued : payload'[g] # hand[p]
        BY <3>2, <3>3, <3>6 DEF InHand, CarriedBy
      <4> QED BY <3>1, <3>2, <3>4, <3>5, <3>6, <4>1, <4>2 DEF InHand, CarriedBy
    <3>7. CASE pc[p] = "lock" /\ pc'[p] = "idle" /\ outcome'[p] = "plain" /\ UNCHANGED <<issued, refused>>
      BY <3>1, <3>2, <3>3, <3>4, <3>5, <3>7 DEF InHand, CarriedBy
    <3>8. CASE /\ pc[p] \in InLock /\ pc'[p] \in InLock /\ generation'[p] = generation[p]
               /\ UNCHANGED <<issued, refused>>
      <4>1. generation[p] \in 1..issued
        BY <3>2, <3>8 DEF IInv, SaveInv, Fresh
      <4> QED BY <3>1, <3>2, <3>3, <3>4, <3>5, <3>8, <4>1 DEF InHand, CarriedBy
    <3>9. CASE /\ pc[p] = "release" /\ pc'[p] = "idle" /\ UNCHANGED issued
               /\ op[p] = "save" /\ outcome'[p] = "plain" =>
                    refused' = refused \cup {generation[p]}
               /\ op[p] = "save" /\ outcome'[p] \in {"ok", "committed"} =>
                    promise'[target[p]] = [kind |-> "held", gen |-> generation[p]]
      <4>1. pc[p] \in InLock
        BY <3>9 DEF InLock
      <4>2. generation[p] \in 1..issued
        BY <3>2, <4>1 DEF IInv, SaveInv, Fresh
      <4>3. CarriedBy(hand[p], {generation[p]}) /\ payload'[generation[p]] = hand[p]
        BY <3>2, <3>3, <4>1, <4>2 DEF InHand
      <4>4. \A g \in 1..issued' : payload'[g] = hand'[p] => g = generation[p]
        BY <3>1, <3>3, <3>9, <4>3 DEF CarriedBy
      <4>5. outcome'[p] \in {"ok", "committed"} =>
              promise'[Main].kind = "held" /\ payload'[promise'[Main].gen] = hand'[p]
        BY <3>1, <3>2, <3>9, <4>3
      <4> QED BY <3>1, <3>2, <3>4, <3>5, <3>9, <4>4, <4>5 DEF InHand, CarriedBy
    <3> QED BY <3>1, <3>6, <3>7, <3>8, <3>9, StorePlaces
  <2> QED BY <2>3, <2>4, <2>5, <2>6
<1> QED
  BY <1>1, <1>2, WhoseStep

\* A compensated token stays out of every generation that is not refused.
LEMMA CarriedStep ==
  ASSUME SessionTypeOK, TurnInv, IInv, HandInv, CarriedInv, [SNext]_svars
  PROVE  CarriedInv'
<1> USE DEF session, server
\* Steps outside the store that compensate nothing.
<1>1. ASSUME UNCHANGED <<issued, payload, refused, compensated>>, Tokens \subseteq Tokens'
      PROVE  CarriedInv'
  BY <1>1 DEF CarriedInv, CarriedBy
<1>2. CASE Quiet
  BY <1>1, <1>2 DEF Quiet, Tokens, history
<1>3. ASSUME NEW p \in Procs, step[p] \notin {"idle", "lock"}, Advance(p) \/ Kill(p)
      PROVE  CarriedInv'
  <2>1. CASE \/ Enter(p) \/ Busy(p) \/ Unlock(p) \/ ReadFailed(p) \/ FoundNothing(p) \/ FoundRecord(p)
             \/ RevokePrevious(p) \/ Revoke(p) \/ NotRefreshed(p) \/ SaveEnded(p) \/ Removed(p)
             \/ Kill(p)
    <3>1. UNCHANGED <<issued, payload, refused, compensated>>
      BY <2>1 DEF Enter, Busy, Unlock, ReadFailed, FoundNothing, FoundRecord, RevokePrevious,
         Revoke, NotRefreshed, SaveEnded, Removed, Kill, Exit, Crash, Operate, Call, history, vars
    <3>2. UNCHANGED grant
      BY <2>1 DEF Enter, Busy, Unlock, ReadFailed, FoundNothing, FoundRecord, RevokePrevious,
         Revoke, NotRefreshed, SaveEnded, Removed, Kill, Revoked
    <3> QED BY <1>1, <3>1, <3>2 DEF Tokens
  <2>2. CASE Authorize(p) \/ Refresh(p)
    <3>1. UNCHANGED <<issued, payload, refused, compensated>>
      BY <2>2 DEF Authorize, Refresh, Operate, Call, history, vars
    <3>2. Tokens \subseteq Tokens'
      <4>1. grant' = grant \/ \E g \in 1..(Len(grant) + 1) : \E spent : Mint(g, spent)
        BY <2>2, Minting
      <4> QED BY <4>1, MintToken DEF Tokens
    <3> QED BY <1>1, <3>1, <3>2
  <2>3. CASE Compensate(p)
    <3>1. /\ UNCHANGED <<issued, payload, refused, grant>>
          /\ compensated' = compensated \cup {hand[p]} /\ step[p] = "compensate" /\ pc[p] = "idle"
      BY <2>3 DEF Compensate, At, vars, Revoked
    <3>2. CarriedBy(hand[p], refused)
      BY <3>1 DEF HandInv, InHand
    <3> QED BY <3>1, <3>2 DEF CarriedInv, CarriedBy, Tokens
  <2>4. CASE StoreStep(p)
    <3>1. Transact(p) /\ UNCHANGED <<grant, compensated>> /\ refused \subseteq refused'
      BY <2>4, StorePlaces DEF StoreStep
    <3>2. \A g \in 1..issued : payload'[g] = payload[g]
      BY <2>4, PayloadStep
    <3>3. CASE issued' = issued
      BY <3>1, <3>2, <3>3 DEF CarriedInv, CarriedBy, Tokens
    <3>4. CASE /\ Acquire(p) /\ 1..issued' = 1..issued \cup {issued'}
               /\ payload'[issued'] = IF op[p] = "save" THEN hand[p] ELSE 0
      <4>1. op[p] = "save" => hand[p] \in Tokens /\ hand[p] \notin compensated
        BY <2>4 DEF StoreStep, TurnInv, HandInv, InHand
      <4>2. payload'[issued'] \in Tokens \cup {0} /\ payload'[issued'] \notin compensated
        <5>1. 0 \notin Tokens /\ compensated \subseteq Tokens
          BY DEF SessionTypeOK, Tokens
        <5> QED BY <3>4, <4>1, <5>1
      <4>3. \A g \in 1..issued' : payload'[g] \in Tokens \cup {0}
        BY <3>2, <3>4, <4>2 DEF CarriedInv
      <4>4. \A t \in compensated : \A g \in 1..issued' : payload'[g] = t => g \in refused'
        BY <3>1, <3>2, <3>4, <4>2 DEF CarriedInv, CarriedBy
      <4> QED BY <3>1, <4>3, <4>4 DEF CarriedInv, CarriedBy, Tokens
    <3> QED BY <2>4, <3>3, <3>4, PayloadStep
  <2> QED BY <1>3, <2>1, <2>2, <2>3, <2>4 DEF Advance
<1> QED
  BY <1>2, <1>3, WhoseStep

\* The two hold in every reachable state.
LEMMA TokenPlaces == SSpec => [](HandInv /\ CarriedInv)
<1>1. SInit => HandInv /\ CarriedInv
  <2>1. 1..0 = {}
    OBVIOUS
  <2> QED BY <2>1 DEF SInit, Init, HandInv, CarriedInv, CarriedBy
<1>2. SessionTypeOK /\ TurnInv /\ IInv /\ HandInv /\ CarriedInv /\ [SNext]_svars =>
        HandInv' /\ CarriedInv'
  BY HandStep, CarriedStep
<1> QED
  BY <1>1, <1>2, SessionStoreInvariant, SessionTurns, PTL DEF SSpec

-----------------------------------------------------------------------------
(* What a command has read *)

\* A reading operation writes nothing.
LEMMA ReadsKeepStorage ==
  ASSUME IInv, NEW p \in Procs, Transact(p), op[p] = "read"
  PROVE  UNCHANGED storage
<1>1. pc[p] \notin SaveSteps /\ pc[p] \notin RemoveSteps
  BY DEF IInv, LockInv
<1>2. ~Save(p)
  BY <1>1 DEF Save, Goto, SaveSteps, Conclude, ClaimFails, ClaimFile,
    ClaimNative, CleanFallback, CleanFallbackFails, NativeUnavailable, Recover,
    Retire, RetireFails, SaveFile, SaveFileFails, SaveFileLeavesLock,
    SaveNative, SaveNativeFails, SavePending, SavePendingFails
<1>3. ~Remove(p)
  BY <1>1 DEF Remove, RemoveSteps, Goto, Conclude, RemoveNative, RemoveNativeFails,
     RemoveFile, RemoveFileFails, RemoveAuthority, RemoveAuthorityFails
<1> QED
  BY <1>2, <1>3 DEF Transact, Acquire, GiveUp, Release, ReadStored, ReadFails, storage

\* It hands out what it read, and nothing else.
LEMMA SeenStep ==
  ASSUME IInv, NEW p \in Procs, Transact(p), target[p] = Main
  PROVE  seen'[p] \in Selectable(Main) \cup {NoCredential, seen[p]}
<1>1. seen \in [Procs -> Credential]
  BY DEF IInv, TypeOK
<1>2. CASE ReadStored(p)
  <2>1. PICK r \in Reach : Readable(Main, r) /\ seen' = [seen EXCEPT ![p] = Selection(Main, r)]
    BY <1>2 DEF ReadStored
  <2> QED BY <1>1, <2>1 DEF Selectable
<1>3. CASE Release(p)
  BY <1>1, <1>3 DEF Release
<1>4. CASE Save(p)
  BY <1>4 DEF Save, SaveFrame, ClaimFails, ClaimFile,
    ClaimNative, CleanFallback, CleanFallbackFails, NativeUnavailable, Recover,
    Retire, RetireFails, SaveFile, SaveFileFails, SaveFileLeavesLock,
    SaveNative, SaveNativeFails, SavePending, SavePendingFails
<1>5. CASE Remove(p) \/ Acquire(p) \/ GiveUp(p) \/ ReadFails(p)
  BY <1>5 DEF Remove, SaveFrame, RemoveNative, RemoveNativeFails, Acquire, GiveUp, ReadFails,
    RemoveFile, RemoveFileFails, RemoveAuthority, RemoveAuthorityFails
<1> QED
  BY <1>2, <1>3, <1>4, <1>5 DEF Transact

\* The server forgets no token.
LEMMA TokensGrow ==
  ASSUME SessionTypeOK, [SNext]_svars
  PROVE  Tokens \subseteq Tokens' /\ \A t \in Tokens : grant'[t] = grant[t]
<1> USE DEF server
<1>1. CASE UNCHANGED grant
  BY <1>1 DEF Tokens
<1>2. ASSUME NEW p \in Procs, Authorize(p) \/ Refresh(p)
      PROVE  grant' = grant \/ \E g \in 1..(Len(grant) + 1) : \E spent : Mint(g, spent)
  BY <1>2, Minting
<1>3. ASSUME NEW p \in Procs, Advance(p) \/ Kill(p), ~Authorize(p), ~Refresh(p)
      PROVE  UNCHANGED grant
  BY <1>3 DEF Advance, Kill, Enter, Busy, Unlock, StoreStep, ReadFailed, FoundNothing, FoundRecord,
     RevokePrevious, Revoke, NotRefreshed, SaveEnded, Compensate, Removed, Revoked
<1>4. ASSUME NEW p \in Procs, NEW k \in {"login", "logout", "use"}, Start(p, k)
      PROVE  UNCHANGED grant
  BY <1>4 DEF Start
<1>5. RemoveProfileLock \/ RemoveStoreLock \/ UNCHANGED svars => UNCHANGED grant
  BY DEF RemoveProfileLock, RemoveStoreLock, svars
<1> QED
  BY <1>1, <1>2, <1>3, <1>4, <1>5, MintToken DEF SNext

\* What reads find has a payload: a token.
LEMMA FoundAreTokens ==
  ASSUME SessionTypeOK, TurnInv, IInv, NumberInv, Believed, HandInv, PayloadInv,
         IInv', NumberInv', Believed', [SNext]_svars
  PROVE  PayloadInv'
<1> SUFFICES ASSUME NEW c \in Selectable(Main)'
             PROVE  c.gen \in 1..issued' /\ payload'[c.gen] \in Tokens'
  BY DEF PayloadInv
<1>1. c.gen \in 1..issued' /\ Tokens \subseteq Tokens'
  BY TokensGrow DEF Believed
<1>2. CASE UNCHANGED <<storage, history, issued, payload>>
  BY <1>1, <1>2, SelectableSame DEF PayloadInv
<1>3. ASSUME NEW p \in Procs, StoreStep(p) PROVE payload'[c.gen] \in Tokens'
  <2>1. \A g \in 1..issued : payload'[g] = payload[g]
    BY <1>3, PayloadStep
  <2>2. CASE c \in Selectable(Main)
    BY <1>1, <2>1, <2>2 DEF PayloadInv
  <2>3. CASE c \notin Selectable(Main)
    <3>1. step[p] = "save" /\ pc[p] \in {"saveNative", "saveFile"} /\ c = Stamped(generation[p])
      BY <1>3, <2>3, NewlySelectable
    <3>2. InHand(p) /\ pc[p] \in InLock /\ op[p] = "save" /\ hand[p] \in Tokens
      BY <3>1 DEF HandInv, InLock, SaveSteps, TurnInv
    <3>3. c.gen = generation[p] /\ generation[p] \in 1..issued
      BY <3>1, <3>2 DEF Stamped, IInv, SaveInv, Fresh
    <3>4. payload[generation[p]] = hand[p]
      BY <3>2 DEF InHand
    <3> QED BY <1>1, <2>1, <3>2, <3>3, <3>4
  <2> QED BY <2>2, <2>3
<1> QED
  BY <1>1, <1>2, <1>3, OutsideStore

\* What a command goes on with is still there to read.
LEMMA SeenStays ==
  ASSUME SessionTypeOK, TurnInv, IInv, NumberInv, Believed, SeenInv,
         IInv', NumberInv', Believed', [SNext]_svars
  PROVE  SeenInv'
<1> USE DEF session, server
<1>1. CASE Quiet
  <2> SUFFICES ASSUME NEW q \in Procs, step'[q] \in {"read", "use", "revoke", "revokePrevious"}
               PROVE  /\ seen'[q] \in Selectable(Main)' \cup {NoCredential}
                      /\ step'[q] # "read" => Held(q)' # 0
    BY DEF SeenInv
  <2>1. Selectable(Main)' = Selectable(Main) /\ UNCHANGED payload
    BY <1>1, SelectableSame DEF Quiet
  <2>2. Same(q) \/ (step'[q] = "read" /\ seen'[q] = NoCredential)
    BY <1>1 DEF Quiet
  <2> QED BY <2>1, <2>2 DEF SeenInv, Same, Held, TokenOf
<1>2. ASSUME NEW p \in Procs, step[p] \notin {"idle", "lock"}, Advance(p) \/ Kill(p)
      PROVE  SeenInv'
  <2>1. \A q \in Procs \ {p} : step'[q] \in {"idle", "lock"}
    BY <1>2, OthersWait
  <2> SUFFICES ASSUME step'[p] \in {"read", "use", "revoke", "revokePrevious"}
               PROVE  /\ seen'[p] \in Selectable(Main)' \cup {NoCredential}
                      /\ step'[p] # "read" => Held(p)' # 0
    BY <2>1 DEF SeenInv
  <2>2. step \in [Procs -> Steps]
    BY DEF SessionTypeOK
  <2>3. FoundRecord(p) \/ StoreStep(p)
    BY <1>2, <2>2 DEF Advance, Kill, Exit, Move, Finish, Operate, At, Enter, Busy, Unlock, ReadFailed,
       FoundNothing, RevokePrevious, Revoke, Authorize, NotRefreshed, Refresh, SaveEnded,
       Compensate, Removed
  <2>4. CASE FoundRecord(p)
    <3>1. step[p] = "read" /\ Held(p) # 0 /\ UNCHANGED <<vars, payload>>
      BY <2>4 DEF FoundRecord, At
    <3>2. seen[p] \in Selectable(Main) \cup {NoCredential}
      BY <3>1 DEF SeenInv
    <3>3. Selectable(Main)' = Selectable(Main)
      BY <3>1, SelectableSame DEF vars, storage
    <3> QED BY <3>1, <3>2, <3>3 DEF vars, Held, TokenOf
  <2>5. CASE StoreStep(p)
    <3>1. Transact(p) /\ step' = step /\ pc[p] # "idle" /\ step[p] \in StoreSteps
      BY <2>5 DEF StoreStep
    <3>2. step[p] = "read" /\ op[p] = "read" /\ target[p] = Main
      BY <3>1, SessionAssumption DEF StoreSteps, TurnInv, IInv, LockInv
    <3>3. Selectable(Main)' = Selectable(Main)
      BY <3>1, <3>2, ReadsKeepStorage, SelectableSame
    <3>4. seen[p] \in Selectable(Main) \cup {NoCredential}
      BY <3>2 DEF SeenInv
    <3> QED BY <3>1, <3>2, <3>3, <3>4, SeenStep
  <2> QED BY <2>3, <2>4, <2>5
<1> QED
  BY <1>1, <1>2, WhoseStep

\* Both hold in every reachable state.
LEMMA ReadsFindTokens == SSpec => [](PayloadInv /\ SeenInv)
<1>1. SInit => PayloadInv /\ SeenInv
  <2> SUFFICES ASSUME SInit PROVE PayloadInv /\ SeenInv
    OBVIOUS
  <2>1. Selectable(Main) = {}
    <3>1. /\ authority[Main] = NoAuthority
          /\ native[Main] = NoCredential /\ file[Main] = NoCredential
      BY SessionAssumption DEF SInit, Init
    <3>2. \A r \in Reach : Selection(Main, r) = NoCredential
      BY <3>1 DEF Selection, NoAuthority, LegacyChoice, NativeSeen
    <3> QED BY <3>2 DEF Selectable
  <2> QED BY <2>1 DEF SInit, PayloadInv, SeenInv
<1>2. IInv /\ NumberInv /\ BoundInv => Believed
  BY BelievedHolds
<1>3. SessionTypeOK /\ TurnInv /\ IInv /\ NumberInv /\ Believed /\ HandInv /\ PayloadInv /\ SeenInv
        /\ IInv' /\ NumberInv' /\ Believed' /\ [SNext]_svars =>
        PayloadInv' /\ SeenInv'
  BY FoundAreTokens, SeenStays
<1> QED
  BY <1>1, <1>2, <1>3, SessionStoreInvariant, SessionTurns, TokenPlaces, PTL DEF SSpec

-----------------------------------------------------------------------------
(* Which grants are alive, held, and newest *)

\* The three invariants about grants, which need each other.
GrantsInv == ReplaceInv /\ NewestInv /\ NoSilentOrphan

\* What reads find, as tokens and grants.
LEMMA ReachableGrants ==
  ASSUME Believed, PayloadInv
  PROVE  /\ \A c \in Selectable(Main) : TokenOf(c) = payload[c.gen] /\ TokenOf(c) \in Tokens
         /\ \A c \in Selectable(Main) : Reachable = {grant[TokenOf(c)]}
BY DEF Believed, PayloadInv, TokenOf, Reachable

\* Outside the store, reads keep finding the same tokens and grants.
LEMMA ReachableSame ==
  ASSUME SessionTypeOK, Believed, PayloadInv, UNCHANGED <<storage, payload>>, [SNext]_svars
  PROVE  /\ Selectable(Main)' = Selectable(Main)
         /\ \A c \in Selectable(Main) : TokenOf(c)' = TokenOf(c) /\ TokenOf(c) \in Tokens
         /\ \A c \in Selectable(Main) : grant'[TokenOf(c)] = grant[TokenOf(c)]
         /\ Reachable' = Reachable
<1>1. Selectable(Main)' = Selectable(Main)
  BY SelectableSame
<1>2. ASSUME NEW c \in Selectable(Main)
      PROVE  TokenOf(c)' = TokenOf(c) /\ TokenOf(c) \in Tokens /\ grant'[TokenOf(c)] = grant[TokenOf(c)]
  <2>1. TokenOf(c)' = TokenOf(c)
    BY DEF TokenOf
  <2> QED BY <2>1, ReachableGrants, TokensGrow
<1>3. Reachable' = Reachable
  BY <1>1, <1>2 DEF Reachable
<1> QED
  BY <1>1, <1>2, <1>3

\* Revoking a token ends its grant and no other.
LEMMA RevokedGrant ==
  ASSUME SessionTypeOK, NEW t, Revoked(t)
  PROVE  /\ Live' = Live \ {grant[t]}
         /\ \A u \in valid : u \in valid' \/ grant[u] = grant[t]
<1>1. DOMAIN grant = Tokens /\ valid \subseteq Tokens
  BY DEF SessionTypeOK, Tokens
<1> QED
  BY <1>1 DEF Revoked, Family, Live

\* A new token adds its grant; what it replaces is of the same one.
LEMMA MintedGrant ==
  ASSUME SessionTypeOK, NEW g \in 1..(Len(grant) + 1), NEW spent, Mint(g, spent)
  PROVE  Live' \subseteq Live \cup {g}
<1>1. \A t \in valid' : t = Len(grant') \/ (t \in valid /\ grant'[t] = grant[t])
  BY MintToken DEF SessionTypeOK
<1>2. grant'[Len(grant')] = g
  BY MintToken
<1> QED
  BY <1>1, <1>2 DEF Live

\* A command past its first step, outside the store: the others have nothing.
LEMMA SettleGrants ==
  ASSUME SessionTypeOK, TurnInv, Believed, PayloadInv, GrantsInv, [SNext]_svars,
         NEW p \in Procs, step[p] \notin {"idle", "lock"}, Advance(p) \/ Kill(p),
         UNCHANGED <<storage, payload, grant>>,
         Live' \subseteq Live, astray \subseteq astray',
         \A t \in valid \ valid' : grant[t] \notin Live',
         hand' = hand \/ hand'[p] = 0,
         hand[p] # 0 /\ hand'[p] = 0 /\ grant[hand[p]] \in Live' \ astray' =>
           \E c \in Selectable(Main) : TokenOf(c) = hand[p] /\ hand[p] \in valid',
         step'[p] # "save",
         step'[p] \in {"authorize", "remove"} => Reachable \cap Live' \subseteq astray'
  PROVE  GrantsInv'
<1>1. /\ Selectable(Main)' = Selectable(Main) /\ Reachable' = Reachable
      /\ \A c \in Selectable(Main) : TokenOf(c)' = TokenOf(c) /\ TokenOf(c) \in Tokens
  BY ReachableSame
<1>2. \A q \in Procs \ {p} : step'[q] \in {"idle", "lock"} /\ hand[q] = 0
  BY OthersWait, Alone
<1>3. ReplaceInv'
  BY <1>1, <1>2 DEF ReplaceInv
<1>4. NoSilentOrphan'
  <2> SUFFICES ASSUME NEW g \in Live', g \notin astray', g \notin Reachable,
                      ~\E q \in Procs : hand'[q] # 0 /\ grant[hand'[q]] = g
               PROVE  FALSE
    BY <1>1 DEF NoSilentOrphan
  <2>1. PICK q \in Procs : hand[q] # 0 /\ grant[hand[q]] = g
    BY DEF GrantsInv, NoSilentOrphan
  <2>2. q = p /\ hand'[p] = 0
    BY <1>2, <2>1
  <2>3. \E c \in Selectable(Main) : TokenOf(c) = hand[p]
    BY <2>1, <2>2
  <2> QED BY <2>1, <2>2, <2>3 DEF Reachable
<1>5. NewestInv'
  <2> SUFFICES ASSUME NEW c \in Selectable(Main),
                      grant[TokenOf(c)] \in Live' \ astray', TokenOf(c) \notin valid',
                      ~\E q \in Procs : hand'[q] # 0 /\ grant[hand'[q]] = grant[TokenOf(c)]
               PROVE  FALSE
    BY <1>1 DEF NewestInv
  <2>1. TokenOf(c) \notin valid
    OBVIOUS
  <2>2. PICK q \in Procs : hand[q] # 0 /\ grant[hand[q]] = grant[TokenOf(c)]
    BY <2>1 DEF GrantsInv, NewestInv
  <2>3. q = p /\ hand'[p] = 0
    BY <1>2, <2>2
  <2>4. PICK d \in Selectable(Main) : TokenOf(d) = hand[p] /\ hand[p] \in valid'
    BY <2>2, <2>3
  <2> QED BY <2>4 DEF Believed
<1> QED
  BY <1>3, <1>4, <1>5 DEF GrantsInv

\* A login or a refresh that got a token, or lost it.
LEMMA MintGrants ==
  ASSUME SessionTypeOK, TurnInv, IInv, Believed, PayloadInv, SeenInv, GrantsInv, [SNext]_svars,
         NEW p \in Procs, Authorize(p) \/ Refresh(p)
  PROVE  GrantsInv'
<1> USE DEF server, At
<1>1. /\ step[p] \in {"authorize", "use"} /\ pc[p] = "idle" /\ hand[p] = 0
      /\ (Advance(p) \/ Kill(p)) /\ step[p] \notin {"idle", "lock"}
      /\ UNCHANGED payload
      /\ step \in [Procs -> Steps] /\ hand \in [Procs -> Nat] /\ Len(grant) \in Nat
  <2>1. step \in [Procs -> Steps] /\ hand \in [Procs -> Nat] /\ Len(grant) \in Nat
    BY DEF SessionTypeOK
  <2>2. step[p] \in {"authorize", "use"} /\ pc[p] = "idle" /\ UNCHANGED payload
    BY DEF Authorize, Refresh
  <2>3. Advance(p)
    BY DEF Advance
  <2> QED BY <2>1, <2>2, <2>3 DEF TurnInv
<1>2. UNCHANGED storage
  BY DEF Authorize, Refresh, Operate, Call, vars, storage
<1>3. /\ Selectable(Main)' = Selectable(Main) /\ Reachable' = Reachable
      /\ \A c \in Selectable(Main) : TokenOf(c)' = TokenOf(c) /\ TokenOf(c) \in Tokens
      /\ \A c \in Selectable(Main) : grant'[TokenOf(c)] = grant[TokenOf(c)]
  BY <1>1, <1>2, ReachableSame
<1>4. CASE UNCHANGED server /\ Finish(p) /\ astray' = astray
  <2>1. step'[p] = "unlock" /\ Live' = Live
    BY <1>1, <1>4 DEF Finish, Move, Live
  <2>2. hand' = hand
    BY <1>1, <1>4 DEF Finish
  <2> QED BY <1>1, <1>2, <1>4, <2>1, <2>2, SettleGrants
<1>5. \A q \in Procs : hand[q] = 0
  BY <1>1, Alone
<1>6. \A q \in Procs \ {p} : step'[q] \in {"idle", "lock"} /\ hand'[q] = 0
  BY <1>1, OthersWait
\* Before, what was alive was readable or astray.
<1>7. Live \subseteq Reachable \cup astray
  BY <1>5 DEF GrantsInv, NoSilentOrphan
\* The new token's grant g is a new one, or the one that was read.
<1>8. ASSUME NEW g \in 1..(Len(grant) + 1), NEW spent, Mint(g, spent),
             \A c \in Selectable(Main) :
               grant[TokenOf(c)] # g => grant[TokenOf(c)] \notin Live \ astray,
             \/ /\ hand' = [hand EXCEPT ![p] = Len(grant')] /\ Operate(p, "save")
                /\ astray' = astray
             \/ Finish(p) /\ astray' = astray \cup {g}
      PROVE  GrantsInv'
  <2>1. Live' \subseteq Live \cup {g} /\ grant'[Len(grant')] = g /\ Len(grant') # 0
    <3>1. Len(grant') = Len(grant) + 1 /\ grant'[Len(grant')] = g
      BY <1>8, MintToken
    <3> QED BY <1>1, <1>8, <3>1, MintedGrant
  <2>2. g \in astray' \/ (hand'[p] # 0 /\ grant'[hand'[p]] = g)
    BY <1>1, <1>8, <2>1
  <2>3. astray \subseteq astray'
    BY <1>8
  <2>4. ReplaceInv'
    <3>1. CASE step'[p] = "save"
      <4>1. hand'[p] = Len(grant') /\ astray' = astray
        BY <1>1, <1>8, <3>1 DEF Finish, Move
      <4>2. Reachable \cap Live' \subseteq astray \cup {g}
        BY <1>8, <2>1 DEF Reachable
      <4> QED BY <1>3, <1>6, <2>1, <3>1, <4>1, <4>2 DEF ReplaceInv
    <3>2. CASE step'[p] # "save"
      <4>1. step'[p] = "unlock"
        BY <1>1, <1>8, <3>2 DEF Finish, Move, Operate
      <4> QED BY <1>6, <4>1 DEF ReplaceInv
    <3> QED BY <3>1, <3>2
  <2>5. NoSilentOrphan'
    BY <1>3, <1>7, <2>1, <2>2, <2>3 DEF NoSilentOrphan
  <2>6. NewestInv'
    BY <1>3, <1>8, <2>1, <2>2, <2>3 DEF NewestInv
  <2> QED BY <2>4, <2>5, <2>6 DEF GrantsInv
<1>9. CASE Authorize(p)
  <2>1. Len(grant) + 1 \in 1..(Len(grant) + 1)
    BY <1>1
  <2>2. \A c \in Selectable(Main) : grant[TokenOf(c)] \notin Live \ astray
    <3>1. Reachable \cap Live \subseteq astray
      BY <1>1, <1>9 DEF Authorize, GrantsInv, ReplaceInv
    <3> QED BY <3>1 DEF Reachable
  <2>3. Mint(Len(grant) + 1, {}) => Len(grant') = Len(grant) + 1
    BY <2>1, MintToken
  <2> QED BY <1>4, <1>8, <1>9, <2>1, <2>2, <2>3 DEF Authorize
<1>10. CASE Refresh(p)
  <2>1. Held(p) \in valid /\ Held(p) \in Tokens /\ grant[Held(p)] \in 1..Held(p)
    BY <1>10 DEF Refresh, SessionTypeOK
  <2>2. grant[Held(p)] \in 1..(Len(grant) + 1)
    BY <1>1, <2>1 DEF Tokens
  <2>3. seen[p] \in Selectable(Main)
    <3>1. Held(p) # 0
      BY <2>1 DEF Tokens
    <3>2. seen[p] # NoCredential
      BY <3>1 DEF Held, TokenOf, NoCredential
    <3> QED BY <1>1, <1>10, <3>2 DEF SeenInv, Refresh
  <2>4. \A c \in Selectable(Main) : TokenOf(c) = Held(p)
    BY <2>3 DEF Believed, Held
  <2> QED BY <1>8, <1>10, <2>2, <2>4 DEF Refresh
<1> QED
  BY <1>9, <1>10

\* A step of the store loses what it is told to replace or to remove.
LEMMA StoreGrants ==
  ASSUME SessionTypeOK, TurnInv, IInv, NumberInv, Believed, PayloadInv, HandInv, GrantsInv,
         IInv', NumberInv', Believed', NEW p \in Procs, StoreStep(p)
  PROVE  GrantsInv'
<1>1. /\ Transact(p) /\ step[p] \in StoreSteps /\ pc[p] # "idle"
      /\ UNCHANGED <<step, hand, grant, valid, astray>>
  BY DEF StoreStep, session, server
<1>2. Live' = Live
  BY <1>1 DEF Live
\* What reads still find, they found before; what they find anew is in hand.
<1>3. ASSUME NEW c \in Selectable(Main), c \in Selectable(Main)'
      PROVE  TokenOf(c)' = TokenOf(c)
  BY <1>3, PayloadStep DEF Believed, TokenOf
<1>4. ASSUME NEW c \in Selectable(Main)' \ Selectable(Main)
      PROVE  step[p] = "save" /\ hand[p] # 0 /\ hand[p] \in valid /\ TokenOf(c)' = hand[p]
  <2>1. step[p] = "save" /\ pc[p] \in {"saveNative", "saveFile"} /\ c = Stamped(generation[p])
    BY <1>4, NewlySelectable
  <2>2. InHand(p) /\ pc[p] \in InLock /\ op[p] = "save" /\ hand[p] \in Tokens
    BY <2>1 DEF HandInv, InLock, SaveSteps, TurnInv
  <2>3. c.gen = generation[p] /\ generation[p] \in 1..issued /\ c.gen # 0
    BY <1>4, <2>1, <2>2 DEF Stamped, IInv, SaveInv, Fresh, Believed
  <2>4. payload'[generation[p]] = hand[p]
    BY <2>2, <2>3, PayloadStep DEF InHand
  <2> QED BY <2>1, <2>2, <2>3, <2>4 DEF TokenOf, InHand, Tokens
<1>5. Reachable' \subseteq Reachable \cup (IF step[p] = "save" THEN {grant[hand[p]]} ELSE {})
  BY <1>1, <1>3, <1>4 DEF Reachable
<1>6. ReplaceInv'
  <2> SUFFICES ASSUME NEW q \in Procs
               PROVE  /\ step[q] \in {"authorize", "remove"} => Reachable' \cap Live \subseteq astray
                      /\ step[q] = "save" => Reachable' \cap Live \subseteq astray \cup {grant[hand[q]]}
    BY <1>1, <1>2 DEF ReplaceInv
  <2>1. CASE q = p
    BY <1>5, <2>1 DEF GrantsInv, ReplaceInv
  <2>2. CASE q # p
    BY <1>1, <2>2, Alone DEF StoreSteps
  <2> QED BY <2>1, <2>2
<1>7. NewestInv'
  <2> SUFFICES ASSUME NEW c \in Selectable(Main)'
               PROVE  LET t == TokenOf(c)'
                      IN  \/ grant[t] \notin Live \ astray
                          \/ t \in valid
                          \/ \E q \in Procs : hand[q] # 0 /\ grant[hand[q]] = grant[t]
    BY <1>1, <1>2 DEF NewestInv
  <2>1. CASE c \in Selectable(Main)
    BY <1>3, <2>1 DEF GrantsInv, NewestInv
  <2>2. CASE c \notin Selectable(Main)
    BY <1>4, <2>2
  <2> QED BY <2>1, <2>2
<1>8. NoSilentOrphan'
  <2>1. CASE step[p] = "read"
    <3>1. op[p] = "read"
      BY <1>1, <2>1 DEF TurnInv
    <3>2. Selectable(Main)' = Selectable(Main)
      BY <1>1, <3>1, ReadsKeepStorage, SelectableSame
    <3>3. Reachable' = Reachable
      BY <1>1, <1>3, <3>2 DEF Reachable
    <3> QED BY <1>1, <1>2, <3>3 DEF GrantsInv, NoSilentOrphan
  <2>2. CASE step[p] = "remove"
    <3>1. Reachable \cap Live \subseteq astray
      BY <2>2 DEF GrantsInv, ReplaceInv
    <3> QED BY <1>1, <1>2, <3>1 DEF GrantsInv, NoSilentOrphan
  <2>3. CASE step[p] = "save"
    <3>1. Reachable \cap Live \subseteq astray \cup {grant[hand[p]]} /\ hand[p] # 0
      BY <2>3 DEF GrantsInv, ReplaceInv, TurnInv, Tokens
    <3> QED BY <1>1, <1>2, <3>1 DEF GrantsInv, NoSilentOrphan
  <2> QED BY <1>1, <2>1, <2>2, <2>3 DEF StoreSteps
<1> QED
  BY <1>6, <1>7, <1>8 DEF GrantsInv

\* Each step keeps the invariants about grants.
LEMMA GrantsStep ==
  ASSUME SessionTypeOK, TurnInv, IInv, NumberInv, Believed, PayloadInv, SeenInv, HandInv, GrantsInv,
         IInv', NumberInv', Believed', [SNext]_svars
  PROVE  GrantsInv'
<1> USE DEF server, At
<1>1. CASE Quiet
  <2>1. UNCHANGED <<storage, payload, server, astray, hand>>
    BY <1>1 DEF Quiet
  <2>2. /\ Selectable(Main)' = Selectable(Main) /\ Reachable' = Reachable /\ Live' = Live
        /\ \A c \in Selectable(Main) : TokenOf(c)' = TokenOf(c)
    BY <2>1, ReachableSame DEF Live
  <2>3. \A q \in Procs : step'[q] \in {"authorize", "remove", "save"} => step'[q] = step[q]
    BY <1>1 DEF Quiet, Same
  <2>4. ReplaceInv'
    BY <2>1, <2>2, <2>3 DEF GrantsInv, ReplaceInv
  <2>5. NewestInv' /\ NoSilentOrphan'
    BY <2>1, <2>2 DEF GrantsInv, NewestInv, NoSilentOrphan
  <2> QED BY <2>4, <2>5 DEF GrantsInv
<1>2. ASSUME NEW p \in Procs, step[p] \notin {"idle", "lock"}, Advance(p) \/ Kill(p)
      PROVE  GrantsInv'
  <2>1. /\ step \in [Procs -> Steps] /\ hand \in [Procs -> Nat]
        /\ \A s : Move(p, s) => step'[p] = s
        /\ Finish(p) => step'[p] = "unlock" /\ hand'[p] = 0
    BY DEF SessionTypeOK, Move, Finish
  \* The token read is what reads still find.
  <2>2. ASSUME Held(p) # 0, step[p] \in {"read", "use", "revoke", "revokePrevious"}
        PROVE  Reachable = {grant[Held(p)]}
    <3>1. seen[p] # NoCredential
      BY <2>2 DEF Held, TokenOf, NoCredential
    <3>2. seen[p] \in Selectable(Main)
      BY <2>2, <3>1 DEF SeenInv
    <3> QED BY <3>2, ReachableGrants DEF Held
  <2>3. CASE \/ Unlock(p) \/ ReadFailed(p) \/ FoundNothing(p) \/ FoundRecord(p)
             \/ NotRefreshed(p) \/ Removed(p)
    <3>1. UNCHANGED <<storage, payload, grant, valid>> /\ Live' = Live
      BY <2>3 DEF Unlock, ReadFailed, FoundNothing, FoundRecord, NotRefreshed, Removed, Exit,
         Operate, Call, vars, storage, Live
    <3>2. hand' = hand \/ hand'[p] = 0
      BY <2>1, <2>3 DEF Unlock, ReadFailed, FoundNothing, FoundRecord, NotRefreshed, Removed
    <3>3. hand[p] = 0
      BY <2>3 DEF Unlock, ReadFailed, FoundNothing, FoundRecord, NotRefreshed, Removed, TurnInv
    <3>4. astray \subseteq astray'
      BY <2>3 DEF Unlock, ReadFailed, FoundNothing, FoundRecord, NotRefreshed, Removed
    <3>5. /\ step'[p] # "save"
          /\ step'[p] \in {"authorize", "remove"} => Reachable \subseteq astray'
      BY <2>1, <2>3 DEF Unlock, ReadFailed, FoundNothing, FoundRecord, NotRefreshed, Removed, Exit,
         Operate
    <3> QED BY <1>2, <3>1, <3>2, <3>3, <3>4, <3>5, SettleGrants
  <2>4. CASE RevokePrevious(p) \/ Revoke(p)
    <3>1. UNCHANGED <<storage, payload, grant, astray>>
      BY <2>4 DEF RevokePrevious, Revoke, Revoked, Operate, Call, vars, storage
    <3>2. Revoked(Held(p)) \/ (UNCHANGED valid /\ Finish(p))
      BY <2>4 DEF RevokePrevious, Revoke
    <3>3. hand[p] = 0 /\ (hand' = hand \/ hand'[p] = 0)
      BY <2>1, <2>4 DEF RevokePrevious, Revoke, TurnInv
    <3>4. step'[p] # "save"
      BY <2>1, <2>4 DEF RevokePrevious, Revoke, Operate
    <3>5. Held(p) # 0 /\ step[p] \in {"revoke", "revokePrevious"}
      BY <2>4 DEF SeenInv, RevokePrevious, Revoke
    <3>6. CASE Revoked(Held(p))
      <4>1. /\ Live' = Live \ {grant[Held(p)]}
            /\ \A u \in valid : u \in valid' \/ grant[u] = grant[Held(p)]
        BY <3>6, RevokedGrant
      <4>2. Reachable \cap Live' = {}
        BY <2>2, <3>5, <4>1
      <4> QED BY <1>2, <3>1, <3>3, <3>4, <4>1, <4>2, SettleGrants
    <3>7. CASE UNCHANGED valid /\ Finish(p)
      <4>1. Live' = Live /\ step'[p] = "unlock"
        BY <2>1, <3>1, <3>7 DEF Live
      <4> QED BY <1>2, <3>1, <3>3, <3>7, <4>1, SettleGrants
    <3> QED BY <3>2, <3>6, <3>7
  <2>5. CASE SaveEnded(p)
    <3>1. /\ UNCHANGED <<storage, payload, grant, valid>> /\ Live' = Live
          /\ step[p] = "save" /\ pc[p] = "idle" /\ InHand(p)
      BY <2>5 DEF SaveEnded, vars, storage, Live, HandInv
    <3>2. astray \subseteq astray' /\ step'[p] \in {"unlock", "compensate"}
      BY <2>1, <2>5 DEF SaveEnded
    <3>3. hand' = hand \/ hand'[p] = 0
      BY <2>1, <2>5 DEF SaveEnded
    <3>4. ASSUME hand[p] # 0, hand'[p] = 0, grant[hand[p]] \notin astray'
          PROVE  \E c \in Selectable(Main) : TokenOf(c) = hand[p] /\ hand[p] \in valid'
      <4>1. outcome[p] \in {"ok", "committed"}
        BY <2>5, <3>4 DEF SaveEnded
      <4>2. promise[Main].kind = "held" /\ payload[promise[Main].gen] = hand[p]
        BY <3>1, <4>1 DEF InHand
      <4>3. PICK c \in Selectable(Main) : c.gen = promise[Main].gen
        BY <4>2 DEF Believed
      <4> QED BY <3>1, <4>2, <4>3, ReachableGrants DEF InHand
    <3> QED BY <1>2, <3>1, <3>2, <3>3, <3>4, SettleGrants
  <2>6. CASE Compensate(p)
    <3>1. /\ UNCHANGED <<storage, payload, grant>> /\ step'[p] = "unlock" /\ hand'[p] = 0
          /\ astray \subseteq astray'
      BY <2>1, <2>6 DEF Compensate, vars, storage, Revoked
    <3>2. CASE Revoked(hand[p])
      <4>1. /\ Live' = Live \ {grant[hand[p]]}
            /\ \A u \in valid : u \in valid' \/ grant[u] = grant[hand[p]]
        BY <3>2, RevokedGrant
      <4> QED BY <1>2, <3>1, <4>1, SettleGrants
    <3>3. CASE UNCHANGED valid /\ grant[hand[p]] \in astray'
      <4>1. Live' = Live
        BY <3>1, <3>3 DEF Live
      <4> QED BY <1>2, <3>1, <3>3, <4>1, SettleGrants
    <3> QED BY <2>6, <3>2, <3>3 DEF Compensate
  <2>7. CASE Kill(p)
    <3>1. /\ UNCHANGED <<storage, payload, grant, valid>> /\ Live' = Live
          /\ step'[p] = "idle" /\ hand'[p] = 0
          /\ astray \subseteq astray' /\ (hand[p] # 0 => grant[hand[p]] \in astray')
      BY <2>1, <2>7 DEF Kill, Exit, Crash, storage, Live
    <3> QED BY <1>2, <3>1, SettleGrants
  <2>8. ~Enter(p) /\ ~Busy(p)
    BY <1>2 DEF Enter, Busy
  <2> QED BY <1>2, <2>3, <2>4, <2>5, <2>6, <2>7, <2>8, MintGrants, StoreGrants DEF Advance
<1> QED
  BY <1>1, <1>2, WhoseStep

-----------------------------------------------------------------------------
(* The properties of the session *)

\* The invariants about grants hold in every reachable state.
LEMMA GrantsKept == SSpec => []GrantsInv
<1>1. SInit => GrantsInv
  <2> SUFFICES ASSUME SInit PROVE GrantsInv
    OBVIOUS
  <2>1. Selectable(Main) = {}
    <3>1. /\ authority[Main] = NoAuthority
          /\ native[Main] = NoCredential /\ file[Main] = NoCredential
      BY SessionAssumption DEF SInit, Init
    <3>2. \A r \in Reach : Selection(Main, r) = NoCredential
      BY <3>1 DEF Selection, NoAuthority, LegacyChoice, NativeSeen
    <3> QED BY <3>2 DEF Selectable
  <2>2. Live = {}
    BY DEF SInit, Live
  <2> QED BY <2>1, <2>2 DEF SInit, GrantsInv, ReplaceInv, NewestInv, NoSilentOrphan
<1>2. IInv /\ NumberInv /\ BoundInv => Believed
  BY BelievedHolds
<1>3. SessionTypeOK /\ TurnInv /\ IInv /\ NumberInv /\ Believed /\ PayloadInv /\ SeenInv /\ HandInv
        /\ GrantsInv /\ IInv' /\ NumberInv' /\ Believed' /\ [SNext]_svars => GrantsInv'
  BY GrantsStep
<1> QED
  BY <1>1, <1>2, <1>3, SessionStoreInvariant, SessionTurns, TokenPlaces, ReadsFindTokens, PTL
     DEF SSpec

\* The whole inductive invariant holds in every reachable state.
THEOREM SessionInvariantHolds == SSpec => []SInv
<1>1. SessionTypeOK /\ TurnInv /\ BoundInv /\ PayloadInv /\ SeenInv /\ HandInv /\ CarriedInv
        /\ GrantsInv => SInv
  BY DEF SInv, GrantsInv
<1> QED
  BY <1>1, SessionTurns, TokenPlaces, ReadsFindTokens, GrantsKept, PTL

\* No grant is left behind in silence: what the server honours is in the store,
\* in the hand of a running command, or went astray in a way the client cannot
\* help or tells its user about (cli.ts:442-520, agent-client.ts:65-140).
THEOREM NothingOrphaned == SSpec => []NoSilentOrphan
<1>1. GrantsInv => NoSilentOrphan
  BY DEF GrantsInv
<1> QED
  BY <1>1, GrantsKept, PTL

\* A token revoked because its save had failed is found by no later read
\* (agent-client.ts:95-105).
THEOREM CompensatedStaysOut == SSpec => []CompensatedNeverRead
<1>1. IInv /\ NumberInv /\ BoundInv /\ SessionTypeOK /\ CarriedInv => CompensatedNeverRead
  <2> SUFFICES ASSUME IInv, NumberInv, BoundInv, SessionTypeOK, CarriedInv,
                      NEW c \in Selectable(Main), TokenOf(c) \in compensated
               PROVE  FALSE
    BY DEF CompensatedNeverRead
  <2>1. c.gen \in (1..issued) \ refused /\ c.gen # 0
    BY BelievedHolds DEF Believed
  <2>2. TokenOf(c) = payload[c.gen]
    BY <2>1 DEF TokenOf
  <2> QED BY <2>1, <2>2 DEF CarriedInv, CarriedBy
<1> QED
  BY <1>1, SessionStoreInvariant, SessionTurns, TokenPlaces, PTL

\* A command that is about to refresh holds its grant's one good token: no
\* token is presented twice (agent-client.ts:65-140).
THEOREM NewestIsUsed == SSpec => []NewestTokenInUse
<1>1. SessionTypeOK /\ TurnInv /\ SeenInv /\ GrantsInv => NewestTokenInUse
  <2> SUFFICES ASSUME SessionTypeOK, TurnInv, SeenInv, GrantsInv,
                      NEW p \in Procs, step[p] = "use", grant[Held(p)] \in Live \ astray
               PROVE  Held(p) \in valid
    BY DEF NewestTokenInUse
  <2>1. Held(p) # 0 /\ seen[p] \in Selectable(Main) \cup {NoCredential}
    BY DEF SeenInv
  <2>2. seen[p] \in Selectable(Main)
    BY <2>1 DEF Held, TokenOf, NoCredential
  <2>3. \A q \in Procs : hand[q] = 0
    BY Alone DEF TurnInv
  <2> QED BY <2>2, <2>3 DEF GrantsInv, NewestInv, Held
<1> QED
  BY <1>1, SessionTurns, ReadsFindTokens, GrantsKept, PTL

\* In the session, too, what the client was told was saved is what reads find.
THEOREM SessionPromises == SSpec => [](RefusedNeverSelected /\ HeldIsSelected /\ RemovedLeavesNothing)
<1>1. IInv => RefusedNeverSelected /\ HeldIsSelected /\ RemovedLeavesNothing
  BY InvariantSuffices
<1> QED
  BY <1>1, SessionStoreInvariant, PTL
=============================================================================
