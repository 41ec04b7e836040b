--------------------------- MODULE CredentialStore ---------------------------
(***************************************************************************)
(* The credential store of src/credential-store.ts in its POSIX automatic  *)
(* mode.  A profile's credentials live in one of two places, the operating *)
(* system keychain (native) and a private JSON file (the fallback), and a  *)
(* token-free authority record says which place, and which generation, is  *)
(* to be believed.  Every operation is a transaction under one lock        *)
(* directory; every call that leaves the process may succeed, or fail with *)
(* or without its effect, or be cut short by a crash that abandons the     *)
(* lock.  Commands that force BIZYEET_CREDENTIAL_STORE=file share the file *)
(* and go round the authority record and its lock.                         *)
(*                                                                         *)
(* The locked rewriting of one JSON file is LockedCollection's subject;    *)
(* here it is one step.                                                    *)
(***************************************************************************)
EXTENDS Naturals

CONSTANTS
  Procs,         \* commands that may run at the same time
  Profiles,      \* local profile names
  LegacyTokens,  \* credentials written without a storage generation
  MaxGeneration  \* bound: storage generations handed out in a behaviour

ASSUME ConstantsAssumption ==
  /\ MaxGeneration \in Nat
  /\ LegacyTokens \subseteq Nat \ {0}
  /\ Procs \cap {"free", "abandoned"} = {}   \* the lock's ownerless states
  /\ "no profile" \notin Profiles

VARIABLES
  authority,  \* credential-authority.json: profile -> backend and generation
  native,     \* the keychain entry of each profile
  file,       \* credentials.json: the fallback entry of each profile
  owner,      \* .credential-authority.lock: its owner, or Free, or Abandoned
  pc,         \* next step of each command's transaction
  op,         \* which store operation the command called
  target,     \* the profile it named
  generation, \* the generation its transaction writes
  outcome,    \* how the transaction ends for its caller
  seen,       \* the credential the last read handed to its caller
  issued,     \* generations handed out so far (randomUUID never repeats one)
  promise,    \* history: what the last finished mutation told its caller
  tainted,    \* history: file-mode commands touched the profile's file
              \* entry since the last mutation of the profile took effect
  refused     \* history: generations whose save failed plainly, so that
              \* the caller revokes them

storage == <<authority, native, file>>
commands == <<pc, op, target, generation, outcome, seen, issued>>
history == <<promise, tainted, refused>>
vars == <<authority, native, file, owner, pc, op, target, generation, outcome,
          seen, issued, promise, tainted, refused>>

-----------------------------------------------------------------------------
(* Values *)

Free == "free"
Abandoned == "abandoned"

NoProfile == "no profile"

Credential == [gen : Nat, tok : Nat]
NoCredential == [gen |-> 0, tok |-> 0]
Stamped(g) == [gen |-> g, tok |-> g]      \* {...credentials, storageGeneration}
Unstamped(t) == [gen |-> 0, tok |-> t]    \* no storageGeneration

Authority == [backend : {"none", "pending", "native", "fallback", "removed"},
              gen : Nat]
NoAuthority == [backend |-> "none", gen |-> 0]
Record(b, g) == [backend |-> b, gen |-> g]

Promise == [kind : {"none", "held", "removed"}, gen : Nat]
NoPromise == [kind |-> "none", gen |-> 0]

SaveSteps == {"savePending", "saveNative", "saveFile", "claimNative",
              "claimFile", "cleanFallback", "recover", "retire"}
RemoveSteps == {"removeNative", "removeFile", "removeAuthority"}
InLock == SaveSteps \cup RemoveSteps \cup {"read", "release"}
Operation == {"read", "save", "remove", "none"}
Outcome == {"ok", "plain", "committed", "uncertain", "crashed"}

TypeOK ==
  /\ authority \in [Profiles -> Authority]
  /\ native \in [Profiles -> Credential]
  /\ file \in [Profiles -> Credential]
  /\ owner \in Procs \cup {Free, Abandoned}
  /\ pc \in [Procs -> InLock \cup {"idle", "lock"}]
  /\ op \in [Procs -> Operation]
  /\ target \in [Procs -> Profiles \cup {NoProfile}]
  /\ generation \in [Procs -> Nat]
  /\ outcome \in [Procs -> Outcome]
  /\ seen \in [Procs -> Credential]
  /\ issued \in Nat
  /\ promise \in [Profiles -> Promise]
  /\ tainted \in [Profiles -> BOOLEAN]
  /\ refused \subseteq Nat

-----------------------------------------------------------------------------
(* What a read selects.  A reach says what answers at this moment: the     *)
(* keychain may be up, say it is unavailable, or fail otherwise; the file  *)
(* may be readable or not.                                                 *)

Reach == [keychain : {"up", "unavailable", "failing"}, file : BOOLEAN]
AllUp == [keychain |-> "up", file |-> TRUE]

\* Variant: a record is believed whatever its generation.
MatchingAny(c, g) == c

Matching(c, g) == IF c.gen = g THEN c ELSE NoCredential

NativeSeen(f, r) == IF r.keychain = "up" THEN native[f] ELSE NoCredential

\* The reads that throw instead of selecting.
Readable(f, r) ==
  CASE authority[f].backend = "removed" -> TRUE
    [] authority[f].backend = "fallback" -> r.file
    [] authority[f].backend = "native" -> r.keychain = "up"
    [] OTHER -> r.keychain # "failing" /\ r.file

\* While a save is pending its generation may be in either place.
PendingChoice(f, r) ==
  LET n == Matching(NativeSeen(f, r), authority[f].gen)
      m == Matching(file[f], authority[f].gen)
  IN  IF n # NoCredential /\ m # NoCredential /\ n # m THEN NoCredential
      ELSE IF n # NoCredential THEN n ELSE m

\* Records from before there was an authority: no order between them.
LegacyChoice(f, r) ==
  LET n == NativeSeen(f, r)
      m == file[f]
  IN  IF \/ n.gen # 0 \/ m.gen # 0
         \/ r.keychain # "up" /\ m # NoCredential
         \/ n # NoCredential /\ m # NoCredential /\ n # m
      THEN NoCredential
      ELSE IF n # NoCredential THEN n ELSE m

Selection(f, r) ==
  CASE authority[f].backend = "removed" -> NoCredential
    [] authority[f].backend = "fallback" -> Matching(file[f], authority[f].gen)
    [] authority[f].backend = "native" -> Matching(native[f], authority[f].gen)
    [] authority[f].backend = "pending" -> PendingChoice(f, r)
    [] OTHER -> LegacyChoice(f, r)

\* The credentials some read could hand out in this state.
Selectable(f) ==
  {Selection(f, r) : r \in {q \in Reach : Readable(f, q)}} \ {NoCredential}

\* Variant: a pending save without any candidate passes for recoverable.
RecoverableVacuously(f, g, r) ==
  /\ authority[f].gen = g
  /\ authority[f].backend = "pending"
  /\ r.keychain # "failing" /\ r.file
  /\ \A c \in {NativeSeen(f, r), file[f]} : c.gen = g => c = Stamped(g)

\* hasRecoverableWrite: may the failed save of generation g be relied on?
Recoverable(f, g, r) ==
  /\ authority[f].gen = g
  /\ CASE authority[f].backend = "native" ->
            r.keychain = "up" /\ native[f] = Stamped(g)
       [] authority[f].backend = "fallback" -> r.file /\ file[f] = Stamped(g)
       [] authority[f].backend = "pending" ->
            LET found == {c \in {NativeSeen(f, r), file[f]} : c.gen = g}
            IN  /\ r.keychain # "failing" /\ r.file
                /\ found # {} /\ \A c \in found : c = Stamped(g)
       [] OTHER -> FALSE

-----------------------------------------------------------------------------
Init ==
  /\ authority = [f \in Profiles |-> NoAuthority]
  /\ native \in [Profiles -> {NoCredential} \cup {Unstamped(t) : t \in LegacyTokens}]
  /\ file \in [Profiles -> {NoCredential} \cup {Unstamped(t) : t \in LegacyTokens}]
  /\ owner = Free
  /\ pc = [p \in Procs |-> "idle"]
  /\ op = [p \in Procs |-> "none"]
  /\ target = [p \in Procs |-> NoProfile]
  /\ generation = [p \in Procs |-> 0]
  /\ outcome = [p \in Procs |-> "ok"]
  /\ seen = [p \in Procs |-> NoCredential]
  /\ issued = 0
  /\ promise = [f \in Profiles |-> NoPromise]
  /\ tainted = [f \in Profiles |-> FALSE]
  /\ refused = {}

Goto(p, from, to) == pc[p] = from /\ pc' = [pc EXCEPT ![p] = to]

\* The call is over for its caller: its local variables are gone.
Return(p, from, how) ==
  /\ Goto(p, from, "idle")
  /\ outcome' = [outcome EXCEPT ![p] = how]
  /\ op' = [op EXCEPT ![p] = "none"]
  /\ target' = [target EXCEPT ![p] = NoProfile]
  /\ generation' = [generation EXCEPT ![p] = 0]

\* The transaction is over: only the lock is left to remove.
Conclude(p, from, how) ==
  /\ Goto(p, from, "release")
  /\ outcome' = [outcome EXCEPT ![p] = how]

\* A mutation that takes effect ends what earlier callers were told.
Displace(f) ==
  /\ promise' = [promise EXCEPT ![f] = NoPromise]
  /\ tainted' = [tainted EXCEPT ![f] = FALSE]

SetAuthority(f, b, g) == authority' = [authority EXCEPT ![f] = Record(b, g)]
SetNative(f, c) == native' = [native EXCEPT ![f] = c]
SetFile(f, c) == file' = [file EXCEPT ![f] = c]

-----------------------------------------------------------------------------
(* Calling the store, and its lock *)

Call(p, o, f) ==
  /\ pc[p] = "idle"
  /\ pc' = [pc EXCEPT ![p] = "lock"]
  /\ op' = [op EXCEPT ![p] = o]
  /\ target' = [target EXCEPT ![p] = f]
  /\ outcome' = [outcome EXCEPT ![p] = "ok"]
  /\ seen' = [seen EXCEPT ![p] = NoCredential]
  /\ UNCHANGED <<storage, owner, generation, issued, history>>

FirstStep(o) == CASE o = "read" -> "read"
                  [] o = "save" -> "savePending"
                  [] OTHER -> "removeNative"

\* mkdir of the lock directory succeeds.  A mutation draws its generation.
Acquire(p) ==
  /\ pc[p] = "lock"
  /\ owner = Free
  /\ op[p] # "read" => issued < MaxGeneration
  /\ owner' = p
  /\ pc' = [pc EXCEPT ![p] = FirstStep(op[p])]
  /\ issued' = IF op[p] = "read" THEN issued ELSE issued + 1
  /\ generation' = [generation EXCEPT ![p] = issued']
  /\ UNCHANGED <<storage, op, target, outcome, seen, history>>

\* The retries ran out while the lock existed, or mkdir failed otherwise.
GiveUp(p) ==
  /\ Return(p, "lock", "plain")
  /\ UNCHANGED <<storage, owner, seen, issued, history>>

\* withCredentialCleanup: the outcome once rmdir did or did not remove the lock.
AfterCleanup(how, removed) ==
  IF ~removed /\ how = "ok" THEN "committed" ELSE how

\* What the caller of a mutation is entitled to rely on from here.
Told(o, f, g, how) ==
  CASE o = "save" /\ how \in {"ok", "committed"} ->
         promise' = [promise EXCEPT ![f] = [kind |-> "held", gen |-> g]]
    [] o = "remove" /\ how = "ok" ->
         promise' = [promise EXCEPT ![f] = [kind |-> "removed", gen |-> 0]]
    [] OTHER -> UNCHANGED promise

Release(p) ==
  \E removed \in BOOLEAN :
    LET how == AfterCleanup(outcome[p], removed)
    IN  /\ Return(p, "release", how)
        /\ owner' = IF removed THEN Free ELSE Abandoned
        /\ seen' = IF how = "ok" THEN seen
                                 ELSE [seen EXCEPT ![p] = NoCredential]
        /\ Told(op[p], target[p], generation[p], how)
        /\ refused' = IF op[p] = "save" /\ how = "plain"
                      THEN refused \cup {generation[p]} ELSE refused
        /\ UNCHANGED <<storage, issued, tainted>>

-----------------------------------------------------------------------------
(* read: nothing changes under the lock but the file, which is read last. *)

ReadStored(p) ==
  \E r \in Reach :
    /\ Conclude(p, "read", "ok")
    /\ Readable(target[p], r)
    /\ seen' = [seen EXCEPT ![p] = Selection(target[p], r)]
    /\ UNCHANGED <<storage, owner, op, target, generation, issued, history>>

\* The authority record, the keychain or the file cannot be read.
ReadFails(p) ==
  /\ Conclude(p, "read", "plain")
  /\ UNCHANGED <<storage, owner, op, target, generation, seen, issued, history>>

-----------------------------------------------------------------------------
(* save *)

SaveFrame == <<owner, op, target, generation, seen, issued, refused>>

\* Variant: the secret is written before its ownership is.
SavePendingSkipped(p) ==
  /\ Goto(p, "savePending", "saveNative")
  /\ Displace(target[p])
  /\ UNCHANGED <<SaveFrame, storage, outcome>>

SavePending(p) ==
  /\ Goto(p, "savePending", "saveNative")
  /\ SetAuthority(target[p], "pending", generation[p])
  /\ Displace(target[p])
  /\ UNCHANGED <<SaveFrame, native, file, outcome>>

\* This write is outside the try: its failure is the caller's, as it is.
SavePendingFails(p) ==
  /\ Conclude(p, "savePending", "plain")
  /\ \/ SetAuthority(target[p], "pending", generation[p]) /\ Displace(target[p])
     \/ UNCHANGED <<authority, promise, tainted>>
  /\ UNCHANGED <<SaveFrame, native, file>>

SaveNative(p) ==
  /\ Goto(p, "saveNative", "claimNative")
  /\ SetNative(target[p], Stamped(generation[p]))
  /\ UNCHANGED <<SaveFrame, authority, file, outcome, promise, tainted>>

\* The keychain says it is unavailable: the file takes the record.
NativeUnavailable(p) ==
  /\ Goto(p, "saveNative", "saveFile")
  /\ UNCHANGED <<SaveFrame, storage, outcome, promise, tainted>>

SaveNativeFails(p) ==
  /\ Goto(p, "saveNative", "recover")
  /\ SetNative(target[p], Stamped(generation[p])) \/ UNCHANGED native
  /\ UNCHANGED <<SaveFrame, authority, file, outcome, promise, tainted>>

SaveFile(p) ==
  /\ Goto(p, "saveFile", "claimFile")
  /\ SetFile(target[p], Stamped(generation[p]))
  /\ UNCHANGED <<SaveFrame, authority, native, outcome, promise, tainted>>

SaveFileFails(p) ==
  /\ Goto(p, "saveFile", "recover")
  /\ SetFile(target[p], Stamped(generation[p])) \/ UNCHANGED file
  /\ UNCHANGED <<SaveFrame, authority, native, outcome, promise, tainted>>

\* The file was written but .credentials.lock could not be removed.
SaveFileLeavesLock(p) ==
  /\ Conclude(p, "saveFile", "committed")
  /\ SetFile(target[p], Stamped(generation[p]))
  /\ UNCHANGED <<SaveFrame, authority, native, promise, tainted>>

ClaimNative(p) ==
  /\ Goto(p, "claimNative", "cleanFallback")
  /\ SetAuthority(target[p], "native", generation[p])
  /\ UNCHANGED <<SaveFrame, native, file, outcome, promise, tainted>>

ClaimFile(p) ==
  /\ Conclude(p, "claimFile", "ok")
  /\ SetAuthority(target[p], "fallback", generation[p])
  /\ UNCHANGED <<SaveFrame, native, file, promise, tainted>>

ClaimFails(p, from, backend) ==
  /\ Goto(p, from, "recover")
  /\ \/ SetAuthority(target[p], backend, generation[p])
     \/ UNCHANGED authority
  /\ UNCHANGED <<SaveFrame, native, file, outcome, promise, tainted>>

CleanFallback(p) ==
  /\ Conclude(p, "cleanFallback", "ok")
  /\ SetFile(target[p], NoCredential)
  /\ UNCHANGED <<SaveFrame, authority, native, promise, tainted>>

CleanFallbackFails(p) ==
  /\ Conclude(p, "cleanFallback", "committed")
  /\ SetFile(target[p], NoCredential) \/ UNCHANGED file
  /\ UNCHANGED <<SaveFrame, authority, native, promise, tainted>>

\* The three reads of hasRecoverableWrite, each of which may fail by itself.
Recover(p) ==
  \E r \in Reach, authorityRead \in BOOLEAN :
    /\ pc[p] = "recover"
    /\ IF authorityRead /\ Recoverable(target[p], generation[p], r)
       THEN Conclude(p, "recover", "committed")
       ELSE Goto(p, "recover", "retire") /\ UNCHANGED outcome
    /\ UNCHANGED <<SaveFrame, storage, promise, tainted>>

\* Variant: the failed generation is left as it is.
RetireSkipped(p) ==
  /\ Conclude(p, "retire", "plain")
  /\ UNCHANGED <<SaveFrame, storage, promise, tainted>>

Retire(p) ==
  /\ Conclude(p, "retire", "plain")
  /\ SetAuthority(target[p], "removed", generation[p])
  /\ UNCHANGED <<SaveFrame, native, file, promise, tainted>>

RetireFails(p) ==
  /\ Conclude(p, "retire", "uncertain")
  /\ \/ SetAuthority(target[p], "removed", generation[p])
     \/ UNCHANGED authority
  /\ UNCHANGED <<SaveFrame, native, file, promise, tainted>>

-----------------------------------------------------------------------------
(* remove: any failure ends it, and is the caller's as it is. *)

RemoveNative(p) ==
  /\ Goto(p, "removeNative", "removeFile")
  /\ SetNative(target[p], NoCredential)
  /\ Displace(target[p])
  /\ UNCHANGED <<SaveFrame, authority, file, outcome>>

\* Variant: a keychain that does not confirm the deletion is passed over.
RemoveNativeIgnored(p) ==
  /\ Goto(p, "removeNative", "removeFile")
  /\ Displace(target[p])
  /\ UNCHANGED <<SaveFrame, storage, outcome>>

RemoveNativeFails(p) ==
  /\ Conclude(p, "removeNative", "plain")
  /\ \/ SetNative(target[p], NoCredential) /\ Displace(target[p])
     \/ UNCHANGED <<native, promise, tainted>>
  /\ UNCHANGED <<SaveFrame, authority, file>>

RemoveFile(p) ==
  /\ Goto(p, "removeFile", "removeAuthority")
  /\ SetFile(target[p], NoCredential)
  /\ tainted' = [tainted EXCEPT ![target[p]] = FALSE]
  /\ UNCHANGED <<SaveFrame, authority, native, outcome, promise>>

RemoveFileFails(p) ==
  /\ \/ Conclude(p, "removeFile", "plain") /\ UNCHANGED file
     \/ \E how \in {"plain", "committed"} :
          Conclude(p, "removeFile", how) /\ SetFile(target[p], NoCredential)
  /\ UNCHANGED <<SaveFrame, authority, native, promise, tainted>>

RemoveAuthority(p) ==
  /\ Conclude(p, "removeAuthority", "ok")
  /\ SetAuthority(target[p], "removed", generation[p])
  /\ UNCHANGED <<SaveFrame, native, file, promise, tainted>>

RemoveAuthorityFails(p) ==
  /\ Conclude(p, "removeAuthority", "plain")
  /\ \/ SetAuthority(target[p], "removed", generation[p])
     \/ UNCHANGED authority
  /\ UNCHANGED <<SaveFrame, native, file, promise, tainted>>

-----------------------------------------------------------------------------
(* Around the transactions *)

\* The command is killed; its lock directory, if it has it, stays behind.
Crash(p) ==
  /\ pc[p] # "idle"
  /\ Return(p, pc[p], "crashed")
  /\ seen' = [seen EXCEPT ![p] = NoCredential]
  /\ owner' = IF owner = p THEN Abandoned ELSE owner
  /\ UNCHANGED <<storage, issued, history>>

\* The operator removes a lock directory that no running command owns.
RemoveAbandonedLock ==
  /\ owner = Abandoned
  /\ owner' = Free
  /\ UNCHANGED <<storage, commands, history>>

\* BIZYEET_CREDENTIAL_STORE=file: the file alone, and unstamped records, since
\* neither a login nor a refresh carries a storageGeneration over.
FileModeSave(f, t) ==
  /\ SetFile(f, Unstamped(t))
  /\ tainted' = [tainted EXCEPT ![f] = TRUE]
  /\ UNCHANGED <<authority, native, owner, commands, promise, refused>>

FileModeRemove(f) ==
  /\ SetFile(f, NoCredential)
  /\ tainted' = [tainted EXCEPT ![f] = TRUE]
  /\ UNCHANGED <<authority, native, owner, commands, promise, refused>>

Save(p) ==
  \/ SavePending(p) \/ SavePendingFails(p)
  \/ SaveNative(p) \/ NativeUnavailable(p) \/ SaveNativeFails(p)
  \/ SaveFile(p) \/ SaveFileFails(p) \/ SaveFileLeavesLock(p)
  \/ ClaimNative(p) \/ ClaimFails(p, "claimNative", "native")
  \/ ClaimFile(p) \/ ClaimFails(p, "claimFile", "fallback")
  \/ CleanFallback(p) \/ CleanFallbackFails(p)
  \/ Recover(p) \/ Retire(p) \/ RetireFails(p)

Remove(p) ==
  \/ RemoveNative(p) \/ RemoveNativeFails(p)
  \/ RemoveFile(p) \/ RemoveFileFails(p)
  \/ RemoveAuthority(p) \/ RemoveAuthorityFails(p)

Transact(p) ==
  \/ Acquire(p) \/ GiveUp(p) \/ Release(p)
  \/ ReadStored(p) \/ ReadFails(p)
  \/ Save(p) \/ Remove(p)

Next ==
  \/ \E p \in Procs : Transact(p) \/ Crash(p)
  \/ \E p \in Procs, o \in {"read", "save", "remove"}, f \in Profiles : Call(p, o, f)
  \/ RemoveAbandonedLock
  \/ \E f \in Profiles, t \in LegacyTokens : FileModeSave(f, t)
  \/ \E f \in Profiles : FileModeRemove(f)

Spec == Init /\ [][Next]_vars

-----------------------------------------------------------------------------
(* Properties *)

\* A save that failed plainly makes its caller revoke the new grant: no later
\* read, whatever answers, may select it (credential-store.ts:153-156).
RefusedNeverSelected ==
  \A f \in Profiles : \A c \in Selectable(f) : c.gen \notin refused

\* The entry a profile's last save relied on was not overwritten by file mode.
Untouched(f) == ~tainted[f] \/ native[f].gen = promise[f].gen

\* Once a save was reported done, or done but for a cleanup, reads with
\* everything up select it, and no read selects anything else, until another
\* mutation takes effect.
HeldIsSelected ==
  \A f \in Profiles : promise[f].kind = "held" =>
    /\ Selectable(f) \subseteq {Stamped(promise[f].gen)}
    /\ Untouched(f) => Selection(f, AllUp) = Stamped(promise[f].gen)

\* A remove reported done left no secret in the keychain or the file, and
\* nothing a read could select.
RemovedLeavesNothing ==
  \A f \in Profiles : promise[f].kind = "removed" =>
    /\ native[f] = NoCredential
    /\ ~tainted[f] => file[f] = NoCredential
    /\ Selectable(f) = {}

\* A stamped credential becomes selectable in one way only: the command that
\* holds the lock writes it in its own save.  Nothing revives an older one:
\* not a keychain that returns, an authority write that fails half-way, a
\* crash, nor file mode.
OnlyItsSaveSelects ==
  [][\A f \in Profiles : \A c \in Selectable(f)' \ Selectable(f) :
       IF c.gen = 0 THEN authority[f] = NoAuthority
       ELSE owner \in Procs /\ target[owner] = f
            /\ pc[owner] \in {"saveNative", "saveFile"}
            /\ c = Stamped(generation[owner])]_vars

-----------------------------------------------------------------------------
(* The register the store implements: a profile's content is what a read   *)
(* with everything up would select, and a generation is spent when it is   *)
(* neither content nor still to be written by a running save.              *)

Content == [f \in Profiles |-> Selection(f, AllUp).gen]

InFlight == {generation[p] : p \in {q \in Procs :
               pc[q] \in {"savePending", "saveNative", "saveFile"}}}

Spent == {g \in 1..issued : g \notin InFlight /\ \A f \in Profiles : Content[f] # g}

\* A promise lapses when file mode overwrites what it rests on.
Standing ==
  [f \in Profiles |->
     IF \/ promise[f].kind = "held" /\ ~Untouched(f)
        \/ promise[f].kind = "removed" /\ tainted[f]
     THEN NoPromise ELSE promise[f]]

Register == INSTANCE CredentialRegister WITH
              Generations <- 1..MaxGeneration,
              cur <- Content,
              spent <- Spent,
              promise <- Standing,
              seen <- [p \in Procs |-> seen[p].gen]

\* The store implements the register.
ImplementsRegister == Register!RSpec
=============================================================================
