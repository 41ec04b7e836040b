----------------------- MODULE CredentialStoreInvariant -----------------------
(***************************************************************************)
(* The inductive invariant of CredentialStore.  Its state properties speak *)
(* of what a read selects; to be inductive they need where each save and   *)
(* removal in progress stands, and whose each generation is.               *)
(***************************************************************************)
EXTENDS CredentialStore

\* A command inside the transaction owns the lock, and its step is its call's.
LockInv ==
  \A p \in Procs :
    /\ pc[p] \in InLock => owner = p
    /\ pc[p] # "idle" => target[p] \in Profiles /\ op[p] # "none"
    /\ pc[p] = "read" => op[p] = "read"
    /\ pc[p] \in SaveSteps => op[p] = "save"
    /\ pc[p] \in RemoveSteps => op[p] = "remove"

\* Every generation in storage was handed out, with its own credential.
StampInv ==
  \A f \in Profiles :
    /\ authority[f].gen \in 0..issued
    /\ \A c \in {native[f], file[f]} :
         c.gen # 0 => c.gen \in 1..issued /\ c = Stamped(c.gen)

\* Profile f cannot select generation g any more.
Dead(f, g) ==
  authority[f].gen = g =>
    authority[f].backend = "removed" \/ (native[f].gen # g /\ file[f].gen # g)

\* Profile f selects generation g, unless file mode took its file entry.
Holds(f, g) ==
  /\ authority[f] \in {Record("pending", g), Record("native", g), Record("fallback", g)}
  /\ authority[f].backend = "native" => native[f] = Stamped(g)
  /\ authority[f].backend = "fallback" => native[f].gen # g
  /\ native[f] # Stamped(g) => native[f].gen # g /\ (tainted[f] \/ file[f] = Stamped(g))

\* No profile but f has a trace of generation g.
OnlyIn(f, g) ==
  \A h \in Profiles \ {f} :
    authority[h].gen # g /\ native[h].gen # g /\ file[h].gen # g

\* A save's generation is nobody else's, and not refused.
Fresh(p) ==
  /\ generation[p] \in 1..issued
  /\ generation[p] \notin refused
  /\ OnlyIn(target[p], generation[p])

\* What a save has established when it reaches each of its steps.
Reached(p) ==
  LET f == target[p]
      g == generation[p]
      unwritten == native[f].gen # g /\ file[f].gen # g
  IN  CASE pc[p] = "savePending" -> authority[f].gen # g /\ unwritten
        [] pc[p] \in {"saveNative", "saveFile"} ->
             authority[f] = Record("pending", g) /\ unwritten
        [] pc[p] = "claimNative" ->
             authority[f] = Record("pending", g) /\ native[f] = Stamped(g)
        [] pc[p] = "claimFile" ->
             /\ authority[f] = Record("pending", g) /\ native[f].gen # g
             /\ tainted[f] \/ file[f] = Stamped(g)
        [] pc[p] = "cleanFallback" ->
             authority[f] = Record("native", g) /\ native[f] = Stamped(g)
        [] pc[p] \in {"recover", "retire"} ->
             /\ authority[f].gen = g
             /\ authority[f].backend = "fallback" => native[f].gen # g
        [] pc[p] = "release" ->
             /\ outcome[p] \in {"ok", "committed"} => Holds(f, g)
             /\ outcome[p] = "plain" => Dead(f, g)
        [] OTHER -> TRUE

SaveInv ==
  \A p \in Procs : pc[p] \in InLock /\ op[p] = "save" =>
    /\ Fresh(p)
    /\ Reached(p)
    /\ pc[p] \in SaveSteps \ {"savePending"} => promise[target[p]].kind = "none"

\* Where a removal in progress stands.
RemoveInv ==
  \A p \in Procs : pc[p] \in InLock /\ op[p] = "remove" =>
    LET f == target[p]
        cleared == native[f] = NoCredential /\ (tainted[f] \/ file[f] = NoCredential)
    IN  /\ generation[p] \in 1..issued
        /\ pc[p] = "removeFile" => native[f] = NoCredential /\ promise[f].kind = "none"
        /\ pc[p] = "removeAuthority" => cleared /\ promise[f].kind = "none"
        /\ pc[p] = "release" /\ outcome[p] = "ok" =>
             cleared /\ authority[f].backend = "removed"

RefusedInv ==
  /\ refused \subseteq 1..issued
  /\ \A g \in refused, f \in Profiles : Dead(f, g)

PromiseInv ==
  \A f \in Profiles :
    /\ promise[f].kind = "held" => promise[f].gen \in 1..issued /\ Holds(f, promise[f].gen)
    /\ promise[f].kind = "removed" =>
         /\ native[f] = NoCredential /\ authority[f].backend = "removed"
         /\ tainted[f] \/ file[f] = NoCredential

IInv == TypeOK /\ LockInv /\ StampInv /\ SaveInv /\ RemoveInv /\ RefusedInv /\ PromiseInv

\* What the refinement needs besides: bounds, empty promises, readers, and that
\* profiles share no generation.
RegisterInv ==
  /\ issued <= MaxGeneration
  /\ \A f \in Profiles : promise[f].kind = "none" => promise[f] = NoPromise
  /\ \A p \in Procs : pc[p] # "idle" /\ op[p] # "read" => seen[p] = NoCredential
  /\ \A f, h \in Profiles : f # h =>
       \A c \in {native[f], file[f]}, d \in {native[h], file[h]} : c.gen = d.gen => c.gen = 0
=============================================================================
