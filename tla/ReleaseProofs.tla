--------------------------- MODULE ReleaseProofs ---------------------------
(***************************************************************************)
(* The two release models.  A run of the workflow publishes once and in    *)
(* time, and the workflow makes one release, overwrites nothing and        *)
(* publishes none that is not whole: for any number of runs, attempts,     *)
(* faults and changes by hand.  The helper changes nothing but what it     *)
(* created or was told to finish, and a run that reports success is right: *)
(* for any accounts and any number of mishaps.                             *)
(***************************************************************************)
EXTENDS ReleasePublication, ReleaseEnvironment, TLAPS

-----------------------------------------------------------------------------
(* The workflow: ReleasePublication *)

Channels == {"old", "this", "other"}
Resting == {"new", "stopped", "done"}
Releasing == {"find", "create", "upload", "finish"}
Steps == Resting \cup Releasing \cup
         {"prepare", "approval", "reconcile", "recheck", "publish", "verify"}

\* Records, told without a type for every field of them.
Memory(late, exists, beta, commit, todo) ==
  [late |-> late, exists |-> exists, beta |-> beta, target |-> commit, todo |-> todo]

IsMemory(m) == m = Memory(m.late, m.exists, m.beta, m.target, m.todo)

State(step, job, attempt, commit, built, latest, memory) ==
  [step |-> step, job |-> job, attempt |-> attempt, commit |-> commit, built |-> built,
   latest |-> latest, memory |-> memory]

IsState(x) == x = State(x.step, x.job, x.attempt, x.commit, x.built, x.latest, x.memory)

IsRun(x) ==
  /\ IsState(x)
  /\ x.step \in Steps /\ x.job \in {"build", "publish", "release"}
  /\ x.attempt \in 0..MaxAttempt /\ x.built \in 0..MaxAttempt
  /\ x.commit \in Commits \cup {NoCommit}
  /\ IsMemory(x.memory) /\ x.memory.late \in BOOLEAN /\ x.memory.exists \in BOOLEAN

Release(maker, notes, public, assets) ==
  [maker |-> maker, notes |-> notes, public |-> public, assets |-> assets]

IsRelease(x) == x = Release(x.maker, x.notes, x.public, x.assets)

Registry(bytes, provenance, beta, latest) ==
  [bytes |-> bytes, provenance |-> provenance, beta |-> beta, latest |-> latest]

IsRegistry(x) ==
  /\ x = Registry(x.bytes, x.provenance, x.beta, x.latest)
  /\ x.bytes \in Commits \cup {NoCommit} /\ x.provenance \in Commits \cup {NoCommit}

Shape ==
  /\ run = [r \in Runs |-> run[r]] /\ \A r \in Runs : IsRun(run[r])
  /\ calls \in [Runs -> Nat] /\ active \in Runs \cup {NoRun}
  /\ IsRegistry(npm) /\ IsRegistry(shown)
  /\ lastId \in Nat
  /\ releases = [i \in DOMAIN releases |-> releases[i]]
  /\ DOMAIN releases \subseteq 1..lastId
  /\ \A i \in DOMAIN releases : IsRelease(releases[i])
  /\ window \in {"open", "closed"}
  /\ hands \in Nat

\* A run is active exactly while it is between its dispatch and its end.
ActiveInv == \A r \in Runs : active = r <=> run[r].step \notin Resting

\* An attempt may call npm only if it is the first, in time, and no call was made.
CallInv(r) ==
  LET x == run[r] IN
  /\ x.step = "new" <=> x.attempt = 0
  /\ x.attempt = 0 => calls[r] = 0
  /\ x.attempt = 1 /\ x.step \in {"prepare", "approval", "reconcile"} => calls[r] = 0
  /\ x.memory.late => window = "closed"
  /\ x.step \in {"recheck", "publish"} /\ ~x.memory.exists =>
       x.attempt = 1 /\ calls[r] = 0 /\ ~x.memory.late

\* What npm showed once it goes on showing.
RegistryInv ==
  /\ shown.bytes \in {NoCommit, npm.bytes}
  /\ shown.provenance \in {NoCommit, npm.provenance}
  /\ Proved(npm) => npm.provenance = npm.bytes

\* Which job a step is of; and a job that makes a release found the package on npm.
JobInv(r) ==
  LET x == run[r] IN
  /\ x.step = "new" <=> x.commit = NoCommit
  /\ x.job # "build" => x.built # 0
  /\ x.step \in {"approval", "reconcile", "recheck", "publish"} => x.job = "publish"
  /\ x.step \in {"verify"} \cup Releasing => x.job = "release"
  /\ x.step \in Releasing => npm.bytes = x.commit /\ Proved(npm)

\* The release of a run that is making one: a draft, unless it was published by hand
\* meanwhile, and what the run may find in it.
DraftInv(r) ==
  LET x == run[r]  i == run[r].memory.target IN
  /\ x.step = "create" => \A j \in DOMAIN releases : releases[j].maker # "workflow"
  /\ x.step \in {"upload", "finish"} =>
       /\ i \in 1..lastId
       /\ i \in DOMAIN releases => releases[i].public \in {"no", "overtaken"}
  /\ x.step = "upload" /\ i \in DOMAIN releases =>
       \A n \in DOMAIN releases[i].assets :
         releases[i].assets[n] \in Foreign \cup {Digest(r, n)}
  /\ x.step = "finish" /\ i \in DOMAIN releases => Complete(r, releases[i])

PubInv ==
  /\ Shape /\ ActiveInv /\ RegistryInv
  /\ \A r \in Runs : CallInv(r) /\ JobInv(r) /\ DraftInv(r)
  /\ OneRelease /\ ReleaseIsWhole

-----------------------------------------------------------------------------
\* What the updates of a run's record make of it, field by field.
LEMMA SetOne ==
  ASSUME NEW x, IsState(x), NEW v
  PROVE  /\ [x EXCEPT !.step = v] = State(v, x.job, x.attempt, x.commit, x.built, x.latest, x.memory)
         /\ [x EXCEPT !.job = v] = State(x.step, v, x.attempt, x.commit, x.built, x.latest, x.memory)
         /\ [x EXCEPT !.attempt = v] = State(x.step, x.job, v, x.commit, x.built, x.latest, x.memory)
         /\ [x EXCEPT !.commit = v] = State(x.step, x.job, x.attempt, v, x.built, x.latest, x.memory)
         /\ [x EXCEPT !.built = v] = State(x.step, x.job, x.attempt, x.commit, v, x.latest, x.memory)
         /\ [x EXCEPT !.latest = v] = State(x.step, x.job, x.attempt, x.commit, x.built, v, x.memory)
         /\ [x EXCEPT !.memory = v] = State(x.step, x.job, x.attempt, x.commit, x.built, x.latest, v)
<1>1. x \in [step : {x.step}, job : {x.job}, attempt : {x.attempt}, commit : {x.commit},
             built : {x.built}, latest : {x.latest}, memory : {x.memory}]
      BY DEF IsState, State
<1> QED BY <1>1 DEF State


LEMMA SetMemory ==
  ASSUME NEW m, IsMemory(m), NEW v, NEW w
  PROVE  /\ [m EXCEPT !.late = v] = Memory(v, m.exists, m.beta, m.target, m.todo)
         /\ [m EXCEPT !.todo = v] = Memory(m.late, m.exists, m.beta, m.target, v)
         /\ [m EXCEPT !.exists = v, !.beta = w] = Memory(m.late, v, w, m.target, m.todo)
<1>1. m \in [late : {m.late}, exists : {m.exists}, beta : {m.beta}, target : {m.target},
             todo : {m.todo}]
      BY DEF IsMemory, Memory
<1>2. [m EXCEPT !.late = v] = Memory(v, m.exists, m.beta, m.target, m.todo)
      BY <1>1 DEF Memory
<1>3. [m EXCEPT !.todo = v] = Memory(m.late, m.exists, m.beta, m.target, v)
      BY <1>1 DEF Memory
<1>4. [m EXCEPT !.exists = v] = Memory(m.late, v, m.beta, m.target, m.todo)
      BY <1>1 DEF Memory
<1>5. [Memory(m.late, v, m.beta, m.target, m.todo) EXCEPT !.beta = w]
        = Memory(m.late, v, w, m.target, m.todo)
      BY DEF Memory
<1> QED BY <1>2, <1>3, <1>4, <1>5

LEMMA Turning ==
  ASSUME NEW x, IsState(x), NEW s, NEW m
  PROVE  [x EXCEPT !.step = s, !.memory = m]
           = State(s, x.job, x.attempt, x.commit, x.built, x.latest, m)
<1>1. [x EXCEPT !.step = s]
        = State(s, x.job, x.attempt, x.commit, x.built, x.latest, x.memory)
      BY SetOne
<1>2. [State(s, x.job, x.attempt, x.commit, x.built, x.latest, x.memory)
          EXCEPT !.memory = m]
        = State(s, x.job, x.attempt, x.commit, x.built, x.latest, m)
      BY DEF State
<1> QED BY <1>1, <1>2

LEMMA Dispatching ==
  ASSUME NEW x, IsState(x), NEW s, NEW a, NEW c
  PROVE  [x EXCEPT !.step = s, !.attempt = a, !.commit = c]
           = State(s, x.job, a, c, x.built, x.latest, x.memory)
<1>1. [x EXCEPT !.step = s]
        = State(s, x.job, x.attempt, x.commit, x.built, x.latest, x.memory)
      BY SetOne
<1>2. [State(s, x.job, x.attempt, x.commit, x.built, x.latest, x.memory)
          EXCEPT !.attempt = a]
        = State(s, x.job, a, x.commit, x.built, x.latest, x.memory)
      BY DEF State
<1>3. [State(s, x.job, a, x.commit, x.built, x.latest, x.memory)
          EXCEPT !.commit = c]
        = State(s, x.job, a, c, x.built, x.latest, x.memory)
      BY DEF State
<1> QED BY <1>1, <1>2, <1>3

LEMMA Restarting ==
  ASSUME NEW x, IsState(x), NEW s, NEW j, NEW a
  PROVE  [x EXCEPT !.step = s, !.job = j, !.attempt = a]
           = State(s, j, a, x.commit, x.built, x.latest, x.memory)
<1>1. [x EXCEPT !.step = s]
        = State(s, x.job, x.attempt, x.commit, x.built, x.latest, x.memory)
      BY SetOne
<1>2. [State(s, x.job, x.attempt, x.commit, x.built, x.latest, x.memory)
          EXCEPT !.job = j]
        = State(s, j, x.attempt, x.commit, x.built, x.latest, x.memory)
      BY DEF State
<1>3. [State(s, j, x.attempt, x.commit, x.built, x.latest, x.memory)
          EXCEPT !.attempt = a]
        = State(s, j, a, x.commit, x.built, x.latest, x.memory)
      BY DEF State
<1> QED BY <1>1, <1>2, <1>3

LEMMA Preparing ==
  ASSUME NEW x, IsState(x), NEW s, NEW j, NEW b
  PROVE  [x EXCEPT !.step = s, !.job = j, !.built = b]
           = State(s, j, x.attempt, x.commit, b, x.latest, x.memory)
<1>1. [x EXCEPT !.step = s]
        = State(s, x.job, x.attempt, x.commit, x.built, x.latest, x.memory)
      BY SetOne
<1>2. [State(s, x.job, x.attempt, x.commit, x.built, x.latest, x.memory)
          EXCEPT !.job = j]
        = State(s, j, x.attempt, x.commit, x.built, x.latest, x.memory)
      BY DEF State
<1>3. [State(s, j, x.attempt, x.commit, x.built, x.latest, x.memory)
          EXCEPT !.built = b]
        = State(s, j, x.attempt, x.commit, b, x.latest, x.memory)
      BY DEF State
<1> QED BY <1>1, <1>2, <1>3

-----------------------------------------------------------------------------
LEMMA PubInvInit == PubInit => PubInv
<1> SUFFICES ASSUME PubInit PROVE PubInv
    OBVIOUS
<1> USE PublicationAssumption
<1>1. Shape
  <2>1. \A r \in Runs : run[r] = State("new", "build", 0, NoCommit, 0, "old", Nothing)
        BY DEF PubInit, State
  <2>2. ASSUME NEW r \in Runs PROVE IsRun(run[r])
    <3>1. IsMemory(Nothing) /\ Nothing.late \in BOOLEAN /\ Nothing.exists \in BOOLEAN
          BY DEF IsMemory, Memory, Nothing
    <3>2. 0 \in 0..MaxAttempt OBVIOUS
    <3> QED BY <2>1, <3>1, <3>2 DEF IsRun, IsState, State, Steps, Resting
  <2>3. run = [r \in Runs |-> run[r]] BY DEF PubInit
  <2>4. DOMAIN releases = {} /\ releases = [i \in DOMAIN releases |-> releases[i]]
        BY DEF PubInit
  <2>5. calls \in [Runs -> Nat] BY DEF PubInit
  <2> QED BY <2>2, <2>3, <2>4, <2>5 DEF PubInit, Shape, IsRegistry, Registry
<1>2. ActiveInv /\ RegistryInv
      BY DEF PubInit, ActiveInv, RegistryInv, Resting
<1>3. ASSUME NEW r \in Runs PROVE CallInv(r) /\ JobInv(r) /\ DraftInv(r)
      BY DEF PubInit, CallInv, JobInv, DraftInv, Nothing, Releasing
<1>4. OneRelease /\ ReleaseIsWhole
      BY DEF PubInit, OneRelease, ReleaseIsWhole, Public
<1> QED BY <1>1, <1>2, <1>3, <1>4 DEF PubInv

\* What a step of one run means for the runs together, when all it does to the
\* registry is to publish where nothing was.
LEMMA OneRunMoves ==
  ASSUME PubInv, NEW r \in Runs,
         run' = [q \in Runs |-> IF q = r THEN run'[r] ELSE run[q]], IsRun(run'[r]),
         active \in {r, NoRun},
         active' = IF run'[r].step \in Resting THEN NoRun ELSE r,
         calls' \in [Runs -> Nat], \A q \in Runs \ {r} : calls'[q] = calls[q],
         window' = window,
         npm.bytes # NoCommit => npm'.bytes = npm.bytes, Proved(npm) => Proved(npm'),
         CallInv(r)', JobInv(r)'
  PROVE  /\ run' = [q \in Runs |-> run'[q]]
         /\ \A q \in Runs : IsRun(run'[q])
         /\ ActiveInv'
         /\ \A q \in Runs : CallInv(q)' /\ JobInv(q)'
<1>1. \A q \in Runs \ {r} : run'[q] = run[q]
      OBVIOUS
<1>2. \A q \in Runs : IsRun(run'[q])
      BY <1>1 DEF PubInv, Shape
<1>3. ActiveInv'
  <2>1. NoRun \notin Runs BY PublicationAssumption
  <2> QED BY <1>1, <2>1 DEF PubInv, ActiveInv
<1>4. ASSUME NEW q \in Runs \ {r} PROVE CallInv(q)' /\ JobInv(q)'
  <2>1. CallInv(q)' BY <1>1 DEF PubInv, CallInv
  <2>2. JobInv(q)' BY <1>1 DEF PubInv, JobInv, RegistryInv, Proved
  <2> QED BY <2>1, <2>2
<1> QED BY <1>2, <1>3, <1>4

\* A run that moves on leaves what the others know of their drafts, and the
\* releases that are public, as they were.
LEMMA ReleasesStay ==
  ASSUME PubInv, NEW r \in Runs,
         \A q \in Runs \ {r} : run'[q] = run[q],
         run'[r].commit = run[r].commit \/ run[r].commit = NoCommit,
         UNCHANGED <<releases, lastId>>,
         Proved(npm) => npm'.bytes = npm.bytes /\ Proved(npm'),
         DraftInv(r)'
  PROVE  (\A q \in Runs : DraftInv(q)') /\ OneRelease' /\ ReleaseIsWhole'
<1>1. ASSUME NEW q \in Runs \ {r} PROVE DraftInv(q)'
  <2>1. \A n : Digest(q, n)' = Digest(q, n) BY DEF Digest
  <2> QED BY <2>1 DEF PubInv, DraftInv, Drafts, Complete, Own
<1>2. OneRelease' BY DEF PubInv, OneRelease
<1>3. ReleaseIsWhole'
  <2> SUFFICES ASSUME NEW i \in Public, releases[i].public = "workflow"
               PROVE  /\ Proved(npm')
                      /\ releases[i].assets["package"] = <<"package", npm'.bytes>>
                      /\ \E q \in Runs, n \in 1..MaxAttempt :
                           /\ run'[q].commit = npm'.bytes
                           /\ releases[i].assets["record"] = <<"record", q, n>>
                           /\ releases[i].assets["provenance"] = <<"provenance", q, n>>
                           /\ releases[i].assets["npm"] = <<"npm">>
      BY DEF ReleaseIsWhole, Public, Drafts
  <2>1. Proved(npm') /\ npm'.bytes = npm.bytes /\ npm.bytes # NoCommit
        BY DEF PubInv, ReleaseIsWhole, RegistryInv, Proved
  <2>2. PICK q \in Runs, n \in 1..MaxAttempt :
          /\ run[q].commit = npm.bytes
          /\ releases[i].assets["record"] = <<"record", q, n>>
          /\ releases[i].assets["provenance"] = <<"provenance", q, n>>
          /\ releases[i].assets["npm"] = <<"npm">>
        BY DEF PubInv, ReleaseIsWhole
  <2>3. run'[q].commit = npm'.bytes BY <2>1, <2>2
  <2> QED BY <2>1, <2>2, <2>3 DEF PubInv, ReleaseIsWhole
<1> QED BY <1>1, <1>2, <1>3

\* A step of one run that changes neither the registry nor the releases.
LEMMA QuietStep ==
  ASSUME PubInv, NEW r \in Runs,
         run' = [q \in Runs |-> IF q = r THEN run'[r] ELSE run[q]], IsRun(run'[r]),
         run'[r].commit = run[r].commit \/ run[r].commit = NoCommit,
         active \in {r, NoRun},
         active' = IF run'[r].step \in Resting THEN NoRun ELSE r,
         UNCHANGED <<registry, github, calls, window>>, hands' \in Nat,
         CallInv(r)', JobInv(r)', DraftInv(r)'
  PROVE  PubInv'
<1> USE DEF registry, github
<1>1. /\ run' = [q \in Runs |-> run'[q]] /\ \A q \in Runs : IsRun(run'[q])
      /\ ActiveInv' /\ \A q \in Runs : CallInv(q)' /\ JobInv(q)'
  <2>1. calls' \in [Runs -> Nat] /\ \A q \in Runs \ {r} : calls'[q] = calls[q]
        BY DEF PubInv, Shape
  <2> QED BY <2>1, OneRunMoves
<1>2. (\A q \in Runs : DraftInv(q)') /\ OneRelease' /\ ReleaseIsWhole'
  <2>1. \A q \in Runs \ {r} : run'[q] = run[q] OBVIOUS
  <2> QED BY <2>1, ReleasesStay
<1>3. Shape'
  <2>1. active' \in Runs \cup {NoRun} OBVIOUS
  <2> QED BY <1>1, <2>1 DEF PubInv, Shape, IsRegistry, IsRelease
<1>4. RegistryInv' BY DEF PubInv, RegistryInv
<1> QED BY <1>1, <1>2, <1>3, <1>4 DEF PubInv

\* A run that gives up its turn is bound to nothing but the commit it was at.
LEMMA LeaveFacts ==
  ASSUME PubInv, NEW r \in Runs, active = r, NEW step \in {"stopped", "done"},
         Leave(r, step), window' = window
  PROVE  /\ run' = [q \in Runs |-> IF q = r THEN run'[r] ELSE run[q]]
         /\ IsRun(run'[r]) /\ run'[r].commit = run[r].commit
         /\ active' = NoRun /\ run'[r].step \in Resting
         /\ CallInv(r)' /\ JobInv(r)' /\ DraftInv(r)'
<1>1. IsRun(run[r]) /\ run[r].step # "new" /\ CallInv(r) /\ JobInv(r)
      BY DEF PubInv, Shape, ActiveInv, Resting
<1>2. /\ run' = [q \in Runs |-> IF q = r THEN run'[r] ELSE run[q]]
      /\ run'[r] = State(step, run[r].job, run[r].attempt, run[r].commit, run[r].built,
                         run[r].latest, Nothing)
      /\ active' = NoRun
  <2>1. run = [q \in Runs |-> run[q]] BY DEF PubInv, Shape
  <2>2. [run[r] EXCEPT !.step = step, !.memory = Nothing]
          = State(step, run[r].job, run[r].attempt, run[r].commit, run[r].built,
                  run[r].latest, Nothing)
    <3>1. IsState(run[r]) BY <1>1 DEF IsRun
    <3> QED BY <3>1, Turning, Zenon
  <2> QED BY <2>1, <2>2 DEF Leave, Becomes
<1>3. IsRun(run'[r])
  <2>1. IsMemory(Nothing) /\ Nothing.late \in BOOLEAN /\ Nothing.exists \in BOOLEAN
        BY DEF IsMemory, Memory, Nothing
  <2> QED BY <1>1, <1>2, <2>1 DEF IsRun, IsState, State, Steps, Resting
<1>4. CallInv(r)' BY <1>1, <1>2 DEF CallInv, State, Nothing
<1>5. JobInv(r)' BY <1>1, <1>2 DEF JobInv, State, Releasing
<1>6. DraftInv(r)' BY <1>2 DEF DraftInv, State
<1> QED BY <1>2, <1>3, <1>4, <1>5, <1>6 DEF State, Resting

LEMMA QuietLeave ==
  ASSUME PubInv, NEW r \in Runs, active = r, NEW step \in {"stopped", "done"},
         Leave(r, step), UNCHANGED <<registry, github, calls, window>>, hands' \in Nat
  PROVE  PubInv'
<1>1. window' = window OBVIOUS
<1> QED BY <1>1, LeaveFacts, QuietStep

\* What an update of one run's record says of the run.
LEMMA Becoming ==
  ASSUME Shape, NEW r \in Runs, NEW s, Becomes(r, s)
  PROVE  run'[r] = s /\ run' = [q \in Runs |-> IF q = r THEN run'[r] ELSE run[q]]
  BY DEF Shape, Becomes

\* What holds of a run whose turn it is.
LEMMA Active ==
  ASSUME PubInv, NEW r \in Runs, active = r
  PROVE  /\ Shape /\ IsRun(run[r]) /\ IsState(run[r]) /\ IsMemory(run[r].memory)
         /\ run[r].step # "new" /\ run[r].commit # NoCommit /\ run[r].attempt # 0
         /\ CallInv(r) /\ JobInv(r) /\ DraftInv(r) /\ r # NoRun
  BY PublicationAssumption DEF PubInv, Shape, ActiveInv, Resting, IsRun, CallInv, JobInv

-----------------------------------------------------------------------------
LEMMA DispatchKeeps ==
  ASSUME PubInv, NEW r \in Runs, NEW c \in Commits, Dispatch(r, c) PROVE PubInv'
<1> DEFINE x == run[r]
<1>1. Shape /\ IsRun(x) /\ IsState(x) /\ CallInv(r) /\ JobInv(r)
      BY DEF PubInv, Shape, IsRun
<1>2. /\ run'[r] = State("prepare", x.job, 1, c, x.built, x.latest, x.memory)
      /\ run' = [q \in Runs |-> IF q = r THEN run'[r] ELSE run[q]]
  <2>1. [x EXCEPT !.step = "prepare", !.attempt = 1, !.commit = c]
          = State("prepare", x.job, 1, c, x.built, x.latest, x.memory)
        BY <1>1, Dispatching, Zenon
  <2>2. Becomes(r, State("prepare", x.job, 1, c, x.built, x.latest, x.memory))
        BY <2>1, Zenon DEF Dispatch
  <2> HIDE DEF x
  <2> QED BY <1>1, <2>2, Becoming
<1>3. x.step = "new" /\ active = NoRun /\ active' = r /\ hands' = hands /\ window' = window
      BY DEF Dispatch, others
<1>4. c # NoCommit /\ 1 \in 0..MaxAttempt /\ r # NoRun BY PublicationAssumption
<1>5. IsRun(run'[r]) BY <1>1, <1>2, <1>4 DEF IsRun, IsState, State, Steps
<1>6. CallInv(r)' BY <1>1, <1>2, <1>3 DEF Dispatch, CallInv, State
<1>7. JobInv(r)' BY <1>1, <1>2, <1>3, <1>4 DEF JobInv, State, Releasing
<1>8. DraftInv(r)' BY <1>2 DEF DraftInv, State
<1>9. /\ run'[r].step \notin Resting /\ hands' \in Nat
      /\ run'[r].commit = run[r].commit \/ run[r].commit = NoCommit
      BY <1>1, <1>2, <1>3 DEF State, Resting, JobInv, Shape
<1>10. UNCHANGED <<registry, github, calls, window>> BY <1>3 DEF Dispatch
<1> QED BY <1>2, <1>3, <1>5, <1>6, <1>7, <1>8, <1>9, <1>10, QuietStep

\* A run that goes on, having changed nothing outside itself.
LEMMA QuietMove ==
  ASSUME PubInv, NEW r \in Runs, active = r, UNCHANGED active,
         UNCHANGED <<registry, github, calls, others>>,
         NEW s, Becomes(r, s), IsRun(s), s.step \notin Resting, s.commit = run[r].commit,
         CallInv(r)', JobInv(r)', DraftInv(r)'
  PROVE  PubInv'
<1>1. run'[r] = s /\ run' = [q \in Runs |-> IF q = r THEN run'[r] ELSE run[q]]
      BY Active, Becoming
<1>2. hands' \in Nat /\ window' = window BY DEF others, PubInv, Shape
<1>3. active' = IF run'[r].step \in Resting THEN NoRun ELSE r BY <1>1
<1>4. IsRun(run'[r]) /\ run'[r].commit = run[r].commit BY <1>1
<1>5. active \in {r, NoRun} OBVIOUS
<1>6. UNCHANGED <<registry, github, calls, window>> BY <1>2
<1> QED BY <1>1, <1>2, <1>3, <1>4, <1>5, <1>6, QuietStep

LEMMA QuietStop ==
  ASSUME PubInv, NEW r \in Runs, active = r, Stop(r),
         UNCHANGED <<registry, github, calls, others>>
  PROVE  PubInv'
  BY QuietLeave DEF Stop, others, PubInv, Shape

LEMMA PrepareKeeps ==
  ASSUME PubInv, NEW r \in Runs, Prepare(r) PROVE PubInv'
<1>1. active = r /\ run[r].step = "prepare" /\ UNCHANGED <<registry, github, calls, others>>
      BY DEF Prepare, At
<1>2. CASE Stop(r) BY <1>1, <1>2, QuietStop
<1>3. CASE ~Stop(r)
  <2> DEFINE x == run[r]
             s == State("approval", "publish", x.attempt, x.commit, x.attempt, x.latest, x.memory)
  <2>1. Becomes(r, s) /\ active' = active
    <3>1. [x EXCEPT !.step = "approval", !.job = "publish", !.built = x.attempt] = s
          BY <1>1, Active, Preparing, Zenon
    <3>2. Becomes(r, [x EXCEPT !.step = "approval", !.job = "publish", !.built = x.attempt])
          BY <1>3 DEF Prepare
    <3> QED BY <1>3, <3>1, <3>2, Zenon DEF Prepare
  <2>2. run'[r] = s BY <2>1, <1>1, Active, Becoming
  <2>3. IsRun(s) BY <1>1, Active DEF IsRun, IsState, State, Steps
  <2>4. CallInv(r)' BY <1>1, <2>2, Active DEF CallInv, State, others
  <2>5. JobInv(r)' BY <1>1, <2>2, Active DEF JobInv, State, Releasing
  <2>6. DraftInv(r)' BY <2>2 DEF DraftInv, State
  <2>7. s.step \notin Resting /\ s.commit = run[r].commit BY DEF State, Resting
  <2> HIDE DEF s
  <2> QED BY <1>1, <2>1, <2>3, <2>4, <2>5, <2>6, <2>7, QuietMove
<1> QED BY <1>2, <1>3

LEMMA ApproveKeeps ==
  ASSUME PubInv, NEW r \in Runs, Approve(r) PROVE PubInv'
<1> DEFINE x == run[r]
           m == Memory((window = "closed"), x.memory.exists, x.memory.beta, x.memory.target,
                       x.memory.todo)
           s == State("reconcile", x.job, x.attempt, x.commit, x.built, x.latest, m)
<1>1. active = r /\ x.step = "approval" /\ UNCHANGED <<registry, github, calls, others, active>>
      BY DEF Approve, At
<1>2. Becomes(r, s)
  <2>1. [x.memory EXCEPT !.late = (window = "closed")] = m
        BY <1>1, Active, SetMemory, Zenon
  <2> HIDE DEF m
  <2>2. [x EXCEPT !.step = "reconcile", !.memory = m] = s
        BY <1>1, Active, Turning, Zenon
  <2> QED BY <2>1, <2>2, Zenon DEF Approve
<1>3. run'[r] = s BY <1>1, <1>2, Active, Becoming
<1>4. /\ IsMemory(m) /\ m.late \in BOOLEAN /\ m.exists \in BOOLEAN
      /\ m.late => window = "closed"
      BY <1>1, Active DEF IsMemory, Memory, IsRun
<1> HIDE DEF m
<1>5. IsRun(s) BY <1>1, <1>4, Active DEF IsRun, IsState, State, Steps
<1>6. CallInv(r)' BY <1>1, <1>3, <1>4, Active DEF CallInv, State, others
<1>7. JobInv(r)' BY <1>1, <1>3, Active DEF JobInv, State, Releasing
<1>8. DraftInv(r)' BY <1>3 DEF DraftInv, State
<1>9. s.step \notin Resting /\ s.commit = run[r].commit BY DEF State, Resting
<1> HIDE DEF s
<1> QED BY <1>1, <1>2, <1>5, <1>6, <1>7, <1>8, <1>9, QuietMove

\* A version that was not there lets a run go on only in its first attempt, in time.
LEMMA ReconcileKeeps ==
  ASSUME PubInv, NEW r \in Runs, NEW seen \in {npm, shown}, Reconcile(r, seen) PROVE PubInv'
<1> DEFINE x == run[r]
           m == Memory(x.memory.late, (seen.bytes # NoCommit), seen.beta, x.memory.target,
                       x.memory.todo)
           s == State("recheck", x.job, x.attempt, x.commit, x.built, seen.latest, m)
<1>1. active = r /\ x.step = "reconcile" /\ UNCHANGED <<registry, github, calls, others>>
      BY DEF Reconcile, At
<1>2. CASE Stop(r) BY <1>1, <1>2, QuietStop
<1>3. CASE ~Stop(r)
  <2>1. Becomes(r, s)
    <3>1. [x.memory EXCEPT !.exists = (seen.bytes # NoCommit), !.beta = seen.beta] = m
          BY <1>1, Active, SetMemory, Zenon
    <3> HIDE DEF m
    <3>2. [x EXCEPT !.step = "recheck", !.latest = seen.latest, !.memory = m] = s
      <4>1. [x EXCEPT !.step = "recheck"]
              = State("recheck", x.job, x.attempt, x.commit, x.built, x.latest, x.memory)
            BY <1>1, Active, SetOne
      <4>2. [State("recheck", x.job, x.attempt, x.commit, x.built, x.latest, x.memory)
               EXCEPT !.latest = seen.latest]
              = State("recheck", x.job, x.attempt, x.commit, x.built, seen.latest, x.memory)
            BY DEF State
      <4>3. [State("recheck", x.job, x.attempt, x.commit, x.built, seen.latest, x.memory)
               EXCEPT !.memory = m] = s
            BY DEF State
      <4> QED BY <4>1, <4>2, <4>3
    <3> QED BY <1>3, <3>1, <3>2, Zenon DEF Reconcile
  <2>2. run'[r] = s BY <1>1, <2>1, Active, Becoming
  <2>3. active' = active /\ Reconciled(r, seen) BY <1>3 DEF Reconcile
  <2>4. /\ IsMemory(m) /\ m.late \in BOOLEAN /\ m.exists \in BOOLEAN
        /\ m.late => window = "closed"
        /\ ~m.exists => x.attempt = 1 /\ window = "open"
        BY <1>1, <2>3, Active DEF IsMemory, Memory, IsRun, CallInv, Reconciled, MayPublish
  <2> HIDE DEF m
  <2>5. IsRun(s) BY <1>1, <2>4, Active DEF IsRun, IsState, State, Steps
  <2>6. CallInv(r)' BY <1>1, <2>2, <2>4, Active DEF CallInv, State, others
  <2>7. JobInv(r)' BY <1>1, <2>2, Active DEF JobInv, State, Releasing
  <2>8. DraftInv(r)' BY <2>2 DEF DraftInv, State
  <2>9. s.step \notin Resting /\ s.commit = run[r].commit BY DEF State, Resting
  <2> HIDE DEF s
  <2> QED BY <1>1, <2>1, <2>3, <2>5, <2>6, <2>7, <2>8, <2>9, QuietMove
<1> QED BY <1>2, <1>3

\* A run that only turns to another step.
LEMMA QuietTo ==
  ASSUME PubInv, NEW r \in Runs, active = r, NEW step \in Steps \ Resting, To(r, step),
         UNCHANGED <<registry, github, calls, others>>,
         run'[r] = State(step, run[r].job, run[r].attempt, run[r].commit, run[r].built,
                         run[r].latest, run[r].memory)
           => CallInv(r)' /\ JobInv(r)' /\ DraftInv(r)'
  PROVE  PubInv'
<1> DEFINE x == run[r]
           s == State(step, x.job, x.attempt, x.commit, x.built, x.latest, x.memory)
<1>1. Becomes(r, s) /\ active' = active
  <2>1. [x EXCEPT !.step = step] = s BY Active, SetOne
  <2>2. Becomes(r, [x EXCEPT !.step = step]) BY DEF To
  <2> QED BY <2>1, <2>2, Zenon DEF To
<1>2. run'[r] = s BY <1>1, Active, Becoming
<1>3. IsRun(s) BY Active DEF IsRun, IsState, State
<1>4. s.step \notin Resting /\ s.commit = run[r].commit BY DEF State
<1>5. CallInv(r)' /\ JobInv(r)' /\ DraftInv(r)' BY <1>2
<1> HIDE DEF s
<1> QED BY <1>1, <1>3, <1>4, <1>5, QuietMove

LEMMA RecheckKeeps ==
  ASSUME PubInv, NEW r \in Runs, NEW seen \in {npm, shown}, Recheck(r, seen) PROVE PubInv'
<1>1. active = r /\ run[r].step = "recheck" /\ UNCHANGED <<registry, github, calls, others>>
      BY DEF Recheck, At
<1>2. CASE Stop(r) BY <1>1, <1>2, QuietStop
<1>3. CASE To(r, "publish")
  <2>1. ASSUME run'[r] = State("publish", run[r].job, run[r].attempt, run[r].commit,
                               run[r].built, run[r].latest, run[r].memory)
        PROVE  CallInv(r)' /\ JobInv(r)' /\ DraftInv(r)'
    <3>1. CallInv(r)' BY <1>1, <2>1, Active DEF CallInv, State, others
    <3>2. JobInv(r)' BY <1>1, <2>1, Active DEF JobInv, State, Releasing
    <3>3. DraftInv(r)' BY <2>1 DEF DraftInv, State
    <3> QED BY <3>1, <3>2, <3>3
  <2>2. "publish" \in Steps \ Resting BY DEF Steps, Resting
  <2> QED BY <1>1, <1>3, <2>1, <2>2, QuietTo
<1> QED BY <1>2, <1>3 DEF Recheck

\* The registry that let a run pass holds its package, with provenance.
LEMMA VerifyKeeps ==
  ASSUME PubInv, NEW r \in Runs, NEW seen \in {npm, shown}, Verify(r, seen) PROVE PubInv'
<1>1. active = r /\ run[r].step = "verify" /\ UNCHANGED <<registry, github, calls, others>>
      BY DEF Verify, At
<1>2. CASE Stop(r) BY <1>1, <1>2, QuietStop
<1>3. CASE ~Stop(r)
  <2>1. To(r, "find") /\ seen.bytes # NoCommit /\ Reconciled(r, seen)
        BY <1>3 DEF Verify
  <2>2. npm.bytes = run[r].commit /\ Proved(npm)
        BY <1>1, <2>1, Active DEF Reconciled, SamePublication, PubInv, RegistryInv, Proved
  <2>3. ASSUME run'[r] = State("find", run[r].job, run[r].attempt, run[r].commit,
                               run[r].built, run[r].latest, run[r].memory)
        PROVE  CallInv(r)' /\ JobInv(r)' /\ DraftInv(r)'
    <3>1. CallInv(r)' BY <1>1, <2>3, Active DEF CallInv, State, others
    <3>2. JobInv(r)' BY <1>1, <2>2, <2>3, Active DEF JobInv, State, Releasing, registry
    <3>3. DraftInv(r)' BY <2>3 DEF DraftInv, State
    <3> QED BY <3>1, <3>2, <3>3
  <2>4. "find" \in Steps \ Resting BY DEF Steps, Resting, Releasing
  <2> QED BY <1>1, <2>1, <2>3, <2>4, QuietTo
<1> QED BY <1>2, <1>3

\* What the job publish leaves to the next one.
LEMMA PublishedFacts ==
  ASSUME PubInv, NEW r \in Runs, active = r, run[r].step = "publish", Published(r),
         window' = window
  PROVE  /\ run' = [q \in Runs |-> IF q = r THEN run'[r] ELSE run[q]]
         /\ IsRun(run'[r]) /\ run'[r].commit = run[r].commit
         /\ active' = r /\ run'[r].step \notin Resting
         /\ CallInv(r)' /\ JobInv(r)' /\ DraftInv(r)'
<1> DEFINE x == run[r]
           s == State("verify", "release", x.attempt, x.commit, x.built, x.latest, Nothing)
<1>1. Becomes(r, s) /\ active' = active
  <2>1. [x EXCEPT !.step = "verify", !.job = "release", !.memory = Nothing] = s
    <3>1. [x EXCEPT !.step = "verify"]
            = State("verify", x.job, x.attempt, x.commit, x.built, x.latest, x.memory)
          BY Active, SetOne
    <3>2. [State("verify", x.job, x.attempt, x.commit, x.built, x.latest, x.memory)
             EXCEPT !.job = "release"]
            = State("verify", "release", x.attempt, x.commit, x.built, x.latest, x.memory)
          BY DEF State
    <3>3. [State("verify", "release", x.attempt, x.commit, x.built, x.latest, x.memory)
             EXCEPT !.memory = Nothing] = s
          BY DEF State
    <3> QED BY <3>1, <3>2, <3>3
  <2>2. Becomes(r, [x EXCEPT !.step = "verify", !.job = "release", !.memory = Nothing])
        BY DEF Published
  <2> QED BY <2>1, <2>2, Zenon DEF Published
<1>2. run'[r] = s /\ run' = [q \in Runs |-> IF q = r THEN run'[r] ELSE run[q]]
      BY <1>1, Active, Becoming
<1>3. /\ IsMemory(Nothing) /\ Nothing.late \in BOOLEAN /\ Nothing.exists \in BOOLEAN
      /\ ~Nothing.late
      BY DEF IsMemory, Memory, Nothing
<1>4. IsRun(run'[r])
  <2>1. IsRun(x) BY Active
  <2> QED BY <1>2, <1>3, <2>1 DEF IsRun, IsState, State, Steps
<1>5. CallInv(r)' BY <1>2, <1>3, Active DEF CallInv, State
<1>6. JobInv(r)' BY <1>2, Active DEF JobInv, State, Releasing
<1>7. DraftInv(r)' BY <1>2 DEF DraftInv, State
<1>8. run'[r].step \notin Resting /\ run'[r].commit = run[r].commit
      BY <1>2 DEF State, Resting
<1> HIDE DEF s
<1> QED BY <1>1, <1>2, <1>4, <1>5, <1>6, <1>7, <1>8

LEMMA SkipPublishKeeps ==
  ASSUME PubInv, NEW r \in Runs, SkipPublish(r) PROVE PubInv'
<1>1. /\ active = r /\ run[r].step = "publish" /\ Published(r)
      /\ UNCHANGED <<registry, github, calls, window>> /\ window' = window
      BY DEF SkipPublish, At, others
<1>2. hands' \in Nat BY DEF SkipPublish, others, PubInv, Shape
<1>3. active \in {r, NoRun} BY <1>1
<1> QED BY <1>1, <1>2, <1>3, PublishedFacts, QuietStep

\* What a publication makes of the registry.
LEMMA TakesFacts ==
  ASSUME IsRegistry(npm), NEW r \in Runs, IsRun(run[r]), NpmTakes(r)
  PROVE  /\ IsRegistry(npm') /\ npm.bytes = NoCommit
         /\ npm'.bytes = run[r].commit /\ npm'.provenance = run[r].commit
<1> DEFINE c == run[r].commit
<1>1. npm = Registry(npm.bytes, npm.provenance, npm.beta, npm.latest)
      BY DEF IsRegistry
<1>2. npm' = Registry(c, c, "this", npm.latest)
  <2>1. [npm EXCEPT !.bytes = c] = Registry(c, npm.provenance, npm.beta, npm.latest)
    <3>1. npm \in [bytes : {npm.bytes}, provenance : {npm.provenance}, beta : {npm.beta},
                   latest : {npm.latest}]
          BY <1>1 DEF Registry
    <3> QED BY <3>1 DEF Registry
  <2>2. [Registry(c, npm.provenance, npm.beta, npm.latest) EXCEPT !.provenance = c]
          = Registry(c, c, npm.beta, npm.latest)
        BY DEF Registry
  <2>3. [Registry(c, c, npm.beta, npm.latest) EXCEPT !.beta = "this"]
          = Registry(c, c, "this", npm.latest)
        BY DEF Registry
  <2> HIDE DEF c
  <2> QED BY <2>1, <2>2, <2>3 DEF NpmTakes, c
<1> QED BY <1>2 DEF IsRegistry, Registry, IsRun, NpmTakes

\* A call of npm publish, whatever became of it.
LEMMA CallKeeps ==
  ASSUME PubInv, NEW r \in Runs, active = r, Calling(r), NpmTakes(r) \/ UNCHANGED npm,
         run' = [q \in Runs |-> IF q = r THEN run'[r] ELSE run[q]], IsRun(run'[r]),
         run'[r].commit = run[r].commit,
         active' = IF run'[r].step \in Resting THEN NoRun ELSE r,
         CallInv(r)', JobInv(r)', DraftInv(r)'
  PROVE  PubInv'
<1>1. /\ calls' \in [Runs -> Nat] /\ \A q \in Runs \ {r} : calls'[q] = calls[q]
      /\ window' = window /\ hands' = hands /\ UNCHANGED <<shown, releases, lastId>>
      BY DEF PubInv, Shape, Calling, others, github
<1>2. IsRegistry(npm) /\ (npm.bytes = NoCommit => ~Proved(npm))
      BY DEF PubInv, Shape, RegistryInv, Proved
<1>3. /\ IsRegistry(npm')
      /\ \/ npm' = npm
         \/ /\ npm.bytes = NoCommit /\ npm'.bytes # NoCommit
            /\ npm'.provenance = npm'.bytes
  <2>1. CASE UNCHANGED npm BY <1>2, <2>1
  <2>2. CASE NpmTakes(r)
    <3>1. run[r].commit # NoCommit /\ IsRun(run[r]) BY Active
    <3> QED BY <1>2, <2>2, <3>1, TakesFacts
  <2> QED BY <2>1, <2>2
<1>7. RegistryInv'
      BY <1>1, <1>2, <1>3 DEF PubInv, RegistryInv, Proved
<1>4. /\ run' = [q \in Runs |-> run'[q]] /\ \A q \in Runs : IsRun(run'[q])
      /\ ActiveInv' /\ \A q \in Runs : CallInv(q)' /\ JobInv(q)'
  <2>1. active \in {r, NoRun} /\ (npm.bytes # NoCommit => npm'.bytes = npm.bytes)
        BY <1>3
  <2>2. Proved(npm) => Proved(npm') BY <1>2, <1>3
  <2> QED BY <1>1, <2>1, <2>2, OneRunMoves
<1>5. (\A q \in Runs : DraftInv(q)') /\ OneRelease' /\ ReleaseIsWhole'
  <2>1. \A q \in Runs \ {r} : run'[q] = run[q] OBVIOUS
  <2>2. Proved(npm) => npm'.bytes = npm.bytes /\ Proved(npm') BY <1>2, <1>3
  <2> QED BY <1>1, <2>1, <2>2, ReleasesStay
<1>6. Shape'
  <2>1. active' \in Runs \cup {NoRun} OBVIOUS
  <2> QED BY <1>1, <1>3, <1>4, <2>1 DEF PubInv, Shape, IsRegistry, IsRelease
<1> QED BY <1>4, <1>5, <1>6, <1>7 DEF PubInv

LEMMA PublishKeeps ==
  ASSUME PubInv, NEW r \in Runs, Publish(r) \/ PublishLost(r) PROVE PubInv'
<1>1. /\ active = r /\ run[r].step = "publish" /\ Calling(r) /\ window' = window
      BY DEF Publish, PublishLost, Calling, At, others
<1>2. NpmTakes(r) \/ UNCHANGED npm BY DEF Publish, PublishLost
<1>3. CASE Published(r) BY <1>1, <1>2, <1>3, PublishedFacts, CallKeeps
<1>4. CASE Stop(r) BY <1>1, <1>2, <1>4, LeaveFacts, CallKeeps DEF Stop
<1>5. Published(r) \/ Stop(r) BY DEF Publish, PublishLost
<1> QED BY <1>3, <1>4, <1>5

-----------------------------------------------------------------------------
\* What a run remembers when it starts to upload.
LEMMA FillFacts ==
  ASSUME PubInv, NEW r \in Runs, active = r, run[r].step \in {"find", "create"},
         NEW i, NEW missing, Fill(r, i, missing), UNCHANGED <<npm, window>>
  PROVE  /\ run' = [q \in Runs |-> IF q = r THEN run'[r] ELSE run[q]]
         /\ IsRun(run'[r]) /\ run'[r].step = "upload" /\ run'[r].memory.target = i
         /\ run'[r].commit = run[r].commit /\ run'[r].built = run[r].built
         /\ active' = r /\ run'[r].step \notin Resting
         /\ CallInv(r)' /\ JobInv(r)'
<1> DEFINE x == run[r]
           m == Memory(x.memory.late, x.memory.exists, x.memory.beta, i, missing)
           s == State("upload", x.job, x.attempt, x.commit, x.built, x.latest, m)
<1>1. IsRun(x) /\ IsMemory(x.memory) /\ IsState(x) BY Active
<1>2. Becomes(r, s) /\ active' = active
  <2>1. [x.memory EXCEPT !.target = i, !.todo = missing] = m
    <3>1. IsMemory(x.memory) BY <1>1
    <3>2. x.memory \in [late : {x.memory.late}, exists : {x.memory.exists},
                        beta : {x.memory.beta}, target : {x.memory.target},
                        todo : {x.memory.todo}]
          BY <3>1 DEF IsMemory, Memory
    <3>3. [x.memory EXCEPT !.target = i]
            = Memory(x.memory.late, x.memory.exists, x.memory.beta, i, x.memory.todo)
          BY <3>2 DEF Memory
    <3>4. [Memory(x.memory.late, x.memory.exists, x.memory.beta, i, x.memory.todo)
             EXCEPT !.todo = missing] = m
          BY DEF Memory
    <3> QED BY <3>3, <3>4
  <2> HIDE DEF m
  <2>2. [x EXCEPT !.step = "upload", !.memory = m] = s
        BY <1>1, Turning, Zenon
  <2> QED BY <2>1, <2>2, Zenon DEF Fill
<1>3. run'[r] = s /\ run' = [q \in Runs |-> IF q = r THEN run'[r] ELSE run[q]]
      BY <1>2, Active, Becoming
<1>4. /\ IsMemory(m) /\ m.late \in BOOLEAN /\ m.exists \in BOOLEAN /\ m.target = i
      /\ m.late => window = "closed"
      BY <1>1, Active DEF IsMemory, Memory, IsRun, CallInv
<1> HIDE DEF m
<1>5. IsRun(run'[r]) BY <1>1, <1>3, <1>4 DEF IsRun, IsState, State, Steps, Releasing
<1>6. CallInv(r)' BY <1>3, <1>4, Active DEF CallInv, State
<1>7. JobInv(r)' BY <1>3, Active DEF JobInv, State, Releasing
<1>8. /\ run'[r].step = "upload" /\ run'[r].memory.target = i
      /\ run'[r].commit = run[r].commit /\ run'[r].built = run[r].built
      /\ run'[r].step \notin Resting
      BY <1>3, <1>4 DEF State, Resting
<1> HIDE DEF s
<1> QED BY <1>2, <1>3, <1>5, <1>6, <1>7, <1>8

\* A release is used only if everything in it is the run's own.
LEMMA FindKeeps ==
  ASSUME PubInv, NEW r \in Runs, Find(r) PROVE PubInv'
<1>1. active = r /\ run[r].step = "find" /\ UNCHANGED <<registry, github, calls, others>>
      BY DEF Find, At
<1>2. UNCHANGED <<registry, github, calls, window>> /\ hands' \in Nat
      BY <1>1 DEF others, PubInv, Shape
<1>3. CASE Found = {} /\ To(r, "create")
  <2>1. DOMAIN releases = {} BY <1>3 DEF Found, Public
  <2>2. ASSUME run'[r] = State("create", run[r].job, run[r].attempt, run[r].commit,
                               run[r].built, run[r].latest, run[r].memory)
        PROVE  CallInv(r)' /\ JobInv(r)' /\ DraftInv(r)'
    <3>1. CallInv(r)' BY <1>1, <2>2, Active DEF CallInv, State, others
    <3>2. JobInv(r)' BY <1>1, <2>2, Active DEF JobInv, State, Releasing, registry
    <3>3. DraftInv(r)' BY <1>1, <2>1, <2>2 DEF DraftInv, State, github
    <3> QED BY <3>1, <3>2, <3>3
  <2>3. "create" \in Steps \ Resting BY DEF Steps, Resting, Releasing
  <2> QED BY <1>1, <1>3, <2>2, <2>3, QuietTo
<1>4. ASSUME NEW i \in Found, Fits(r, releases[i]), i \in Drafts,
             Fill(r, i, SelectSeq(Files, LAMBDA n : n \notin DOMAIN releases[i].assets))
      PROVE  PubInv'
  <2> DEFINE missing == SelectSeq(Files, LAMBDA n : n \notin DOMAIN releases[i].assets)
  <2> HIDE DEF missing
  <2>1. /\ run' = [q \in Runs |-> IF q = r THEN run'[r] ELSE run[q]]
        /\ IsRun(run'[r]) /\ run'[r].step = "upload" /\ run'[r].memory.target = i
        /\ run'[r].commit = run[r].commit /\ run'[r].built = run[r].built
        /\ active' = r /\ run'[r].step \notin Resting
        /\ CallInv(r)' /\ JobInv(r)'
    <3>1. Fill(r, i, missing) BY <1>4 DEF missing
    <3>2. UNCHANGED <<npm, window>> BY <1>2 DEF registry
    <3> QED BY <1>1, <3>1, <3>2, FillFacts
  <2>2. DraftInv(r)'
    <3>1. i \in 1..lastId /\ releases[i].public = "no" BY <1>4 DEF Drafts, PubInv, Shape
    <3>2. \A n : Digest(r, n)' = Digest(r, n) BY <2>1 DEF Digest
    <3>3. releases' = releases /\ lastId' = lastId BY <1>2 DEF github
    <3>4. \A n \in DOMAIN releases[i].assets : releases[i].assets[n] = Digest(r, n)
          BY <1>4 DEF Fits, Own
    <3> QED BY <2>1, <3>1, <3>2, <3>3, <3>4 DEF DraftInv
  <2> QED BY <1>1, <1>2, <2>1, <2>2, QuietStep
<1>5. CASE Leave(r, "done") BY <1>1, <1>2, <1>5, QuietLeave
<1>6. CASE Stop(r) BY <1>1, <1>6, QuietStop
<1>7. \/ Found = {} /\ To(r, "create")
      \/ \E i \in Found : /\ Fits(r, releases[i]) /\ i \in Drafts
                          /\ Fill(r, i, SelectSeq(Files, LAMBDA n : n \notin DOMAIN releases[i].assets))
      \/ Leave(r, "done") \/ Stop(r)
      BY Zenon DEF Find
<1> QED BY <1>3, <1>4, <1>5, <1>6, <1>7, Zenon

LEMMA ReadBackKeeps ==
  ASSUME PubInv, NEW r \in Runs, ReadBack(r) PROVE PubInv'
<1>1. active = r /\ run[r].step = "upload" /\ UNCHANGED <<registry, github, calls, others>>
      BY DEF ReadBack, At
<1>2. CASE Stop(r) BY <1>1, <1>2, QuietStop
<1>3. CASE ~Stop(r)
  <2> DEFINE i == run[r].memory.target
  <2>1. To(r, "finish") /\ i \in DOMAIN releases /\ Complete(r, releases[i])
        BY <1>3 DEF ReadBack
  <2>2. ASSUME run'[r] = State("finish", run[r].job, run[r].attempt, run[r].commit,
                               run[r].built, run[r].latest, run[r].memory)
        PROVE  CallInv(r)' /\ JobInv(r)' /\ DraftInv(r)'
    <3>1. CallInv(r)' BY <1>1, <2>2, Active DEF CallInv, State, others
    <3>2. JobInv(r)' BY <1>1, <2>2, Active DEF JobInv, State, Releasing, registry
    <3>3. \A n : Digest(r, n)' = Digest(r, n) BY <2>2 DEF Digest, State
    <3>4. releases' = releases /\ lastId' = lastId BY <1>1 DEF github
    <3>5. i \in 1..lastId /\ releases[i].public \in {"no", "overtaken"}
          BY <1>1, <2>1, Active DEF DraftInv
    <3>6. run'[r].step = "finish" /\ run'[r].memory.target = i BY <2>2 DEF State
    <3>7. Complete(r, releases[i])'
          BY <2>1, <3>3, <3>4, <3>6 DEF Complete, Own
    <3>8. DraftInv(r)' BY <3>4, <3>5, <3>6, <3>7 DEF DraftInv
    <3> QED BY <3>1, <3>2, <3>8
  <2>3. "finish" \in Steps \ Resting BY DEF Steps, Resting, Releasing
  <2> QED BY <1>1, <2>1, <2>2, <2>3, QuietTo
<1> QED BY <1>2, <1>3

-----------------------------------------------------------------------------
(* The releases.                                                           *)

LEMMA FileNames == Assets = {"package", "record", "provenance", "npm"}
<1>1. DOMAIN Files = {1, 2, 3, 4} BY DEF Files
<1>2. Files[1] = "package" /\ Files[2] = "record" /\ Files[3] = "provenance" /\ Files[4] = "npm"
      BY DEF Files
<1> QED BY <1>1, <1>2 DEF Assets

LEMMA SetRelease ==
  ASSUME NEW x, IsRelease(x), NEW v
  PROVE  /\ [x EXCEPT !.assets = v] = Release(x.maker, x.notes, x.public, v)
         /\ [x EXCEPT !.public = v] = Release(x.maker, x.notes, v, x.assets)
<1>1. x \in [maker : {x.maker}, notes : {x.notes}, public : {x.public}, assets : {x.assets}]
      BY DEF IsRelease, Release
<1> QED BY <1>1 DEF Release

\* A release that is new to the tag.
LEMMA AddFacts ==
  ASSUME Shape, NEW x, IsRelease(x), Add(x)
  PROVE  /\ lastId' = lastId + 1 /\ lastId' \in Nat /\ lastId + 1 \notin DOMAIN releases
         /\ DOMAIN releases' = DOMAIN releases \cup {lastId + 1}
         /\ DOMAIN releases' \subseteq 1..lastId'
         /\ \A j \in DOMAIN releases : releases'[j] = releases[j]
         /\ releases'[lastId + 1] = x
         /\ releases' = [j \in DOMAIN releases' |-> releases'[j]]
         /\ \A j \in DOMAIN releases' : IsRelease(releases'[j])
  BY DEF Shape, Add, With

\* One release of the tag is replaced by another.
LEMMA ReplaceFacts ==
  ASSUME Shape, NEW i \in DOMAIN releases, NEW x, IsRelease(x),
         releases' = [releases EXCEPT ![i] = x]
  PROVE  /\ DOMAIN releases' = DOMAIN releases
         /\ \A j \in DOMAIN releases \ {i} : releases'[j] = releases[j]
         /\ releases'[i] = x
         /\ releases' = [j \in DOMAIN releases' |-> releases'[j]]
         /\ \A j \in DOMAIN releases' : IsRelease(releases'[j])
  BY DEF Shape

LEMMA AttachFacts ==
  ASSUME Shape, NEW i \in DOMAIN releases, NEW name, NEW digest, Attach(i, name, digest)
  PROVE  /\ DOMAIN releases' = DOMAIN releases
         /\ \A j \in DOMAIN releases \ {i} : releases'[j] = releases[j]
         /\ releases'[i] = Release(releases[i].maker, releases[i].notes, releases[i].public,
                                   With(releases[i].assets, name, digest))
         /\ releases' = [j \in DOMAIN releases' |-> releases'[j]]
         /\ \A j \in DOMAIN releases' : IsRelease(releases'[j])
<1> DEFINE held == releases[i]
           x == Release(held.maker, held.notes, held.public, With(held.assets, name, digest))
<1>1. [held EXCEPT !.assets = With(held.assets, name, digest)] = x
  <2>1. IsRelease(held) BY DEF Shape
  <2> QED BY <2>1, SetRelease, Zenon
<1>2. releases' = [releases EXCEPT ![i] = x]
      BY <1>1, Zenon DEF Attach
<1>3. IsRelease(x) BY DEF IsRelease, Release
<1> HIDE DEF x
<1> QED BY <1>2, <1>3, ReplaceFacts DEF x

\* What a step of the active run means for the invariant, once its releases are
\* known to be in order.
LEMMA ReleaseStep ==
  ASSUME PubInv, NEW r \in Runs, active = r,
         run' = [q \in Runs |-> IF q = r THEN run'[r] ELSE run[q]], IsRun(run'[r]),
         active' = IF run'[r].step \in Resting THEN NoRun ELSE r,
         UNCHANGED <<registry, calls, others>>,
         lastId' \in Nat, DOMAIN releases' \subseteq 1..lastId',
         releases' = [j \in DOMAIN releases' |-> releases'[j]],
         \A j \in DOMAIN releases' : IsRelease(releases'[j]),
         CallInv(r)', JobInv(r)', DraftInv(r)', OneRelease', ReleaseIsWhole'
  PROVE  PubInv'
<1>1. /\ calls' \in [Runs -> Nat] /\ calls' = calls /\ window' = window /\ hands' = hands
      /\ npm' = npm /\ shown' = shown
      BY DEF PubInv, Shape, others, registry
<1>2. /\ run' = [q \in Runs |-> run'[q]] /\ \A q \in Runs : IsRun(run'[q])
      /\ ActiveInv' /\ \A q \in Runs : CallInv(q)' /\ JobInv(q)'
  <2>1. active \in {r, NoRun} /\ \A q \in Runs \ {r} : calls'[q] = calls[q] BY <1>1
  <2> QED BY <1>1, <2>1, OneRunMoves
<1>3. ASSUME NEW q \in Runs \ {r} PROVE DraftInv(q)'
  <2>1. run'[q].step \in Resting BY DEF PubInv, ActiveInv
  <2> QED BY <2>1 DEF DraftInv, Resting
<1>4. Shape'
  <2>1. active' \in Runs \cup {NoRun} OBVIOUS
  <2> QED BY <1>1, <1>2, <2>1 DEF PubInv, Shape, IsRegistry
<1>5. RegistryInv' BY <1>1 DEF PubInv, RegistryInv
<1> QED BY <1>2, <1>3, <1>4, <1>5 DEF PubInv

\* What the workflow has published stays whole while nothing touches it.
LEMMA WholeStays ==
  ASSUME PubInv, \A q \in Runs : run'[q].commit = run[q].commit, npm' = npm,
         \A i \in Public' : releases'[i].public = "workflow" =>
           i \in Public /\ releases'[i] = releases[i]
  PROVE  ReleaseIsWhole'
<1> SUFFICES ASSUME NEW i \in Public', releases'[i].public = "workflow"
             PROVE  /\ Proved(npm')
                    /\ releases'[i].assets["package"] = <<"package", npm'.bytes>>
                    /\ \E q \in Runs, n \in 1..MaxAttempt :
                         /\ run'[q].commit = npm'.bytes
                         /\ releases'[i].assets["record"] = <<"record", q, n>>
                         /\ releases'[i].assets["provenance"] = <<"provenance", q, n>>
                         /\ releases'[i].assets["npm"] = <<"npm">>
    BY DEF ReleaseIsWhole
<1>1. i \in Public /\ releases'[i] = releases[i] OBVIOUS
<1>2. PICK q \in Runs, n \in 1..MaxAttempt :
        /\ run[q].commit = npm.bytes
        /\ releases[i].assets["record"] = <<"record", q, n>>
        /\ releases[i].assets["provenance"] = <<"provenance", q, n>>
        /\ releases[i].assets["npm"] = <<"npm">>
      BY <1>1 DEF PubInv, ReleaseIsWhole
<1> QED BY <1>1, <1>2 DEF PubInv, ReleaseIsWhole

LEMMA CreateKeeps ==
  ASSUME PubInv, NEW r \in Runs, Create(r) PROVE PubInv'
<1> DEFINE x == NewRelease("workflow", "ours")
<1>1. /\ active = r /\ run[r].step = "create" /\ Add(x)
      /\ UNCHANGED <<registry, calls, others>> /\ UNCHANGED <<npm, window>>
      BY DEF Create, At, registry, others
<1>2. IsRelease(x) /\ x.public = "no" /\ DOMAIN x.assets = {}
      BY DEF IsRelease, Release, NewRelease
<1> HIDE DEF x
<1>3. /\ lastId' = lastId + 1 /\ lastId' \in Nat /\ lastId + 1 \notin DOMAIN releases
      /\ DOMAIN releases' = DOMAIN releases \cup {lastId + 1}
      /\ DOMAIN releases' \subseteq 1..lastId'
      /\ \A j \in DOMAIN releases : releases'[j] = releases[j]
      /\ releases'[lastId + 1] = x
      /\ releases' = [j \in DOMAIN releases' |-> releases'[j]]
      /\ \A j \in DOMAIN releases' : IsRelease(releases'[j])
  <2>1. Shape BY DEF PubInv
  <2> QED BY <1>1, <1>2, <2>1, AddFacts
<1>4. OneRelease'
  <2>1. \A j \in DOMAIN releases : releases[j].maker # "workflow"
        BY <1>1, Active DEF DraftInv
  <2> QED BY <1>3, <2>1 DEF OneRelease
<1>5. \A i \in Public' : releases'[i].public = "workflow" =>
        i \in Public /\ releases'[i] = releases[i]
      BY <1>2, <1>3 DEF Public, Drafts
<1>6. lastId \in Nat BY DEF PubInv, Shape
<1>7. CASE Fill(r, lastId + 1, Files)
  <2>1. /\ run' = [q \in Runs |-> IF q = r THEN run'[r] ELSE run[q]]
        /\ IsRun(run'[r]) /\ run'[r].step = "upload" /\ run'[r].memory.target = lastId + 1
        /\ run'[r].commit = run[r].commit
        /\ active' = r /\ run'[r].step \notin Resting
        /\ CallInv(r)' /\ JobInv(r)'
        BY <1>1, <1>7, FillFacts
  <2>2. DraftInv(r)' BY <1>2, <1>3, <1>6, <2>1 DEF DraftInv
  <2>3. ReleaseIsWhole'
    <3>1. \A q \in Runs : run'[q].commit = run[q].commit BY <2>1
    <3> QED BY <1>1, <1>5, <3>1, WholeStays
  <2> QED BY <1>1, <1>3, <1>4, <2>1, <2>2, <2>3, ReleaseStep
<1>8. CASE Stop(r)
  <2>1. /\ run' = [q \in Runs |-> IF q = r THEN run'[r] ELSE run[q]]
        /\ IsRun(run'[r]) /\ run'[r].commit = run[r].commit
        /\ active' = NoRun /\ run'[r].step \in Resting
        /\ CallInv(r)' /\ JobInv(r)' /\ DraftInv(r)'
    <3>1. window' = window BY <1>1
    <3> QED BY <1>1, <1>8, <3>1, LeaveFacts DEF Stop
  <2>2. ReleaseIsWhole'
    <3>1. \A q \in Runs : run'[q].commit = run[q].commit BY <2>1
    <3> QED BY <1>1, <1>5, <3>1, WholeStays
  <2> QED BY <1>1, <1>3, <1>4, <2>1, <2>2, ReleaseStep
<1> QED BY <1>7, <1>8 DEF Create

\* What an upload leaves of the list of files.
LEMMA TakenOff ==
  ASSUME PubInv, NEW r \in Runs, active = r, run[r].step = "upload", NEW rest,
         Becomes(r, [run[r] EXCEPT !.memory = [run[r].memory EXCEPT !.todo = rest]]),
         UNCHANGED <<npm, window>>
  PROVE  /\ run' = [q \in Runs |-> IF q = r THEN run'[r] ELSE run[q]]
         /\ IsRun(run'[r]) /\ run'[r].step = "upload"
         /\ run'[r].memory.target = run[r].memory.target
         /\ run'[r].commit = run[r].commit /\ run'[r].built = run[r].built
         /\ run'[r].step \notin Resting
         /\ CallInv(r)' /\ JobInv(r)'
<1> DEFINE x == run[r]
           m == Memory(x.memory.late, x.memory.exists, x.memory.beta, x.memory.target, rest)
           s == State(x.step, x.job, x.attempt, x.commit, x.built, x.latest, m)
<1>1. IsRun(x) /\ IsMemory(x.memory) /\ IsState(x) BY Active
<1>2. Becomes(r, s)
  <2>1. [x.memory EXCEPT !.todo = rest] = m
        BY <1>1, SetMemory, Zenon
  <2> HIDE DEF m
  <2>2. [x EXCEPT !.memory = m] = s
        BY <1>1, SetOne, Zenon
  <2> QED BY <2>1, <2>2, Zenon
<1>3. run'[r] = s /\ run' = [q \in Runs |-> IF q = r THEN run'[r] ELSE run[q]]
      BY <1>2, Active, Becoming
<1>4. /\ IsMemory(m) /\ m.late \in BOOLEAN /\ m.exists \in BOOLEAN
      /\ m.target = x.memory.target
      /\ m.late => window = "closed"
      BY <1>1, Active DEF IsMemory, Memory, IsRun, CallInv
<1> HIDE DEF m
<1>5. IsRun(run'[r]) BY <1>1, <1>3, <1>4 DEF IsRun, IsState, State
<1>6. CallInv(r)' BY <1>3, <1>4, Active DEF CallInv, State
<1>7. JobInv(r)' BY <1>3, Active DEF JobInv, State, Releasing
<1>8. /\ run'[r].step = "upload" /\ run'[r].memory.target = run[r].memory.target
      /\ run'[r].commit = run[r].commit /\ run'[r].built = run[r].built
      /\ run'[r].step \notin Resting
      BY <1>3, <1>4 DEF State, Resting
<1> HIDE DEF s
<1> QED BY <1>3, <1>5, <1>6, <1>7, <1>8

\* A file is only ever added to the release that was a draft when the run found it,
\* and beside files of the run's own.
LEMMA UploadKeeps ==
  ASSUME PubInv, NEW r \in Runs, Upload(r) PROVE PubInv'
<1> DEFINE i == run[r].memory.target
           name == Head(run[r].memory.todo)
<1>1. /\ active = r /\ run[r].step = "upload" /\ lastId' = lastId
      /\ UNCHANGED <<registry, calls, others>> /\ UNCHANGED <<npm, window>>
      BY DEF Upload, At, registry, others
<1>2. CASE Stop(r) /\ releases' = releases
      BY <1>1, <1>2, QuietStop DEF github
<1>3. i \in DOMAIN releases => i \in 1..lastId /\ releases[i].public \in {"no", "overtaken"}
      BY <1>1, Active DEF DraftInv
<1>4. ASSUME NEW digest, i \in DOMAIN releases, Attach(i, name, digest)
      PROVE  /\ DOMAIN releases' = DOMAIN releases
             /\ DOMAIN releases' \subseteq 1..lastId' /\ lastId' \in Nat
             /\ \A j \in DOMAIN releases \ {i} : releases'[j] = releases[j]
             /\ releases'[i] = Release(releases[i].maker, releases[i].notes, releases[i].public,
                                       With(releases[i].assets, name, digest))
             /\ releases' = [j \in DOMAIN releases' |-> releases'[j]]
             /\ \A j \in DOMAIN releases' : IsRelease(releases'[j])
             /\ OneRelease'
             /\ \A j \in Public' : releases'[j].public = "workflow" =>
                  j \in Public /\ releases'[j] = releases[j]
  <2>1. i \in DOMAIN releases /\ Shape BY <1>4 DEF PubInv
  <2>2. /\ DOMAIN releases' = DOMAIN releases
        /\ \A j \in DOMAIN releases \ {i} : releases'[j] = releases[j]
        /\ releases'[i] = Release(releases[i].maker, releases[i].notes, releases[i].public,
                                  With(releases[i].assets, name, digest))
        /\ releases' = [j \in DOMAIN releases' |-> releases'[j]]
        /\ \A j \in DOMAIN releases' : IsRelease(releases'[j])
        BY <1>4, <2>1, AttachFacts
  <2>3. /\ releases'[i].maker = releases[i].maker
        /\ releases'[i].public \in {"no", "overtaken"}
        BY <1>3, <2>1, <2>2 DEF Release
  <2>4. OneRelease' BY <2>2, <2>3 DEF PubInv, OneRelease
  <2>5. \A j \in Public' : releases'[j].public = "workflow" =>
          j \in Public /\ releases'[j] = releases[j]
        BY <2>2, <2>3 DEF Public, Drafts
  <2>6. DOMAIN releases' \subseteq 1..lastId' /\ lastId' \in Nat
        BY <1>1, <2>1, <2>2 DEF Shape
  <2> QED BY <2>2, <2>4, <2>5, <2>6
<1>5. CASE /\ i \in DOMAIN releases /\ Attach(i, name, Digest(r, name))
           /\ Becomes(r, [run[r] EXCEPT !.memory = [run[r].memory EXCEPT !.todo = Tail(@)]])
           /\ UNCHANGED active
  <2>1. /\ run' = [q \in Runs |-> IF q = r THEN run'[r] ELSE run[q]]
        /\ IsRun(run'[r]) /\ run'[r].step = "upload" /\ run'[r].memory.target = i
        /\ run'[r].commit = run[r].commit /\ run'[r].built = run[r].built
        /\ run'[r].step \notin Resting
        /\ CallInv(r)' /\ JobInv(r)'
        BY <1>1, <1>5, TakenOff
  <2>2. /\ DOMAIN releases' = DOMAIN releases
        /\ DOMAIN releases' \subseteq 1..lastId' /\ lastId' \in Nat
        /\ releases'[i] = Release(releases[i].maker, releases[i].notes, releases[i].public,
                                  With(releases[i].assets, name, Digest(r, name)))
        /\ releases' = [j \in DOMAIN releases' |-> releases'[j]]
        /\ \A j \in DOMAIN releases' : IsRelease(releases'[j])
        /\ OneRelease'
        /\ \A j \in Public' : releases'[j].public = "workflow" =>
             j \in Public /\ releases'[j] = releases[j]
        BY <1>4, <1>5
  <2>3. DraftInv(r)'
    <3>1. \A n : Digest(r, n)' = Digest(r, n) BY <2>1 DEF Digest
    <3>2. /\ i \in 1..lastId /\ releases[i].public \in {"no", "overtaken"}
          /\ \A n \in DOMAIN releases[i].assets :
               releases[i].assets[n] \in Foreign \cup {Digest(r, n)}
          BY <1>1, <1>5, Active DEF DraftInv
    <3>3. /\ releases'[i].assets = With(releases[i].assets, name, Digest(r, name))
          /\ releases'[i].public = releases[i].public
          BY <2>2 DEF Release
    <3> HIDE DEF name
    <3>4. \A n \in DOMAIN releases'[i].assets :
            releases'[i].assets[n] \in Foreign \cup {Digest(r, n)}
          BY <3>2, <3>3 DEF With
    <3> QED BY <1>1, <2>1, <3>1, <3>2, <3>3, <3>4 DEF DraftInv
  <2>4. ReleaseIsWhole'
    <3>1. \A q \in Runs : run'[q].commit = run[q].commit BY <2>1
    <3> QED BY <1>1, <2>2, <3>1, WholeStays
  <2>5. active' = IF run'[r].step \in Resting THEN NoRun ELSE r BY <1>1, <1>5, <2>1
  <2> QED BY <1>1, <2>1, <2>2, <2>3, <2>4, <2>5, ReleaseStep
<1>6. ASSUME NEW left, i \in DOMAIN releases, Attach(i, name, left), Stop(r)
      PROVE  PubInv'
  <2>1. /\ run' = [q \in Runs |-> IF q = r THEN run'[r] ELSE run[q]]
        /\ IsRun(run'[r]) /\ run'[r].commit = run[r].commit
        /\ active' = NoRun /\ run'[r].step \in Resting
        /\ CallInv(r)' /\ JobInv(r)' /\ DraftInv(r)'
    <3>1. window' = window BY <1>1
    <3> QED BY <1>1, <1>6, <3>1, LeaveFacts DEF Stop
  <2>2. /\ DOMAIN releases' \subseteq 1..lastId' /\ lastId' \in Nat
        /\ releases' = [j \in DOMAIN releases' |-> releases'[j]]
        /\ \A j \in DOMAIN releases' : IsRelease(releases'[j])
        /\ OneRelease'
        /\ \A j \in Public' : releases'[j].public = "workflow" =>
             j \in Public /\ releases'[j] = releases[j]
        BY <1>4, <1>6
  <2>3. ReleaseIsWhole'
    <3>1. \A q \in Runs : run'[q].commit = run[q].commit BY <2>1
    <3> QED BY <1>1, <2>2, <3>1, WholeStays
  <2> QED BY <1>1, <2>1, <2>2, <2>3, ReleaseStep
<1> QED BY <1>2, <1>5, <1>6 DEF Upload

\* What becomes public was read back: it is whole, and its package is npm's.
LEMMA FinishKeeps ==
  ASSUME PubInv, NEW r \in Runs, Finish(r) PROVE PubInv'
<1> DEFINE i == run[r].memory.target
           x == Release(releases[i].maker, releases[i].notes, "workflow", releases[i].assets)
<1>1. /\ active = r /\ run[r].step = "finish" /\ lastId' = lastId
      /\ UNCHANGED <<registry, calls, others>> /\ UNCHANGED <<npm, window>>
      BY DEF Finish, At, registry, others
<1>2. CASE Stop(r) /\ releases' = releases
      BY <1>1, <1>2, QuietStop DEF github
<1>3. CASE ~(Stop(r) /\ releases' = releases)
  <2>1. /\ i \in DOMAIN releases /\ Complete(r, releases[i])
        /\ releases' = [releases EXCEPT ![i].public = "workflow"]
        /\ run[r].built # 0 /\ npm.bytes = run[r].commit /\ Proved(npm) /\ IsRun(run[r])
    <3>1. i \in DOMAIN releases /\ releases' = [releases EXCEPT ![i].public = "workflow"]
          BY <1>3 DEF Finish
    <3> QED BY <1>1, <3>1, Active DEF DraftInv, JobInv, Releasing
  <2>2. /\ DOMAIN releases' = DOMAIN releases
        /\ \A j \in DOMAIN releases \ {i} : releases'[j] = releases[j]
        /\ releases'[i] = x
        /\ releases' = [j \in DOMAIN releases' |-> releases'[j]]
        /\ \A j \in DOMAIN releases' : IsRelease(releases'[j])
    <3>1. [releases[i] EXCEPT !.public = "workflow"] = x
      <4>1. IsRelease(releases[i]) BY <2>1 DEF PubInv, Shape
      <4> QED BY <4>1, SetRelease, Zenon
    <3>2. releases' = [releases EXCEPT ![i] = x] BY <2>1, <3>1, Zenon
    <3>3. IsRelease(x) BY DEF IsRelease, Release
    <3>4. Shape BY DEF PubInv
    <3> HIDE DEF x
    <3> QED BY <2>1, <3>2, <3>3, <3>4, ReplaceFacts
  <2>3. DOMAIN releases' \subseteq 1..lastId' /\ lastId' \in Nat
        BY <1>1, <2>2 DEF PubInv, Shape
  <2>4. /\ releases'[i].maker = releases[i].maker
        /\ releases'[i].assets = releases[i].assets
        BY <2>2 DEF Release
  <2>5. OneRelease' BY <2>2, <2>4 DEF PubInv, OneRelease
  <2>6. \E step \in {"stopped", "done"} : Leave(r, step)
        BY <1>3 DEF Finish, Stop
  <2>7. /\ run' = [q \in Runs |-> IF q = r THEN run'[r] ELSE run[q]]
        /\ IsRun(run'[r]) /\ run'[r].commit = run[r].commit
        /\ active' = NoRun /\ run'[r].step \in Resting
        /\ CallInv(r)' /\ JobInv(r)' /\ DraftInv(r)'
    <3>1. window' = window BY <1>1
    <3> QED BY <1>1, <2>6, <3>1, LeaveFacts
  <2>8. ReleaseIsWhole'
    <3> SUFFICES ASSUME NEW j \in Public', releases'[j].public = "workflow"
                 PROVE  /\ Proved(npm')
                        /\ releases'[j].assets["package"] = <<"package", npm'.bytes>>
                        /\ \E q \in Runs, n \in 1..MaxAttempt :
                             /\ run'[q].commit = npm'.bytes
                             /\ releases'[j].assets["record"] = <<"record", q, n>>
                             /\ releases'[j].assets["provenance"] = <<"provenance", q, n>>
                             /\ releases'[j].assets["npm"] = <<"npm">>
        BY DEF ReleaseIsWhole
    <3>1. \A q \in Runs : run'[q].commit = run[q].commit BY <2>7
    <3>2. CASE j = i
      <4> DEFINE held == releases[i].assets
                 n == run[r].built
      <4>1. n \in 1..MaxAttempt BY <2>1, PublicationAssumption DEF IsRun
      <4>2. /\ held["package"] = <<"package", npm.bytes>>
            /\ held["record"] = <<"record", r, n>>
            /\ held["provenance"] = <<"provenance", r, n>>
            /\ held["npm"] = <<"npm">>
            BY <2>1, FileNames DEF Complete, Own, Digest
      <4> QED BY <1>1, <2>1, <2>4, <3>1, <3>2, <4>1, <4>2
    <3>3. CASE j # i
      <4>1. j \in Public /\ releases'[j] = releases[j]
            BY <2>2, <3>3 DEF Public, Drafts
      <4>2. PICK q \in Runs, n \in 1..MaxAttempt :
              /\ run[q].commit = npm.bytes
              /\ releases[j].assets["record"] = <<"record", q, n>>
              /\ releases[j].assets["provenance"] = <<"provenance", q, n>>
              /\ releases[j].assets["npm"] = <<"npm">>
            BY <4>1 DEF PubInv, ReleaseIsWhole
      <4>3. Proved(npm) /\ releases[j].assets["package"] = <<"package", npm.bytes>>
            BY <4>1 DEF PubInv, ReleaseIsWhole
      <4> QED BY <1>1, <3>1, <4>1, <4>2, <4>3
    <3> QED BY <3>2, <3>3
  <2>9. active' = IF run'[r].step \in Resting THEN NoRun ELSE r BY <2>7
  <2> HIDE DEF i
  <2> QED BY <1>1, <2>2, <2>3, <2>5, <2>7, <2>8, <2>9, ReleaseStep
<1> QED BY <1>2, <1>3

LEMMA StepKeeps ==
  ASSUME PubInv, NEW r \in Runs, Step(r) PROVE PubInv'
  BY PrepareKeeps, ApproveKeeps, ReconcileKeeps, RecheckKeeps, VerifyKeeps,
     SkipPublishKeeps, PublishKeeps, FindKeeps, CreateKeeps, UploadKeeps,
     ReadBackKeeps, FinishKeeps
  DEF Step

-----------------------------------------------------------------------------
(* Failures, and the people and services around the workflow.              *)

LEMMA FailKeeps ==
  ASSUME PubInv, NEW r \in Runs, Fail(r) \/ Reject(r) PROVE PubInv'
<1>1. /\ active = r /\ Leave(r, "stopped")
      /\ UNCHANGED <<registry, github, calls, window>>
      BY DEF Fail, Reject, Stop, At, others
<1>2. hands' \in Nat BY DEF Fail, Reject, others, PubInv, Shape
<1> QED BY <1>1, <1>2, QuietLeave

\* A run that is run again is past its first attempt.
LEMMA AgainKeeps ==
  ASSUME PubInv, NEW r \in Runs, NEW job \in {run[r].job, "build"}, Again(r, job),
         hands' \in Nat
  PROVE  PubInv'
<1> DEFINE x == run[r]
           s == State(FirstStep[job], job, Next(x.attempt), x.commit, x.built, x.latest, x.memory)
<1>1. /\ Shape /\ IsRun(x) /\ IsState(x) /\ CallInv(r) /\ JobInv(r)
      /\ active = NoRun /\ active' = r /\ x.step = "stopped" /\ r # NoRun
      BY PublicationAssumption DEF PubInv, Shape, IsRun, Again
<1>2. run'[r] = s /\ run' = [q \in Runs |-> IF q = r THEN run'[r] ELSE run[q]]
  <2>1. [x EXCEPT !.step = FirstStep[job], !.job = job, !.attempt = Next(x.attempt)] = s
        BY <1>1, Restarting, Zenon
  <2>2. Becomes(r, s) BY <2>1, Zenon DEF Again
  <2> HIDE DEF s
  <2> QED BY <1>1, <2>2, Becoming
<1>3. Next(x.attempt) \in 2..MaxAttempt
      BY <1>1, PublicationAssumption DEF Next, IsRun, CallInv
<1>4. /\ job \in {"build", "publish", "release"}
      /\ job = "build" => FirstStep[job] = "prepare"
      /\ job = "publish" => FirstStep[job] = "approval"
      /\ job = "release" => FirstStep[job] = "verify"
      /\ job # "build" => x.built # 0
      BY <1>1 DEF FirstStep, IsRun, JobInv
<1>5. IsRun(run'[r]) BY <1>1, <1>2, <1>3, <1>4 DEF IsRun, IsState, State, Steps
<1>6. CallInv(r)' BY <1>1, <1>2, <1>3, <1>4 DEF CallInv, State, Again
<1>7. JobInv(r)' BY <1>1, <1>2, <1>4 DEF JobInv, State, Releasing
<1>8. DraftInv(r)' BY <1>2, <1>4 DEF DraftInv, State
<1>9. run'[r].step \notin Resting /\ run'[r].commit = run[r].commit
      BY <1>2, <1>4 DEF State, Resting
<1>10. UNCHANGED <<registry, github, calls, window>> BY DEF Again
<1> HIDE DEF s
<1> QED BY <1>1, <1>2, <1>5, <1>6, <1>7, <1>8, <1>9, <1>10, QuietStep

\* The runs stand still while others act; then their part of the invariant stays
\* as long as npm keeps what it had.
LEMMA RunsStay ==
  ASSUME PubInv, UNCHANGED <<run, active, calls>>,
         npm.bytes # NoCommit => npm'.bytes = npm.bytes, Proved(npm) => Proved(npm'),
         window' = window \/ window' = "closed"
  PROVE  ActiveInv' /\ \A q \in Runs : CallInv(q)' /\ JobInv(q)'
<1>1. ActiveInv' BY DEF PubInv, ActiveInv
<1>2. ASSUME NEW q \in Runs PROVE CallInv(q)'
  <2>1. CASE window' = window BY <2>1 DEF PubInv, CallInv
  <2>2. CASE window' = "closed" BY <2>2 DEF PubInv, CallInv
  <2> QED BY <2>1, <2>2
<1>3. ASSUME NEW q \in Runs PROVE JobInv(q)'
      BY DEF PubInv, JobInv, RegistryInv, Proved
<1> QED BY <1>1, <1>2, <1>3

LEMMA ShowLatestKeeps == ASSUME PubInv, ShowLatest PROVE PubInv'
<1> USE DEF ShowLatest, github, others
<1>1. ActiveInv' /\ \A q \in Runs : CallInv(q)' /\ JobInv(q)' BY RunsStay
<1>2. ASSUME NEW q \in Runs PROVE DraftInv(q)'
  <2>1. \A n : Digest(q, n)' = Digest(q, n) BY DEF Digest
  <2> QED BY <2>1 DEF PubInv, DraftInv, Drafts, Complete, Own
<1>3. Shape' /\ RegistryInv' BY DEF PubInv, Shape, RegistryInv, Proved
<1>4. OneRelease' BY DEF PubInv, OneRelease
<1>5. ReleaseIsWhole' BY WholeStays DEF Public, Drafts
<1> QED BY <1>1, <1>2, <1>3, <1>4, <1>5 DEF PubInv

LEMMA CloseWindowKeeps == ASSUME PubInv, CloseWindow PROVE PubInv'
<1>1. /\ UNCHANGED <<npm, shown, releases, lastId, run, active, calls, hands>>
      /\ window' = "closed"
      BY DEF CloseWindow, registry, github
<1>2. ActiveInv' /\ \A q \in Runs : CallInv(q)' /\ JobInv(q)' BY <1>1, RunsStay
<1>3. ASSUME NEW q \in Runs PROVE DraftInv(q)'
  <2>1. \A n : Digest(q, n)' = Digest(q, n) BY <1>1 DEF Digest
  <2> QED BY <1>1, <2>1 DEF PubInv, DraftInv, Drafts, Complete, Own
<1>4. Shape' /\ RegistryInv' BY <1>1 DEF PubInv, Shape, RegistryInv
<1>5. OneRelease' BY <1>1 DEF PubInv, OneRelease
<1>6. ReleaseIsWhole' BY <1>1, WholeStays DEF Public, Drafts
<1> QED BY <1>2, <1>3, <1>4, <1>5, <1>6 DEF PubInv

\* By hand a channel may be moved, or the version published without provenance;
\* what is published stays.
LEMMA HandOnRegistryKeeps == ASSUME PubInv, HandOnRegistry PROVE PubInv'
<1>1. /\ UNCHANGED <<shown, releases, lastId, run, active, calls, window>>
      /\ hands' \in Nat
  <2>1. ByHand /\ UNCHANGED <<shown, github, run, active, calls, faults, window>>
        BY Zenon DEF HandOnRegistry
  <2>2. hands \in Nat BY DEF PubInv, Shape
  <2> QED BY <2>1, <2>2 DEF ByHand, github
<1>2. IsRegistry(npm) /\ (npm.bytes = NoCommit => ~Proved(npm))
      BY DEF PubInv, Shape, RegistryInv, Proved
<1>3. /\ IsRegistry(npm') /\ npm'.provenance = npm.provenance
      /\ npm.bytes # NoCommit => npm'.bytes = npm.bytes
  <2> DEFINE b == npm.bytes
             p == npm.provenance
  <2>1. npm = Registry(b, p, npm.beta, npm.latest) BY <1>2 DEF IsRegistry
  <2>2. npm \in [bytes : {b}, provenance : {p}, beta : {npm.beta}, latest : {npm.latest}]
        BY <2>1 DEF Registry
  <2>3. CASE npm' = npm BY <1>2, <2>3
  <2>4. CASE npm' \in {[npm EXCEPT !.beta = "other"], [npm EXCEPT !.latest = "other"]}
    <3>1. [npm EXCEPT !.beta = "other"] = Registry(b, p, "other", npm.latest)
          BY <2>2 DEF Registry
    <3>2. [npm EXCEPT !.latest = "other"] = Registry(b, p, npm.beta, "other")
          BY <2>2 DEF Registry
    <3>3. npm' \in {Registry(b, p, "other", npm.latest), Registry(b, p, npm.beta, "other")}
          BY <2>4, <3>1, <3>2
    <3> QED BY <1>2, <3>3 DEF IsRegistry, Registry
  <2>5. ASSUME NEW c \in Commits, NEW beta, npm.bytes = NoCommit,
               npm' = [npm EXCEPT !.bytes = c, !.beta = beta]
        PROVE  /\ IsRegistry(npm') /\ npm'.provenance = npm.provenance
               /\ npm.bytes # NoCommit => npm'.bytes = npm.bytes
    <3>1. [npm EXCEPT !.bytes = c] = Registry(c, p, npm.beta, npm.latest)
          BY <2>2 DEF Registry
    <3>2. [Registry(c, p, npm.beta, npm.latest) EXCEPT !.beta = beta]
            = Registry(c, p, beta, npm.latest)
          BY DEF Registry
    <3>3. npm' = Registry(c, p, beta, npm.latest) BY <2>5, <3>1, <3>2
    <3> QED BY <1>2, <2>5, <3>3 DEF IsRegistry, Registry
  <2>6. \/ npm' = npm
        \/ npm' \in {[npm EXCEPT !.beta = "other"], [npm EXCEPT !.latest = "other"]}
        \/ \E c \in Commits, beta \in {"this", npm.beta} :
             npm.bytes = NoCommit /\ npm' = [npm EXCEPT !.bytes = c, !.beta = beta]
        BY DEF HandOnRegistry
  <2> QED BY <2>3, <2>4, <2>5, <2>6
<1>4. Proved(npm) => npm'.bytes = npm.bytes /\ Proved(npm') BY <1>2, <1>3 DEF Proved
<1>5. ActiveInv' /\ \A q \in Runs : CallInv(q)' /\ JobInv(q)'
      BY <1>1, <1>3, <1>4, RunsStay
<1>6. ASSUME NEW q \in Runs PROVE DraftInv(q)'
  <2>1. \A n : Digest(q, n)' = Digest(q, n) BY <1>1 DEF Digest
  <2> QED BY <1>1, <2>1 DEF PubInv, DraftInv, Drafts, Complete, Own
<1>7. Shape' BY <1>1, <1>3 DEF PubInv, Shape
<1>8. RegistryInv' BY <1>1, <1>2, <1>3 DEF PubInv, RegistryInv, Proved
<1>9. OneRelease' BY <1>1 DEF PubInv, OneRelease
<1>10. ReleaseIsWhole'
  <2>1. CASE Proved(npm)
        BY <1>1, <1>4, <2>1 DEF PubInv, ReleaseIsWhole, Public, Drafts
  <2>2. CASE ~Proved(npm)
        BY <1>1, <2>2 DEF PubInv, ReleaseIsWhole, Public, Drafts
  <2> QED BY <2>1, <2>2
<1> QED BY <1>5, <1>6, <1>7, <1>8, <1>9, <1>10 DEF PubInv

\* By hand a draft may be made, deleted or published, and given another file while no
\* run is about to publish its own.
LEMMA HandOnReleaseKeeps == ASSUME PubInv, HandOnRelease PROVE PubInv'
<1>1. /\ UNCHANGED <<npm, shown, run, active, calls, window>>
      /\ hands' \in Nat /\ lastId \in Nat /\ Shape
  <2>1. ByHand /\ UNCHANGED <<registry, run, active, calls, faults, tag, window>>
        BY Zenon DEF HandOnRelease
  <2>2. hands \in Nat /\ lastId \in Nat /\ Shape BY DEF PubInv, Shape
  <2> QED BY <2>1, <2>2 DEF ByHand, registry
<1>2. ActiveInv' /\ (\A q \in Runs : CallInv(q)' /\ JobInv(q)') /\ RegistryInv'
  <2>1. ActiveInv' /\ \A q \in Runs : CallInv(q)' /\ JobInv(q)' BY <1>1, RunsStay
  <2> QED BY <1>1, <2>1 DEF PubInv, RegistryInv
\* What is left to show of each of the four.
<1>3. ASSUME lastId' \in Nat, DOMAIN releases' \subseteq 1..lastId',
             releases' = [j \in DOMAIN releases' |-> releases'[j]],
             \A j \in DOMAIN releases' : IsRelease(releases'[j]),
             \A q \in Runs : DraftInv(q)', OneRelease',
             \A j \in Public' : releases'[j].public = "workflow" =>
               j \in Public /\ releases'[j] = releases[j]
      PROVE  PubInv'
  <2>1. Shape' BY <1>1, <1>3 DEF Shape
  <2>2. ReleaseIsWhole' BY <1>1, <1>3, WholeStays
  <2> QED BY <1>2, <1>3, <2>1, <2>2 DEF PubInv
<1>4. \A q \in Runs : \A n : Digest(q, n)' = Digest(q, n) BY <1>1 DEF Digest
\* A run whose own release keeps its files, if it is there at all.
<1>5. ASSUME NEW q \in Runs, run[q].step # "create", lastId' \in {lastId, lastId + 1},
             LET i == run[q].memory.target IN
               run[q].step \in {"upload", "finish"} /\ i \in DOMAIN releases' =>
                 /\ i \in DOMAIN releases
                 /\ releases'[i].assets = releases[i].assets
                 /\ releases'[i].public \in {releases[i].public, "overtaken"}
      PROVE  DraftInv(q)'
  <2> DEFINE i == run[q].memory.target
  <2>1. DraftInv(q) BY DEF PubInv
  <2>2. CASE run[q].step \in {"upload", "finish"} /\ i \in DOMAIN releases'
    <3>1. i \in DOMAIN releases /\ i \in 1..lastId' BY <1>1, <1>5, <2>1, <2>2 DEF DraftInv
    <3>2. releases'[i].public \in {"no", "overtaken"}
          BY <1>5, <2>1, <2>2, <3>1 DEF DraftInv
    <3>3. releases'[i].assets = releases[i].assets BY <1>5, <2>2
    <3> HIDE DEF i
    <3>4. run[q].step = "upload" =>
            \A n \in DOMAIN releases'[i].assets :
              releases'[i].assets[n] \in Foreign \cup {Digest(q, n)}
          BY <2>1, <3>1, <3>3 DEF DraftInv, i
    <3>5. run[q].step = "finish" => Complete(q, releases[i])
          BY <2>1, <3>1 DEF DraftInv, i
    <3>6. run[q].step = "finish" => Complete(q, releases[run[q].memory.target])'
          BY <1>1, <1>4, <3>3, <3>5 DEF Complete, Own, i
    <3> QED BY <1>1, <1>4, <1>5, <3>1, <3>2, <3>4, <3>6 DEF DraftInv, i
  <2>3. CASE ~(run[q].step \in {"upload", "finish"} /\ i \in DOMAIN releases')
    <3>1. run[q].step \in {"upload", "finish"} => i \in 1..lastId'
          BY <1>1, <1>5, <2>1 DEF DraftInv
    <3> QED BY <1>1, <1>5, <2>3, <3>1 DEF DraftInv
  <2> QED BY <2>2, <2>3
<1>6. ASSUME NEW notes, Add(NewRelease("hand", notes)) PROVE PubInv'
  <2> DEFINE x == NewRelease("hand", notes)
  <2>1. IsRelease(x) /\ x.public = "no" /\ x.maker = "hand"
        BY DEF IsRelease, Release, NewRelease
  <2> HIDE DEF x
  <2>2. /\ lastId' = lastId + 1 /\ lastId' \in Nat /\ lastId + 1 \notin DOMAIN releases
        /\ DOMAIN releases' = DOMAIN releases \cup {lastId + 1}
        /\ DOMAIN releases' \subseteq 1..lastId'
        /\ \A j \in DOMAIN releases : releases'[j] = releases[j]
        /\ releases'[lastId + 1] = x
        /\ releases' = [j \in DOMAIN releases' |-> releases'[j]]
        /\ \A j \in DOMAIN releases' : IsRelease(releases'[j])
    <3>1. Add(x) BY <1>6 DEF x
    <3> QED BY <1>1, <2>1, <3>1, AddFacts
  <2>3. OneRelease' BY <2>1, <2>2 DEF PubInv, OneRelease
  <2>4. \A j \in Public' : releases'[j].public = "workflow" =>
          j \in Public /\ releases'[j] = releases[j]
        BY <2>1, <2>2 DEF Public, Drafts
  <2>5. ASSUME NEW q \in Runs PROVE DraftInv(q)'
    <3>1. DraftInv(q) BY DEF PubInv
    <3>2. CASE run[q].step = "create" BY <1>1, <2>1, <2>2, <3>1, <3>2 DEF DraftInv
    <3>3. CASE run[q].step # "create"
      <4> DEFINE i == run[q].memory.target
      <4>1. run[q].step \in {"upload", "finish"} => i \in 1..lastId /\ i # lastId + 1
            BY <1>1, <3>1 DEF DraftInv
      <4>2. run[q].step \in {"upload", "finish"} /\ i \in DOMAIN releases' =>
              i \in DOMAIN releases /\ releases'[i] = releases[i]
            BY <2>2, <4>1
      <4> QED BY <1>5, <2>2, <3>3, <4>2
    <3> QED BY <3>2, <3>3
  <2> QED BY <1>3, <2>2, <2>3, <2>4, <2>5
<1>7. ASSUME NEW i \in Drafts, lastId' = lastId,
             releases' = [j \in DOMAIN releases \ {i} |-> releases[j]]
      PROVE  PubInv'
  <2>1. /\ DOMAIN releases' = DOMAIN releases \ {i}
        /\ \A j \in DOMAIN releases' : releases'[j] = releases[j]
        BY <1>7
  <2>2. /\ lastId' \in Nat /\ DOMAIN releases' \subseteq 1..lastId'
        /\ releases' = [j \in DOMAIN releases' |-> releases'[j]]
        /\ \A j \in DOMAIN releases' : IsRelease(releases'[j])
        BY <1>1, <1>7, <2>1 DEF Shape
  <2>3. OneRelease' BY <2>1 DEF PubInv, OneRelease
  <2>4. \A j \in Public' : releases'[j].public = "workflow" =>
          j \in Public /\ releases'[j] = releases[j]
        BY <2>1 DEF Public, Drafts
  <2>5. ASSUME NEW q \in Runs PROVE DraftInv(q)'
    <3>1. DraftInv(q) BY DEF PubInv
    <3>2. CASE run[q].step = "create" BY <1>1, <2>1, <3>1, <3>2 DEF DraftInv
    <3>3. CASE run[q].step # "create" BY <1>5, <1>7, <2>1, <3>3
    <3> QED BY <3>2, <3>3
  <2> QED BY <1>3, <2>2, <2>3, <2>4, <2>5
<1>8. ASSUME NEW i \in Drafts, NEW name, lastId' = lastId, Attach(i, name, <<"hand">>),
             ~\E q \in Runs : At(q, "finish")
      PROVE  PubInv'
  <2> DEFINE held == With(releases[i].assets, name, <<"hand">>)
  <2>1. /\ DOMAIN releases' = DOMAIN releases
        /\ \A j \in DOMAIN releases \ {i} : releases'[j] = releases[j]
        /\ releases'[i] = Release(releases[i].maker, releases[i].notes, releases[i].public, held)
        /\ releases' = [j \in DOMAIN releases' |-> releases'[j]]
        /\ \A j \in DOMAIN releases' : IsRelease(releases'[j])
    <3>1. i \in DOMAIN releases BY DEF Drafts
    <3> QED BY <1>1, <1>8, <3>1, AttachFacts
  <2>2. lastId' \in Nat /\ DOMAIN releases' \subseteq 1..lastId'
        BY <1>1, <1>8, <2>1 DEF Shape
  <2> HIDE DEF held
  <2>3. /\ releases'[i].maker = releases[i].maker /\ releases'[i].public = "no"
        /\ releases'[i].assets = held
        BY <2>1 DEF Release, Drafts
  <2>4. OneRelease' BY <2>1, <2>3 DEF PubInv, OneRelease
  <2>5. \A j \in Public' : releases'[j].public = "workflow" =>
          j \in Public /\ releases'[j] = releases[j]
        BY <2>1, <2>3 DEF Public, Drafts
  <2>6. ASSUME NEW q \in Runs PROVE DraftInv(q)'
    <3>1. DraftInv(q) /\ run[q].step # "finish"
          BY <1>8 DEF PubInv, At, ActiveInv, Resting
    <3>2. CASE run[q].step = "create" BY <1>1, <2>1, <2>3, <3>1, <3>2 DEF DraftInv
    <3>3. CASE run[q].step = "upload"
      <4> DEFINE t == run[q].memory.target
      <4>1. t \in 1..lastId' BY <1>8, <3>1, <3>3 DEF DraftInv
      <4>2. t \in DOMAIN releases' =>
              t \in DOMAIN releases /\ releases'[t].public \in {"no", "overtaken"}
            BY <2>1, <2>3, <3>1, <3>3 DEF DraftInv
      <4>3. ASSUME t \in DOMAIN releases', NEW n \in DOMAIN releases'[t].assets
            PROVE  releases'[t].assets[n] \in Foreign \cup {Digest(q, n)}
        <5>1. \A k \in DOMAIN releases[t].assets :
                releases[t].assets[k] \in Foreign \cup {Digest(q, k)}
              BY <3>1, <3>3, <4>2, <4>3 DEF DraftInv
        <5>2. CASE t = i
          <6>1. <<"hand">> \in Foreign BY DEF Foreign
          <6>2. n \in DOMAIN held /\ releases'[t].assets[n] = held[n] BY <2>3, <4>3, <5>2
          <6>3. n = name \/ (n \in DOMAIN releases[i].assets /\ held[n] = releases[i].assets[n])
                BY <6>2 DEF held, With
          <6>4. n = name => held[n] = <<"hand">> BY <6>2 DEF held, With
          <6> QED BY <5>1, <5>2, <6>1, <6>2, <6>3, <6>4
        <5>3. CASE t # i
          <6>1. releases'[t] = releases[t] BY <2>1, <4>2, <4>3, <5>3
          <6> QED BY <4>3, <5>1, <6>1
        <5> QED BY <5>2, <5>3
      <4> HIDE DEF t
      <4> QED BY <1>1, <1>4, <3>3, <4>1, <4>2, <4>3 DEF DraftInv, t
    <3>4. CASE run[q].step \notin {"create", "upload", "finish"}
          BY <1>1, <3>4 DEF DraftInv
    <3> QED BY <3>1, <3>2, <3>3, <3>4
  <2> QED BY <1>3, <2>1, <2>2, <2>4, <2>5, <2>6
<1>9. ASSUME NEW i \in Drafts, lastId' = lastId,
             releases' = [releases EXCEPT
                            ![i].public = IF Filling(i) THEN "overtaken" ELSE "hand"]
      PROVE  PubInv'
  <2> DEFINE p == IF Filling(i) THEN "overtaken" ELSE "hand"
             x == Release(releases[i].maker, releases[i].notes, p, releases[i].assets)
  <2>1. p \in {"hand", "overtaken"} /\ (Filling(i) => p = "overtaken") OBVIOUS
  <2>2. releases' = [releases EXCEPT ![i].public = p] BY <1>9
  <2> HIDE DEF p
  <2>3. i \in DOMAIN releases /\ IsRelease(releases[i]) BY <1>1 DEF Drafts, Shape
  <2>4. /\ DOMAIN releases' = DOMAIN releases
        /\ \A j \in DOMAIN releases \ {i} : releases'[j] = releases[j]
        /\ releases'[i] = x
        /\ releases' = [j \in DOMAIN releases' |-> releases'[j]]
        /\ \A j \in DOMAIN releases' : IsRelease(releases'[j])
    <3>1. [releases[i] EXCEPT !.public = p] = x
          BY <2>3, SetRelease, Zenon
    <3>2. releases' = [releases EXCEPT ![i] = x] BY <2>2, <3>1, Zenon
    <3>3. IsRelease(x) BY DEF IsRelease, Release
    <3> HIDE DEF x
    <3> QED BY <1>1, <2>3, <3>2, <3>3, ReplaceFacts
  <2>5. /\ releases'[i].maker = releases[i].maker /\ releases'[i].public = p
        /\ releases'[i].assets = releases[i].assets
        BY <2>4 DEF Release
  <2>6. lastId' \in Nat /\ DOMAIN releases' \subseteq 1..lastId'
        BY <1>1, <1>9, <2>4 DEF Shape
  <2>7. OneRelease' BY <2>4, <2>5 DEF PubInv, OneRelease
  <2>8. \A j \in Public' : releases'[j].public = "workflow" =>
          j \in Public /\ releases'[j] = releases[j]
        BY <2>4, <2>5, <2>1 DEF Public, Drafts
  <2>9. ASSUME NEW q \in Runs PROVE DraftInv(q)'
    <3>1. DraftInv(q) BY DEF PubInv
    <3>2. CASE run[q].step = "create" BY <1>1, <2>4, <2>5, <3>1, <3>2 DEF DraftInv
    <3>3. CASE run[q].step # "create"
      <4> DEFINE t == run[q].memory.target
      <4>1. run[q].step \in {"upload", "finish"} => active = q /\ q # NoRun
            BY PublicationAssumption DEF PubInv, ActiveInv, Resting
      <4>2. run[q].step \in {"upload", "finish"} /\ t = i => releases'[t].public = "overtaken"
            BY <2>5, <2>1, <4>1 DEF Filling
      <4> QED BY <1>5, <1>9, <2>4, <2>5, <3>3, <4>2
    <3> QED BY <3>2, <3>3
  <2> QED BY <1>3, <2>4, <2>6, <2>7, <2>8, <2>9
<1>10. \/ \E notes \in {"ours", "other"} : Add(NewRelease("hand", notes))
       \/ /\ lastId' = lastId
          /\ \E i \in Drafts :
               \/ releases' = [j \in DOMAIN releases \ {i} |-> releases[j]]
               \/ /\ ~\E q \in Runs : At(q, "finish")
                  /\ \E name \in Assets : Attach(i, name, <<"hand">>)
               \/ releases' = [releases EXCEPT
                                  ![i].public = IF Filling(i) THEN "overtaken" ELSE "hand"]
       BY Zenon DEF HandOnRelease
<1> QED BY <1>6, <1>7, <1>8, <1>9, <1>10, Zenon
-----------------------------------------------------------------------------
\* The invariant holds of every state of the workflow, its people and services.
THEOREM PublicationInvariant == PubSpec => []PubInv
<1>1. PubInv /\ [PubNext]_vars => PubInv'
  <2> SUFFICES ASSUME PubInv, [PubNext]_vars PROVE PubInv'
      OBVIOUS
  <2>1. ASSUME NEW r \in Runs, Step(r) \/ Fail(r) \/ Reject(r) PROVE PubInv'
        BY <2>1, StepKeeps, FailKeeps
  <2>2. ASSUME NEW r \in Runs, Resume(r) \/ Retry(r) PROVE PubInv'
    <3>1. hands' \in Nat BY <2>2 DEF Resume, Retry, ByHand, PubInv, Shape
    <3>2. PICK job \in {run[r].job, "build"} : Again(r, job)
          BY <2>2 DEF Resume, Retry
    <3> QED BY <3>1, <3>2, AgainKeeps
  <2>3. ASSUME NEW r \in Runs, NEW c \in Commits, Dispatch(r, c) PROVE PubInv'
        BY <2>3, DispatchKeeps
  <2>4. CASE ShowLatest \/ CloseWindow \/ HandOnRegistry \/ HandOnRelease
        BY <2>4, ShowLatestKeeps, CloseWindowKeeps, HandOnRegistryKeeps, HandOnReleaseKeeps
  <2>5. CASE UNCHANGED vars
    <3>1. UNCHANGED <<registry, github, calls, window>> /\ UNCHANGED <<run, active, hands>>
          BY <2>5 DEF vars, others
    <3>2. /\ npm' = npm /\ shown' = shown /\ releases' = releases /\ lastId' = lastId
          /\ calls' = calls /\ window' = window /\ run' = run /\ active' = active
          /\ hands' = hands
          BY <3>1 DEF registry, github
    <3>3. ActiveInv' /\ \A q \in Runs : CallInv(q)' /\ JobInv(q)' BY <3>2, RunsStay
    <3>4. \A q \in Runs : DraftInv(q)'
          BY <3>2 DEF PubInv, DraftInv, Drafts, Complete, Own, Digest
    <3>5. OneRelease' BY <3>2 DEF PubInv, OneRelease
    <3>6. ReleaseIsWhole'
          BY <3>2, WholeStays DEF Public, Drafts
    <3>7. RegistryInv' BY <3>2 DEF PubInv, RegistryInv
    <3>8. Shape' BY <3>2 DEF PubInv, Shape, IsRun, IsState, IsMemory, IsRegistry, IsRelease
    <3> QED BY <3>3, <3>4, <3>5, <3>6, <3>7, <3>8 DEF PubInv
  <2> QED BY <2>1, <2>2, <2>3, <2>4, <2>5 DEF PubNext
<1> QED BY <1>1, PubInvInit, PTL DEF PubSpec

\* At most one release of the tag is the workflow's, over all its runs and attempts.
THEOREM OneReleaseAlways == PubSpec => []OneRelease
<1>1. PubInv => OneRelease BY DEF PubInv
<1> QED BY <1>1, PublicationInvariant, PTL

\* What the workflow makes public is whole and holds the package npm serves.
THEOREM WholeAlways == PubSpec => []ReleaseIsWhole
<1>1. PubInv => ReleaseIsWhole BY DEF PubInv
<1> QED BY <1>1, PublicationInvariant, PTL

\* npm publish is called once by a run, and not after a late approval.
THEOREM OneTimelyCallAlways == PubSpec => OneTimelyCall
<1> DEFINE Timely == \A r \in Runs : calls'[r] # calls[r] => calls[r] = 0 /\ ~run[r].memory.late
<1>1. PubInv /\ [PubNext]_vars => Timely
  <2> SUFFICES ASSUME PubInv, [PubNext]_vars PROVE Timely
      OBVIOUS
  <2>1. ASSUME NEW r \in Runs, Calling(r) PROVE Timely
    <3>1. \A q \in Runs \ {r} : calls'[q] = calls[q]
          BY <2>1 DEF Calling, PubInv, Shape
    <3>2. CallInv(r) BY DEF PubInv
    <3>3. calls[r] = 0 /\ ~run[r].memory.late
          BY <2>1, <3>2 DEF Calling, At, CallInv
    <3> QED BY <3>1, <3>3
  <2>2. CASE calls' = calls BY <2>2
  <2>3. ASSUME NEW r \in Runs, Step(r) PROVE Calling(r) \/ calls' = calls
        BY <2>3, Zenon DEF Step, Prepare, Approve, Reconcile, Recheck, Verify, SkipPublish,
           Publish, PublishLost, Find, Create, Upload, ReadBack, Finish
  <2>4. ASSUME NEW r \in Runs, Fail(r) \/ Reject(r) \/ Resume(r) \/ Retry(r)
        PROVE  calls' = calls
        BY <2>4, Zenon DEF Fail, Reject, Resume, Retry, Again
  <2>5. ASSUME NEW r \in Runs, NEW c \in Commits, Dispatch(r, c) PROVE calls' = calls
        BY <2>5 DEF Dispatch
  <2>6. ShowLatest \/ CloseWindow \/ HandOnRegistry \/ HandOnRelease \/ UNCHANGED vars
          => calls' = calls
        BY DEF ShowLatest, CloseWindow, HandOnRegistry, HandOnRelease, vars
  <2> HIDE DEF Timely
  <2> QED BY <2>1, <2>2, <2>3, <2>4, <2>5, <2>6 DEF PubNext
<1> QED BY <1>1, PublicationInvariant, PTL DEF PubSpec, OneTimelyCall

\* The workflow deletes and replaces nothing, completes and publishes nothing it did
\* not build, and changes nothing public but the release that was a draft when the run
\* found it: whatever is done by hand between its looking and its writing.
THEOREM NothingOverwrittenAlways == PubSpec => NothingOverwritten
<1> DEFINE Kept(i) ==
             LET held == releases[i].assets  then == releases'[i] IN
             /\ i \in DOMAIN releases'
             /\ \A n \in DOMAIN held : n \in DOMAIN then.assets /\ then.assets[n] = held[n]
             /\ i \in Public /\ then # releases[i] =>
                  releases[i].public = "overtaken" /\ Filling(i)
             /\ then.assets # held =>
                  \A n \in DOMAIN held : held[n] \in Foreign \cup {Digest(active, n)}
             /\ then.public # releases[i].public =>
                  DOMAIN held = Assets /\ \A n \in Assets : held[n] = Digest(active, n)
           Guarded == active # NoRun /\ hands' = hands => \A i \in DOMAIN releases : Kept(i)
<1>1. PubInv /\ [PubNext]_vars => Guarded
  <2> SUFFICES ASSUME PubInv, [PubNext]_vars PROVE Guarded
      OBVIOUS
  <2>1. ASSUME NEW i \in DOMAIN releases, i \in DOMAIN releases', releases'[i] = releases[i]
        PROVE  Kept(i)
        BY <2>1
  <2>2. CASE releases' = releases BY <2>1, <2>2
  <2>3. ASSUME NEW r \in Runs, Create(r) PROVE Guarded
    <3>1. lastId \in Nat /\ DOMAIN releases \subseteq 1..lastId BY DEF PubInv, Shape
    <3>2. \A i \in DOMAIN releases : i \in DOMAIN releases' /\ releases'[i] = releases[i]
          BY <2>3, <3>1 DEF Create, Add, With
    <3> QED BY <2>1, <3>2
  <2>4. ASSUME NEW r \in Runs, Upload(r) PROVE Guarded
    <3> DEFINE t == run[r].memory.target
               name == Head(run[r].memory.todo)
    <3>1. active = r /\ run[r].step = "upload" BY <2>4 DEF Upload, At
    <3>2. CASE releases' = releases BY <2>1, <3>2
    <3>3. ASSUME NEW digest, t \in DOMAIN releases, name \notin DOMAIN releases[t].assets,
                 Attach(t, name, digest)
          PROVE  Guarded
      <4>1. /\ t \in DOMAIN releases /\ Shape
            /\ releases[t].public \in {"no", "overtaken"} /\ Filling(t)
            BY <3>1, <3>3, PublicationAssumption DEF PubInv, DraftInv, Filling
      <4>2. /\ DOMAIN releases' = DOMAIN releases
            /\ \A j \in DOMAIN releases \ {t} : releases'[j] = releases[j]
            /\ releases'[t] = Release(releases[t].maker, releases[t].notes, releases[t].public,
                                      With(releases[t].assets, name, digest))
            BY <3>3, <4>1, AttachFacts
      <4>3. /\ releases'[t].assets = With(releases[t].assets, name, digest)
            /\ releases'[t].public = releases[t].public
            BY <4>1, <4>2 DEF Release
      <4>4. \A n \in DOMAIN releases[t].assets :
              releases[t].assets[n] \in Foreign \cup {Digest(active, n)}
            BY <3>1, <3>3 DEF PubInv, DraftInv
      <4> HIDE DEF name
      <4>5. \A n \in DOMAIN releases[t].assets :
              n \in DOMAIN releases'[t].assets
              /\ releases'[t].assets[n] = releases[t].assets[n]
            BY <3>3, <4>3 DEF With
      <4>6. Kept(t) BY <3>3, <4>1, <4>2, <4>3, <4>4, <4>5 DEF Public, Drafts
      <4> HIDE DEF Kept, t
      <4> QED BY <2>1, <4>2, <4>6
    <3> QED BY <2>4, <3>2, <3>3, Zenon DEF Upload
  <2>5. ASSUME NEW r \in Runs, Finish(r) PROVE Guarded
    <3> DEFINE t == run[r].memory.target
    <3>1. /\ active = r /\ run[r].step = "finish" BY <2>5 DEF Finish, At
    <3>2. CASE releases' = releases BY <2>1, <3>2
    <3>3. CASE t \in DOMAIN releases /\ releases' = [releases EXCEPT ![t].public = "workflow"]
      <4>1. /\ Complete(r, releases[t]) /\ Filling(t)
            /\ releases[t].public \in {"no", "overtaken"}
            BY <3>1, <3>3, PublicationAssumption DEF PubInv, DraftInv, Filling
      <4>2. /\ DOMAIN releases' = DOMAIN releases
            /\ \A j \in DOMAIN releases \ {t} : releases'[j] = releases[j]
            /\ releases'[t].assets = releases[t].assets
        <5>1. IsRelease(releases[t]) BY <3>3 DEF PubInv, Shape
        <5>2. [releases[t] EXCEPT !.public = "workflow"]
                = Release(releases[t].maker, releases[t].notes, "workflow", releases[t].assets)
              BY <5>1, SetRelease, Zenon
        <5>3. releases' = [releases EXCEPT ![t] = [releases[t] EXCEPT !.public = "workflow"]]
              BY <3>3, Zenon
        <5>4. [releases[t] EXCEPT !.public = "workflow"].assets = releases[t].assets
              BY <5>2 DEF Release
        <5>5. releases = [i \in DOMAIN releases |-> releases[i]] BY DEF PubInv, Shape
        <5> QED BY <3>3, <5>3, <5>4, <5>5
      <4>3. Kept(t) BY <3>1, <3>3, <4>1, <4>2 DEF Public, Drafts, Complete, Own
      <4> HIDE DEF Kept, t
      <4> QED BY <2>1, <4>2, <4>3
    <3> QED BY <2>5, <3>2, <3>3 DEF Finish
  <2>6. ASSUME NEW r \in Runs, Step(r)
        PROVE  Create(r) \/ Upload(r) \/ Finish(r) \/ releases' = releases
        BY <2>6 DEF Step, Prepare, Approve, Reconcile, Recheck, Verify, SkipPublish,
           Publish, PublishLost, Calling, Find, ReadBack, github
  <2>7. ASSUME NEW r \in Runs, Fail(r) \/ Reject(r) \/ Resume(r) \/ Retry(r)
        PROVE  releases' = releases
        BY <2>7 DEF Fail, Reject, Resume, Retry, Again, github
  <2>8. ASSUME NEW r \in Runs, NEW c \in Commits, Dispatch(r, c) PROVE releases' = releases
        BY <2>8 DEF Dispatch, github
  <2>9. ShowLatest \/ CloseWindow \/ HandOnRegistry \/ UNCHANGED vars => releases' = releases
        BY DEF ShowLatest, CloseWindow, HandOnRegistry, vars, github
  <2>10. HandOnRelease => hands' # hands
         BY DEF HandOnRelease, ByHand, PubInv, Shape
  <2>11. HandOnRelease => Guarded BY <2>10
  <2> HIDE DEF Guarded
  <2> QED BY <2>2, <2>3, <2>4, <2>5, <2>6, <2>7, <2>8, <2>9, <2>11 DEF PubNext
<1> QED BY <1>1, PublicationInvariant, PTL DEF PubSpec, NothingOverwritten

-----------------------------------------------------------------------------
(* The helper: ReleaseEnvironment *)

\* A run that goes on to write does so under a plan that calls for it.
PlanInv ==
  /\ phase # "plan" => options.apply = TRUE /\ Plan(before) \in {"create", "resume"}
  /\ phase \in {"created", "after"} => target # 0 /\ before.id \in {0, target}
  /\ at = "put" => phase = "fresh" /\ Plan(before) = "create"
  /\ at = "post" => phase = "created"
  /\ at # "idle" => report = "none"

\* What the run has seen last is still so if nobody has interfered.
SeenInv ==
  /\ at = "policies" => snap.id # 0
  /\ ~raced =>
       /\ at = "put" => env.id = 0
       /\ at = "policies" => env.id = snap.id /\ env.reviewer = snap.actor
       /\ at = "post" => env.id = target /\ env.reviewer = before.actor

EInv == ETypeOK /\ PlanInv /\ SeenInv /\ SuccessIsExact

-----------------------------------------------------------------------------
LEMMA EInvInit == EInit => EInv
<1> SUFFICES ASSUME EInit PROVE EInv
    OBVIOUS
<1>1. ETypeOK
  <2>1. 0 \in EnvIds BY EnvironmentAssumption DEF EnvIds
  <2>2. env \in Environments BY <2>1 DEF EInit, Absent, Environments, Policies
  <2>3. snap \in Snapshots /\ before \in Snapshots BY <2>1 DEF EInit, Snapshots
  <2>4. options \in [apply : BOOLEAN, resume : EnvIds] BY <2>1 DEF EInit
  <2>5. mishaps \in 0..MaxMishaps BY EnvironmentAssumption DEF EInit
  <2>6. lastEnv = 0 /\ env.id = 0 /\ env = Absent BY DEF EInit, Absent
  <2>7. /\ account \in Accounts /\ at = "idle" /\ phase = "plan" /\ target = 0
        /\ report = "none" /\ told = {} /\ raced = FALSE
        BY DEF EInit
  <2>8. env.id <= lastEnv /\ lastEnv \in EnvIds /\ target \in EnvIds /\ told \subseteq EnvIds \ {0}
        BY <2>1, <2>6, <2>7
  <2> QED BY <2>2, <2>3, <2>4, <2>5, <2>6, <2>7, <2>8, Zenon DEF ETypeOK
<1>2. PlanInv /\ SeenInv /\ SuccessIsExact BY DEF EInit, PlanInv, SeenInv, SuccessIsExact
<1> QED BY <1>1, <1>2 DEF EInv

\* A plan to write names the environment it is about.
LEMMA PlanFacts ==
  ASSUME NEW s \in Snapshots, options.resume \in EnvIds
  PROVE  /\ Plan(s) = "create" => s.id = 0
         /\ Plan(s) = "resume" => s.id # 0 /\ options.resume = s.id
         /\ Plan(s) = "missing_main" => s.id # 0
         /\ Plan(s) = "unchanged" => s.id # 0 /\ s.main = TRUE
         /\ Plan(s) \in {"refused", "create", "unchanged", "resume", "missing_main"}
<1>1. s.main \in BOOLEAN BY DEF Snapshots
<1>2. CASE s.main = TRUE BY <1>2 DEF Plan
<1>3. CASE s.main = FALSE BY <1>3 DEF Plan
<1> QED BY <1>1, <1>2, <1>3

\* A run that ends, with a report that is true.
LEMMA EndKeeps ==
  ASSUME EInv, NEW result \in {"planned", "unchanged", "changed", "stopped", "unverified", "killed"},
         NEW ids \in SUBSET (EnvIds \ {0}), End(result, ids),
         UNCHANGED raced, mishaps' \in 0..MaxMishaps,
         env' \in Environments, lastEnv' \in EnvIds, env'.id <= lastEnv',
         env'.id = 0 => env' = Absent, UNCHANGED account,
         snap' \in Snapshots,
         result \in {"unchanged", "changed"} /\ ~raced => Exact(env', snap'.actor)
  PROVE  EInv'
<1>1. /\ at' = "idle" /\ report' = result /\ told' = told \cup ids
      /\ UNCHANGED <<phase, options, before, target>>
      BY DEF End
<1>2. ETypeOK' BY <1>1 DEF EInv, ETypeOK
<1>3. Plan(before)' = Plan(before) BY <1>1 DEF Plan
<1>4. PlanInv' BY <1>1, <1>3 DEF EInv, PlanInv
<1>5. SeenInv' BY <1>1 DEF SeenInv
<1>6. SuccessIsExact' BY <1>1 DEF SuccessIsExact, Exact
<1> QED BY <1>2, <1>4, <1>5, <1>6 DEF EInv

\* A run that stops makes no claim.
LEMMA StopKeeps ==
  ASSUME EInv, StopHelper, UNCHANGED raced, mishaps' \in 0..MaxMishaps,
         env' \in Environments, lastEnv' \in EnvIds, env'.id <= lastEnv',
         env'.id = 0 => env' = Absent, UNCHANGED <<account, snap>>
  PROVE  EInv'
<1>1. target \in EnvIds /\ snap' \in Snapshots BY DEF EInv, ETypeOK
<1>2. CASE phase \in {"plan", "fresh"}
  <2>1. End("stopped", {}) BY <1>2 DEF StopHelper
  <2> QED BY <1>1, <2>1, EndKeeps
<1>3. CASE phase \notin {"plan", "fresh"}
  <2>1. End("unverified", {target}) BY <1>3 DEF StopHelper
  <2>2. target # 0 BY <1>3 DEF EInv, ETypeOK, PlanInv
  <2> QED BY <1>1, <2>1, <2>2, EndKeeps
<1> QED BY <1>2, <1>3

\* What a run does once an inspection is complete.
LEMMA InspectedKeeps ==
  ASSUME EInv, NEW s \in Snapshots, snap' = s, Inspected(s),
         at \in {"inventory", "policies"},
         s.id = 0 => env.id = 0 /\ s.main = FALSE,
         ~raced /\ s.id # 0 => env.id = s.id /\ env.reviewer = s.actor
                               /\ (s.main = TRUE => env.policy = "main"),
         UNCHANGED <<env, lastEnv, account, raced, mishaps>>
  PROVE  EInv'
<1>1. /\ env' \in Environments /\ lastEnv' \in EnvIds /\ env'.id <= lastEnv'
      /\ env'.id = 0 => env' = Absent
      /\ mishaps' \in 0..MaxMishaps /\ options.resume \in EnvIds /\ snap' \in Snapshots
      /\ s.main \in BOOLEAN /\ s.id \in EnvIds /\ target \in EnvIds
      /\ env' = env /\ lastEnv' = lastEnv /\ account' = account /\ raced' = raced
      BY DEF EInv, ETypeOK, Snapshots
<1>2. s.main = TRUE /\ ~raced => Exact(env', snap'.actor) BY <1>1 DEF Exact
<1>3. /\ Plan(s) = "create" => s.id = 0
      /\ Plan(s) = "resume" => s.id # 0 /\ options.resume = s.id
      /\ Plan(s) = "missing_main" => s.id # 0
      /\ Plan(s) = "unchanged" => s.id # 0 /\ s.main = TRUE
      BY <1>1, PlanFacts
<1>4. ASSUME NEW result \in {"planned", "unchanged", "changed", "stopped", "unverified"},
             NEW ids \in SUBSET (EnvIds \ {0}), End(result, ids),
             result \in {"unchanged", "changed"} => s.main = TRUE
      PROVE  EInv'
      BY <1>1, <1>2, <1>4, EndKeeps
<1>5. ASSUME NEW to \in {"fresh", "created", "after"}, NEW request \in {"actor", "put", "post"},
             Proceed(to, request),
             before' \in Snapshots, target' \in EnvIds, PlanInv',
             request = "put" => s.id = 0,
             request = "post" => s.id = target /\ s.id # 0 /\ target' = target
                                 /\ before' = before /\ s.actor = before.actor
      PROVE  EInv'
  <2>1. /\ phase' = to /\ at' = request /\ options' = options /\ report' = report /\ told' = told
        BY <1>5 DEF Proceed, outcome
  <2>2. ETypeOK' BY <1>1, <1>5, <2>1 DEF EInv, ETypeOK
  <2>3. SeenInv' BY <1>1, <1>5, <2>1 DEF SeenInv
  <2>4. SuccessIsExact'
    <3>1. report = "none" BY DEF EInv, PlanInv
    <3> QED BY <2>1, <3>1 DEF SuccessIsExact
  <2> QED BY <1>5, <2>2, <2>3, <2>4 DEF EInv
<1>6. CASE phase = "plan" /\ Planned(s)
  <2>1. CASE GoAhead(s)
    <3>1. /\ Proceed("fresh", "actor") /\ before' = s /\ target' = target
          /\ options.apply /\ Plan(s) \in {"create", "resume"} /\ options' = options
          /\ report' = report
          BY <2>1 DEF GoAhead, Proceed, outcome
    <3>2. Plan(before)' = Plan(s) BY <3>1 DEF Plan
    <3>3. options.apply = TRUE BY <3>1 DEF EInv, ETypeOK
    <3>4. PlanInv' BY <3>1, <3>2, <3>3 DEF EInv, PlanInv, Proceed
    <3>5. before' \in Snapshots /\ target' \in EnvIds BY <1>1, <3>1
    <3> QED BY <1>5, <3>1, <3>4, <3>5
  <2>2. CASE ~GoAhead(s)
    <3>1. \E result \in {"planned", "unchanged", "stopped"}, ids \in SUBSET (EnvIds \ {0}) :
            End(result, ids) /\ (result = "unchanged" => s.main = TRUE)
      <4>1. CASE Plan(s) = "refused" /\ End("stopped", {}) BY <4>1
      <4>2. CASE Plan(s) = "missing_main" /\ End("stopped", {s.id})
            BY <1>1, <1>3, <4>2
      <4>3. CASE Plan(s) = "unchanged" /\ End("unchanged", {s.id}) BY <1>1, <1>3, <4>3
      <4>4. CASE End("planned", {s.id} \ {0}) BY <1>1, <4>4
      <4> QED BY <1>6, <2>2, <4>1, <4>2, <4>3, <4>4 DEF Planned
    <3> QED BY <1>4, <3>1
  <2> QED BY <2>1, <2>2
<1>7. CASE phase = "fresh" /\ Rechecked(s)
  <2>1. CASE StopHelper BY <1>4, <1>7, <2>1 DEF StopHelper
  <2>2. CASE ~StopHelper
    <3>1. s = before /\ before' = before /\ before \in Snapshots
          BY <1>7, <2>2 DEF Rechecked, EInv, ETypeOK
    <3>2. /\ options.apply = TRUE /\ Plan(before) \in {"create", "resume"} /\ report = "none"
          BY <1>7 DEF EInv, PlanInv
    <3>3. CASE Plan(before) = "create"
      <4>1. Proceed("fresh", "put") /\ target' = target
            BY <1>7, <2>2, <3>1, <3>3 DEF Rechecked
      <4>2. Plan(before)' = Plan(before) BY <3>1, <4>1 DEF Plan, Proceed
      <4>3. PlanInv' BY <3>1, <3>2, <3>3, <4>1, <4>2 DEF PlanInv, Proceed, outcome
      <4> QED BY <1>1, <1>3, <1>5, <3>1, <3>3, <4>1, <4>3
    <3>4. CASE Plan(before) # "create"
      <4>1. Proceed("created", "actor") /\ target' = before.id
            BY <1>7, <2>2, <3>1, <3>4 DEF Rechecked
      <4>2. Plan(before)' = Plan(before) BY <3>1, <4>1 DEF Plan, Proceed
      <4>3. PlanInv'
            BY <1>3, <3>1, <3>2, <3>4, <4>1, <4>2 DEF PlanInv, Proceed, outcome
      <4> QED BY <1>1, <1>5, <3>1, <4>1, <4>3
    <3> QED BY <3>3, <3>4
  <2> QED BY <2>1, <2>2
<1>8. CASE phase \in {"created", "after"} /\ StopHelper
  <2>1. End("unverified", {target}) /\ target # 0 BY <1>8 DEF StopHelper, EInv, PlanInv
  <2> QED BY <1>1, <1>4, <2>1
<1>9. CASE phase = "created" /\ ReadEnvBack(s) /\ ~StopHelper
  <2>1. s.actor = before.actor /\ s.id = target /\ before' = before /\ target' = target
        BY <1>9 DEF ReadEnvBack
  <2>2. /\ options.apply = TRUE /\ Plan(before) \in {"create", "resume"} /\ report = "none"
        /\ target # 0 /\ before.id \in {0, target} /\ before \in Snapshots
        BY <1>9 DEF EInv, ETypeOK, PlanInv
  <2>3. PICK to \in {"created", "after"}, request \in {"actor", "post"} :
          Proceed(to, request) /\ (request = "post" => to = "created")
        BY <1>9 DEF ReadEnvBack
  <2>4. Plan(before)' = Plan(before) BY <2>1, <2>3 DEF Plan, Proceed
  <2>5. PlanInv' BY <2>1, <2>2, <2>3, <2>4 DEF PlanInv, Proceed, outcome
  <2> QED BY <1>1, <1>5, <2>1, <2>2, <2>3, <2>5
<1>10. CASE phase = "after" /\ Verified(s) /\ ~StopHelper
  <2>1. End("changed", {target}) /\ s.main /\ s.id = target BY <1>10 DEF Verified
  <2>2. target # 0 BY <1>10 DEF EInv, PlanInv
  <2>3. s.main = TRUE BY <1>1, <2>1
  <2> QED BY <1>1, <1>4, <2>1, <2>2, <2>3
<1> QED BY <1>6, <1>7, <1>8, <1>9, <1>10 DEF Inspected

-----------------------------------------------------------------------------
\* What the actions leave alone of the environments.
LEMMA Kept ==
  ASSUME EInv, UNCHANGED <<env, lastEnv>>
  PROVE  /\ env' \in Environments /\ lastEnv' \in EnvIds /\ env'.id <= lastEnv'
         /\ env'.id = 0 => env' = Absent
  BY DEF EInv, ETypeOK

LEMMA Faulty ==
  ASSUME EInv
  PROVE  /\ Mishap => mishaps' \in 0..MaxMishaps
         /\ UNCHANGED mishaps => mishaps' \in 0..MaxMishaps
  BY EnvironmentAssumption DEF EInv, ETypeOK, Mishap

LEMMA StartKeeps ==
  ASSUME EInv, NEW apply \in BOOLEAN, NEW r \in EnvIds, Start(apply, r) PROVE EInv'
<1>1. /\ at' = "actor" /\ phase' = "plan" /\ options' = [apply |-> apply, resume |-> r]
      /\ target' = 0 /\ report' = "none" /\ raced' = FALSE
      /\ UNCHANGED <<env, lastEnv, account, snap, before, told, mishaps>>
      BY DEF Start, settings
<1>2. options' \in [apply : BOOLEAN, resume : EnvIds] BY <1>1
<1>3. 0 \in EnvIds BY EnvironmentAssumption DEF EnvIds
<1>4. ETypeOK' BY <1>1, <1>2, <1>3 DEF EInv, ETypeOK
<1> QED BY <1>1, <1>4 DEF EInv, PlanInv, SeenInv, SuccessIsExact

LEMMA ReadActorKeeps ==
  ASSUME EInv, ReadActor PROVE EInv'
<1>1. /\ at = "actor" /\ at' = "gate" /\ snap' = [snap EXCEPT !.actor = account]
      /\ UNCHANGED <<phase, options, before, target, env, lastEnv, account, report, told>>
      /\ UNCHANGED <<raced, mishaps>>
      BY DEF ReadActor, settings, outcome
<1>2. snap' \in Snapshots BY <1>1 DEF EInv, ETypeOK, Snapshots
<1>3. ETypeOK' BY <1>1, <1>2 DEF EInv, ETypeOK
<1>4. PlanInv' BY <1>1 DEF EInv, PlanInv, Plan
<1>5. SeenInv' /\ SuccessIsExact' BY <1>1 DEF EInv, PlanInv, SeenInv, SuccessIsExact
<1> QED BY <1>3, <1>4, <1>5 DEF EInv

LEMMA ReadGateKeeps ==
  ASSUME EInv, ReadGate PROVE EInv'
<1>1. at = "gate" /\ GateSeen /\ UNCHANGED <<env, lastEnv, account, raced>>
      BY DEF ReadGate, settings
<1>2. CASE StopHelper /\ UNCHANGED <<snap, mishaps>>
      BY <1>1, <1>2, Kept, Faulty, StopKeeps
<1>3. CASE /\ at' \in {"inventory", "policies"} /\ (UNCHANGED mishaps \/ Mishap)
           /\ snap' = snap \/ snap' = [snap EXCEPT !.id = env.id]
           /\ at' = "policies" => /\ snap' = [snap EXCEPT !.id = env.id] /\ env.id # 0
                                  /\ env.reviewer = snap.actor
           /\ UNCHANGED <<phase, options, before, target, outcome>>
  <2>1. UNCHANGED <<report, told>> BY <1>3 DEF outcome
  <2>2. snap' \in Snapshots /\ snap'.actor = snap.actor
        BY <1>3 DEF EInv, ETypeOK, Snapshots, Environments
  <2>3. at' = "policies" => snap'.id = env.id
        BY <1>3 DEF EInv, ETypeOK, Snapshots
  <2>4. ETypeOK' BY <1>1, <1>3, <2>1, <2>2, Faulty DEF EInv, ETypeOK
  <2>5. PlanInv' BY <1>1, <1>3, <2>1 DEF EInv, PlanInv, Plan
  <2>6. SeenInv' BY <1>1, <1>3, <2>2, <2>3 DEF SeenInv
  <2>7. SuccessIsExact' BY <1>1, <2>1 DEF EInv, PlanInv, SuccessIsExact
  <2> QED BY <2>4, <2>5, <2>6, <2>7 DEF EInv
<1> QED BY <1>1, <1>2, <1>3 DEF GateSeen

LEMMA ReadListsKeeps ==
  ASSUME EInv, ReadInventory \/ ReadPolicies PROVE EInv'
<1>1. /\ at \in {"inventory", "policies"}
      /\ UNCHANGED <<env, lastEnv, account, raced, mishaps>>
      BY DEF ReadInventory, ReadPolicies, settings
<1>2. CASE StopHelper /\ UNCHANGED snap
      BY <1>1, <1>2, Kept, Faulty, StopKeeps
<1>3. CASE ReadInventory /\ ~(StopHelper /\ UNCHANGED snap)
  <2> DEFINE s == [actor |-> snap.actor, id |-> 0, main |-> FALSE]
  <2>1. env.id = 0 /\ snap' = s /\ Inspected(snap')
        BY <1>3 DEF ReadInventory, SnapWith
  <2>2. s \in Snapshots
        BY EnvironmentAssumption DEF EInv, ETypeOK, Snapshots, EnvIds
  <2>3. s.id = 0 /\ s.main = FALSE OBVIOUS
  <2> HIDE DEF s
  <2> QED BY <1>1, <2>1, <2>2, <2>3, InspectedKeeps
<1>4. CASE ReadPolicies /\ ~(StopHelper /\ UNCHANGED snap)
  <2> DEFINE s == [actor |-> snap.actor, id |-> snap.id, main |-> (env.policy = "main")]
  <2>1. at = "policies" /\ snap' = s /\ Inspected(snap')
        BY <1>4, Zenon DEF ReadPolicies, SnapWith
  <2>2. /\ s.actor = snap.actor /\ s.id = snap.id /\ (s.main = TRUE => env.policy = "main")
        OBVIOUS
  <2>3. s \in Snapshots
    <3>1. snap.actor \in Accounts /\ snap.id \in EnvIds BY DEF EInv, ETypeOK, Snapshots
    <3>2. (env.policy = "main") \in BOOLEAN OBVIOUS
    <3> QED BY <3>1, <3>2, Zenon DEF Snapshots
  <2>4. s.id # 0 /\ (~raced => env.id = s.id /\ env.reviewer = s.actor)
        BY <2>1, <2>2 DEF EInv, SeenInv
  <2> HIDE DEF s
  <2> QED BY <1>1, <2>1, <2>2, <2>3, <2>4, InspectedKeeps
<1> QED BY <1>2, <1>3, <1>4

\* GitHub's PUT where nothing was, or over what someone has put there since.
LEMMA PutFacts ==
  ASSUME EInv, PutGate
  PROVE  /\ env' \in Environments /\ lastEnv' \in EnvIds /\ env'.id <= lastEnv' /\ env'.id # 0
         /\ env'.reviewer = before.actor
         /\ env.id = 0 => env'.policy = "none"
<1>1. /\ before.actor \in Accounts /\ env \in Environments /\ lastEnv \in Nat /\ MaxId \in Nat
      /\ lastEnv <= MaxId /\ env.id <= lastEnv
      BY EnvironmentAssumption DEF EInv, ETypeOK, Snapshots, EnvIds
<1>2. CASE env.id = 0
  <2>1. /\ lastEnv < MaxId /\ lastEnv' = lastEnv + 1
        /\ env' = [id |-> lastEnv', reviewer |-> before.actor, policy |-> "none"]
        BY <1>2 DEF PutGate
  <2>2. lastEnv' \in EnvIds /\ lastEnv' # 0 BY <1>1, <2>1 DEF EnvIds
  <2>3. env' \in Environments BY <1>1, <2>1, <2>2 DEF Environments, Policies
  <2> QED BY <1>1, <2>1, <2>2, <2>3 DEF EnvIds
<1>3. CASE env.id # 0
  <2>1. env' = [env EXCEPT !.reviewer = before.actor] /\ lastEnv' = lastEnv
        BY <1>3 DEF PutGate
  <2>2. env' \in Environments /\ env'.id = env.id /\ env'.reviewer = before.actor
        BY <1>1, <2>1 DEF Environments
  <2> QED BY <1>1, <1>3, <2>1, <2>2 DEF EnvIds
<1> QED BY <1>2, <1>3

LEMMA CreateGateKeeps ==
  ASSUME EInv, CreateGate PROVE EInv'
<1>1. /\ at = "put" /\ PutGate /\ target' = env'.id
      /\ phase' = "created" /\ at' = "actor"
      /\ UNCHANGED <<options, report, told, before, snap, account, raced, mishaps>>
      BY DEF CreateGate, Proceed, outcome
<1>2. /\ env' \in Environments /\ lastEnv' \in EnvIds /\ env'.id <= lastEnv' /\ env'.id # 0
      /\ env'.id \in EnvIds
      BY <1>1, PutFacts DEF Environments
<1>3. ETypeOK' BY <1>1, <1>2 DEF EInv, ETypeOK
<1>4. before \in Snapshots /\ options.resume \in EnvIds BY DEF EInv, ETypeOK
<1>5. /\ options.apply = TRUE /\ Plan(before) = "create" /\ before.id = 0 /\ report = "none"
      BY <1>1, <1>4, PlanFacts DEF EInv, PlanInv
<1>6. Plan(before)' = Plan(before) BY <1>1 DEF Plan
<1>7. PlanInv' BY <1>1, <1>2, <1>5, <1>6 DEF PlanInv
<1>8. SeenInv' /\ SuccessIsExact' BY <1>1, <1>5 DEF SeenInv, SuccessIsExact
<1> QED BY <1>3, <1>7, <1>8 DEF EInv

\* GitHub's POST adds the policy that was missing.
LEMMA PostFacts ==
  ASSUME EInv, PostMain
  PROVE  /\ env' \in Environments /\ lastEnv' = lastEnv /\ env'.id = env.id /\ env.id # 0
         /\ env'.reviewer = env.reviewer
         /\ env' # env => env.policy = "none" /\ env' = [env EXCEPT !.policy = "main"]
<1>1. env \in Environments BY DEF EInv, ETypeOK
<1>2. CASE env.policy = "none"
  <2>1. env' = [env EXCEPT !.policy = "main"] BY <1>2 DEF PostMain
  <2> QED BY <1>1, <1>2, <2>1 DEF PostMain, Environments, Policies
<1>3. CASE env.policy # "none"
  <2>1. env' = [env EXCEPT !.policy = env.policy] BY <1>3 DEF PostMain
  <2>2. env' = env BY <1>1, <2>1 DEF Environments
  <2> QED BY <1>1, <2>2 DEF PostMain
<1> QED BY <1>2, <1>3

LEMMA AddMainKeeps ==
  ASSUME EInv, AddMain PROVE EInv'
<1>1. at = "post" /\ UNCHANGED <<snap, account, raced, mishaps>> BY DEF AddMain
<1>2. CASE StopHelper /\ UNCHANGED <<env, lastEnv>>
      BY <1>1, <1>2, Kept, Faulty, StopKeeps
<1>3. CASE PostMain /\ Proceed("after", "actor") /\ UNCHANGED <<before, target>>
  <2>1. /\ phase' = "after" /\ at' = "actor" /\ UNCHANGED <<options, report, told>>
        BY <1>3 DEF Proceed, outcome
  <2>2. env' \in Environments /\ lastEnv' = lastEnv /\ env'.id = env.id /\ env.id # 0
        BY <1>3, PostFacts
  <2>3. ETypeOK' BY <1>1, <1>3, <2>1, <2>2 DEF EInv, ETypeOK
  <2>4. Plan(before)' = Plan(before) BY <1>3, <2>1 DEF Plan
  <2>5. PlanInv' BY <1>1, <1>3, <2>1, <2>4 DEF EInv, PlanInv
  <2>6. SeenInv' /\ SuccessIsExact' BY <1>1, <2>1 DEF EInv, PlanInv, SeenInv, SuccessIsExact
  <2> QED BY <2>3, <2>5, <2>6 DEF EInv
<1> QED BY <1>2, <1>3 DEF AddMain

LEMMA TroubleKeeps ==
  ASSUME EInv, Trouble PROVE EInv'
<1>1. CASE CreateGateUnanswered
  <2>1. /\ PutGate \/ UNCHANGED <<env, lastEnv>>
        /\ StopHelper /\ UNCHANGED <<account, snap>> /\ UNCHANGED raced /\ mishaps' \in 0..MaxMishaps
        BY <1>1, Faulty DEF CreateGateUnanswered
  <2>2. CASE PutGate BY <2>1, <2>2, PutFacts, StopKeeps
  <2>3. CASE UNCHANGED <<env, lastEnv>> BY <2>1, <2>3, Kept, StopKeeps
  <2> QED BY <2>1, <2>2, <2>3
<1>2. CASE AddMainUnanswered
  <2>1. /\ PostMain \/ UNCHANGED <<env, lastEnv>>
        /\ StopHelper /\ UNCHANGED <<account, snap>> /\ UNCHANGED raced /\ mishaps' \in 0..MaxMishaps
        BY <1>2, Faulty DEF AddMainUnanswered
  <2>2. CASE PostMain
    <3>1. /\ env' \in Environments /\ lastEnv' \in EnvIds /\ env'.id <= lastEnv' /\ env'.id # 0
          BY <2>2, PostFacts DEF EInv, ETypeOK
    <3> QED BY <2>1, <3>1, StopKeeps
  <2>3. CASE UNCHANGED <<env, lastEnv>> BY <2>1, <2>3, Kept, StopKeeps
  <2> QED BY <2>1, <2>2, <2>3
<1>3. CASE ReadRefused
      BY <1>3, Kept, Faulty, StopKeeps DEF ReadRefused, settings
<1>4. CASE Killed
  <2>1. /\ End("killed", {}) /\ UNCHANGED <<snap, env, lastEnv, account, raced>>
        /\ mishaps' \in 0..MaxMishaps /\ snap' \in Snapshots
        BY <1>4, Faulty DEF Killed, settings, EInv, ETypeOK
  <2> QED BY <2>1, Kept, EndKeeps
<1>5. CASE Switch
  <2>1. /\ account' \in Accounts /\ mishaps' \in 0..MaxMishaps
        /\ UNCHANGED <<env, lastEnv, at, phase, options, snap, before, target, report, told, raced>>
        BY <1>5, Faulty DEF Switch, script, outcome
  <2> QED BY <2>1 DEF EInv, ETypeOK, PlanInv, Plan, SeenInv, SuccessIsExact, Exact
<1>6. CASE Interfere
  <2>1. /\ raced' = TRUE /\ mishaps' \in 0..MaxMishaps
        /\ UNCHANGED <<account, at, phase, options, snap, before, target, report, told>>
        BY <1>6, Faulty DEF Interfere, script, outcome
  <2>2. /\ env' \in Environments /\ lastEnv' \in EnvIds /\ env'.id <= lastEnv'
        /\ env'.id = 0 => env' = Absent
        BY <1>6, EnvironmentAssumption DEF Interfere, EInv, ETypeOK, Environments, EnvIds
  <2>3. ETypeOK' BY <2>1, <2>2 DEF EInv, ETypeOK
  <2> QED BY <2>1, <2>3 DEF EInv, PlanInv, Plan, SeenInv, SuccessIsExact
<1> QED BY <1>1, <1>2, <1>3, <1>4, <1>5, <1>6 DEF Trouble

\* The invariant holds of every state of the helper, of GitHub and of the session.
THEOREM EnvironmentInvariant == ESpec => []EInv
<1>1. EInv /\ [ENext]_evars => EInv'
  <2> SUFFICES ASSUME EInv, [ENext]_evars PROVE EInv'
      OBVIOUS
  <2>1. CASE UNCHANGED evars
    <3>1. /\ UNCHANGED <<env, lastEnv, account, at, phase, options, snap, before, target>>
          /\ UNCHANGED <<report, told, raced, mishaps>>
          BY <2>1 DEF evars, script, settings, outcome
    <3> QED BY <3>1 DEF EInv, ETypeOK, PlanInv, Plan, SeenInv, SuccessIsExact, Exact
  <2> QED BY <2>1, StartKeeps, ReadActorKeeps, ReadGateKeeps, ReadListsKeeps,
             CreateGateKeeps, AddMainKeeps, TroubleKeeps DEF ENext, Helper
<1> QED BY <1>1, EInvInit, PTL DEF ESpec

\* A gate that a run reports as set up or found exact is so.
THEOREM SuccessExactAlways == ESpec => []SuccessIsExact
<1>1. EInv => SuccessIsExact BY DEF EInv
<1> QED BY <1>1, EnvironmentInvariant, PTL

\* The helper writes where nothing was, or what was missing, and only if asked to.
THEOREM NeverRewritesAlways == ESpec => NeverRewrites
<1> DEFINE Careful ==
      env' # env /\ ~raced' =>
       /\ options.apply
       /\ \/ env.id = 0 /\ env'.reviewer = before.actor /\ env'.policy = "none"
          \/ /\ before.id = 0 \/ options.resume = env.id
             /\ env.reviewer = before.actor /\ env.policy = "none"
             /\ env' = [env EXCEPT !.policy = "main"]
<1>1. EInv /\ [ENext]_evars => Careful
  <2> SUFFICES ASSUME EInv, [ENext]_evars, env' # env, ~raced' PROVE Careful
      OBVIOUS
  <2>1. CASE at = "put" /\ PutGate /\ raced' = raced
    <3>1. env.id = 0 /\ options.apply BY <2>1 DEF EInv, PlanInv, SeenInv
    <3> QED BY <2>1, <3>1, PutFacts
  <2>2. CASE at = "post" /\ PostMain /\ raced' = raced
    <3>1. /\ options.apply /\ Plan(before) \in {"create", "resume"}
          /\ env.id = target /\ env.reviewer = before.actor /\ before.id \in {0, target}
          BY <2>2 DEF EInv, PlanInv, SeenInv
    <3>2. before.id = 0 \/ options.resume = env.id
      <4>1. before \in Snapshots /\ options.resume \in EnvIds BY DEF EInv, ETypeOK
      <4> QED BY <3>1, <4>1, PlanFacts
    <3> QED BY <2>2, <3>1, <3>2, PostFacts
  <2>3. Helper => \/ at = "put" /\ PutGate /\ raced' = raced
                  \/ at = "post" /\ PostMain /\ raced' = raced
        BY DEF Helper, ReadActor, ReadGate, ReadInventory, ReadPolicies, CreateGate, AddMain, settings
  <2>4. Trouble => \/ at = "put" /\ PutGate /\ raced' = raced
                   \/ at = "post" /\ PostMain /\ raced' = raced
        BY DEF Trouble, CreateGateUnanswered, AddMainUnanswered, ReadRefused, Killed, Switch,
           Interfere, settings
  <2>5. ASSUME NEW apply \in BOOLEAN, NEW r \in EnvIds, Start(apply, r) PROVE FALSE
        BY <2>5 DEF Start, settings
  <2>6. ~UNCHANGED evars BY DEF evars, settings
  <2> HIDE DEF Careful
  <2> QED BY <2>1, <2>2, <2>3, <2>4, <2>5, <2>6 DEF ENext
<1> QED BY <1>1, EnvironmentInvariant, PTL DEF ESpec, NeverRewrites
=============================================================================
