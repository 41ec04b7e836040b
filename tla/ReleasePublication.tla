------------------------- MODULE ReleasePublication -------------------------
(***************************************************************************)
(* scripts/release-workflow-template.ts and the workflow it generates,     *)
(* .github/workflows/release-cli.yml: one version is built and attested,   *)
(* approved, published on npm and then as a GitHub prerelease.  The runs   *)
(* of the workflow exclude one another.  A job may stop at any step, a     *)
(* request may take effect though its answer is lost, npm may go on        *)
(* showing the state before a publication, a run may be run again as far   *)
(* as it failed or from the start, and maintainers may change the tag, the *)
(* channels and the drafts by hand.                                        *)
(*                                                                         *)
(* Of the bundle's files three are kept: the package, the record of the    *)
(* build and the signed provenance; npm's own provenance joins them as the *)
(* fourth asset of a release.                                              *)
(***************************************************************************)
EXTENDS Naturals, Sequences

CONSTANTS
  Runs,        \* dispatches of the workflow for the version
  Commits,     \* commits of main that carry the version
  NoRun, NoCommit,
  MaxAttempt,  \* bound: attempts of a run that are told apart
  MaxFaults,   \* bound: stopped jobs and lost answers
  MaxHands     \* bound: changes by hand, re-runs nobody reconciled included

ASSUME PublicationAssumption ==
  /\ NoRun \notin Runs /\ NoCommit \notin Commits
  /\ MaxAttempt \in Nat \ {0, 1} /\ MaxFaults \in Nat /\ MaxHands \in Nat

VARIABLES
  tag,       \* the commit the release tag names
  npm,       \* the registry
  shown,     \* an earlier state of it that readers may still be shown
  releases,  \* GitHub: the releases of the tag, drafts included
  lastId,    \* GitHub: the last id given
  run,       \* where each run stands and what it remembers
  active,    \* the run that holds the concurrency group
  window,    \* the time in which a first publication is trusted
  calls,     \* npm publish calls made, by run
  faults, hands

registry == <<npm, shown>>
github == <<releases, lastId>>
others == <<tag, window, hands>>
vars == <<registry, github, run, active, calls, faults, others>>

\* In the order in which they are uploaded.
Files == <<"package", "record", "provenance", "npm">>
Assets == {Files[k] : k \in DOMAIN Files}
Ids == 1..(MaxHands + 2)

\* The digest of an asset as run r built it: the package depends on the commit
\* alone, the record and the provenance on the run and the attempt as well.
Digest(r, name) ==
  IF name = "package" THEN <<"package", run[r].commit>>
  ELSE IF name = "npm" THEN <<"npm">>
  ELSE <<name, r, run[r].built>>

\* What an upload that broke off, or a maintainer, leaves under a name.
Foreign == {<<"partial">>, <<"hand">>}

\* A release is public by the workflow or by hand; "overtaken" is by hand while a
\* run is filling it.
Drafts == {i \in DOMAIN releases : releases[i].public = "no"}
Public == DOMAIN releases \ Drafts

NewRelease(maker, notes) ==
  [maker |-> maker, notes |-> notes, public |-> "no", assets |-> [n \in {} |-> <<>>]]

With(f, k, v) == [x \in DOMAIN f \cup {k} |-> IF x = k THEN v ELSE f[x]]

\* What the steps of a job leave for its later steps.
Nothing ==
  [late |-> FALSE, exists |-> FALSE, beta |-> "old", target |-> 0, todo |-> <<>>]

\* A version that the workflow published has provenance.
Proved(version) == version.provenance # NoCommit

PubInit ==
  /\ tag = CHOOSE c \in Commits : TRUE
  /\ npm = [bytes |-> NoCommit, provenance |-> NoCommit, beta |-> "old", latest |-> "old"]
  /\ shown = npm
  /\ releases = [i \in {} |-> NewRelease("workflow", "ours")] /\ lastId = 0
  /\ run = [r \in Runs |->
       [step |-> "new", job |-> "build", attempt |-> 0, commit |-> NoCommit, built |-> 0,
        latest |-> "old", memory |-> Nothing]]
  /\ active = NoRun
  /\ window = "open"
  /\ calls = [r \in Runs |-> 0]
  /\ faults = 0 /\ hands = 0

Fault == faults < MaxFaults /\ faults' = faults + 1

-----------------------------------------------------------------------------
(* The steps of a run.  A check that fails ends the job, and with it the   *)
(* run, which gives up the concurrency group.                              *)

At(r, step) == active = r /\ run[r].step = step

Becomes(r, state) == run' = [run EXCEPT ![r] = state]

To(r, step) == Becomes(r, [run[r] EXCEPT !.step = step]) /\ UNCHANGED active

Leave(r, step) ==
  Becomes(r, [run[r] EXCEPT !.step = step, !.memory = Nothing]) /\ active' = NoRun

Stop(r) == Leave(r, "stopped")

\* Every job first checks that the tag still names the commit it was
\* dispatched at.
Gate(r) == tag = run[r].commit

Dispatch(r, c) ==
  /\ active = NoRun /\ run[r].step = "new"
  /\ active' = r
  /\ Becomes(r, [run[r] EXCEPT !.step = "prepare", !.attempt = 1, !.commit = c])
  /\ UNCHANGED <<registry, github, calls, faults, others>>

\* The jobs readiness, matrix, build and attest.
Prepare(r) ==
  /\ At(r, "prepare")
  /\ IF Gate(r)
     THEN /\ Becomes(r, [run[r] EXCEPT !.step = "approval", !.job = "publish",
                                       !.built = run[r].attempt])
          /\ UNCHANGED active
     ELSE Stop(r)
  /\ UNCHANGED <<registry, github, calls, faults, others>>

\* The environment npm-release waits for a reviewer.
Approve(r) ==
  /\ At(r, "approval")
  /\ Becomes(r, [run[r] EXCEPT !.step = "reconcile",
                               !.memory = [run[r].memory EXCEPT !.late = window = "closed"]])
  /\ UNCHANGED <<registry, github, active, calls, faults, others>>

Reject(r) ==
  /\ At(r, "approval") /\ hands < MaxHands /\ hands' = hands + 1
  /\ Stop(r)
  /\ UNCHANGED <<registry, github, calls, faults, tag, window>>

\* Variant: a later attempt publishes when the version is not there.
MayPublishAgain(r) == window = "open"

\* A version that is not on npm may be published by the first attempt, while
\* the first publication is trusted.
MayPublish(r) == window = "open" /\ run[r].attempt = 1

\* Variant: any publication of the version will do.
AnyPublication(r, seen) == seen.bytes # NoCommit

\* What npm serves is the run's own package, and its provenance names the
\* commit the run is at.
SamePublication(r, seen) == seen.bytes = run[r].commit /\ seen.provenance = run[r].commit

\* Variant: a later attempt is refused before it is asked whether the version is
\* there.
ReconciledOnce(r, seen) ==
  /\ MayPublish(r) /\ \A i \in Public : releases[i].notes = "ours"
  /\ seen.bytes # NoCommit => seen.beta = "this" /\ SamePublication(r, seen)

\* registryScript, given what npm answers.
Reconciled(r, seen) ==
  /\ \A i \in Public : releases[i].notes = "ours"
  /\ IF seen.bytes = NoCommit
     THEN Public = {} /\ MayPublish(r)
     ELSE seen.beta = "this" /\ SamePublication(r, seen)

\* A reader is shown the registry as it is or as it was.
Reconcile(r, seen) ==
  /\ At(r, "reconcile") /\ seen \in {npm, shown}
  /\ IF Gate(r) /\ Reconciled(r, seen)
     THEN /\ Becomes(r, [run[r] EXCEPT !.step = "recheck", !.latest = seen.latest,
                 !.memory = [run[r].memory EXCEPT !.exists = seen.bytes # NoCommit,
                                                  !.beta = seen.beta]])
          /\ UNCHANGED active
     ELSE Stop(r)
  /\ UNCHANGED <<registry, github, calls, faults, others>>

Recheck(r, seen) ==
  /\ At(r, "recheck") /\ seen \in {npm, shown}
  /\ IF seen.beta = run[r].memory.beta /\ seen.latest = run[r].latest /\ Reconciled(r, seen)
     THEN To(r, "publish")
     ELSE Stop(r)
  /\ UNCHANGED <<registry, github, calls, faults, others>>

\* The job publish is over: only the channel latest is left to the next one.
Published(r) ==
  /\ Becomes(r, [run[r] EXCEPT !.step = "verify", !.job = "release", !.memory = Nothing])
  /\ UNCHANGED active

SkipPublish(r) ==
  /\ At(r, "publish") /\ run[r].memory.exists
  /\ Published(r)
  /\ UNCHANGED <<registry, github, calls, faults, others>>

Calling(r) ==
  /\ At(r, "publish") /\ ~run[r].memory.exists
  /\ calls' = [calls EXCEPT ![r] = @ + 1]
  /\ UNCHANGED <<shown, github, others>>

NpmTakes(r) ==
  /\ npm.bytes = NoCommit
  /\ npm' = [npm EXCEPT !.bytes = run[r].commit, !.provenance = run[r].commit, !.beta = "this"]

\* npm takes a version once.
Publish(r) ==
  /\ Calling(r)
  /\ IF npm.bytes = NoCommit
     THEN NpmTakes(r) /\ Published(r)
     ELSE Stop(r) /\ UNCHANGED npm
  /\ UNCHANGED faults

PublishLost(r) == Calling(r) /\ (NpmTakes(r) \/ UNCHANGED npm) /\ Fault /\ Stop(r)

\* The job github-release asks npm again, and now the version has to be there.
Verify(r, seen) ==
  /\ At(r, "verify") /\ seen \in {npm, shown}
  /\ IF /\ Gate(r) /\ seen.bytes # NoCommit
        /\ seen.latest = run[r].latest
        /\ Reconciled(r, seen)
     THEN To(r, "find")
     ELSE Stop(r)
  /\ UNCHANGED <<registry, github, calls, faults, others>>

-----------------------------------------------------------------------------
(* githubReleaseScript.                                                    *)

\* Variant: drafts, which the lookup by tag does not return, are not listed.
FoundByTag == Public

\* The public release of the tag, else the drafts that carry it.
Found == IF Public # {} THEN Public ELSE Drafts

Own(r, x) == \A n \in DOMAIN x.assets : x.assets[n] = Digest(r, n)

\* Variant: what is attached already is not compared.
FitsByNotes(r, x) ==
  x.notes = "ours" /\ (x.public # "no" => DOMAIN x.assets = Assets)

\* A release that is there already is used only if nothing in it differs.
Fits(r, x) ==
  /\ x.notes = "ours" /\ Own(r, x)
  /\ x.public # "no" => DOMAIN x.assets = Assets

\* What is missing is uploaded, by what the draft held when it was found.
Fill(r, i, missing) ==
  /\ Becomes(r, [run[r] EXCEPT !.step = "upload",
                   !.memory = [run[r].memory EXCEPT !.target = i, !.todo = missing]])
  /\ UNCHANGED active

Find(r) ==
  /\ At(r, "find")
  /\ \/ Found = {} /\ To(r, "create")
     \/ \E i \in Found :
          /\ Found = {i} /\ Fits(r, releases[i])
          /\ IF i \in Drafts
             THEN Fill(r, i, SelectSeq(Files, LAMBDA n : n \notin DOMAIN releases[i].assets))
             ELSE Leave(r, "done")
     \/ /\ Found # {} /\ ~\E i \in Found : Found = {i} /\ Fits(r, releases[i])
        /\ Stop(r)
  /\ UNCHANGED <<registry, github, calls, faults, others>>

Add(release) ==
  /\ lastId + 1 \in Ids /\ lastId' = lastId + 1
  /\ releases' = With(releases, lastId + 1, release)

Create(r) ==
  /\ At(r, "create")
  /\ Add(NewRelease("workflow", "ours"))
  /\ \/ Fill(r, lastId + 1, Files) /\ UNCHANGED faults
     \/ Fault /\ Stop(r)
  /\ UNCHANGED <<registry, calls, others>>

Attach(i, name, digest) == releases' = [releases EXCEPT ![i].assets = With(@, name, digest)]

\* An upload fails when the release is gone or has the name, not when it is public
\* by now; one that breaks off may leave the name with part of the bytes.
Upload(r) ==
  LET i == run[r].memory.target
      name == Head(run[r].memory.todo)
  IN  /\ At(r, "upload") /\ run[r].memory.todo # <<>>
      /\ IF i \in DOMAIN releases /\ name \notin DOMAIN releases[i].assets
         THEN \/ /\ Attach(i, name, Digest(r, name))
                 /\ Becomes(r, [run[r] EXCEPT !.memory = [run[r].memory EXCEPT !.todo = Tail(@)]])
                 /\ UNCHANGED <<active, faults>>
              \/ \E left \in {Digest(r, name), <<"partial">>} :
                   Attach(i, name, left) /\ Fault /\ Stop(r)
         ELSE Stop(r) /\ UNCHANGED <<releases, faults>>
      /\ UNCHANGED <<registry, lastId, calls, others>>

Complete(r, x) == DOMAIN x.assets = Assets /\ Own(r, x)

ReadBack(r) ==
  /\ At(r, "upload") /\ run[r].memory.todo = <<>>
  /\ IF /\ run[r].memory.target \in DOMAIN releases
        /\ Complete(r, releases[run[r].memory.target])
     THEN To(r, "finish")
     ELSE Stop(r)
  /\ UNCHANGED <<registry, github, calls, faults, others>>

\* The draft is made public.  GitHub refuses if it is gone, or if another release
\* of the tag is public.
Finish(r) ==
  LET i == run[r].memory.target
  IN  /\ At(r, "finish")
      /\ IF i \in DOMAIN releases /\ Public \subseteq {i}
         THEN /\ releases' = [releases EXCEPT ![i].public = "workflow"]
              /\ \/ Leave(r, "done") /\ UNCHANGED faults
                 \/ Fault /\ Stop(r)
         ELSE Stop(r) /\ UNCHANGED <<releases, faults>>
      /\ UNCHANGED <<registry, lastId, calls, others>>

\* A request refused, a service down, a job killed or out of time.
Fail(r) ==
  /\ active = r /\ run[r].step # "approval"
  /\ Fault /\ Stop(r)
  /\ UNCHANGED <<registry, github, calls, others>>

Step(r) ==
  \/ Prepare(r) \/ Approve(r)
  \/ \E seen \in {npm, shown} : Reconcile(r, seen) \/ Recheck(r, seen) \/ Verify(r, seen)
  \/ SkipPublish(r) \/ Publish(r) \/ PublishLost(r)
  \/ Find(r) \/ Create(r) \/ Upload(r)
  \/ ReadBack(r) \/ Finish(r)

-----------------------------------------------------------------------------
(* The people and services around the workflow.                            *)

FirstStep == [build |-> "prepare", publish |-> "approval", release |-> "verify"]

\* Attempts beyond the bound are told from the first, not from one another.
Next(attempt) == IF attempt < MaxAttempt THEN attempt + 1 ELSE attempt

Again(r, job) ==
  /\ active = NoRun /\ active' = r
  /\ run[r].step = "stopped"
  /\ Becomes(r, [run[r] EXCEPT !.step = FirstStep[job], !.job = job, !.attempt = Next(@)])
  /\ UNCHANGED <<registry, github, calls, faults, tag, window>>

\* The jobs that failed are run again, with what the others left, once the
\* registry answers as it is.
Resume(r) == shown = npm /\ Again(r, run[r].job) /\ UNCHANGED hands

ByHand == hands < MaxHands /\ hands' = hands + 1

\* They are run again before that, or the whole run is.
Retry(r) ==
  /\ ByHand /\ run[r].attempt < MaxAttempt
  /\ \E job \in {run[r].job, "build"} : Again(r, job)

ShowLatest ==
  /\ shown # npm /\ shown' = npm
  /\ UNCHANGED <<npm, github, run, active, calls, faults, others>>

\* first_publish_succeeded is false and the 48 hours are over; nothing lasts as
\* long as the wait for a reviewer.
CloseWindow ==
  /\ \E r \in Runs : At(r, "approval")
  /\ window = "open" /\ window' = "closed"
  /\ UNCHANGED <<registry, github, run, active, calls, faults, tag, hands>>

\* At any time: the tag is moved, a channel is, or the version is published
\* without the workflow.
HandOnRegistry ==
  /\ ByHand
  /\ \/ tag' \in Commits \ {tag} /\ UNCHANGED npm
     \/ /\ npm' \in {[npm EXCEPT !.beta = "other"], [npm EXCEPT !.latest = "other"]} \ {npm}
        /\ UNCHANGED tag
     \/ /\ npm.bytes = NoCommit
        /\ \E c \in Commits, beta \in {"this", npm.beta} :
             npm' = [npm EXCEPT !.bytes = c, !.beta = beta]
        /\ UNCHANGED tag
  /\ UNCHANGED <<shown, github, run, active, calls, faults, window>>

\* A run has found or made the release and has not ended since.
Filling(i) == active # NoRun /\ run[active].memory.target = i

\* At any time: a draft is made, deleted or published; and until a job has read its
\* own draft back, one of its assets is replaced.
HandOnRelease ==
  /\ ByHand
  /\ \/ \E notes \in {"ours", "other"} : Add(NewRelease("hand", notes))
     \/ /\ \E i \in Drafts :
             \/ releases' = [j \in DOMAIN releases \ {i} |-> releases[j]]
             \/ /\ ~\E r \in Runs : At(r, "finish")
                /\ \E name \in Assets : Attach(i, name, <<"hand">>)
             \/ /\ Public = {}
                /\ releases' = [releases EXCEPT
                                ![i].public = IF Filling(i) THEN "overtaken" ELSE "hand"]
        /\ UNCHANGED lastId
  /\ UNCHANGED <<registry, run, active, calls, faults, tag, window>>

PubNext ==
  \/ \E r \in Runs : Step(r) \/ Fail(r) \/ Reject(r) \/ Resume(r) \/ Retry(r)
  \/ \E r \in Runs, c \in Commits : Dispatch(r, c)
  \/ ShowLatest \/ CloseWindow \/ HandOnRegistry \/ HandOnRelease

\* A step the workflow can take is taken, the reviewer answers, the registry
\* shows in the end what it holds, and a run that stopped is resumed.
PubSpec ==
  /\ PubInit /\ [][PubNext]_vars
  /\ \A r \in Runs : WF_vars(Step(r)) /\ SF_vars(Resume(r))
  /\ WF_vars(ShowLatest)

-----------------------------------------------------------------------------
\* What the workflow has published on GitHub is whole, of one build, and its
\* package is the one npm serves with provenance: whatever attempts it took,
\* whoever else published (registryScript, githubReleaseScript).
ReleaseIsWhole ==
  \A i \in Public : releases[i].public = "workflow" =>
    /\ Proved(npm) /\ releases[i].assets["package"] = <<"package", npm.bytes>>
    /\ \E r \in Runs, n \in 1..MaxAttempt :
         /\ run[r].commit = npm.bytes
         /\ releases[i].assets["record"] = <<"record", r, n>>
         /\ releases[i].assets["provenance"] = <<"provenance", r, n>>
         /\ releases[i].assets["npm"] = <<"npm">>

\* No two releases of the tag are the workflow's: an attempt finds the draft whose
\* creation an earlier one did not hear of (getReleaseByTag, then listReleases).
OneRelease ==
  \A i, j \in DOMAIN releases :
    releases[i].maker = "workflow" /\ releases[j].maker = "workflow" => i = j

\* The workflow deletes and replaces nothing, changes nothing that was public when the
\* run looked for it, adds no file to a release that holds another build's, and
\* publishes none in which it does not know every file as its own: what an earlier
\* run, attempt or maintainer left is completed or refused (Existing release asset
\* digest differs).  Only a draft that a maintainer publishes while the run is filling
\* it is changed though it is public by then: see PublicStays.
NothingOverwritten ==
  [][active # NoRun /\ hands' = hands =>
       \A i \in DOMAIN releases :
         LET held == releases[i].assets  then == releases'[i] IN
         /\ i \in DOMAIN releases'
         /\ \A n \in DOMAIN held : n \in DOMAIN then.assets /\ then.assets[n] = held[n]
         /\ i \in Public /\ then # releases[i] =>
              releases[i].public = "overtaken" /\ Filling(i)
         /\ then.assets # held =>
              \A n \in DOMAIN held : held[n] \in Foreign \cup {Digest(active, n)}
         /\ then.public # releases[i].public =>
              DOMAIN held = Assets /\ \A n \in Assets : held[n] = Digest(active, n)]_vars

\* No asset is added to a public release: githubReleaseScript refuses one that lacks
\* some with "Published release is incomplete; do not change assets".
PublicStays ==
  [][active # NoRun /\ hands' = hands =>
       \A i \in Public :
         i \in DOMAIN releases' /\ releases'[i].assets = releases[i].assets]_vars

\* A run asks npm to publish once at most, however often it is run again and
\* whatever the registry shows it; and not after an approval that came when the
\* first publication was no longer trusted (never blindly retry).
OneTimelyCall ==
  [][\A r \in Runs : calls'[r] # calls[r] => calls[r] = 0 /\ ~run[r].memory.late]_vars

\* What the workflow has put on npm gets its GitHub release, if nobody but the
\* operator who resumes it interferes and no upload left half a file.
RecoveryCompletes ==
  Proved(npm) ~>
    \/ \E i \in Public : releases[i].public = "workflow"
    \/ hands > 0
    \/ \E i \in Drafts : <<"partial">> \in {releases[i].assets[n] : n \in DOMAIN releases[i].assets}
=============================================================================
