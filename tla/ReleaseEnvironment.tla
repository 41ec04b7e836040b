------------------------- MODULE ReleaseEnvironment -------------------------
(***************************************************************************)
(* scripts/release-environment.ts: the helper that gives the repository    *)
(* the environment npm-release, a human gate first and then the branch     *)
(* policy main.  It reads, plans, reads again, writes and reads back; a    *)
(* request may be refused, or lost with or without its effect, the process *)
(* may die, the account of the session may be switched, and another        *)
(* administrator may change the settings at any time.  A run that stopped  *)
(* is followed by others, with or without the id of a partial creation.    *)
(*                                                                         *)
(* Of the gate only what the helper tells apart is kept: whether it is the *)
(* reviewed one, and then whose.                                           *)
(***************************************************************************)
EXTENDS Naturals

CONSTANTS
  Accounts,   \* people with administrator access
  Nobody,     \* reviewer of a gate that is not the reviewed one
  MaxId,      \* bound: environments ever created
  MaxMishaps   \* bound: failures, switches and changes by others

ASSUME EnvironmentAssumption ==
  /\ Nobody \notin Accounts
  /\ MaxMishaps \in Nat /\ MaxId \in Nat /\ MaxId > MaxMishaps

VARIABLES
  env,      \* GitHub: npm-release, id 0 when absent
  lastEnv,   \* GitHub: the last id given
  account,  \* the account of the gh session
  at,       \* the request the run makes next
  phase,    \* which of its inspections it is in
  options,  \* --apply and --resume-environment-id (0: not given)
  snap,     \* what the current inspection has seen
  before,   \* the snapshot the run planned from
  target,   \* the environment it set up, 0 before
  report,   \* what the last run said
  told,     \* ids the operator has been told
  raced,    \* someone else changed the settings since the run started
  mishaps

script == <<at, phase, options, snap, before, target>>
settings == <<env, lastEnv, account>>
outcome == <<report, told>>
evars == <<script, settings, outcome, raced, mishaps>>

EnvIds == 0..MaxId
Snapshots == [actor : Accounts, id : EnvIds, main : BOOLEAN]
Policies == {"none", "main", "other"}
Environments == [id : EnvIds, reviewer : Accounts \cup {Nobody}, policy : Policies]
Absent == [id |-> 0, reviewer |-> Nobody, policy |-> "none"]

\* The policies are exactly main, the gate is that of person a.
Exact(e, a) == e.id # 0 /\ e.reviewer = a /\ e.policy = "main"

EInit ==
  /\ lastEnv = 0 /\ env = Absent
  /\ account \in Accounts
  /\ at = "idle" /\ phase = "plan"
  /\ options = [apply |-> FALSE, resume |-> 0]
  /\ snap = [actor |-> account, id |-> 0, main |-> FALSE] /\ before = snap
  /\ target = 0
  /\ report = "none" /\ told = {}
  /\ raced = FALSE /\ mishaps = 0

Mishap == mishaps < MaxMishaps /\ mishaps' = mishaps + 1

-----------------------------------------------------------------------------
Start(apply, resume) ==
  /\ at = "idle" /\ at' = "actor" /\ phase' = "plan"
  /\ options' = [apply |-> apply, resume |-> resume]
  /\ target' = 0
  /\ report' = "none" /\ raced' = FALSE
  /\ UNCHANGED <<settings, snap, before, told, mishaps>>

End(result, ids) ==
  /\ at' = "idle"
  /\ report' = result /\ told' = told \cup ids
  /\ UNCHANGED <<phase, options, before, target>>

\* fail before anything was set up, and within the try: the id is reported.
StopHelper == IF phase \in {"plan", "fresh"} THEN End("stopped", {}) ELSE End("unverified", {target})

Proceed(to, request) ==
  /\ phase' = to /\ at' = request
  /\ UNCHANGED <<options, outcome>>

\* Variant: an exact gate is taken for the whole environment.
PlanForgetful(s) ==
  IF options.resume # 0 /\ s.id # options.resume THEN "refused"
  ELSE IF s.id = 0 THEN "create"
  ELSE IF options.resume = 0 THEN "unchanged"
  ELSE "resume"

\* releaseEnvironmentPlan
Plan(s) ==
  IF options.resume # 0 /\ s.id # options.resume THEN "refused"
  ELSE IF s.id = 0 THEN "create"
  ELSE IF s.main THEN "unchanged"
  ELSE IF options.resume = s.id THEN "resume"
  ELSE "missing_main"

\* A plan that calls for a write is looked at again before it is carried out.
GoAhead(s) ==
  /\ Plan(s) \in {"create", "resume"} /\ options.apply
  /\ Proceed("fresh", "actor") /\ before' = s /\ UNCHANGED target

\* Variant: the message about the missing policy does not name the environment.
PlannedSilently(s) ==
  \/ Plan(s) \in {"refused", "missing_main"} /\ End("stopped", {})
  \/ Plan(s) = "unchanged" /\ End("unchanged", {})
  \/ Plan(s) \in {"create", "resume"} /\ ~options.apply /\ End("planned", {})
  \/ GoAhead(s)

Planned(s) ==
  \/ Plan(s) = "refused" /\ End("stopped", {})
  \/ Plan(s) = "missing_main" /\ End("stopped", {s.id})
  \/ Plan(s) = "unchanged" /\ End("unchanged", {s.id})
  \/ Plan(s) \in {"create", "resume"} /\ ~options.apply /\ End("planned", {s.id} \ {0})
  \/ GoAhead(s)

\* The recheck right before the first write.
Rechecked(s) ==
  IF s # before THEN StopHelper
  ELSE /\ UNCHANGED before
       /\ IF Plan(before) = "create"
          THEN Proceed("fresh", "put") /\ UNCHANGED target
          ELSE Proceed("created", "actor") /\ target' = before.id

ReadEnvBack(s) ==
  IF s.actor # before.actor \/ s.id # target THEN StopHelper
  ELSE /\ IF s.main THEN Proceed("after", "actor") ELSE Proceed("created", "post")
       /\ UNCHANGED <<before, target>>

Verified(s) ==
  IF s.actor # before.actor \/ s.id # target \/ ~s.main THEN StopHelper
  ELSE End("changed", {target})

\* What setupReleaseEnvironment does with a complete inspection.
Inspected(s) ==
  \/ phase = "plan" /\ Planned(s)
  \/ phase = "fresh" /\ Rechecked(s)
  \/ phase = "created" /\ ReadEnvBack(s)
  \/ phase = "after" /\ Verified(s)

-----------------------------------------------------------------------------
(* inspect: who, which environment, and its policies or its absence *)

ReadActor ==
  /\ at = "actor" /\ at' = "gate"
  /\ snap' = [snap EXCEPT !.actor = account]
  /\ UNCHANGED <<phase, options, before, target, settings, outcome, raced, mishaps>>

\* An environment may be answered with not-found though it exists, to a token
\* that may not read it.
GateSeen ==
  \/ /\ at' = "inventory"
     /\ IF env.id = 0 THEN UNCHANGED mishaps ELSE Mishap
     /\ UNCHANGED <<phase, options, before, target, outcome, snap>>
  \/ /\ env.id # 0 /\ UNCHANGED mishaps
     /\ IF env.reviewer = snap.actor
        THEN /\ at' = "policies" /\ snap' = [snap EXCEPT !.id = env.id]
             /\ UNCHANGED <<phase, options, before, target, outcome>>
        ELSE StopHelper /\ UNCHANGED snap

ReadGate ==
  /\ at = "gate" /\ GateSeen
  /\ UNCHANGED <<settings, raced>>

SnapWith(id, main) == snap' = [actor |-> snap.actor, id |-> id, main |-> main]

\* Variant: not-found is taken for absence.
ReadInventoryTrustingly ==
  /\ at = "inventory"
  /\ SnapWith(0, FALSE) /\ Inspected(snap')
  /\ UNCHANGED <<settings, raced, mishaps>>

\* requireAbsentInventory: absence counts only if the complete list agrees.
ReadInventory ==
  /\ at = "inventory"
  /\ IF env.id # 0 THEN StopHelper /\ UNCHANGED snap
     ELSE SnapWith(0, FALSE) /\ Inspected(snap')
  /\ UNCHANGED <<settings, raced, mishaps>>

\* mainPolicy: any other policy stops the run.
ReadPolicies ==
  /\ at = "policies"
  /\ IF env.id = 0 \/ env.policy = "other" THEN StopHelper /\ UNCHANGED snap
     ELSE SnapWith(snap.id, env.policy = "main") /\ Inspected(snap')
  /\ UNCHANGED <<settings, raced, mishaps>>

-----------------------------------------------------------------------------
(* The two writes *)

\* GitHub's PUT creates the environment, or rewrites its gate.
PutGate ==
  IF env.id = 0
  THEN /\ lastEnv < MaxId /\ lastEnv' = lastEnv + 1
       /\ env' = [id |-> lastEnv', reviewer |-> before.actor, policy |-> "none"]
  ELSE env' = [env EXCEPT !.reviewer = before.actor] /\ UNCHANGED lastEnv

CreateGate ==
  /\ at = "put"
  /\ PutGate
  /\ target' = env'.id /\ Proceed("created", "actor")
  /\ UNCHANGED <<before, snap, account, raced, mishaps>>

\* The answer is lost.  Nothing names the environment it may have created.
CreateGateUnanswered ==
  /\ at = "put" /\ Mishap
  /\ PutGate \/ UNCHANGED <<env, lastEnv>>
  /\ StopHelper
  /\ UNCHANGED <<snap, account, raced>>

PostMain ==
  /\ env.id # 0
  /\ env' = [env EXCEPT !.policy = IF @ = "none" THEN "main" ELSE @]
  /\ UNCHANGED lastEnv

AddMain ==
  /\ at = "post"
  /\ IF env.id = 0 THEN StopHelper /\ UNCHANGED <<env, lastEnv>>
     ELSE PostMain /\ Proceed("after", "actor") /\ UNCHANGED <<before, target>>
  /\ UNCHANGED <<snap, account, raced, mishaps>>

AddMainUnanswered ==
  /\ at = "post" /\ Mishap
  /\ PostMain \/ UNCHANGED <<env, lastEnv>>
  /\ StopHelper
  /\ UNCHANGED <<snap, account, raced>>

-----------------------------------------------------------------------------
(* Failures and other people *)

\* A read is refused, times out or is malformed.
ReadRefused ==
  /\ at \in {"actor", "gate", "inventory", "policies"} /\ Mishap
  /\ StopHelper
  /\ UNCHANGED <<snap, settings, raced>>

Killed ==
  /\ at # "idle" /\ Mishap
  /\ End("killed", {})
  /\ UNCHANGED <<snap, settings, raced>>

Switch ==
  /\ Mishap /\ account' \in Accounts \ {account}
  /\ UNCHANGED <<env, lastEnv, script, outcome, raced>>

\* Another administrator creates, changes or deletes the environment.
Interfere ==
  /\ Mishap
  /\ env' \in Environments \ {env}
  /\ env'.id = 0 => env' = Absent
  /\ env'.id \in {0, env.id, lastEnv + 1}
  /\ env.id = 0 => env'.id = lastEnv + 1
  /\ lastEnv' = IF env'.id > lastEnv THEN env'.id ELSE lastEnv
  /\ raced' = TRUE
  /\ UNCHANGED <<account, script, outcome>>

-----------------------------------------------------------------------------
Helper ==
  \/ ReadActor \/ ReadGate \/ ReadInventory \/ ReadPolicies
  \/ CreateGate \/ AddMain

Trouble ==
  \/ CreateGateUnanswered \/ AddMainUnanswered \/ ReadRefused
  \/ Killed \/ Switch \/ Interfere

ENext == Helper \/ Trouble \/ \E apply \in BOOLEAN, r \in EnvIds : Start(apply, r)

\* docs/release-environment.md: the operator applies, and resumes a partial
\* creation whose id was reported.
FollowTheDocs == Start(TRUE, IF env.id \in told /\ env.policy = "none" THEN env.id ELSE 0)

\* Every request has a deadline, so a run goes on; and the operator does not
\* give up.
ESpec == EInit /\ [][ENext]_evars /\ WF_evars(Helper) /\ SF_evars(FollowTheDocs)

-----------------------------------------------------------------------------
(* Properties *)

ETypeOK ==
  /\ env \in Environments /\ lastEnv \in EnvIds /\ account \in Accounts
  /\ env.id <= lastEnv /\ (env.id = 0 => env = Absent)
  /\ at \in {"idle", "actor", "gate", "inventory", "policies", "put", "post"}
  /\ phase \in {"plan", "fresh", "created", "after"}
  /\ options \in [apply : BOOLEAN, resume : EnvIds]
  /\ snap \in Snapshots /\ before \in Snapshots /\ target \in EnvIds
  /\ report \in {"none", "planned", "unchanged", "changed", "stopped", "unverified", "killed"}
  /\ told \subseteq EnvIds \ {0}
  /\ raced \in BOOLEAN /\ mishaps \in 0..MaxMishaps

\* Existing settings are never updated, weakened or deleted: whatever the
\* helper changes while nobody else interferes is an absent environment, which
\* it creates with the gate alone, or the missing policy under the exact gate
\* of the person that made the plan, in an environment that this run created or
\* the operator named - and nothing at all without --apply.
NeverRewrites ==
  [][env' # env /\ ~raced' =>
       /\ options.apply
       /\ \/ env.id = 0 /\ env'.reviewer = before.actor /\ env'.policy = "none"
          \/ /\ before.id = 0 \/ options.resume = env.id
             /\ env.reviewer = before.actor /\ env.policy = "none"
             /\ env' = [env EXCEPT !.policy = "main"]]_evars

\* A run that says it set the gate up, or found it so, is right, as long as
\* nobody has interfered since it started.
SuccessIsExact ==
  report \in {"changed", "unchanged"} /\ ~raced => Exact(env, snap.actor)

\* However runs are refused, lost or killed, an operator who follows the
\* documentation ends with a complete gate, or with settings of someone else,
\* which the helper may not touch.
GateCompleted ==
  <>[](Exact(env, account) \/ (env.id # 0 /\ (env.reviewer # account \/ env.policy = "other")))
=============================================================================
