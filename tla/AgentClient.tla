----------------------------- MODULE AgentClient -----------------------------
(***************************************************************************)
(* One command at a time against the agent API: invoke of agent-client.ts  *)
(* over the transport of canonical-crm-client.ts.  Reads and status        *)
(* lookups may be sent again, after a transport failure and after a token  *)
(* denial; previews and executions are posted once.  The server, seen as   *)
(* the client sees it, keeps a journal of executions by idempotency key; a *)
(* request the client has given up on may still arrive.                    *)
(*                                                                         *)
(* The user wants one change made once.  Following README.md:541-552, a    *)
(* user left in doubt only looks at the original execution, or repeats it  *)
(* with its own key; a new preview and key follow a definite failure.      *)
(***************************************************************************)
EXTENDS Naturals

CONSTANTS
  MaxKeys,  \* bound: idempotency keys the user draws, in order
  MaxLate   \* bound: posts of one key outstanding after the client gave up

ASSUME AgentAssumption == MaxKeys \in Nat \ {0} /\ MaxLate \in Nat

VARIABLES
  kind,     \* what the running command does
  key,      \* the execution it is about
  at,       \* its step
  good,     \* the access token it uses is one the server accepts
  renewed,  \* it has refreshed the credentials it started with
  tries,    \* requests of the current operation (requestRead)
  sent,     \* requests of the command so far, 2 for any more
  wire,     \* the current request: out, answered with a reply, or nothing
  journal,  \* server: what it has recorded under each key
  applied,  \* server: executions that changed the business record
  late,     \* posts under each key that may arrive after the client gave up
  verdict   \* what the user knows of each execution

client == <<kind, key, at, good, renewed, tries, sent>>
server == <<journal, applied>>
avars == <<client, wire, server, late, verdict>>

Keys == 1..MaxKeys
Kinds == {"read", "status", "preview", "execute"}
Resent == {"read", "status"}   \* GETs: requestRead, and retryUnauthorized
Verdicts == {"none", "done", "failed", "doubtful"}
Recorded == {"succeeded", "failed", "ambiguous"}

\* What a response amounts to for the client: a valid or an invalid success,
\* 401, an error below 500, the documented in-progress error, 500 and above.
ExecutionReply == {"valid", "invalid", "denied", "refused", "in_progress", "broken"}
StatusReply == {"state_pending", "state_succeeded", "state_failed", "state_ambiguous"}
Replies == ExecutionReply \cup StatusReply

AgentTypeOK ==
  /\ kind \in Kinds \cup {"none"} /\ key \in Keys
  /\ at \in {"idle", "credentials", "refresh", "save", "send", "await"}
  /\ good \in BOOLEAN /\ renewed \in BOOLEAN
  /\ tries \in 0..2 /\ sent \in 0..2
  /\ wire \in {"nothing", "out"} \cup Replies
  /\ journal \in [Keys -> Recorded \cup {"none", "claimed"}]
  /\ applied \subseteq Keys
  /\ late \in [Keys -> 0..MaxLate]
  /\ verdict \in [Keys -> Verdicts]

AInit ==
  /\ kind = "none" /\ key = 1 /\ at = "idle"
  /\ good = FALSE /\ renewed = FALSE /\ tries = 0 /\ sent = 0
  /\ wire = "nothing"
  /\ journal = [k \in Keys |-> "none"] /\ applied = {}
  /\ late = [k \in Keys |-> 0]
  /\ verdict = [k \in Keys |-> "none"]

Step(from, to) == at = from /\ at' = to

\* The command ends, and its user takes what v says of the execution.
End(v) ==
  /\ at' = "idle" /\ kind' = "none"
  /\ good' = FALSE /\ renewed' = FALSE /\ tries' = 0 /\ sent' = 0
  /\ wire' = "nothing" /\ UNCHANGED key
  /\ verdict' = [verdict EXCEPT ![key] = v]

\* Variant: a definite failure of a repeated execution settles the first one.
FailedAnyway == IF kind = "execute" THEN "failed" ELSE verdict[key]

\* A definite failure of a repeated execution says nothing of the first one.
Failed == IF kind = "execute" /\ verdict[key] # "doubtful" THEN "failed" ELSE verdict[key]

-----------------------------------------------------------------------------
(* The user *)

MayExecute(k) ==
  /\ verdict[k] \in {"none", "doubtful"}
  /\ k > 1 => verdict[k - 1] = "failed"

Run(t, k) ==
  /\ Step("idle", "credentials")
  /\ t = "execute" => MayExecute(k)
  /\ t = "status" => verdict[k] = "doubtful"
  /\ t \notin {"execute", "status"} => k = 1
  /\ kind' = t /\ key' = k
  /\ good' \in BOOLEAN
  /\ UNCHANGED <<renewed, tries, sent, wire, server, late, verdict>>

-----------------------------------------------------------------------------
(* currentCredentials and invoke *)

\* The token is used as it is, or has expired by the local clock.
CheckExpiry ==
  /\ at = "credentials"
  /\ at' \in {"send", "refresh"}
  /\ UNCHANGED <<kind, key, good, renewed, tries, sent, wire, server, late, verdict>>

\* The rotated credentials are saved before any request is made with them.
Refresh ==
  /\ Step("refresh", "save")
  /\ renewed' = TRUE /\ good' \in BOOLEAN
  /\ UNCHANGED <<kind, key, tries, sent, wire, server, late, verdict>>

Save ==
  /\ Step("save", "send")
  /\ UNCHANGED <<kind, key, good, renewed, tries, sent, wire, server, late, verdict>>

\* Refused, not rotated, or not saved: the operation is not dispatched.
RefreshFails ==
  /\ at \in {"refresh", "save"}
  /\ End(Failed)
  /\ UNCHANGED <<server, late>>

Send ==
  /\ Step("send", "await")
  /\ wire' = "out"
  /\ tries' = tries + 1 /\ sent' = IF sent = 0 THEN 1 ELSE 2
  /\ UNCHANGED <<kind, key, good, renewed, server, late, verdict>>

\* requestRead sends a GET that failed in transport once more, unless its
\* deadline has passed.
Resends(again) == again /\ kind \in Resent /\ tries = 1

\* The request or its response is lost, or the deadline passes.  A post that
\* was not answered may still arrive.
Break ==
  /\ at = "await"
  /\ \E again \in BOOLEAN :
       IF Resends(again)
       THEN at' = "send" /\ wire' = "nothing"
            /\ UNCHANGED <<kind, key, good, renewed, tries, sent, verdict>>
       ELSE End(IF kind = "execute" THEN "doubtful" ELSE verdict[key])
  /\ \/ /\ kind = "execute" /\ wire = "out" /\ late[key] < MaxLate
        /\ late' = [late EXCEPT ![key] = @ + 1]
     \/ UNCHANGED late
  /\ UNCHANGED server

\* A response whose body is oversized, cut short or no JSON.
Unreadable ==
  /\ at = "await" /\ wire \notin {"nothing", "out"}
  /\ End(IF kind = "execute" THEN "doubtful" ELSE verdict[key])
  /\ UNCHANGED <<server, late>>

\* Variant: only a broken connection is ambiguous, a server error is not.
ConcludedPlainly(reply) ==
  CASE reply = "valid" -> "done"
    [] reply \in {"invalid", "in_progress"} -> "doubtful"
    [] OTHER -> Failed

\* What an execution's response settles (write, and agentFailure's guidance).
Concluded(reply) ==
  CASE reply = "valid" -> "done"
    [] reply \in {"invalid", "in_progress", "broken"} -> "doubtful"
    [] OTHER -> Failed

\* What a status lookup settles (statusData): recorded outcomes only.
LookedUp(reply) ==
  CASE reply = "state_succeeded" -> "done"
    [] reply = "state_failed" -> "failed"
    [] OTHER -> "doubtful"

\* Variant: a denied execution is sent again after a refresh, like a read.
RenewsAny == ~renewed

\* Variant: every denial of a read is met with another refresh.
RenewsForever == kind \in Resent

\* retryUnauthorized: one refresh, if none was made before the denial.
Renews == kind \in Resent /\ ~renewed

Receive ==
  /\ at = "await" /\ wire \in Replies
  /\ IF wire = "denied" /\ Renews
     THEN /\ at' = "refresh" /\ tries' = 0 /\ wire' = "nothing"
          /\ UNCHANGED <<kind, key, good, renewed, sent, verdict>>
     ELSE End(CASE kind = "execute" -> Concluded(wire)
                [] kind = "status" -> LookedUp(wire)
                [] OTHER -> verdict[key])
  /\ UNCHANGED <<server, late>>

-----------------------------------------------------------------------------
(* The server (external) *)

\* The execution's key is claimed once; then it is applied or not, and its
\* outcome recorded, at some time or never.
Claim(k) ==
  /\ journal[k] = "none"
  /\ journal' = [journal EXCEPT ![k] = "claimed"]
  /\ UNCHANGED applied

ServeExecution ==
  /\ wire = "out" /\ kind = "execute" /\ good
  /\ Claim(key)
  /\ UNCHANGED <<client, wire, late, verdict>>

ArriveLate(k) ==
  /\ late[k] > 0
  /\ late' = [late EXCEPT ![k] = @ - 1]
  /\ Claim(k) \/ UNCHANGED server
  /\ UNCHANGED <<client, wire, verdict>>

Apply(k) ==
  /\ journal[k] = "claimed"
  /\ applied' = applied \cup {k}
  /\ UNCHANGED <<client, wire, journal, late, verdict>>

Record(k) ==
  /\ journal[k] = "claimed"
  /\ \E s \in {IF k \in applied THEN "succeeded" ELSE "failed", "ambiguous"} :
       journal' = [journal EXCEPT ![k] = s]
  /\ UNCHANGED <<client, wire, applied, late, verdict>>

\* What an execution is answered: by the journal; or, before it is claimed,
\* with a refusal; or with a server error or a success the client rejects.
ExecutionReplies(k) ==
  {"broken"} \cup
  IF ~good THEN {"denied"}
  ELSE CASE journal[k] \in {"none", "failed"} -> {"refused"}
         [] journal[k] = "claimed" -> {"in_progress"}
         [] journal[k] = "succeeded" -> {"valid", "invalid"}
         [] OTHER -> {}

\* What a status lookup finds recorded.
StateReply(k) ==
  CASE journal[k] = "claimed" -> "state_pending"
    [] journal[k] = "succeeded" -> "state_succeeded"
    [] journal[k] = "failed" -> "state_failed"
    [] journal[k] = "ambiguous" -> "state_ambiguous"
    [] OTHER -> "refused"

OtherReplies ==
  {"broken"} \cup
  IF ~good THEN {"denied"}
  ELSE {IF kind = "status" THEN StateReply(key) ELSE "valid", "refused", "invalid"}

Answer ==
  /\ wire = "out"
  /\ wire' \in IF kind = "execute" THEN ExecutionReplies(key) ELSE OtherReplies
  /\ UNCHANGED <<client, server, late, verdict>>

-----------------------------------------------------------------------------
Advance ==
  \/ CheckExpiry \/ Refresh \/ Save \/ RefreshFails
  \/ Send \/ Break \/ Unreadable \/ Receive

Serve ==
  \/ ServeExecution \/ Answer
  \/ \E k \in Keys : ArriveLate(k) \/ Apply(k) \/ Record(k)

ANext == Advance \/ Serve \/ \E t \in Kinds, k \in Keys : Run(t, k)

\* Every request has a deadline, so a running command goes on.
ASpec == AInit /\ [][ANext]_avars /\ WF_avars(Advance)

-----------------------------------------------------------------------------
(* Properties *)

\* What the user was told of an execution is so and stays so: done only if the
\* change was made, failed only if it never is, not even by a late arrival.
VerdictsHold ==
  \A k \in Keys : /\ verdict[k] = "done" => k \in applied
                  /\ verdict[k] = "failed" => k \notin applied

\* The change is made at most once, whatever is lost, late or repeated.
AppliedOnce == \A j, k \in applied : j = k

\* The inductive invariant.  A key is dead when its execution can never take
\* effect: refused for good, or neither known to the server nor on its way.
Dead(k) == k \notin applied /\ (journal[k] = "failed" \/ (journal[k] = "none" /\ late[k] = 0))
Executing(k) == kind = "execute" /\ key = k

KeyInv(k) ==
  /\ verdict[k] = "done" \/ journal[k] = "succeeded" => k \in applied
  /\ k \in applied => journal[k] \notin {"none", "failed"}
  /\ verdict[k] = "failed" => Dead(k)
  /\ verdict[k] = "none" => late[k] = 0 /\ (journal[k] = "none" \/ Executing(k))
  /\ verdict[k] # "none" \/ Executing(k) => \A j \in Keys : j < k => verdict[j] = "failed"

CommandInv ==
  /\ at = "idle" <=> kind = "none"
  /\ at # "await" => wire = "nothing"
  /\ at \in {"idle", "credentials", "refresh", "save"} => tries = 0
  /\ at = "send" => tries <= 1
  /\ kind = "status" => verdict[key] = "doubtful"
  /\ kind = "execute" =>
       /\ verdict[key] \in {"none", "doubtful"}
       /\ wire \in {"nothing", "out"} \cup ExecutionReply
  /\ kind = "execute" /\ verdict[key] = "none" =>
       /\ wire = "nothing" \/ ~good => journal[key] = "none"
       /\ wire \in {"refused", "denied"} => Dead(key)
  /\ kind = "execute" /\ wire = "valid" => key \in applied
  /\ wire = "state_succeeded" => key \in applied
  /\ wire = "state_failed" => Dead(key)

AgentInv == AgentTypeOK /\ CommandInv /\ \A k \in Keys : KeyInv(k)

\* The user's keys are those of ReportedChange: what was said of a key is so
\* then and is never taken back, and only one that was executed and is not
\* settled, its command still running or given up long ago, can change anything
\* (canonical-crm-client.ts 370-389, README.md 541-552).
Reported == INSTANCE ReportedChange WITH
  told <- [k \in Keys |-> IF verdict[k] = "none" /\ Executing(k) THEN "open" ELSE verdict[k]],
  made <- applied

ImplementsReported == Reported!RSpec

\* A command posts once: neither a transport failure nor a denied token makes
\* it repeat a request that may have had an effect.
PostedOnce == kind \in {"preview", "execute"} => sent <= 1

\* Every command ends: no sequence of failures and denials keeps it going.
CommandsEnd == at # "idle" ~> at = "idle"
=============================================================================
