-------------------------- MODULE AgentClientProofs --------------------------
(***************************************************************************)
(* That what the client's user concludes of an execution is so, that the   *)
(* change is made at most once, that no command posts twice, and that all  *)
(* of it is the abstract write of ReportedChange, for any number of keys   *)
(* and of late arrivals.  The argument: a key the user gives up as failed  *)
(* is dead, no request for it being on its way and none having been        *)
(* recorded; and no key is used before every earlier one has failed.       *)
(***************************************************************************)
EXTENDS AgentClient, TLAPS

LEMMA InitAgentInv == AInit => AgentInv
<1> SUFFICES ASSUME AInit PROVE AgentInv
  OBVIOUS
<1>1. 1 \in Keys
  BY AgentAssumption DEF Keys
<1>2. AgentTypeOK
  <2>1. good \in BOOLEAN /\ renewed \in BOOLEAN
    BY DEF AInit
  <2>2. /\ journal \in [Keys -> Recorded \cup {"none", "claimed"}] /\ applied \subseteq Keys
        /\ late \in [Keys -> 0..MaxLate] /\ verdict \in [Keys -> Verdicts]
    BY AgentAssumption DEF AInit, Recorded, Verdicts
  <2> QED
    BY <1>1, <2>1, <2>2 DEF AInit, AgentTypeOK
<1>3. CommandInv
  BY DEF AInit, CommandInv
<1>4. ASSUME NEW k \in Keys PROVE KeyInv(k)
  BY DEF AInit, KeyInv, Executing
<1> QED
  BY <1>2, <1>3, <1>4 DEF AgentInv

\* The end of a command keeps the types.
LEMMA EndTypes ==
  ASSUME AgentTypeOK, NEW v \in Verdicts, End(v), UNCHANGED server, late' \in [Keys -> 0..MaxLate]
  PROVE  AgentTypeOK'
<1>1. /\ kind' \in Kinds \cup {"none"} /\ key' \in Keys
      /\ at' \in {"idle", "credentials", "refresh", "save", "send", "await"}
      /\ tries' \in 0..2 /\ sent' \in 0..2
      /\ wire' \in {"nothing", "out"} \cup Replies
  BY DEF End, AgentTypeOK
<1>2. good' \in BOOLEAN /\ renewed' \in BOOLEAN
  BY DEF End
<1>3. verdict' \in [Keys -> Verdicts]
  BY DEF End, AgentTypeOK
<1>4. journal' \in [Keys -> Recorded \cup {"none", "claimed"}] /\ applied' \subseteq Keys
  BY DEF server, AgentTypeOK
<1> QED
  BY <1>1, <1>2, <1>3, <1>4 DEF AgentTypeOK

\* Whatever a command concludes is a verdict.
LEMMA VerdictTypes ==
  ASSUME AgentTypeOK, NEW r \in Replies
  PROVE  {Failed, Concluded(r), LookedUp(r), verdict[key], "doubtful"} \subseteq Verdicts
BY DEF AgentTypeOK, Failed, Concluded, LookedUp, Verdicts, Replies,
       ExecutionReply, StatusReply

\* A key that may be executed comes after failed ones only.
LEMMA EarlierFailed ==
  ASSUME AgentInv, NEW k \in Keys, MayExecute(k), NEW j \in Keys, j < k
  PROVE  verdict[j] = "failed"
<1>1. k - 1 \in Keys /\ verdict[k - 1] = "failed" /\ (j = k - 1 \/ j < k - 1)
  BY AgentAssumption DEF MayExecute, Keys
<1>2. KeyInv(k - 1)
  BY <1>1 DEF AgentInv
<1> QED
  BY <1>1, <1>2 DEF KeyInv

LEMMA NextAgentInv == AgentInv /\ [ANext]_avars => AgentInv'
<1> SUFFICES ASSUME AgentInv, [ANext]_avars PROVE AgentInv'
  OBVIOUS
<1> USE AgentAssumption DEF AgentInv, AgentTypeOK, CommandInv, KeyInv, Executing, Dead, client, server, Replies, ExecutionReply, StatusReply, Recorded, Kinds, Verdicts
<1>1. ASSUME NEW t \in Kinds, NEW n \in Keys, Run(t, n) PROVE AgentInv'
  <2>1. AgentTypeOK'
    BY <1>1 DEF Run, Step, MayExecute, Kinds
  <2>2. CommandInv'
    <3>1. /\ at' = "credentials" /\ kind' = t /\ key' = n /\ UNCHANGED <<tries, wire, verdict>>
          /\ wire = "nothing" /\ tries = 0 /\ t # "none"
      BY <1>1 DEF Run, Step
    <3>2. t = "status" => verdict[n] = "doubtful"
      BY <1>1 DEF Run
    <3>3. t = "execute" => verdict[n] \in {"none", "doubtful"} /\ (verdict[n] = "none" => journal[n] = "none")
      BY <1>1 DEF Run, MayExecute, Step
    <3> QED
      BY <1>1, <3>1, <3>2, <3>3 DEF Run
  <2>3. ASSUME NEW k \in Keys PROVE KeyInv(k)'
    BY <1>1, EarlierFailed DEF Run, Step, MayExecute
  <2> QED
    BY <2>1, <2>2, <2>3
<1>2. ASSUME CheckExpiry PROVE AgentInv'
  <2>1. AgentTypeOK'
    BY <1>2 DEF CheckExpiry
  <2>2. CommandInv'
    BY <1>2 DEF CheckExpiry
  <2>3. ASSUME NEW k \in Keys PROVE KeyInv(k)'
    BY <1>2 DEF CheckExpiry
  <2> QED
    BY <2>1, <2>2, <2>3
<1>3. ASSUME Refresh PROVE AgentInv'
  <2>1. AgentTypeOK'
    BY <1>3 DEF Refresh, Step
  <2>2. CommandInv'
    BY <1>3 DEF Refresh, Step
  <2>3. ASSUME NEW k \in Keys PROVE KeyInv(k)'
    BY <1>3 DEF Refresh, Step
  <2> QED
    BY <2>1, <2>2, <2>3
<1>4. ASSUME Save PROVE AgentInv'
  <2>1. AgentTypeOK'
    BY <1>4 DEF Save, Step
  <2>2. CommandInv'
    BY <1>4 DEF Save, Step
  <2>3. ASSUME NEW k \in Keys PROVE KeyInv(k)'
    BY <1>4 DEF Save, Step
  <2> QED
    BY <2>1, <2>2, <2>3
<1>5. ASSUME RefreshFails PROVE AgentInv'
  <2>1. AgentTypeOK'
    <3>1. Failed \in Verdicts
      BY DEF Failed
    <3> QED
      BY <1>5, <3>1, EndTypes DEF RefreshFails
  <2>2. CommandInv'
    BY <1>5 DEF RefreshFails, End, Failed
  <2>3. ASSUME NEW k \in Keys PROVE KeyInv(k)'
    BY <1>5 DEF RefreshFails, End, Failed
  <2> QED
    BY <2>1, <2>2, <2>3
<1>6. ASSUME Send PROVE AgentInv'
  <2>1. AgentTypeOK'
    BY <1>6 DEF Send, Step
  <2>2. CommandInv'
    BY <1>6 DEF Send, Step
  <2>3. ASSUME NEW k \in Keys PROVE KeyInv(k)'
    BY <1>6 DEF Send, Step
  <2> QED
    BY <2>1, <2>2, <2>3
<1>7. ASSUME Break PROVE AgentInv'
  <2>1. /\ at = "await" /\ UNCHANGED server
        /\ \/ UNCHANGED late
           \/ kind = "execute" /\ late[key] < MaxLate /\ late' = [late EXCEPT ![key] = @ + 1]
    BY <1>7 DEF Break
  <2>2. late' \in [Keys -> 0..MaxLate]
    BY <2>1
  <2>3. CASE /\ kind # "execute" /\ tries = 1 /\ at' = "send" /\ wire' = "nothing"
             /\ UNCHANGED <<kind, key, good, renewed, tries, sent, verdict>>
    BY <2>1, <2>2, <2>3
  <2>4. CASE End(IF kind = "execute" THEN "doubtful" ELSE verdict[key])
    <3>1. (IF kind = "execute" THEN "doubtful" ELSE verdict[key]) \in Verdicts
      OBVIOUS
    <3>2. AgentTypeOK'
      BY <2>1, <2>2, <2>4, <3>1, EndTypes
    <3>3. CommandInv'
      BY <2>4 DEF End
    <3>4. ASSUME NEW k \in Keys PROVE KeyInv(k)'
      BY <2>1, <2>4 DEF End
    <3> QED
      BY <3>2, <3>3, <3>4
  <2> QED
    BY <1>7, <2>3, <2>4 DEF Break, Resends, Resent
<1>8. ASSUME Unreadable PROVE AgentInv'
  <2>1. AgentTypeOK'
    BY <1>8, EndTypes DEF Unreadable
  <2>2. CommandInv'
    BY <1>8 DEF Unreadable, End
  <2>3. ASSUME NEW k \in Keys PROVE KeyInv(k)'
    BY <1>8 DEF Unreadable, End
  <2> QED
    BY <2>1, <2>2, <2>3
<1>9. ASSUME Receive PROVE AgentInv'
  <2>1. at = "await" /\ wire \in Replies /\ UNCHANGED <<server, late>>
    BY <1>9 DEF Receive
  <2>2. CASE kind # "execute" /\ at' = "refresh" /\ tries' = 0 /\ wire' = "nothing"
             /\ UNCHANGED <<kind, key, good, renewed, sent, verdict>>
    BY <2>1, <2>2
  <2>3. ASSUME NEW v \in Verdicts, End(v),
               v = "done" => key \in applied,
               v = "failed" => Dead(key),
               verdict[key] = "failed" => v = "failed",
               v = "none" => kind # "execute" /\ verdict[key] = "none",
               v # "none" => kind = "execute" \/ verdict[key] # "none"
        PROVE  AgentInv'
    <3>1. AgentTypeOK'
      BY <2>1, <2>3, EndTypes
    <3>2. CommandInv'
      BY <2>3 DEF End
    <3>3. ASSUME NEW k \in Keys PROVE KeyInv(k)'
      <4>1. verdict' = [verdict EXCEPT ![key] = v] /\ kind' = "none"
        BY <2>3 DEF End
      <4>2. CASE k = key
        BY <2>1, <2>3, <4>1, <4>2
      <4>3. CASE k # key
        BY <2>1, <2>3, <4>1, <4>3
      <4> QED
        BY <4>2, <4>3
    <3> QED
      BY <3>1, <3>2, <3>3
  <2>4. CASE kind = "execute" /\ End(Concluded(wire))
    <3>1. Concluded(wire) \in Verdicts
      BY <2>1, VerdictTypes
    <3>2. Concluded(wire) = "done" => key \in applied
      BY <2>4 DEF Concluded, Failed
    <3>3. Concluded(wire) = "failed" => Dead(key)
      BY <2>1, <2>4 DEF Concluded, Failed
    <3>4. Concluded(wire) # "none" /\ verdict[key] # "failed"
      BY <2>4 DEF Concluded, Failed
    <3> QED
      BY <2>3, <2>4, <3>1, <3>2, <3>3, <3>4
  <2>5. CASE kind = "status" /\ End(LookedUp(wire))
    <3>1. LookedUp(wire) \in Verdicts
      BY <2>1, VerdictTypes
    <3>2. /\ LookedUp(wire) = "done" => key \in applied
          /\ LookedUp(wire) = "failed" => Dead(key)
          /\ LookedUp(wire) # "none" /\ verdict[key] = "doubtful"
      BY <2>5 DEF LookedUp
    <3> QED
      BY <2>3, <2>5, <3>1, <3>2
  <2>6. CASE kind \notin {"execute", "status"} /\ End(verdict[key])
    <3>1. verdict[key] \in Verdicts
      OBVIOUS
    <3>2. /\ verdict[key] = "done" => key \in applied
          /\ verdict[key] = "failed" => Dead(key)
      OBVIOUS
    <3> QED
      BY <2>3, <2>6, <3>1, <3>2
  <2> QED
    BY <1>9, <2>2, <2>4, <2>5, <2>6 DEF Receive, Renews, Resent
<1>10. ASSUME ServeExecution PROVE AgentInv'
  <2>1. AgentTypeOK'
    BY <1>10 DEF ServeExecution, Claim
  <2>2. CommandInv'
    BY <1>10 DEF ServeExecution, Claim
  <2>3. ASSUME NEW k \in Keys PROVE KeyInv(k)'
    BY <1>10 DEF ServeExecution, Claim
  <2> QED
    BY <2>1, <2>2, <2>3
<1>11. ASSUME Answer PROVE AgentInv'
  <2>1. AgentTypeOK'
    BY <1>11 DEF Answer, ExecutionReplies, OtherReplies, StateReply
  <2>2. CommandInv'
    BY <1>11 DEF Answer, ExecutionReplies, OtherReplies, StateReply
  <2>3. ASSUME NEW k \in Keys PROVE KeyInv(k)'
    BY <1>11 DEF Answer, ExecutionReplies, OtherReplies, StateReply
  <2> QED
    BY <2>1, <2>2, <2>3
<1>12. ASSUME NEW n \in Keys, ArriveLate(n) PROVE AgentInv'
  <2>1. AgentTypeOK'
    BY <1>12 DEF ArriveLate, Claim
  <2>2. CommandInv'
    BY <1>12 DEF ArriveLate, Claim
  <2>3. ASSUME NEW k \in Keys PROVE KeyInv(k)'
    BY <1>12 DEF ArriveLate, Claim
  <2> QED
    BY <2>1, <2>2, <2>3
<1>13. ASSUME NEW n \in Keys, Apply(n) PROVE AgentInv'
  <2>1. AgentTypeOK'
    BY <1>13 DEF Apply
  <2>2. CommandInv'
    BY <1>13 DEF Apply
  <2>3. ASSUME NEW k \in Keys PROVE KeyInv(k)'
    BY <1>13 DEF Apply
  <2> QED
    BY <2>1, <2>2, <2>3
<1>14. ASSUME NEW n \in Keys, Record(n) PROVE AgentInv'
  <2>1. AgentTypeOK'
    BY <1>14 DEF Record
  <2>2. CommandInv'
    BY <1>14 DEF Record
  <2>3. ASSUME NEW k \in Keys PROVE KeyInv(k)'
    BY <1>14 DEF Record
  <2> QED
    BY <2>1, <2>2, <2>3
<1>15. ASSUME UNCHANGED avars PROVE AgentInv'
  <2>1. AgentTypeOK'
    BY <1>15 DEF avars
  <2>2. CommandInv'
    BY <1>15 DEF avars
  <2>3. ASSUME NEW k \in Keys PROVE KeyInv(k)'
    BY <1>15 DEF avars
  <2> QED
    BY <2>1, <2>2, <2>3
<1> QED
  BY <1>1, <1>2, <1>3, <1>4, <1>5, <1>6, <1>7, <1>8, <1>9, <1>10, <1>11, <1>12,
     <1>13, <1>14, <1>15 DEF ANext, Advance, Serve

\* The inductive invariant holds of every behaviour.
THEOREM AgentInvariant == ASpec => []AgentInv
BY InitAgentInv, NextAgentInv, PTL DEF ASpec

\* The client's state keeps its types: no operation is sent a third time.
THEOREM AgentTypes == ASpec => []AgentTypeOK
<1>1. AgentInv => AgentTypeOK
  BY DEF AgentInv
<1> QED
  BY <1>1, AgentInvariant, PTL

\* What the user was told of an execution is so and stays so.
THEOREM VerdictsAreTrue == ASpec => []VerdictsHold
<1>1. AgentInv => VerdictsHold
  BY DEF AgentInv, KeyInv, Dead, VerdictsHold
<1> QED
  BY <1>1, AgentInvariant, PTL

\* The change is made at most once.
THEOREM AppliedAtMostOnce == ASpec => []AppliedOnce
<1>1. ASSUME AgentInv, NEW j \in applied, NEW k \in applied, j < k PROVE FALSE
  <2>1. KeyInv(j) /\ KeyInv(k) /\ j \in Keys /\ k \in Keys
    BY <1>1 DEF AgentInv, AgentTypeOK
  <2>2. verdict[k] # "none" \/ Executing(k)
    BY <1>1, <2>1 DEF KeyInv
  <2>3. verdict[j] = "failed"
    BY <1>1, <2>1, <2>2 DEF KeyInv
  <2> QED
    BY <1>1, <2>1, <2>3 DEF KeyInv, Dead
<1>2. AgentInv => AppliedOnce
  <2> SUFFICES ASSUME AgentInv, NEW j \in applied, NEW k \in applied PROVE j = k
    BY DEF AppliedOnce
  <2>1. j \in Nat /\ k \in Nat
    BY AgentAssumption DEF AgentInv, AgentTypeOK, Keys
  <2>2. ~(j < k) /\ ~(k < j)
    BY <1>1
  <2> QED
    BY <2>1, <2>2
<1> QED
  BY <1>2, AgentInvariant, PTL

-----------------------------------------------------------------------------
\* A command that may have an effect has sent nothing until it sends, once.
OnceInv ==
  /\ at = "idle" => sent = 0 /\ kind = "none"
  /\ kind \in {"preview", "execute"} =>
       IF at = "await" THEN sent <= 1 ELSE sent = 0

LEMMA NextOnceInv == AgentInv /\ OnceInv /\ [ANext]_avars => OnceInv'
<1> SUFFICES ASSUME AgentInv, OnceInv, [ANext]_avars PROVE OnceInv'
  OBVIOUS
<1>1. at' = "idle" /\ kind' = "none" /\ sent' = 0 => OnceInv'
  BY DEF OnceInv
<1>2. ASSUME NEW v, End(v) PROVE OnceInv'
  BY <1>1, <1>2 DEF End
<1>3. CASE \E t \in Kinds, k \in Keys : Run(t, k)
  BY <1>3 DEF Run, Step, OnceInv
<1>4. CASE CheckExpiry \/ Refresh \/ Save
  BY <1>4 DEF CheckExpiry, Refresh, Save, Step, OnceInv
<1>5. CASE RefreshFails
  BY <1>2, <1>5 DEF RefreshFails
<1>6. CASE Send
  BY <1>6 DEF Send, Step, OnceInv
<1>7. CASE Break
  <2>1. CASE \E v : End(v)
    BY <1>2, <2>1
  <2>2. CASE kind \in Resent /\ UNCHANGED kind /\ at' = "send"
    BY <2>2 DEF Resent, OnceInv
  <2> QED
    BY <1>7, <2>1, <2>2 DEF Break, Resends
<1>8. CASE Unreadable
  BY <1>2, <1>8 DEF Unreadable
<1>9. CASE Receive
  <2>1. CASE \E v : End(v)
    BY <1>2, <2>1
  <2>2. CASE kind \in Resent /\ UNCHANGED kind /\ at' = "refresh"
    BY <2>2 DEF Resent, OnceInv
  <2> QED
    BY <1>9, <2>1, <2>2, Zenon DEF Receive, Renews
<1>10. CASE Serve \/ UNCHANGED avars
  <2>1. UNCHANGED <<kind, at, sent>>
    BY <1>10 DEF Serve, ServeExecution, Answer, ArriveLate, Apply, Record, client, avars
  <2> QED
    BY <2>1 DEF OnceInv
<1> QED
  BY <1>3, <1>4, <1>5, <1>6, <1>7, <1>8, <1>9, <1>10 DEF ANext, Advance

\* A preview or an execution is posted once by its command, come what may.
THEOREM PostedAtMostOnce == ASpec => []PostedOnce
<1>1. AInit => OnceInv
  BY DEF AInit, OnceInv
<1>2. OnceInv => PostedOnce
  BY DEF OnceInv, PostedOnce
<1> QED
  BY <1>1, <1>2, NextOnceInv, AgentInvariant, PTL DEF ASpec

-----------------------------------------------------------------------------
(* The refinement of ReportedChange *)

Told == [k \in Keys |-> IF verdict[k] = "none" /\ Executing(k) THEN "open" ELSE verdict[k]]

LEMMA ReportedKeys == Reported!Keys = Keys
BY DEF Reported!Keys, Keys

LEMMA InitReported == AInit => Reported!RInit
BY ReportedKeys DEF AInit, Reported!RInit, Executing

LEMMA ReportedStutter ==
  ASSUME UNCHANGED <<kind, key, verdict, applied>>
  PROVE  UNCHANGED Reported!rvars
BY DEF Reported!rvars, Executing

\* The end of a command tells what it concluded, or nothing new.
LEMMA EndReports ==
  ASSUME AgentInv, at # "idle", NEW v, End(v), UNCHANGED applied,
         \/ kind # "execute" /\ v = verdict[key]
         \/ /\ kind = "execute" \/ verdict[key] = "doubtful"
            /\ v \in {"done", "failed", "doubtful"}
            /\ v = "done" => key \in applied
            /\ v = "failed" => key \notin applied
  PROVE  \/ Reported!Tell(key, v) /\ v \in {"done", "failed", "doubtful"}
         \/ UNCHANGED Reported!rvars
<1>1. /\ kind' = "none" /\ key' = key /\ key \in Keys /\ verdict' = [verdict EXCEPT ![key] = v]
      /\ verdict \in [Keys -> Verdicts]
  BY DEF End, AgentInv, AgentTypeOK
<1>2. \A k \in Keys : Told[k] = IF verdict[k] = "none" /\ Executing(k) THEN "open" ELSE verdict[k]
  BY DEF Told
<1>3. Told' = verdict'
  BY <1>1 DEF Told, Executing
<1>4. \A k \in Keys : k # key => Told[k] = verdict[k]
  BY <1>2 DEF Executing
<1>5. CASE kind # "execute" /\ v = verdict[key]
  <2>1. verdict' = verdict
    BY <1>1, <1>5
  <2>2. Told = verdict
    BY <1>1, <1>5 DEF Told, Executing
  <2>3. Told' = Told
    BY <1>3, <2>1, <2>2
  <2> QED BY <2>3 DEF Told, Reported!rvars
<1>6. CASE /\ kind = "execute" \/ verdict[key] = "doubtful"
           /\ v \in {"done", "failed", "doubtful"}
           /\ v = "done" => key \in applied
           /\ v = "failed" => key \notin applied
  <2>1. Told[key] \in {"open", "doubtful"}
    BY <1>1, <1>2, <1>6 DEF AgentInv, CommandInv, Executing
  <2>2. Told' = [Told EXCEPT ![key] = v]
    BY <1>1, <1>3, <1>4 DEF Told
  <2> QED BY <1>6, <2>1, <2>2 DEF Told, Reported!Tell, Reported!Unsettled
<1> QED BY <1>5, <1>6

\* A key whose execution is under way at the server is open or in doubt, and
\* nothing was made under another.
LEMMA MakesReported ==
  ASSUME AgentInv, NEW k \in Keys, journal[k] = "claimed", k \notin applied
  PROVE  Told[k] \in {"open", "doubtful"} /\ applied = {}
<1>1. KeyInv(k) /\ applied \subseteq Keys /\ verdict[k] \in Verdicts
  BY DEF AgentInv, AgentTypeOK
<1>2. verdict[k] \in {"none", "doubtful"} /\ (verdict[k] = "none" => Executing(k))
  BY <1>1 DEF KeyInv, Dead, Verdicts
<1>3. Told[k] \in {"open", "doubtful"}
  BY <1>2 DEF Told
<1>4. ASSUME NEW j \in applied PROVE FALSE
  <2>1. KeyInv(j) /\ j \in Keys
    BY <1>1 DEF AgentInv
  <2>2. CASE j < k
    BY <1>1, <1>2, <2>1, <2>2 DEF KeyInv, Dead
  <2>3. CASE k < j
    BY <1>1, <1>2, <2>1, <2>3 DEF KeyInv, Dead
  <2> QED BY <2>1, <2>2, <2>3, AgentAssumption DEF Keys
<1> QED BY <1>3, <1>4

LEMMA StepReported == AgentInv /\ [ANext]_avars => [Reported!RNext]_(Reported!rvars)
<1> SUFFICES ASSUME AgentInv, [ANext]_avars
             PROVE  Reported!RNext \/ UNCHANGED Reported!rvars
  OBVIOUS
<1>1. ASSUME NEW t \in Kinds, NEW n \in Keys, Run(t, n)
      PROVE  Reported!Ask(n) \/ UNCHANGED Reported!rvars
  <2>1. /\ kind = "none" /\ kind' = t /\ key' = n /\ UNCHANGED <<verdict, applied>>
        /\ verdict \in [Keys -> Verdicts]
    BY <1>1 DEF Run, Step, server, AgentInv, AgentTypeOK, CommandInv
  <2>2. Told = verdict
    BY <2>1 DEF Told, Executing
  <2>3. CASE t = "execute" /\ verdict[n] = "none"
    <3>1. \A j \in Keys : j < n => Told[j] = "failed"
      BY <1>1, <2>2, <2>3, EarlierFailed DEF Run
    <3>2. Told' = [Told EXCEPT ![n] = "open"]
      BY <2>1, <2>2, <2>3 DEF Told, Executing
    <3> QED BY <2>1, <2>2, <2>3, <3>1, <3>2, ReportedKeys DEF Told, Reported!Ask
  <2>4. CASE ~(t = "execute" /\ verdict[n] = "none")
    <3>1. Told' = Told
      BY <2>1, <2>2, <2>4 DEF Told, Executing
    <3> QED BY <2>1, <3>1 DEF Told, Reported!rvars
  <2> QED BY <2>3, <2>4
<1>2. CASE CheckExpiry \/ Refresh \/ Save \/ Send
  BY <1>2, ReportedStutter DEF CheckExpiry, Refresh, Save, Send, server
<1>3. ASSUME NEW v, End(v), at # "idle", UNCHANGED applied,
             \/ kind # "execute" /\ v = verdict[key]
             \/ /\ kind = "execute" \/ verdict[key] = "doubtful"
                /\ v \in {"done", "failed", "doubtful"}
                /\ v = "done" => key \in applied
                /\ v = "failed" => key \notin applied
      PROVE  Reported!RNext \/ UNCHANGED Reported!rvars
  <2>1. key \in Reported!Keys
    BY ReportedKeys DEF AgentInv, AgentTypeOK
  <2> QED BY <1>3, <2>1, EndReports DEF Reported!RNext
<1>4. verdict[key] \in {"none", "doubtful"} \/ kind # "execute"
  BY DEF AgentInv, CommandInv
<1>5. kind = "execute" /\ verdict[key] = "none" => (at # "await" => key \notin applied)
  <2>1. KeyInv(key) /\ (at # "await" => wire = "nothing")
    BY DEF AgentInv, AgentTypeOK, CommandInv
  <2> QED BY <2>1 DEF AgentInv, CommandInv, KeyInv
<1>6. CASE RefreshFails
  <2>1. End(Failed) /\ at \notin {"idle", "await"} /\ UNCHANGED applied
    BY <1>6 DEF RefreshFails, server
  <2>2. CASE kind = "execute"
    <3>1. Failed \in {"failed", "doubtful"} /\ (Failed = "failed" => key \notin applied)
      BY <1>4, <1>5, <2>1, <2>2 DEF Failed
    <3> QED BY <1>3, <2>1, <2>2, <3>1
  <2>3. CASE kind # "execute"
    <3>1. Failed = verdict[key]
      BY <2>3 DEF Failed
    <3> QED BY <1>3, <2>1, <2>3, <3>1
  <2> QED BY <2>2, <2>3
<1>7. CASE Break
  <2>1. at # "idle" /\ UNCHANGED applied
    BY <1>7 DEF Break, server
  <2>2. CASE End(IF kind = "execute" THEN "doubtful" ELSE verdict[key])
    BY <1>3, <2>1, <2>2
  <2>3. CASE UNCHANGED <<kind, key, verdict>>
    BY <2>1, <2>3, ReportedStutter
  <2> QED BY <1>7, <2>2, <2>3 DEF Break
<1>8. CASE Unreadable
  BY <1>3, <1>8 DEF Unreadable, server
<1>9. CASE Receive
  <2>1. at # "idle" /\ wire \in Replies /\ UNCHANGED applied
    BY <1>9 DEF Receive, server
  <2>2. CASE kind = "execute" /\ End(Concluded(wire))
    <3>1. Concluded(wire) \in {"done", "failed", "doubtful"}
      BY <1>4, <2>2 DEF Concluded, Failed
    <3>2. Concluded(wire) = "done" => key \in applied
      BY <1>4, <2>2 DEF Concluded, Failed, AgentInv, CommandInv
    <3>3. Concluded(wire) = "failed" => key \notin applied
      BY <1>4, <2>1, <2>2 DEF Concluded, Failed, AgentInv, CommandInv, Dead, Replies, ExecutionReply, StatusReply
    <3> QED BY <1>3, <2>1, <2>2, <3>1, <3>2, <3>3
  <2>3. CASE kind = "status" /\ End(LookedUp(wire))
    <3>1. /\ LookedUp(wire) \in {"done", "failed", "doubtful"} /\ verdict[key] = "doubtful"
          /\ LookedUp(wire) = "done" => key \in applied
          /\ LookedUp(wire) = "failed" => key \notin applied
      BY <2>3 DEF LookedUp, AgentInv, CommandInv, Dead
    <3> QED BY <1>3, <2>1, <2>3, <3>1
  <2>4. CASE kind \notin {"execute", "status"} /\ End(verdict[key])
    BY <1>3, <2>1, <2>4
  <2>5. CASE UNCHANGED <<kind, key, verdict>>
    BY <2>1, <2>5, ReportedStutter
  <2> QED BY <1>9, <2>2, <2>3, <2>4, <2>5 DEF Receive
<1>10. CASE ServeExecution \/ Answer
  BY <1>10, ReportedStutter DEF ServeExecution, Claim, Answer, client, server
<1>11. ASSUME NEW n \in Keys, ArriveLate(n) \/ Record(n) PROVE UNCHANGED Reported!rvars
  BY <1>11, ReportedStutter DEF ArriveLate, Claim, Record, client, server
<1>12. ASSUME NEW n \in Keys, Apply(n) PROVE Reported!RNext \/ UNCHANGED Reported!rvars
  <2>1. /\ journal[n] = "claimed" /\ applied' = applied \cup {n}
        /\ UNCHANGED <<kind, key, verdict>>
    BY <1>12 DEF Apply, client
  <2>2. CASE n \in applied
    BY <2>1, <2>2, ReportedStutter
  <2>3. CASE n \notin applied
    <3>1. Told[n] \in {"open", "doubtful"} /\ applied = {} /\ applied' = {n}
      BY <2>1, <2>3, MakesReported
    <3>2. Told' = Told
      BY <2>1 DEF Told, Executing
    <3>3. Reported!Make(n)
      BY <3>1, <3>2 DEF Told, Reported!Make, Reported!Unsettled
    <3> QED BY <3>3, ReportedKeys DEF Reported!RNext
  <2> QED BY <2>2, <2>3
<1>13. CASE UNCHANGED avars
  BY <1>13, ReportedStutter DEF avars, client, server
<1> QED
  BY <1>1, <1>2, <1>6, <1>7, <1>8, <1>9, <1>10, <1>11, <1>12, <1>13, ReportedKeys
     DEF ANext, Advance, Serve, Reported!RNext

\* A write through the client is the abstract write: made at most once, and
\* reported truly, finally, and in the order the keys were drawn.
THEOREM WriteRefines == ASpec => ImplementsReported
BY InitReported, StepReported, AgentInvariant, PTL DEF ASpec, ImplementsReported, Reported!RSpec
=============================================================================
