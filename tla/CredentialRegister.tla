-------------------------- MODULE CredentialRegister --------------------------
(***************************************************************************)
(* What a profile's credential store promises its callers, whatever places *)
(* it keeps credentials in: one register per profile.  A generation enters *)
(* the register at most once; once it has left, or its save has failed for *)
(* certain, it is spent and never returns.  A caller told that its save    *)
(* holds finds that generation in the register until another mutation; a   *)
(* caller told that the profile was removed finds it empty.  A read        *)
(* answers with the register's content or with nothing.                    *)
(***************************************************************************)
EXTENDS Naturals

CONSTANTS
  Procs, Profiles,
  Generations  \* 0 is none of them

VARIABLES
  cur,      \* the generation each profile's reads select, 0 for none
  spent,    \* generations that may never be selected again
  promise,  \* what the last mutation of each profile told its caller
  seen      \* the generation each reader was handed, 0 for none

rvars == <<cur, spent, promise, seen>>

NoPromise == [kind |-> "none", gen |-> 0]

RInit ==
  /\ cur = [f \in Profiles |-> 0]
  /\ spent = {}
  /\ promise = [f \in Profiles |-> NoPromise]
  /\ seen = [p \in Procs |-> 0]

\* Generations only ever join the spent ones, and none of them is selected.
Spend ==
  /\ spent \subseteq spent'
  /\ \A f \in Profiles : cur'[f] \notin spent'

Write(f) ==
  /\ cur[f] = 0
  /\ promise[f] = NoPromise
  /\ \E g \in Generations \ spent : cur' = [cur EXCEPT ![f] = g]
  /\ Spend
  /\ UNCHANGED <<promise, seen>>

\* A mutation has begun: what earlier callers were told holds no longer.
Withdraw(f) ==
  /\ promise' = [promise EXCEPT ![f] = NoPromise]
  /\ UNCHANGED <<cur, spent, seen>>

\* A mutation, or a command that goes round the store, clears the register.
Erase(f) ==
  /\ cur' = [cur EXCEPT ![f] = 0]
  /\ promise' = [promise EXCEPT ![f] = NoPromise]
  /\ Spend
  /\ cur[f] # 0 => cur[f] \in spent'
  /\ UNCHANGED seen

Confirm(f) ==
  /\ \/ /\ cur[f] # 0
        /\ promise' = [promise EXCEPT ![f] = [kind |-> "held", gen |-> cur[f]]]
     \/ /\ cur[f] = 0
        /\ promise' = [promise EXCEPT ![f] = [kind |-> "removed", gen |-> 0]]
  /\ UNCHANGED <<cur, spent>>

Discard == Spend /\ UNCHANGED <<cur, promise, seen>>

Answer(p) ==
  /\ \E g \in {0} \cup {cur[f] : f \in Profiles} : seen' = [seen EXCEPT ![p] = g]
  /\ UNCHANGED <<cur, promise>>

\* A command forgets what it read when it ends or starts again.
Forget(p) == seen' = [seen EXCEPT ![p] = 0]

RNext ==
  \/ \E f \in Profiles : Write(f) \/ Withdraw(f) \/ Erase(f)
  \/ \E f \in Profiles : Confirm(f) /\ UNCHANGED seen
  \/ Discard
  \/ \E p \in Procs : Answer(p) /\ UNCHANGED spent
  \/ \E p \in Procs : Forget(p) /\ Spend /\ UNCHANGED <<cur, promise>>

RSpec == RInit /\ [][RNext]_rvars
=============================================================================
