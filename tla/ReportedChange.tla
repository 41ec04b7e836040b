--------------------------- MODULE ReportedChange ---------------------------
(***************************************************************************)
(* What a write promises its user: one change, asked for under one key     *)
(* after another, is made at most once; what the user is told of a key is  *)
(* so when it is told and is never taken back; and a key that was reported *)
(* as failed, or not asked for yet, changes nothing any more.              *)
(***************************************************************************)
EXTENDS Naturals

CONSTANT MaxKeys  \* the keys are asked for in order

Keys == 1..MaxKeys

VARIABLES
  told,  \* of each key: not asked for, open, or what the user was told
  made   \* the keys under which the change was made

rvars == <<told, made>>

RInit == told = [k \in Keys |-> "none"] /\ made = {}

\* Only a definite failure permits another key.
Ask(k) ==
  /\ told[k] = "none" /\ \A j \in Keys : j < k => told[j] = "failed"
  /\ told' = [told EXCEPT ![k] = "open"]
  /\ UNCHANGED made

Unsettled(k) == told[k] \in {"open", "doubtful"}

\* The change is made while its key is open or in doubt, the first time only.
Make(k) ==
  /\ Unsettled(k) /\ made = {} /\ made' = {k}
  /\ UNCHANGED told

Tell(k, v) ==
  /\ Unsettled(k)
  /\ v = "done" => k \in made
  /\ v = "failed" => k \notin made
  /\ told' = [told EXCEPT ![k] = v]
  /\ UNCHANGED made

RNext == \E k \in Keys :
  Ask(k) \/ Make(k) \/ \E v \in {"done", "failed", "doubtful"} : Tell(k, v)

RSpec == RInit /\ [][RNext]_rvars
=============================================================================
