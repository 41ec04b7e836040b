------------------------------- MODULE MCLogin -------------------------------
(* auth login takes one of two flows (cli.ts:463-465): the polling of          *)
(* DevicePolling, or BrowserLogin.  The other does not take place.             *)
EXTENDS DevicePolling, BrowserLogin

\* Where a browser login is that failed before it did anything.
NoBrowser ==
  /\ pc = "failed" /\ listener = "unopened" /\ open = {}
  /\ code = "unsettled" /\ handlers = {} /\ outcome = "none"
  /\ first = "none" /\ requests = 0

\* Where a device login is that was refused at its first poll.
NoDevice ==
  /\ at = "denied" /\ left = 1 /\ interval = 1 /\ demanded = 1
  /\ timer = 0 /\ elapsed = 0 /\ set = 0
  /\ grant = "refused" /\ answer = "error"

LoginInit ==
  \/ DInit /\ NoBrowser
  \/ BInit /\ NoDevice

LoginNext ==
  \/ DNext /\ UNCHANGED bvars
  \/ BNext /\ UNCHANGED dvars

LoginSpec ==
  /\ LoginInit /\ [][LoginNext]_<<dvars, bvars>>
  /\ WF_dvars(Step) /\ WF_dvars(Tick) /\ WF_bvars(Advance)
=============================================================================
