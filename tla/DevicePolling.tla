---------------------------- MODULE DevicePolling ----------------------------
(***************************************************************************)
(* auth login --device: polling for the token of a device authorization    *)
(* (exchangeDeviceCode and pollDeviceToken of oauth.ts).  Time is discrete: *)
(* a tick stands for any unit; waiting is measured by a timer, the deadline *)
(* by the wall clock, which somebody may set while the login waits.        *)
(***************************************************************************)
EXTENDS Naturals

CONSTANTS
  Lifetimes,  \* lifetimes the server may grant (expires_in)
  Intervals,  \* polling intervals it may ask for (interval)
  SlowDown,   \* what slow_down adds to the interval: 5 s
  MaxTimer,   \* the longest wait a timer can make: 2147483647 ms
  Timeout,    \* how long a request may take: 15 s
  MaxLeft,    \* bound: time left until the deadline, by a clock set back
  MaxSet      \* bound: times the clock is set

ASSUME PollingAssumption ==
  /\ SlowDown \in Nat /\ MaxTimer \in Nat \ {0} /\ Timeout \in Nat
  /\ MaxLeft \in Nat /\ MaxSet \in Nat
  /\ Intervals \subseteq 1..MaxTimer
  /\ Lifetimes \subseteq 1..MaxLeft

VARIABLES
  at,       \* what the login does: checks, awaits an answer, sleeps, sleeps
            \* until the deadline with no poll to follow, or ended
  left,     \* time until the deadline by the wall clock, 0 from then on
  interval, \* the polling interval it keeps
  timer,    \* what is left of the current sleep, or of the request's time
  elapsed,  \* time since the previous poll was sent, as far as it matters
  demanded, \* server: the interval it has asked for
  grant,    \* server: pending, approved, denied or handed out
  answer,   \* server: its answer to the poll under way
  set       \* times the clock was set

server == <<demanded, grant, answer>>
dvars == <<at, left, interval, timer, elapsed, server, set>>

Ended == {"done", "denied", "expired", "too_slow"}
Longest == MaxTimer + SlowDown
Smaller(x, y) == IF x < y THEN x ELSE y

DTypeOK ==
  /\ at \in {"check", "await", "sleep", "last_sleep"} \cup Ended
  /\ left \in 0..MaxLeft
  /\ interval \in 1..MaxTimer /\ demanded \in 1..Longest
  /\ timer \in 0..(MaxTimer + Timeout) /\ elapsed \in 0..Longest
  /\ grant \in {"pending", "approved", "refused", "handed"}
  /\ answer \in {"none", "tokens", "pending", "slow_down", "error", "broken"}
  /\ set \in 0..MaxSet

\* The server's timing is accepted (isDeviceInterval, the lifetime's limit),
\* and the first poll may go at once.
DInit ==
  /\ at = "check"
  /\ left \in Lifetimes
  /\ interval \in Intervals /\ demanded = interval
  /\ timer = 0 /\ elapsed = Longest
  /\ grant = "pending" /\ answer = "none" /\ set = 0

\* setTimeout of more than MaxTimer fires at once instead.
Wait(time) == IF time > MaxTimer THEN 1 ELSE time

-----------------------------------------------------------------------------
(* pollDeviceToken *)

Expire ==
  /\ at = "check" /\ left = 0
  /\ at' = "expired"
  /\ UNCHANGED <<left, interval, timer, elapsed, server, set>>

Poll ==
  /\ at = "check" /\ left > 0
  /\ at' = "await" /\ timer' = Timeout
  /\ elapsed' = 0
  /\ answer' = "none"
  /\ UNCHANGED <<left, interval, demanded, grant, set>>

\* Variant: a poll may take for ever.
ConcludeAnswered ==
  /\ at = "await"
  /\ \/ answer = "tokens" /\ at' = "done"
     \/ answer \in {"error", "broken"} /\ at' = "denied"
  /\ UNCHANGED <<left, interval, timer, elapsed, server, set>>

\* Tokens, or anything but a request to go on; or no answer in time.
Conclude ==
  /\ at = "await"
  /\ \/ answer = "tokens" /\ at' = "done"
     \/ answer \in {"error", "broken"} /\ at' = "denied"
     \/ timer = 0 /\ at' = "denied"
  /\ UNCHANGED <<left, interval, timer, elapsed, server, set>>

Next(i) == IF answer = "slow_down" THEN i + SlowDown ELSE i

Asked == at = "await" /\ answer \in {"pending", "slow_down"}

\* Sleep for the interval, or for what is left until the deadline.
SleepFor(i) ==
  \/ /\ left = 0 /\ at' = "expired" /\ UNCHANGED timer
  \/ /\ left > 0 /\ timer' = Wait(Smaller(i, left))
     /\ at' = IF i >= left THEN "last_sleep" ELSE "sleep"

\* Variant: the interval is not compared with what a timer can wait.
GoOnUnlimited ==
  /\ Asked
  /\ interval' = Smaller(Next(interval), Longest)
  /\ SleepFor(Next(interval))
  /\ UNCHANGED <<left, elapsed, server, set>>

\* Variant: no sleep for what is left when another poll does not fit into it.
GoOnToNextPoll ==
  /\ Asked
  /\ interval' = Next(interval)
  /\ IF left <= Next(interval) THEN at' = "expired" /\ UNCHANGED timer
     ELSE SleepFor(Next(interval))
  /\ UNCHANGED <<left, elapsed, server, set>>

GoOn ==
  /\ Asked
  /\ \/ /\ Next(interval) > MaxTimer
        /\ at' = "too_slow" /\ UNCHANGED <<interval, timer>>
     \/ /\ Next(interval) <= MaxTimer
        /\ interval' = Next(interval) /\ SleepFor(Next(interval))
  /\ UNCHANGED <<left, elapsed, server, set>>

Wake ==
  /\ timer = 0
  /\ \/ at = "sleep" /\ at' = "check"
     \/ at = "last_sleep" /\ at' = "expired"
  /\ UNCHANGED <<left, interval, timer, elapsed, server, set>>

-----------------------------------------------------------------------------
(* Time, and the server (external) *)

\* Timers may fire late, requests may not outlast their timeout.
Tick ==
  /\ at \in {"await", "sleep", "last_sleep"} /\ (at = "await" => timer > 0)
  /\ left' = IF left = 0 THEN 0 ELSE left - 1
  /\ timer' = IF timer = 0 THEN 0 ELSE timer - 1
  /\ elapsed' = Smaller(elapsed + 1, Longest)
  /\ UNCHANGED <<at, interval, server, set>>

\* Somebody sets the wall clock, forward or back.
SetClock ==
  /\ at \notin Ended /\ set < MaxSet /\ set' = set + 1
  /\ left' \in 0..MaxLeft
  /\ UNCHANGED <<at, interval, timer, elapsed, server>>

\* The user approves or refuses the device in a browser.
Decide ==
  /\ grant = "pending" /\ grant' \in {"approved", "refused"}
  /\ UNCHANGED <<at, left, interval, timer, elapsed, demanded, answer, set>>

\* The server answers a poll; it hands the tokens out once.
Serve ==
  /\ at = "await" /\ answer = "none"
  /\ answer' \in {"slow_down", "broken"} \cup
       (CASE grant = "pending" -> {"pending", "error"}
          [] grant = "approved" -> {"tokens"}
          [] OTHER -> {"error"})
  /\ grant' \in IF answer' = "tokens" THEN {"handed"}
                ELSE IF answer' = "broken" /\ grant = "approved" THEN {grant, "handed"}
                ELSE {grant}
  /\ demanded' = IF answer' = "slow_down" THEN Smaller(demanded + SlowDown, Longest) ELSE demanded
  /\ UNCHANGED <<at, left, interval, timer, elapsed, set>>

Step == Expire \/ Poll \/ Conclude \/ GoOn \/ Wake

DNext == Step \/ Tick \/ SetClock \/ Decide \/ Serve
DSpec == DInit /\ [][DNext]_dvars

\* Time passes and code runs; that anybody decides or answers is not assumed.
FairSpec == DSpec /\ WF_dvars(Step) /\ WF_dvars(Tick)

-----------------------------------------------------------------------------
(* Properties *)

\* Between two polls the login lets at least the interval pass that the server
\* has asked for until then, slow_downs included, whatever the clock says.
NeverTooFast == [][at' = "await" /\ at # "await" => elapsed >= demanded]_dvars

\* The inductive invariant behind it: the login keeps the server's interval, and
\* a sleep that is not the last one makes up for what has not yet passed of it.
PollInv ==
  /\ DTypeOK
  /\ at \in {"check", "sleep"} => demanded = interval
  /\ at = "await" => demanded = Next(interval)
  /\ at = "check" => elapsed >= interval
  /\ at = "sleep" => elapsed + timer >= interval

\* The user is told that the code expired only once it has, unless the clock
\* was set meanwhile.
ExpiredInTime == at = "expired" /\ set = 0 => left = 0

\* Every device login ends, whether or not anybody ever approves it.
DeviceLoginEnds == <>(at \in Ended)
=============================================================================
