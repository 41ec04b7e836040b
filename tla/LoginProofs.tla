---------------------------- MODULE LoginProofs ----------------------------
(***************************************************************************)
(* The two ways to log in.  A browser login asks for tokens with the first *)
(* matching callback only, leaves nothing listening and is not ended by an *)
(* early request, for any connections and any number of requests.  A       *)
(* device login never polls faster than the server has asked, however      *)
(* often the wall clock is set, and does not report a code as expired      *)
(* before it is, for any intervals, lifetimes, timer and request limits.   *)
(***************************************************************************)
EXTENDS BrowserLogin, DevicePolling, TLAPS

-----------------------------------------------------------------------------
(* In a browser *)

\* The inductive invariant: the code is what the first request was, only that code
\* makes the login go on, the socket is there between its opening and its closing,
\* and it does not open, nor does anybody connect, before the code has a handler.
BInv ==
  /\ BTypeOK
  /\ requests # 0 => code = first
  /\ outcome = "callback" => code = "callback"
  /\ pc \in {"exchange", "done"} => outcome = "callback"
  /\ pc \in {"discover", "listen", "opening"} => listener = "unopened" /\ open = {}
  /\ pc \in {"opening", "register", "launch", "await", "release"} => handlers # {}
  /\ listener # "unopened" => handlers # {}
  /\ NothingLeftListening
  /\ NeverCrashes

LEMMA BInvInit == BInit => BInv
  BY BrowserAssumption
  DEF BInit, BInv, BTypeOK, NothingLeftListening, NeverCrashes, BrowserEnded, Requests

\* The steps of the login itself.
LEMMA BInvAdvance == BInv /\ Advance => BInv'
<1> SUFFICES ASSUME BInv, Advance PROVE BInv'
    OBVIOUS
<1> USE DEF BInv, BTypeOK, NothingLeftListening, NeverCrashes, BrowserEnded, Requests, Goto
<1>1. CASE Discover BY <1>1 DEF Discover
<1>2. CASE Listen BY <1>2 DEF Listen
<1>3. CASE Register BY <1>3 DEF Register
<1>4. CASE Launch BY <1>4 DEF Launch
<1>5. CASE Abandon BY <1>5 DEF Abandon, StartClosing
<1>6. CASE AwaitCode BY <1>6 DEF AwaitCode, StartClosing
<1>7. CASE TimeOut BY <1>7 DEF TimeOut, StartClosing
<1>8. CASE Close BY <1>8 DEF Close
<1>9. CASE Exchange BY <1>9 DEF Exchange
<1>10. CASE Opened BY <1>10 DEF Opened
<1> QED BY <1>1, <1>2, <1>3, <1>4, <1>5, <1>6, <1>7, <1>8, <1>9, <1>10 DEF Advance

\* What comes from the browser, at any moment.
LEMMA BInvRequests ==
  ASSUME BInv, NEW c \in Connections,
         Connect(c) \/ Disconnect(c) \/ \E r \in Requests : Handle(c, r)
  PROVE  BInv'
<1> USE DEF BInv, BTypeOK, NothingLeftListening, NeverCrashes, BrowserEnded
<1>1. CASE Connect(c) BY <1>1 DEF Connect, Requests
<1>2. CASE Disconnect(c) BY <1>2 DEF Disconnect, Requests
<1>3. ASSUME NEW r \in Requests, Handle(c, r) PROVE BInv'
  <2>1. handlers # {}
    <3>1. c \in open BY <1>3, Zenon DEF Handle
    <3> QED BY <3>1
  <2>2. /\ pc' = pc /\ listener' = listener /\ open' = open
        /\ handlers' = handlers /\ outcome' = outcome
        BY <1>3, <2>1, Zenon DEF Handle
  <2>3. /\ requests \in Nat /\ requests' = requests + 1
        /\ requests' \in 0..MaxRequests /\ requests' # 0
    <3>1. requests < MaxRequests /\ requests' = requests + 1
          BY <1>3, Zenon DEF Handle
    <3> QED BY <3>1, BrowserAssumption
  <2>4. code' = first' /\ code' \in Requests
        BY <1>3, <2>3 DEF Handle, Settle, Requests
  <2>5. outcome = "callback" => code' = "callback"
        BY <1>3 DEF Handle, Settle
  <2>6. code' # "unsettled" BY <2>4 DEF Requests
  <2> QED BY <2>2, <2>3, <2>4, <2>5, <2>6
<1> QED BY <1>1, <1>2, <1>3

THEOREM BrowserInvariant == BSpec => []BInv
<1>1. BInv /\ [BNext]_bvars => BInv'
  <2>1. BInv /\ UNCHANGED bvars => BInv'
        BY DEF bvars, BInv, BTypeOK, NothingLeftListening, NeverCrashes
  <2> QED BY <2>1, BInvAdvance, BInvRequests DEF BNext
<1> QED BY <1>1, BInvInit, PTL DEF BSpec

\* The tokens are asked for with the code of the first request, which matched.
THEOREM FirstMatchAlways == BSpec => []OnlyTheFirstMatch
<1>1. BInv => OnlyTheFirstMatch
      BY DEF BInv, BTypeOK, OnlyTheFirstMatch, Requests
<1> QED BY <1>1, BrowserInvariant, PTL

\* A login that has ended has let go of its socket and connections.
THEOREM NothingLeft == BSpec => []NothingLeftListening
<1>1. BInv => NothingLeftListening BY DEF BInv
<1> QED BY <1>1, BrowserInvariant, PTL

\* No request ends the process, however early it comes: whoever can send one came
\* through a socket that was opened after the handler was attached.
THEOREM NoCrash == BSpec => []NeverCrashes
<1>1. BInv => NeverCrashes BY DEF BInv
<1> QED BY <1>1, BrowserInvariant, PTL

-----------------------------------------------------------------------------
(* With a device code *)

\* The limits are numbers.
LEMMA Sizes ==
  /\ SlowDown \in Nat /\ MaxTimer \in Nat /\ MaxTimer > 0 /\ Timeout \in Nat
  /\ MaxLeft \in Nat /\ MaxSet \in Nat
BY PollingAssumption

\* What the arithmetic of a sleep comes to.
LEMMA Sleeps ==
  ASSUME NEW x \in 1..MaxTimer, NEW y \in Nat
  PROVE  /\ Smaller(x, y) \in Nat
         /\ Smaller(x, y) <= MaxTimer
         /\ y > 0 => Wait(Smaller(x, y)) \in 1..MaxTimer
         /\ x < y => Wait(Smaller(x, y)) = x
BY Sizes DEF Smaller, Wait

LEMMA InitPollInv == DInit => PollInv
<1> SUFFICES ASSUME DInit PROVE PollInv
  OBVIOUS
<1>1. interval \in 1..MaxTimer /\ left \in 1..MaxLeft
  BY PollingAssumption DEF DInit
<1>2. DTypeOK
  BY <1>1, Sizes DEF DInit, DTypeOK, Longest, Ended
<1> QED
  BY <1>1, <1>2, Sizes DEF DInit, PollInv, Longest

LEMMA NextPollInv == PollInv /\ [DNext]_dvars => PollInv'
<1> SUFFICES ASSUME PollInv, [DNext]_dvars PROVE PollInv'
  OBVIOUS
<1> USE Sizes DEF PollInv, DTypeOK, Ended, Longest, server, Next
<1>1. CASE Expire
  BY <1>1 DEF Expire
<1>2. CASE Poll
  BY <1>2 DEF Poll
<1>3. CASE Conclude
  BY <1>3 DEF Conclude
<1>4. CASE GoOn
  <2> DEFINE n == Next(interval)
  <2>1. CASE n > MaxTimer
    BY <1>4, <2>1 DEF GoOn, Asked
  <2>2. CASE n <= MaxTimer
    <3>1. /\ at = "await" /\ interval' = n /\ SleepFor(n)
          /\ UNCHANGED <<left, elapsed, demanded, grant, answer, set>>
      BY <1>4, <2>2 DEF GoOn, Asked
    <3>2. n \in 1..MaxTimer /\ demanded = n
      BY <2>2, <3>1
    <3>3. CASE left = 0
      BY <3>1, <3>2, <3>3 DEF SleepFor
    <3>4. CASE left > 0
      <4>1. /\ timer' = Wait(Smaller(n, left))
            /\ at' = IF n >= left THEN "last_sleep" ELSE "sleep"
        BY <3>1, <3>4 DEF SleepFor
      <4>2. /\ Wait(Smaller(n, left)) \in 1..MaxTimer
            /\ n < left => Wait(Smaller(n, left)) = n
        <5>1. left \in Nat
          OBVIOUS
        <5> HIDE DEF n, PollInv
        <5> QED
          BY <3>2, <3>4, <5>1, Sleeps
      <4> QED
        BY <3>1, <3>2, <4>1, <4>2
    <3> QED
      BY <3>3, <3>4
  <2> QED
    BY <2>1, <2>2
<1>5. CASE Wake
  BY <1>5 DEF Wake
<1>6. CASE Tick
  BY <1>6 DEF Tick, Smaller
<1>7. CASE SetClock
  BY <1>7 DEF SetClock
<1>8. CASE Decide
  BY <1>8 DEF Decide
<1>9. CASE Serve
  BY <1>9 DEF Serve, Smaller
<1>10. CASE UNCHANGED dvars
  BY <1>10 DEF dvars
<1> QED
  BY <1>1, <1>2, <1>3, <1>4, <1>5, <1>6, <1>7, <1>8, <1>9, <1>10 DEF DNext, Step

\* The inductive invariant holds of every behaviour.
THEOREM PollingInvariant == DSpec => []PollInv
BY InitPollInv, NextPollInv, PTL DEF DSpec

\* A poll is only ever sent from the check, where the interval has passed.
LEMMA PollsInTime ==
  PollInv /\ [DNext]_dvars => [at' = "await" /\ at # "await" => elapsed >= demanded]_dvars
BY DEF PollInv, DTypeOK, Ended, DNext, Step, Expire, Poll, Conclude, GoOn, Asked,
       SleepFor, Wake, Tick, SetClock,
       Decide, Serve, dvars, server

\* No poll is faster than the server asked, slow_downs included.
THEOREM NeverPollsTooFast == DSpec => NeverTooFast
BY PollingInvariant, PollsInTime, PTL DEF DSpec, NeverTooFast

-----------------------------------------------------------------------------
\* The last sleep lasts until the deadline, as long as the clock is not set.
DeadlineInv ==
  /\ at = "last_sleep" /\ set = 0 => left <= timer
  /\ ExpiredInTime

LEMMA NextDeadlineInv == PollInv /\ DeadlineInv /\ [DNext]_dvars => DeadlineInv'
<1> SUFFICES ASSUME PollInv, DeadlineInv, [DNext]_dvars PROVE DeadlineInv'
  OBVIOUS
<1> USE Sizes DEF DeadlineInv, ExpiredInTime
<1>1. left \in Nat /\ timer \in Nat /\ set \in Nat /\ interval \in 1..MaxTimer
  BY DEF PollInv, DTypeOK
<1>2. CASE Expire
  BY <1>2 DEF Expire
<1>3. CASE Poll
  BY <1>3 DEF Poll
<1>4. CASE Conclude
  BY <1>4 DEF Conclude
<1>5. CASE GoOn
  <2>1. CASE at' = "too_slow"
    BY <2>1
  <2>2. CASE Next(interval) <= MaxTimer /\ SleepFor(Next(interval)) /\ UNCHANGED left
    <3>1. Next(interval) \in Nat
      BY <1>1 DEF Next
    <3>2. Next(interval) >= left => Wait(Smaller(Next(interval), left)) = left
      BY <1>1, <2>2, <3>1 DEF Wait, Smaller
    <3> QED
      BY <1>1, <2>2, <3>1, <3>2 DEF SleepFor
  <2> QED
    BY <1>5, <2>1, <2>2 DEF GoOn
<1>6. CASE Wake
  BY <1>1, <1>6 DEF Wake
<1>7. CASE Tick
  BY <1>1, <1>7 DEF Tick
<1>8. CASE SetClock
  BY <1>1, <1>8 DEF SetClock
<1>9. CASE Decide \/ Serve \/ UNCHANGED dvars
  BY <1>9 DEF Decide, Serve, dvars
<1> QED
  BY <1>2, <1>3, <1>4, <1>5, <1>6, <1>7, <1>8, <1>9 DEF DNext, Step

\* A code is reported expired only when it is, unless the clock was set.
THEOREM ExpiresInTime == DSpec => []ExpiredInTime
<1>1. DInit => DeadlineInv
  BY DEF DInit, DeadlineInv, ExpiredInTime
<1>2. DeadlineInv => ExpiredInTime
  BY DEF DeadlineInv
<1> QED
  BY <1>1, <1>2, NextDeadlineInv, PollingInvariant, PTL DEF DSpec
=============================================================================
