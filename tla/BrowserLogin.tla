---------------------------- MODULE BrowserLogin ----------------------------
(***************************************************************************)
(* auth login in a browser: loginWithBrowser of auth-session.ts with the   *)
(* loopback listener of loopback.ts.  While the login registers a client,  *)
(* opens the browser and waits, connections come and go at the listener    *)
(* and send requests: the callback, or anything else.  The first request   *)
(* settles the code.  Node ends a process in which a promise is rejected   *)
(* that nothing has attached a handler to.                                 *)
(***************************************************************************)
EXTENDS Naturals, FiniteSets

CONSTANTS
  Connections, \* connections to the listener
  MaxRequests  \* bound: requests they send in all

ASSUME BrowserAssumption == MaxRequests \in Nat \ {0}

VARIABLES
  pc,       \* the step of the login
  listener, \* the listening socket: unopened, open, closing or closed
  open,     \* connections that are established
  code,     \* the promise of the code: unsettled, or what settled it
  handlers, \* who has attached a handler to its rejection
  outcome,  \* what awaitCode's race came to
  first,    \* history: what the first request was
  requests  \* history: number of requests

bvars == <<pc, listener, open, code, handlers, outcome, first, requests>>

Requests == {"callback", "denial", "other"}  \* matching with a code, or with
                                             \* an error; or not matching
BrowserEnded == {"done", "failed", "crashed"}

BTypeOK ==
  /\ pc \in {"discover", "listen", "opening", "register", "launch", "await", "release", "exchange"} \cup BrowserEnded
  /\ listener \in {"unopened", "open", "closing", "closed"}
  /\ open \subseteq Connections
  /\ code \in Requests \cup {"unsettled"}
  /\ handlers \subseteq {"openLoopbackCallback", "awaitCode"}
  /\ outcome \in Requests \cup {"none", "timeout", "abandoned"}
  /\ first \in Requests \cup {"none"}
  /\ requests \in 0..MaxRequests
  /\ code = "unsettled" <=> requests = 0
  /\ open # {} => listener \in {"open", "closing"}

BInit ==
  /\ pc = "discover" /\ listener = "unopened" /\ open = {}
  /\ code = "unsettled" /\ handlers = {} /\ outcome = "none"
  /\ first = "none" /\ requests = 0

Goto(from, to) == pc = from /\ pc' = to

-----------------------------------------------------------------------------
(* loginWithBrowser *)

\* The metadata; a failure here leaves nothing behind.
Discover ==
  /\ Goto("discover", "listen") \/ Goto("discover", "failed")
  /\ UNCHANGED <<listener, open, code, handlers, outcome, first, requests>>

\* Variant: nothing is attached to the code until the login waits for it.
ListenUnobserved ==
  /\ Goto("listen", "opening")
  /\ UNCHANGED <<listener, open, code, handlers, outcome, first, requests>>

\* openLoopbackCallback makes the promise, asks for a socket and attaches its
\* own handler, all before anything else runs.
Listen ==
  /\ Goto("listen", "opening")
  /\ handlers' = {"openLoopbackCallback"}
  /\ UNCHANGED <<listener, open, code, outcome, first, requests>>

\* The socket opens, or there is none; from here on requests may come.
Opened ==
  /\ \/ Goto("opening", "register") /\ listener' = "open"
     \/ Goto("opening", "failed") /\ UNCHANGED listener
  /\ UNCHANGED <<open, code, handlers, outcome, first, requests>>

\* The client is registered, and the browser opened at the authorization URL.
Register ==
  /\ Goto("register", "launch")
  /\ UNCHANGED <<listener, open, code, handlers, outcome, first, requests>>

\* With the browser open the login waits: awaitCode races the code, and so has
\* a handler on it too.
Launch ==
  /\ Goto("launch", "await")
  /\ handlers' = handlers \cup {"awaitCode"}
  /\ UNCHANGED <<listener, open, code, outcome, first, requests>>

\* The listener stops; idle connections end with it.
StartClosing == listener' = "closing"

\* Variant: a failed preparation leaves the listener to itself.
AbandonOpen ==
  /\ pc \in {"register", "launch"} /\ pc' = "failed"
  /\ outcome' = "abandoned"
  /\ UNCHANGED <<listener, open, code, handlers, first, requests>>

\* Registration or the browser failed: close the listener, then fail.
Abandon ==
  /\ pc \in {"register", "launch"} /\ pc' = "release"
  /\ outcome' = "abandoned" /\ StartClosing
  /\ UNCHANGED <<open, code, handlers, first, requests>>

\* awaitCode: whatever has settled the code, even before the login waits for
\* it, or the five minutes.  The listener is closed either way.
AwaitCode ==
  /\ Goto("await", "release")
  /\ code # "unsettled"
  /\ outcome' = code /\ StartClosing
  /\ UNCHANGED <<open, code, handlers, first, requests>>

TimeOut ==
  /\ Goto("await", "release")
  /\ code = "unsettled"
  /\ outcome' = "timeout" /\ StartClosing
  /\ UNCHANGED <<open, code, handlers, first, requests>>

\* Variant: closing waits for the connections however long they stay.
CloseUnforced ==
  /\ pc = "release" /\ open = {}
  /\ listener' = "closed" /\ UNCHANGED open
  /\ pc' = IF outcome = "callback" THEN "exchange" ELSE "failed"
  /\ UNCHANGED <<code, handlers, outcome, first, requests>>

\* closeServer: when the connections are gone, or after a second without them.
Close ==
  /\ pc = "release"
  /\ listener' = "closed" /\ open' = {}
  /\ pc' = IF outcome = "callback" THEN "exchange" ELSE "failed"
  /\ UNCHANGED <<code, handlers, outcome, first, requests>>

\* The code is exchanged for tokens, which must include a refresh token.
Exchange ==
  /\ Goto("exchange", "done") \/ Goto("exchange", "failed")
  /\ UNCHANGED <<listener, open, code, handlers, outcome, first, requests>>

-----------------------------------------------------------------------------
(* The browser, and anything else on the machine (external) *)

Connect(c) ==
  /\ listener = "open" /\ c \notin open
  /\ open' = open \cup {c}
  /\ UNCHANGED <<pc, listener, code, handlers, outcome, first, requests>>

Disconnect(c) ==
  /\ c \in open
  /\ open' = open \ {c}
  /\ UNCHANGED <<pc, listener, code, handlers, outcome, first, requests>>

-----------------------------------------------------------------------------
(* The request handler of openLoopbackCallback *)

\* Variant: each request settles the code anew.
SettleAgain(r) == code' = r

\* A promise is settled once.
Settle(r) == code' = IF code = "unsettled" THEN r ELSE code

\* A rejection without a handler ends the process.
Handle(c, r) ==
  /\ c \in open /\ requests < MaxRequests
  /\ requests' = requests + 1
  /\ first' = IF requests = 0 THEN r ELSE first
  /\ Settle(r)
  /\ pc' = IF code = "unsettled" /\ r # "callback" /\ handlers = {} THEN "crashed" ELSE pc
  /\ UNCHANGED <<listener, open, handlers, outcome>>

Advance ==
  \/ Discover \/ Listen \/ Opened \/ Register \/ Launch \/ Abandon
  \/ AwaitCode \/ TimeOut \/ Close \/ Exchange

BNext ==
  \/ Advance
  \/ \E c \in Connections :
       Connect(c) \/ Disconnect(c) \/ \E r \in Requests : Handle(c, r)

\* The socket opens or fails, requests and timers complete; that the browser does anything is not assumed.
BSpec == BInit /\ [][BNext]_bvars /\ WF_bvars(Advance)

-----------------------------------------------------------------------------
(* Properties *)

\* Tokens are only asked for with the code of a callback that matches this
\* login, and only if no other request came before it.
OnlyTheFirstMatch == pc \in {"exchange", "done"} => first = "callback" /\ outcome = "callback"

\* A login that has ended, or is done with the browser, listens no more and
\* holds no connection that would keep the process alive.
NothingLeftListening ==
  pc \in {"exchange", "done", "failed"} => listener \in {"unopened", "closed"} /\ open = {}

\* Requests that come before the login waits for them, or after it has given up
\* without ever waiting, do not end the process: the catch of
\* openLoopbackCallback is in place before any of them (void code.catch).
NeverCrashes == pc # "crashed"

\* Every browser login ends, whether or not a callback ever comes and however
\* long a connection stays open.
BrowserLoginEnds == <>(pc \in BrowserEnded)
=============================================================================
