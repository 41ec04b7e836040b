--------------------------- MODULE ProfileSession ---------------------------
(***************************************************************************)
(* Commands of one profile, from the profile lock they take to the grant   *)
(* they leave behind: auth login (cli.ts:442), auth logout (cli.ts:400)    *)
(* and every command that uses a session and may have to refresh it first  *)
(* (agent-client.ts:65), each running its store operations on              *)
(* CredentialStore and its token requests on an authorization server.      *)
(*                                                                         *)
(* A grant is what a login obtains: a family of refresh tokens of which    *)
(* one is valid at a time, since each refresh consumes it and hands out    *)
(* the next.  A response may be lost after the request took effect.        *)
(* Credentials are bound ones; records from before the binding and file    *)
(* mode are left to CredentialStore.                                       *)
(***************************************************************************)
EXTENDS CredentialStore, Sequences

CONSTANTS
  Main,      \* the profile
  MaxTokens  \* bound: refresh tokens the server hands out in a behaviour

ASSUME SessionAssumption ==
  Profiles = {Main} /\ LegacyTokens = {} /\ MaxTokens \in Nat

VARIABLES
  profileLock, \* .profile-<name>.lock: its owner, or Free, or Abandoned
  step,        \* where each command is
  command,     \* which command it is
  hand,        \* the new token a command has got and not yet settled
  payload,     \* the token saved under each storage generation, 0 for none
  grant,       \* server: the grant of each token handed out
  valid,       \* server: the tokens it honours
  astray,      \* history: grants the client may lose sight of: a response
               \* lost, a command killed, the user told to revoke it in the
               \* dashboard, or a read that overlooked it
  compensated  \* history: tokens revoked because their save had failed

session == <<profileLock, step, command, hand>>
server == <<grant, valid>>
svars == <<vars, session, payload, server, astray, compensated>>

StoreSteps == {"read", "save", "remove"}

SInit ==
  /\ Init
  /\ profileLock = Free
  /\ step = [p \in Procs |-> "idle"]
  /\ command = [p \in Procs |-> "none"]
  /\ hand = [p \in Procs |-> 0]
  /\ payload = <<>> /\ grant = <<>>
  /\ valid = {} /\ astray = {} /\ compensated = {}

TokenOf(c) == IF c.gen = 0 THEN 0 ELSE payload[c.gen]
Held(p) == TokenOf(seen[p])     \* the token the command read from the store
Family(t) == {u \in DOMAIN grant : grant[u] = grant[t]}
Live == {grant[t] : t \in valid}
Reachable == {grant[TokenOf(c)] : c \in Selectable(Main)}

At(p, s) == step[p] = s /\ pc[p] = "idle"
Move(p, s) == step' = [step EXCEPT ![p] = s]

\* The command's result is settled: only its profile lock is left to remove.
Finish(p) ==
  /\ Move(p, "unlock")
  /\ hand' = [hand EXCEPT ![p] = 0]

\* The process ends: nothing of its variables is left.
Exit(p) ==
  /\ Move(p, "idle")
  /\ command' = [command EXCEPT ![p] = "none"]
  /\ outcome' = [outcome EXCEPT ![p] = "ok"]
  /\ seen' = [seen EXCEPT ![p] = NoCredential]
  /\ UNCHANGED <<storage, owner, pc, op, target, generation, issued, history>>

\* A store operation starts; CredentialStore's own variables change.
Operate(p, o) == Call(p, o, Main) /\ Move(p, o)

-----------------------------------------------------------------------------
(* The profile lock around the whole command *)

Start(p, k) ==
  /\ At(p, "idle") /\ Move(p, "lock")
  /\ command' = [command EXCEPT ![p] = k]
  /\ UNCHANGED <<vars, profileLock, hand, payload, server, astray, compensated>>

\* Variant: a command that finds the lock taken goes on all the same.
EnterAnyway(p) ==
  /\ At(p, "lock")
  /\ profileLock' = p
  /\ Operate(p, "read")
  /\ UNCHANGED <<command, hand, payload, server, astray, compensated>>

Enter(p) ==
  /\ At(p, "lock") /\ profileLock = Free
  /\ profileLock' = p
  /\ Operate(p, "read")
  /\ UNCHANGED <<command, hand, payload, server, astray, compensated>>

\* The lock stayed taken for all retries, or could not be made.
Busy(p) ==
  /\ At(p, "lock") /\ Exit(p)
  /\ UNCHANGED <<profileLock, hand, payload, server, astray, compensated>>

\* A lock that cannot be removed only adds a warning to the result.
Unlock(p) ==
  /\ At(p, "unlock") /\ Exit(p)
  /\ profileLock' \in {Free, Abandoned}
  /\ UNCHANGED <<hand, payload, server, astray, compensated>>

\* One step of the store operation the command awaits.
StoreStep(p) ==
  /\ step[p] \in StoreSteps /\ pc[p] # "idle"
  /\ Transact(p)
  /\ payload' = IF issued' = issued THEN payload
                ELSE Append(payload, IF op[p] = "save" THEN hand[p] ELSE 0)
  /\ UNCHANGED <<session, server, astray, compensated>>

-----------------------------------------------------------------------------
(* What the command does with what it read *)

ReadFailed(p) ==
  /\ At(p, "read") /\ outcome[p] # "ok"
  /\ Finish(p)
  /\ UNCHANGED <<vars, profileLock, command, payload, server, astray, compensated>>

\* No record: a login goes on to a new authorization, a logout to the removal,
\* whatever the store may still hold behind an unavailable keychain.
FoundNothing(p) ==
  /\ At(p, "read") /\ outcome[p] = "ok" /\ Held(p) = 0
  /\ CASE command[p] = "login" -> Move(p, "authorize") /\ UNCHANGED <<vars, hand>>
       [] command[p] = "logout" -> Operate(p, "remove") /\ UNCHANGED hand
       [] OTHER -> Finish(p) /\ UNCHANGED vars
  /\ astray' = astray \cup Reachable
  /\ UNCHANGED <<profileLock, command, payload, server, compensated>>

FoundRecord(p) ==
  /\ At(p, "read") /\ outcome[p] = "ok" /\ Held(p) # 0
  /\ Move(p, CASE command[p] = "login" -> "revokePrevious"
               [] command[p] = "logout" -> "revoke"
               [] OTHER -> "use")
  /\ UNCHANGED <<vars, profileLock, command, hand, payload, server, astray, compensated>>

\* Revoking a refresh token ends its family.  Anything short of a confirmation
\* is a failure, with or without the effect.
Revoked(t) == valid' = valid \ Family(t) /\ UNCHANGED grant

RevokePrevious(p) ==
  /\ At(p, "revokePrevious")
  /\ \/ Revoked(Held(p)) /\ Move(p, "authorize") /\ UNCHANGED hand
     \/ Finish(p) /\ (Revoked(Held(p)) \/ UNCHANGED server)
  /\ UNCHANGED <<vars, profileLock, command, payload, astray, compensated>>

Revoke(p) ==
  /\ At(p, "revoke")
  /\ \/ Revoked(Held(p)) /\ Operate(p, "remove") /\ UNCHANGED hand
     \/ Finish(p) /\ (Revoked(Held(p)) \/ UNCHANGED server) /\ UNCHANGED vars
  /\ UNCHANGED <<profileLock, command, payload, astray, compensated>>

\* The server hands out a token of grant g in place of those of spent.
Mint(g, spent) ==
  /\ Len(grant) < MaxTokens
  /\ grant' = Append(grant, g)
  /\ valid' = (valid \ spent) \cup {Len(grant')}

\* The browser or device flow ends in a token set, which is saved at once; in
\* nothing; or in a token set that never arrives.
Authorize(p) ==
  /\ At(p, "authorize")
  /\ \/ /\ Mint(Len(grant) + 1, {})
        /\ hand' = [hand EXCEPT ![p] = Len(grant')]
        /\ Operate(p, "save") /\ UNCHANGED astray
     \/ Finish(p) /\ UNCHANGED <<vars, server, astray>>
     \/ /\ Mint(Len(grant) + 1, {})
        /\ astray' = astray \cup {Len(grant')}
        /\ Finish(p) /\ UNCHANGED vars
  /\ UNCHANGED <<profileLock, command, payload, compensated>>

\* The access token is still good, or the refresh is refused, fails, or brings
\* no new refresh token.
NotRefreshed(p) ==
  /\ At(p, "use") /\ Finish(p)
  /\ UNCHANGED <<vars, profileLock, command, payload, server, astray, compensated>>

\* The refresh consumes the token that was read; its successor is saved before
\* anything else is requested, unless the response is lost.
Refresh(p) ==
  /\ At(p, "use") /\ Held(p) \in valid
  /\ Mint(grant[Held(p)], {Held(p)})
  /\ \/ /\ hand' = [hand EXCEPT ![p] = Len(grant')]
        /\ Operate(p, "save") /\ UNCHANGED astray
     \/ /\ astray' = astray \cup {grant[Held(p)]}
        /\ Finish(p) /\ UNCHANGED vars
  /\ UNCHANGED <<profileLock, command, payload, compensated>>

\* Variant: a cleanup failure after the save counts as a failed save.
SaveEndedAny(p) ==
  /\ At(p, "save")
  /\ \/ outcome[p] = "ok" /\ Finish(p) /\ UNCHANGED astray
     \/ outcome[p] # "ok" /\ Move(p, "compensate") /\ UNCHANGED <<hand, astray>>
  /\ UNCHANGED <<vars, profileLock, command, payload, server, compensated>>

\* Saved, or saved but for a cleanup: the token stays.  Uncertain: the user is
\* told to revoke it.  Failed: it is revoked now.
SaveEnded(p) ==
  /\ At(p, "save")
  /\ \/ outcome[p] \in {"ok", "committed"} /\ Finish(p) /\ UNCHANGED astray
     \/ /\ outcome[p] = "uncertain" /\ Finish(p)
        /\ astray' = astray \cup {grant[hand[p]]}
     \/ outcome[p] = "plain" /\ Move(p, "compensate") /\ UNCHANGED <<hand, astray>>
  /\ UNCHANGED <<vars, profileLock, command, payload, server, compensated>>

\* Variant: an unconfirmed compensation is reported as if it were confirmed.
CompensateQuietly(p) ==
  /\ At(p, "compensate") /\ Finish(p)
  /\ compensated' = compensated \cup {hand[p]}
  /\ Revoked(hand[p]) \/ UNCHANGED server
  /\ UNCHANGED <<vars, profileLock, command, payload, astray>>

\* An unconfirmed revocation sends the user to the dashboard.
Compensate(p) ==
  /\ At(p, "compensate") /\ Finish(p)
  /\ compensated' = compensated \cup {hand[p]}
  /\ \/ Revoked(hand[p]) /\ UNCHANGED astray
     \/ /\ Revoked(hand[p]) \/ UNCHANGED server
        /\ astray' = astray \cup {grant[hand[p]]}
  /\ UNCHANGED <<vars, profileLock, command, payload>>

Removed(p) ==
  /\ At(p, "remove") /\ Finish(p)
  /\ UNCHANGED <<vars, profileLock, command, payload, server, astray, compensated>>

-----------------------------------------------------------------------------
(* Kills, and the operator *)

Kill(p) ==
  /\ step[p] # "idle"
  /\ IF pc[p] = "idle" THEN Exit(p)
     ELSE Crash(p) /\ Move(p, "idle") /\ command' = [command EXCEPT ![p] = "none"]
  /\ profileLock' = IF profileLock = p THEN Abandoned ELSE profileLock
  /\ hand' = [hand EXCEPT ![p] = 0]
  /\ astray' = IF hand[p] = 0 THEN astray ELSE astray \cup {grant[hand[p]]}
  /\ UNCHANGED <<payload, server, compensated>>

RemoveProfileLock ==
  /\ profileLock = Abandoned /\ profileLock' = Free
  /\ UNCHANGED <<vars, step, command, hand, payload, server, astray, compensated>>

RemoveStoreLock ==
  /\ RemoveAbandonedLock
  /\ UNCHANGED <<session, payload, server, astray, compensated>>

Advance(p) ==
  \/ Enter(p) \/ Busy(p) \/ Unlock(p) \/ StoreStep(p)
  \/ ReadFailed(p) \/ FoundNothing(p) \/ FoundRecord(p)
  \/ RevokePrevious(p) \/ Revoke(p) \/ Authorize(p)
  \/ NotRefreshed(p) \/ Refresh(p) \/ SaveEnded(p) \/ Compensate(p) \/ Removed(p)

SNext ==
  \/ \E p \in Procs : Advance(p) \/ Kill(p)
  \/ \E p \in Procs, k \in {"login", "logout", "use"} : Start(p, k)
  \/ RemoveProfileLock \/ RemoveStoreLock

SSpec == SInit /\ [][SNext]_svars

-----------------------------------------------------------------------------
(* Properties *)

\* No grant is left behind in silence: each one the server honours is held by
\* the store, or is being dealt with by a running command, or went astray in
\* one of the ways the client cannot help or tells its user about.
NoSilentOrphan ==
  Live \subseteq Reachable \cup astray
                 \cup {grant[hand[p]] : p \in {q \in Procs : hand[q] # 0}}

\* A token revoked because its save had failed is never read again, and so
\* what a save kept is never revoked (README.md:172-174, agent-client.ts:95-105).
CompensatedNeverRead ==
  \A c \in Selectable(Main) : TokenOf(c) \notin compensated

\* A command about to refresh holds its grant's newest token, so that no token
\* is presented twice: nobody rotated it since it was read.
NewestTokenInUse ==
  \A p \in Procs : step[p] = "use" /\ grant[Held(p)] \in Live \ astray => Held(p) \in valid

\* The documented order of a repeated login: a grant whose user was told that
\* it was saved and retained is retired before a new authorization starts.
RetiresBeforeReplacing ==
  \A p \in Procs : step[p] = "authorize" /\ promise[Main].kind = "held" =>
    grant[payload[promise[Main].gen]] \notin Live
=============================================================================
