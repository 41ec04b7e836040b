---------------------- MODULE ProfileSessionInvariant ----------------------
(***************************************************************************)
(* The inductive invariant of ProfileSession.  Its properties speak of the *)
(* grants a read would find; to be inductive they need whose turn it is,   *)
(* which token each storage generation carries, and where the token of a   *)
(* save in progress is.                                                    *)
(***************************************************************************)
EXTENDS ProfileSession, CredentialStoreInvariant

Steps == StoreSteps \cup
  {"idle", "lock", "unlock", "revokePrevious", "revoke", "authorize", "use", "compensate"}

Tokens == 1..Len(grant)

\* The server numbers grants no faster than tokens; each generation of the
\* store has a payload.
SessionTypeOK ==
  /\ profileLock \in Procs \cup {Free, Abandoned}
  /\ step \in [Procs -> Steps]
  /\ command \in [Procs -> {"none", "login", "logout", "use"}]
  /\ hand \in [Procs -> Nat]
  /\ payload \in Seq(Nat) /\ Len(payload) = issued
  /\ grant \in Seq(Nat) /\ \A t \in Tokens : grant[t] \in 1..t
  /\ valid \subseteq Tokens /\ compensated \subseteq Tokens

\* Commands take turns: only the profile lock's owner is past its first step,
\* in the store, or has a new token in hand.
TurnInv ==
  \A p \in Procs :
    /\ step[p] \notin {"idle", "lock"} => profileLock = p
    /\ pc[p] # "idle" => step[p] \in StoreSteps /\ op[p] = step[p]
    /\ IF step[p] \in {"save", "compensate"} THEN hand[p] \in Tokens ELSE hand[p] = 0

\* Nobody writes records of another kind: each one has its generation.
BoundInv ==
  /\ \A c \in {native[Main], file[Main]} : c.gen = 0 => c = NoCredential
  /\ ~tainted[Main]

\* What a read may find is a token.
PayloadInv == \A c \in Selectable(Main) : c.gen \in 1..issued /\ payload[c.gen] \in Tokens

\* A command works with what a read would still find.
SeenInv ==
  \A p \in Procs :
    /\ step[p] \in {"read", "use", "revoke", "revokePrevious"} =>
         seen[p] \in Selectable(Main) \cup {NoCredential}
    /\ step[p] \in {"use", "revoke", "revokePrevious"} => Held(p) # 0

\* A token is carried by these generations only.
CarriedBy(t, generations) == \A g \in 1..issued : payload[g] = t => g \in generations

\* The token in hand is good, and in the store under its save's generation only,
\* which is what the save's outcome speaks of.
InHand(p) ==
  /\ hand[p] \in valid \ compensated
  /\ pc[p] = "lock" => CarriedBy(hand[p], {})
  /\ pc[p] \in InLock =>
       CarriedBy(hand[p], {generation[p]}) /\ payload[generation[p]] = hand[p]
  /\ pc[p] = "idle" /\ outcome[p] = "plain" => CarriedBy(hand[p], refused)
  /\ step[p] = "compensate" => outcome[p] = "plain"
  /\ pc[p] = "idle" /\ outcome[p] \in {"ok", "committed"} =>
       promise[Main].kind = "held" /\ payload[promise[Main].gen] = hand[p]

HandInv == \A p \in Procs : step[p] \in {"save", "compensate"} => InHand(p)

\* Only tokens handed out are carried, a compensated one by refused generations.
CarriedInv ==
  /\ \A g \in 1..issued : payload[g] \in Tokens \cup {0}
  /\ \A t \in compensated : CarriedBy(t, refused)

\* Whoever is about to replace or to remove what a read finds has ended its grant,
\* lost sight of it, or has a newer token of it in hand.
ReplaceInv ==
  \A p \in Procs :
    /\ step[p] \in {"authorize", "remove"} => Reachable \cap Live \subseteq astray
    /\ step[p] = "save" => Reachable \cap Live \subseteq astray \cup {grant[hand[p]]}

\* What a read finds is its grant's good token, unless a newer one is in hand.
NewestInv ==
  \A c \in Selectable(Main) :
    LET t == TokenOf(c)
    IN  \/ grant[t] \notin Live \ astray
        \/ t \in valid
        \/ \E p \in Procs : hand[p] # 0 /\ grant[hand[p]] = grant[t]

SInv ==
  /\ SessionTypeOK /\ TurnInv /\ BoundInv /\ PayloadInv /\ SeenInv
  /\ HandInv /\ CarriedInv /\ ReplaceInv /\ NewestInv /\ NoSilentOrphan
=============================================================================
