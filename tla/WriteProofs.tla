---------------------------- MODULE WriteProofs ----------------------------
(***************************************************************************)
(* The two ends of a write: its private input and its outcome.  A read     *)
(* gives the terminal its mode back however it ends, and what it returns   *)
(* is what was sent, piped or typed and however it is cut into pieces, for *)
(* any letters, sizes and limits.  What the user is told of a write is so, *)
(* what is made was asked for, and a lookup settles what the answer would  *)
(* have, for each of the ten operations.                                   *)
(***************************************************************************)
EXTENDS WriteInput, WriteOutcome, SequenceTheorems, FiniteSetTheorems,
        WellFoundedInduction, TLAPS

-----------------------------------------------------------------------------
(* The outcome: WriteOutcome *)

Early == {"preview", "review"}

\* What the operation's validators make sure of in a preview.
IsAsked(a) ==
  /\ op \notin Crm => a.op = op
  /\ op # "quote_create" => a.resource = "asked"
  /\ op \in {"service_transition", "service_create", "service_deliver"} => a.target = "asked"

\* How far the three commands have come.
StageInv ==
  /\ op \in Writes /\ at \in Early \cup {"execute", "rest", "status"}
  /\ flight \in BOOLEAN
  /\ at # "preview" => shown # Nothing /\ IsAsked(shown)
  /\ at \in Early => flight = FALSE /\ journal.state = "unknown"
  /\ at \in Early \cup {"execute"} => verdict = "none" /\ exit = 0
  /\ at # "rest" => heard = Nothing
  /\ at = "rest" => verdict \in {"done", "failed", "doubtful"}
  /\ at = "status" => verdict = "doubtful"

\* What the server's journal has recorded is what it did.
JournalInv ==
  /\ journal = [state |-> journal.state, outcome |-> journal.outcome]
  /\ flight = TRUE => journal.state = "unknown"
  /\ journal.state = "unknown" => applied = Nothing
  /\ applied \in {Nothing, shown}
  /\ journal.state = "succeeded" =>
       applied = shown /\ \E d \in DataDefects : journal.outcome = Success(rule.status, d)
  /\ journal.state = "failed" =>
       /\ applied = Nothing
       /\ \E s \in {400, 429, 503}, c \in ServerCodes \ Uncertain : journal.outcome = Failure(s, c)

\* The execution is never made: it is recorded as failed, or was turned down.
Never == journal.state = "failed" \/ (journal.state = "unknown" /\ flight = FALSE)

\* What verdict and exit status rest on.
VerdictInv ==
  /\ verdict = "done" => journal.state = "succeeded"
  /\ verdict = "failed" => Never
  /\ exit = 7 => verdict = "failed"
  /\ LookupAgrees

OutcomeInv == StageInv /\ JournalInv /\ VerdictInv

\* The status a success of each operation has.
LEMMA Statuses ==
  ASSUME op \in Writes
  PROVE  rule.status \in {200, 201}
BY DEF Writes, Crm, rule, Rule, customer_update, lead_update, quote_create, quote_update,
       quote_accept, quote_decline, service_create, service_update, service_transition,
       service_deliver

\* What an operation binds of its preview.
LEMMA BoundIsAsked ==
  ASSUME op \in Writes, NEW a \in Changes, Bound(a)
  PROVE  a # Nothing /\ IsAsked(a)
BY DEF Changes, Nothing, Bound, IsAsked, Writes, Crm, rule, Rule, customer_update, lead_update,
       quote_create, quote_update, quote_accept, quote_decline, service_create, service_update,
       service_transition, service_deliver

\* The parts of an answer.
LEMMA Parts ==
  ASSUME NEW s, NEW x
  PROVE  /\ Success(s, x).status = s /\ Success(s, x).defect = x
         /\ Failure(s, x).status = s /\ Failure(s, x).code = x
BY DEF Success, Failure, Blank

\* What an answer is taken for: done only below the errors, failed only for an
\* error of the request that is not an uncertain one, and the exit status for a
\* retry is that of a failure.
LEMMA Conclusions ==
  ASSUME NEW r, r.status \in Nat, NEW said
  PROVE  /\ Concluded(r) \in {"done", "doubtful", "failed"}
         /\ Concluded(r) = "done" => r.status < 400
         /\ Concluded(r) = "failed" =>
              r.status >= 400 /\ r.status < 500 /\ Canonical(r.code) \notin Uncertain
         /\ Printed(r) # "success" /\ ExitCode(r.status, Printed(r), said) = 7 =>
              Concluded(r) = "failed"
<1>1. /\ r.status >= 500 => Printed(r) = "execution_ambiguous"
      /\ r.status < 500 /\ r.status >= 400 => Printed(r) = Canonical(r.code)
      /\ r.status < 400 => Printed(r) \in {"success", "execution_ambiguous"}
  BY DEF Printed
<1>2. Canonical(r.code) # "success"
  BY DEF Canonical, Codes
<1>3. ExitCode(r.status, Printed(r), said) = 7 => Printed(r) \notin Uncertain
  BY DEF ExitCode, Retryable
<1>4. "success" \notin Uncertain /\ "execution_ambiguous" \in Uncertain
  BY DEF Uncertain
<1> QED BY <1>1, <1>2, <1>3, <1>4 DEF Concluded

LEMMA InitOutcomeInv == OInit => OutcomeInv
<1> SUFFICES ASSUME OInit PROVE OutcomeInv
  OBVIOUS
<1>1. journal.state = "unknown"
  BY DEF OInit
<1>2. StageInv
  BY <1>1 DEF OInit, StageInv, Early
<1>3. JournalInv
  BY <1>1 DEF OInit, JournalInv
<1> QED BY <1>2, <1>3 DEF OInit, OutcomeInv, VerdictInv, LookupAgrees

-----------------------------------------------------------------------------
\* Lookups: what they said stays, until another is made.
LEMMA AgreesKept ==
  ASSUME LookupAgrees, UNCHANGED <<op, at, heard, verdict>>
  PROVE  LookupAgrees'
BY DEF LookupAgrees, Concluded, Printed, ValidSuccess, ValidData, rule

LEMMA AgreesUnheard ==
  ASSUME at' # "rest" \/ heard' = Nothing
  PROVE  LookupAgrees'
BY DEF LookupAgrees

\* One answered from the journal settles what the execution would have.
LEMMA AgreesHeard ==
  ASSUME OutcomeInv, AnswerStatus
  PROVE  LookupAgrees'
<1> DEFINE o == journal.outcome
           a == Entry(journal.state, o)
<1>1. /\ heard' = journal /\ verdict' = LookedUp(a) /\ op' = op
  BY DEF AnswerStatus, Hear
<1>2. /\ a.mine = TRUE /\ a.retry = FALSE /\ a.state = journal.state /\ a.outcome = o
      /\ a.reconcile = (journal.state \in {"unknown", "ambiguous"})
  BY DEF Entry
<1>3. journal.state = "succeeded" /\ Concluded(o) = "done" => LookedUp(a) = "done"
  <2> SUFFICES ASSUME journal.state = "succeeded", Concluded(o) = "done"
               PROVE  LookedUp(a) = "done"
    OBVIOUS
  <2>1. PICK d \in DataDefects : o = Success(rule.status, d)
    BY DEF OutcomeInv, JournalInv
  <2>2. o.status = rule.status /\ rule.status \in {200, 201}
    BY <2>1, Parts, Statuses DEF OutcomeInv, StageInv
  <2>3. ValidData(o.defect)
    BY <2>2 DEF Concluded, Printed, ValidSuccess, Uncertain
  <2> QED BY <1>2, <2>2, <2>3, ZenonT(30) DEF LookedUp, SettlesSuccess
<1>4. journal.state = "failed" /\ RecordedFailure(o.code) => LookedUp(a) = "failed"
  <2> SUFFICES ASSUME journal.state = "failed", RecordedFailure(o.code)
               PROVE  LookedUp(a) = "failed"
    OBVIOUS
  <2>1. PICK s \in {400, 429, 503}, c \in ServerCodes \ Uncertain : o = Failure(s, c)
    BY DEF OutcomeInv, JournalInv
  <2>2. o.status \in 400..599
    BY <2>1, Parts
  <2>3. /\ a.mine = TRUE /\ a.retry = FALSE /\ a.state = "failed" /\ a.reconcile = FALSE
        /\ a.outcome.status \in 400..599 /\ RecordedFailure(a.outcome.code)
    <3> HIDE DEF a
    <3>1. a.outcome = o /\ a.mine = TRUE /\ a.retry = FALSE /\ a.state = "failed"
      BY <1>2
    <3>2. a.reconcile = (journal.state \in {"unknown", "ambiguous"})
      BY <1>2
    <3>3. (journal.state \in {"unknown", "ambiguous"}) = FALSE
      OBVIOUS
    <3>4. a.reconcile = FALSE
      BY <3>2, <3>3, Zenon
    <3> HIDE DEF o
    <3> QED BY <2>2, <3>1, <3>4
  <2> HIDE DEF o, a
  <2> QED BY <2>3 DEF LookedUp
<1> QED
  BY <1>1, <1>3, <1>4 DEF LookupAgrees, Concluded, Printed, ValidSuccess, ValidData, rule

\* A lookup concludes from the journal alone.
LEMMA Looked ==
  ASSUME OutcomeInv
  PROVE  /\ AnswerStatus => /\ verdict' = "done" => journal.state = "succeeded"
                            /\ verdict' = "failed" => journal.state = "failed"
                            /\ verdict' \in {"done", "failed", "doubtful"}
         /\ AnswerWrongly => verdict' = "doubtful" /\ heard' = Nothing
<1>1. ASSUME AnswerStatus
      PROVE  /\ verdict' = "done" => journal.state = "succeeded"
             /\ verdict' = "failed" => journal.state = "failed"
             /\ verdict' \in {"done", "failed", "doubtful"}
  <2> DEFINE a == Entry(journal.state, journal.outcome)
  <2>1. verdict' = LookedUp(a) /\ a.state = journal.state
    BY <1>1 DEF AnswerStatus, Hear, Entry
  <2> HIDE DEF a
  <2> QED BY <2>1 DEF LookedUp
<1>2. ASSUME NEW e \in Settlements
      PROVE  /\ LookedUp([e EXCEPT !.mine = FALSE]) = "doubtful"
             /\ LookedUp([e EXCEPT !.reconcile = TRUE]) = "doubtful"
             /\ LookedUp([e EXCEPT !.retry = TRUE]) = "doubtful"
  <2>1. PICK s \in {"succeeded", "failed"} : \E o : e = Entry(s, o)
    BY DEF Settlements
  <2>2. PICK o : e = Entry(s, o)
    BY <2>1
  <2>3. [e EXCEPT !.mine = FALSE].mine = FALSE
    BY <2>2 DEF Entry
  <2>4. [e EXCEPT !.reconcile = TRUE].reconcile = TRUE /\ [e EXCEPT !.reconcile = TRUE].state = s
    BY <2>2 DEF Entry
  <2>5. [e EXCEPT !.retry = TRUE].retry = TRUE
    BY <2>2 DEF Entry
  <2> QED BY <2>3, <2>4, <2>5 DEF LookedUp
<1>3. ASSUME NEW c \in Uncertain \cup {"provider_unavailable"}
      PROVE  LookedUp(Entry("failed", Failure(409, c))) = "doubtful"
  <2>1. ~RecordedFailure(c)
    BY DEF RecordedFailure, Uncertain
  <2> QED BY <2>1, Parts DEF LookedUp, Entry
<1>4. \A e \in InDoubt : LookedUp(e) = "doubtful"
  <2> SUFFICES ASSUME NEW e \in InDoubt PROVE LookedUp(e) = "doubtful"
    OBVIOUS
  <2>1. CASE \E x \in Settlements : e = [x EXCEPT !.reconcile = TRUE]
    BY <1>2, <2>1
  <2>2. CASE \E x \in Settlements : e = [x EXCEPT !.retry = TRUE]
    BY <1>2, <2>2
  <2>3. CASE \E c \in Uncertain \cup {"provider_unavailable"} : e = Entry("failed", Failure(409, c))
    BY <1>3, <2>3
  <2> QED BY <2>1, <2>2, <2>3, Zenon DEF InDoubt
<1>5. AnswerWrongly => verdict' = "doubtful" /\ heard' = Nothing
  BY <1>2, <1>4 DEF AnswerWrongly, Hear
<1> QED BY <1>1, <1>5

-----------------------------------------------------------------------------
\* Each step, first what it leaves to be said of the journal and the verdict
\* when it touches neither.
LEMMA JournalKept ==
  ASSUME JournalInv, flight' = TRUE => flight = TRUE, UNCHANGED <<op, journal, applied, shown>>
  PROVE  JournalInv'
<1>1. rule' = rule
  BY DEF rule
<1>2. /\ journal.state = "succeeded" =>
           applied = shown /\ \E d \in DataDefects : journal.outcome = Success(rule.status, d)
      /\ journal.state = "failed" =>
           /\ applied = Nothing
           /\ \E s \in {400, 429, 503}, c \in ServerCodes \ Uncertain : journal.outcome = Failure(s, c)
  BY DEF JournalInv
<1>3. \A d : Success(rule'.status, d) = Success(rule.status, d)
  BY <1>1
<1>4. /\ journal'.state = "succeeded" =>
           applied' = shown' /\ \E d \in DataDefects : journal'.outcome = Success(rule'.status, d)
      /\ journal'.state = "failed" =>
           /\ applied' = Nothing
           /\ \E s \in {400, 429, 503}, c \in ServerCodes \ Uncertain : journal'.outcome = Failure(s, c)
  BY <1>2, <1>3
<1>5. /\ journal' = [state |-> journal'.state, outcome |-> journal'.outcome]
      /\ flight' = TRUE => journal'.state = "unknown"
      /\ journal'.state = "unknown" => applied' = Nothing
      /\ applied' \in {Nothing, shown'}
  BY DEF JournalInv
<1> QED BY <1>4, <1>5 DEF JournalInv

LEMMA PreviewOutcome == OutcomeInv /\ Preview => OutcomeInv'
<1> SUFFICES ASSUME OutcomeInv, Preview PROVE OutcomeInv'
  OBVIOUS
<1>1. /\ at = "preview" /\ UNCHANGED <<op, flight, server, heard, verdict, exit>>
      /\ \/ UNCHANGED <<at, shown>>
         \/ at' = "review" /\ \E a \in Changes : shown' = a /\ Bound(a)
  BY DEF Preview, PreviewAccepted
<1>2. /\ flight = FALSE /\ journal.state = "unknown" /\ applied = Nothing
      /\ verdict = "none" /\ exit = 0 /\ heard = Nothing
  BY <1>1 DEF OutcomeInv, StageInv, JournalInv, Early
<1>3. at' = "review" => shown' # Nothing /\ IsAsked(shown')
  <2>1. CASE at' = "review"
    <3>1. PICK a \in Changes : shown' = a /\ Bound(a)
      BY <1>1, <2>1
    <3> QED BY <3>1, BoundIsAsked DEF OutcomeInv, StageInv
  <2> QED BY <2>1
<1>4. StageInv'
  BY <1>1, <1>2, <1>3 DEF OutcomeInv, StageInv, Early, IsAsked, server
<1>5. JournalInv'
  BY <1>1, <1>2 DEF OutcomeInv, JournalInv, server
<1>6. LookupAgrees'
  BY <1>1, <1>2, AgreesUnheard
<1> QED BY <1>1, <1>2, <1>4, <1>5, <1>6 DEF OutcomeInv, VerdictInv

LEMMA ExecuteOutcome == OutcomeInv /\ Execute => OutcomeInv'
<1> SUFFICES ASSUME OutcomeInv, Execute PROVE OutcomeInv'
  OBVIOUS
<1>1. /\ at = "review" /\ at' = "execute" /\ flight' = TRUE
      /\ UNCHANGED <<op, shown, server, heard, verdict, exit>>
  BY DEF Execute
<1>2. /\ journal.state = "unknown" /\ verdict = "none" /\ exit = 0
  BY <1>1 DEF OutcomeInv, StageInv, Early
<1>3. StageInv'
  BY <1>1, <1>2 DEF OutcomeInv, StageInv, Early, IsAsked, server
<1>4. JournalInv'
  BY <1>1, <1>2 DEF OutcomeInv, JournalInv, server
<1>5. LookupAgrees'
  BY <1>1, AgreesUnheard
<1> QED BY <1>1, <1>2, <1>3, <1>4, <1>5 DEF OutcomeInv, VerdictInv

\* An answer to the execution: what it may say, and where the execution stands.
LEMMA ReceivesOutcome ==
  ASSUME OutcomeInv, NEW r, NEW said, Receive(r, said), r.status \in Nat,
         flight' \in BOOLEAN, flight' = TRUE => flight = TRUE, UNCHANGED server,
         r.status < 400 => journal.state = "succeeded",
         r.status >= 400 /\ r.status < 500 /\ Canonical(r.code) \notin Uncertain => Never'
  PROVE  OutcomeInv'
<1>1. /\ at = "execute" /\ at' = "rest" /\ verdict' = Concluded(r)
      /\ UNCHANGED <<op, shown, server, heard>>
      /\ exit' = IF Printed(r) = "success" THEN 0
                 ELSE ExitCode(r.status, Printed(r), IF r.status < 500 THEN said ELSE "nothing")
  BY DEF Receive
<1>2. /\ verdict' \in {"done", "doubtful", "failed"}
      /\ verdict' = "done" => journal'.state = "succeeded"
      /\ verdict' = "failed" => Never'
      /\ exit' = 7 => verdict' = "failed"
  BY <1>1, Conclusions DEF server
<1>3. heard = Nothing
  BY <1>1 DEF OutcomeInv, StageInv
<1>4. StageInv'
  BY <1>1, <1>2 DEF OutcomeInv, StageInv, Early, IsAsked, server
<1>5. JournalInv'
  BY <1>1, JournalKept DEF OutcomeInv, server
<1>6. LookupAgrees'
  BY <1>1, <1>3, AgreesUnheard
<1> QED BY <1>2, <1>4, <1>5, <1>6 DEF OutcomeInv, VerdictInv

LEMMA RefuseOutcome == OutcomeInv /\ Refuse => OutcomeInv'
<1> SUFFICES ASSUME OutcomeInv, Refuse PROVE OutcomeInv'
  OBVIOUS
<1>1. PICK r : /\ \E said : Receive(r, said)
               /\ r.status \in Nat /\ r.status >= 400
  <2>1. PICK s \in {400, 401, 403, 429}, c \in ServerCodes \ Uncertain, said \in Said :
          Receive(Failure(s, c), said)
    BY DEF Refuse
  <2>2. Failure(s, c).status = s /\ s \in Nat /\ s >= 400
    BY Parts
  <2> QED BY <2>1, <2>2
<1>2. flight = TRUE /\ flight' = FALSE /\ UNCHANGED server
  BY DEF Refuse, OutcomeInv, StageInv
<1>3. Never'
  BY <1>2 DEF Never, OutcomeInv, JournalInv, server
<1>4. ~(r.status < 400)
  BY <1>1
<1> QED BY <1>1, <1>2, <1>3, <1>4, ReceivesOutcome

LEMMA AnswerOutcome == OutcomeInv /\ Answer => OutcomeInv'
<1> SUFFICES ASSUME OutcomeInv, Answer PROVE OutcomeInv'
  OBVIOUS
<1>1. UNCHANGED <<flight, server>> /\ flight' \in BOOLEAN
  BY DEF Answer, OutcomeInv, StageInv
<1> DEFINE Fits(r) == /\ r.status \in Nat
                      /\ r.status < 400 => journal.state = "succeeded"
                      /\ r.status >= 400 /\ r.status < 500 /\ Canonical(r.code) \notin Uncertain =>
                           journal.state = "failed"
<1>2. \A c \in Uncertain : Fits(Failure(409, c))
  <2>1. \A c \in Uncertain : Canonical(c) \in Uncertain
    BY DEF Canonical, Codes, Uncertain
  <2> QED BY <2>1, Parts
<1>3. \A c : Fits(Failure(503, c))
  BY Parts
<1>4. journal.state = "succeeded" => Fits(journal.outcome)
  <2> SUFFICES ASSUME journal.state = "succeeded" PROVE Fits(journal.outcome)
    OBVIOUS
  <2>1. PICK d \in DataDefects : journal.outcome = Success(rule.status, d)
    BY DEF OutcomeInv, JournalInv
  <2>2. journal.outcome.status \in {200, 201}
    BY <2>1, Parts, Statuses DEF OutcomeInv, StageInv
  <2> QED BY <2>2
<1>5. journal.state = "failed" => Fits(journal.outcome)
  <2> SUFFICES ASSUME journal.state = "failed" PROVE Fits(journal.outcome)
    OBVIOUS
  <2>1. PICK s \in {400, 429, 503}, c \in ServerCodes \ Uncertain : journal.outcome = Failure(s, c)
    BY DEF OutcomeInv, JournalInv
  <2>2. journal.outcome.status \in {400, 429, 503}
    BY <2>1, Parts
  <2> QED BY <2>2
<1>6. PICK r : Fits(r) /\ \E said : Receive(r, said)
  <2>1. "execution_in_progress" \in Uncertain /\ "execution_ambiguous" \in Uncertain
    BY DEF Uncertain
  <2> HIDE DEF Fits
  <2> QED BY <1>2, <1>3, <1>4, <1>5, <2>1 DEF Answer
<1>7. journal.state = "failed" => Never'
  BY <1>1 DEF Never, server
<1> QED BY <1>1, <1>6, <1>7, ReceivesOutcome, ZenonT(30)

\* The rest of the client: nothing reaches the journal.
LEMMA ClientOutcome ==
  ASSUME OutcomeInv, Lose \/ LookUp \/ HearNothing \/ AnswerStatus \/ AnswerWrongly
  PROVE  OutcomeInv'
<1>1. UNCHANGED <<op, shown, flight, server>>
  BY DEF Lose, LookUp, HearNothing, AnswerStatus, AnswerWrongly, Hear
<1>2. JournalInv'
  BY <1>1, JournalKept DEF OutcomeInv, server
<1>3. Never => Never'
  BY <1>1 DEF Never, server
<1>4. CASE Lose
  <2>1. at = "execute" /\ at' = "rest" /\ verdict' = "doubtful" /\ heard' = heard /\ exit' = 1
    BY <1>4 DEF Lose, ExitCode, Retryable, Uncertain
  <2>2. heard = Nothing
    BY <2>1 DEF OutcomeInv, StageInv
  <2>3. StageInv'
    BY <1>1, <2>1 DEF OutcomeInv, StageInv, Early, IsAsked, server
  <2> QED BY <1>2, <2>1, <2>2, <2>3, AgreesUnheard DEF OutcomeInv, VerdictInv
<1>5. CASE LookUp
  <2>1. at = "rest" /\ at' = "status" /\ verdict = "doubtful" /\ heard' = Nothing
        /\ UNCHANGED <<verdict, exit>>
    BY <1>5 DEF LookUp
  <2>2. StageInv'
    BY <1>1, <2>1 DEF OutcomeInv, StageInv, Early, IsAsked, server
  <2> QED BY <1>2, <2>1, <2>2, AgreesUnheard DEF OutcomeInv, VerdictInv
<1>6. ASSUME at = "status", at' = "rest", exit' = exit,
             verdict' \in {"done", "failed", "doubtful"},
             verdict' = "done" => journal.state = "succeeded",
             verdict' = "failed" => Never,
             LookupAgrees'
      PROVE  OutcomeInv'
  <2>1. exit # 7
    BY <1>6 DEF OutcomeInv, StageInv, VerdictInv
  <2>2. StageInv'
    BY <1>1, <1>6 DEF OutcomeInv, StageInv, Early, IsAsked, server
  <2> QED BY <1>1, <1>2, <1>3, <1>6, <2>1, <2>2 DEF OutcomeInv, VerdictInv, server
<1>7. CASE HearNothing
  <2>1. at = "status" /\ at' = "rest" /\ UNCHANGED <<heard, verdict, exit>>
    BY <1>7 DEF HearNothing
  <2>2. heard = Nothing /\ verdict = "doubtful"
    BY <2>1 DEF OutcomeInv, StageInv
  <2> QED BY <1>6, <2>1, <2>2, AgreesUnheard DEF OutcomeInv, VerdictInv
<1>8. CASE AnswerStatus
  <2>1. at = "status" /\ at' = "rest" /\ exit' = exit
    BY <1>8 DEF AnswerStatus, Hear
  <2> QED BY <1>6, <1>8, <2>1, Looked, AgreesHeard DEF Never
<1>9. CASE AnswerWrongly
  <2>1. at = "status" /\ at' = "rest" /\ exit' = exit
    BY <1>9 DEF AnswerWrongly, Hear
  <2> QED BY <1>6, <1>9, <2>1, Looked, AgreesUnheard
<1> QED BY <1>4, <1>5, <1>7, <1>8, <1>9

\* The server's own steps: what it has recorded as final it does not touch.
LEMMA ServerOutcome ==
  ASSUME OutcomeInv, Claim \/ Apply \/ Record
  PROVE  OutcomeInv'
<1>1. UNCHANGED <<op, at, shown, heard, verdict, exit>>
  BY DEF Claim, Apply, Record
<1>2. LookupAgrees'
  BY <1>1, AgreesKept DEF OutcomeInv, VerdictInv
<1>3. rule' = rule
  BY <1>1 DEF rule
<1>4. ~Never /\ journal.state # "succeeded" /\ at \notin Early
  BY DEF Claim, Apply, Record, Never, OutcomeInv, StageInv, JournalInv
<1>5. flight' \in BOOLEAN
  BY DEF Claim, Apply, Record, OutcomeInv, StageInv
<1>6. StageInv'
  BY <1>1, <1>4, <1>5 DEF OutcomeInv, StageInv, IsAsked
<1>7. JournalInv'
  <2> USE DEF OutcomeInv, StageInv, JournalInv
  <2>1. CASE Claim
    <3>1. flight' = FALSE /\ UNCHANGED <<applied, shown>> /\ journal.state = "unknown"
      BY <2>1 DEF Claim
    <3>2. journal' = [state |-> "pending", outcome |-> journal.outcome]
      BY <2>1 DEF Claim
    <3> QED BY <3>1, <3>2
  <2>2. CASE Apply
    <3>1. journal.state = "pending" /\ applied' = shown' /\ UNCHANGED <<flight, journal>>
      BY <1>1, <2>2 DEF Apply
    <3>2. /\ journal'.state = "pending" /\ flight' # TRUE
          /\ journal' = [state |-> journal'.state, outcome |-> journal'.outcome]
      BY <3>1
    <3> HIDE DEF OutcomeInv, StageInv
    <3> QED BY <3>1, <3>2
  <2>3. CASE Record
    <3>1. UNCHANGED <<flight, applied, shown>> /\ flight # TRUE
      BY <2>3, ZenonT(30) DEF Record
    <3>2. CASE applied # Nothing /\ \E d \in DataDefects : Settles(Success(rule.status, d), "succeeded")
      <4>1. PICK d \in DataDefects : journal' = [state |-> "succeeded", outcome |-> Success(rule.status, d)]
        BY <3>2 DEF Settles
      <4>2. applied' = shown'
        BY <3>1, <3>2
      <4>3. journal'.state = "succeeded" /\ journal'.outcome = Success(rule'.status, d)
        BY <1>3, <4>1
      <4> QED BY <3>1, <4>1, <4>2, <4>3
    <3>3. CASE applied = Nothing /\ \E s \in {400, 429, 503}, c \in ServerCodes \ Uncertain :
                                      Settles(Failure(s, c), "failed")
      <4>1. PICK s \in {400, 429, 503}, c \in ServerCodes \ Uncertain :
              journal' = [state |-> "failed", outcome |-> Failure(s, c)]
        BY <3>3 DEF Settles
      <4>2. /\ journal'.state = "failed" /\ journal'.outcome = Failure(s, c) /\ applied' = Nothing
            /\ journal' = [state |-> journal'.state, outcome |-> journal'.outcome]
        BY <3>1, <3>3, <4>1
      <4>3. \E t \in {400, 429, 503}, d \in ServerCodes \ Uncertain : journal'.outcome = Failure(t, d)
        BY <4>2
      <4>4. flight' # TRUE /\ applied' \in {Nothing, shown'}
        BY <3>1, <4>2, ZenonT(30)
      <4>5. journal'.state # "unknown" /\ journal'.state # "succeeded"
        BY <4>2
      <4> HIDE DEF OutcomeInv, StageInv
      <4> QED BY <4>2, <4>3, <4>4, <4>5, ZenonT(30)
    <3>4. CASE Settles(Failure(503, "execution_ambiguous"), "ambiguous")
      <4>1. journal' = [state |-> "ambiguous", outcome |-> Failure(503, "execution_ambiguous")]
        BY <3>4 DEF Settles
      <4>2. /\ journal'.state = "ambiguous"
            /\ journal' = [state |-> journal'.state, outcome |-> journal'.outcome]
        BY <4>1
      <4>3. applied \in {Nothing, shown}
        OBVIOUS
      <4> HIDE DEF OutcomeInv, StageInv
      <4> QED BY <3>1, <4>2, <4>3
    <3> HIDE DEF OutcomeInv, StageInv, JournalInv
    <3> QED BY <2>3, <3>2, <3>3, <3>4 DEF Record
  <2> HIDE DEF OutcomeInv, StageInv, JournalInv
  <2> QED BY <2>1, <2>2, <2>3
<1> QED BY <1>1, <1>2, <1>4, <1>6, <1>7 DEF OutcomeInv, VerdictInv

THEOREM OutcomeInvariant == OSpec => []OutcomeInv
<1>1. OutcomeInv /\ UNCHANGED ovars => OutcomeInv'
  <2> SUFFICES ASSUME OutcomeInv, UNCHANGED ovars PROVE OutcomeInv'
    OBVIOUS
  <2>1. UNCHANGED <<op, at, shown, flight, journal, applied, heard, verdict, exit>>
    BY DEF ovars, server
  <2>2. JournalInv' /\ LookupAgrees'
    BY <2>1, JournalKept, AgreesKept DEF OutcomeInv, VerdictInv
  <2>3. StageInv'
    BY <2>1 DEF OutcomeInv, StageInv, Early, IsAsked
  <2> QED BY <2>1, <2>2, <2>3 DEF OutcomeInv, VerdictInv, Never
<1>2. OutcomeInv /\ [Next]_ovars => OutcomeInv'
  BY <1>1, PreviewOutcome, ExecuteOutcome, RefuseOutcome, AnswerOutcome, ClientOutcome, ServerOutcome
  DEF Next
<1> QED BY <1>2, InitOutcomeInv, PTL DEF OSpec

\* What the user is told of an execution is so and stays so.
THEOREM VerdictsAlwaysTrue == OSpec => []VerdictsTrue
<1>1. OutcomeInv => VerdictsTrue
  BY DEF OutcomeInv, JournalInv, VerdictInv, VerdictsTrue, Never
<1> QED BY <1>1, OutcomeInvariant, PTL

\* The refinement of ReportedChange: a step that changes neither what is told
\* nor what is made, and an end of a command, which tells what is so then.
LEMMA ReportedRests ==
  ASSUME UNCHANGED <<at, applied, verdict>> \/
         (at # "execute" /\ at' # "execute" /\ UNCHANGED <<applied, verdict>>)
  PROVE  UNCHANGED Reported!rvars
BY DEF Reported!rvars, Nothing

LEMMA ReportedEnds ==
  ASSUME OutcomeInv, OutcomeInv', at \in {"execute", "status"}, at' = "rest",
         UNCHANGED <<shown, applied>>
  PROVE  \E v \in {"done", "failed", "doubtful"} : Reported!Tell(1, v)
<1> DEFINE told == [k \in {1} |-> IF at = "execute" THEN "open" ELSE verdict]
           made == IF applied = Nothing THEN {} ELSE {1}
<1>1. told[1] \in {"open", "doubtful"} /\ verdict' \in {"done", "failed", "doubtful"}
  BY DEF OutcomeInv, StageInv
<1>2. /\ verdict' = "done" => applied # Nothing
      /\ verdict' = "failed" => applied = Nothing
  BY DEF OutcomeInv, StageInv, JournalInv, VerdictInv, Never, Nothing
<1>3. told' = [told EXCEPT ![1] = verdict'] /\ made' = made
  BY DEF Nothing
<1>4. Reported!Tell(1, verdict')
  BY <1>1, <1>2, <1>3 DEF Reported!Tell, Reported!Unsettled
<1> QED BY <1>1, <1>4

LEMMA ReportedStep ==
  ASSUME OutcomeInv, OutcomeInv', [Next]_ovars
  PROVE  Reported!RNext \/ UNCHANGED Reported!rvars
<1>1. 1 \in Reported!Keys /\ \A j \in Reported!Keys : ~(j < 1)
  BY DEF Reported!Keys
<1>2. CASE Preview
  BY <1>2, ReportedRests DEF Preview, server
<1>3. CASE Execute
  <2>1. /\ at = "review" /\ at' = "execute" /\ verdict = "none" /\ UNCHANGED applied
    BY <1>3 DEF Execute, OutcomeInv, StageInv, Early, server
  <2>2. Reported!Ask(1)
    BY <1>1, <2>1 DEF Reported!Ask, Nothing, Reported!Keys
  <2> QED BY <1>1, <2>2 DEF Reported!RNext
<1>4. CASE Lose \/ Refuse \/ Answer \/ HearNothing \/ AnswerStatus \/ AnswerWrongly
  <2>1. at \in {"execute", "status"} /\ at' = "rest" /\ UNCHANGED <<shown, applied>>
    BY <1>4, ZenonT(30) DEF Lose, Refuse, Answer, Receive, HearNothing, AnswerStatus, AnswerWrongly, Hear, server
  <2>2. \E v \in {"done", "failed", "doubtful"} : Reported!Tell(1, v)
    BY <2>1, ReportedEnds
  <2> QED BY <1>1, <2>2, Zenon DEF Reported!RNext
<1>5. CASE LookUp
  BY <1>5, ReportedRests DEF LookUp, server
<1>6. CASE Claim \/ Record
  BY <1>6, ReportedRests DEF Claim, Record
<1>7. CASE Apply
  <2>1. /\ journal.state = "pending" /\ applied' = shown /\ UNCHANGED <<at, shown, verdict>>
        /\ shown # Nothing /\ applied \in {Nothing, shown}
        /\ at = "execute" \/ verdict = "doubtful"
    BY <1>7 DEF Apply, OutcomeInv, StageInv, JournalInv, VerdictInv, Never, Early
  <2>2. CASE applied = Nothing
    <3>1. Reported!Make(1)
      BY <2>1, <2>2 DEF Reported!Make, Reported!Unsettled, Nothing
    <3> QED BY <1>1, <3>1 DEF Reported!RNext
  <2>3. CASE applied = shown
    BY <2>1, <2>3, ReportedRests
  <2> QED BY <2>1, <2>2, <2>3
<1>8. CASE UNCHANGED ovars
  BY <1>8, ReportedRests DEF ovars, server
<1> QED BY <1>2, <1>3, <1>4, <1>5, <1>6, <1>7, <1>8 DEF Next

\* A write of any of the ten operations is the abstract write with one key: it
\* is told truly and for good, and once told to have failed is never made.
THEOREM OutcomeRefines == OSpec => ImplementsReported
<1>1. OInit => Reported!RInit
  BY DEF OInit, Reported!RInit, Reported!Keys, Nothing
<1>2. OutcomeInv /\ OutcomeInv' /\ [Next]_ovars => [Reported!RNext]_(Reported!rvars)
  BY ReportedStep
<1> QED BY <1>1, <1>2, OutcomeInvariant, PTL DEF OSpec, ImplementsReported, Reported!RSpec

\* What is changed was asked for, as far as its operation binds the preview.
THEOREM AskedAlwaysApplied == OSpec => []AskedIsApplied
<1>1. OutcomeInv => AskedIsApplied
  BY DEF OutcomeInv, StageInv, JournalInv, AskedIsApplied, IsAsked, Early
<1> QED BY <1>1, OutcomeInvariant, PTL

\* The exit status for a retry is given only where nothing was or will be done.
THEOREM RetryAlwaysSafe == OSpec => []RetryIsSafe
<1>1. OutcomeInv => RetryIsSafe
  BY DEF OutcomeInv, JournalInv, VerdictInv, RetryIsSafe, Never
<1> QED BY <1>1, OutcomeInvariant, PTL

\* A lookup settles what the answer to the execution would have.
THEOREM LookupAlwaysAgrees == OSpec => []LookupAgrees
<1>1. OutcomeInv => LookupAgrees
  BY DEF OutcomeInv, VerdictInv
<1> QED BY <1>1, OutcomeInvariant, PTL

-----------------------------------------------------------------------------
(* The input: WriteInput *)

\* Of numbers there is a least one, and a greatest if they are bounded.
Below == {ss \in Nat \X Nat : ss[1] < ss[2]}

LEMMA Least ==
  ASSUME NEW S, S \subseteq Nat, S # {}
  PROVE  \E x \in S : \A y \in S : x <= y
<1>1. IsWellFoundedOn(Below, Nat)
  BY NatLessThanWellFounded DEF OpToRel, Below
<1>2. PICK x \in S : \A y \in S : ~(<<y, x>> \in Below)
  BY <1>1, WFMin
<1>3. ASSUME NEW y \in S PROVE x <= y
  <2>1. <<y, x>> \in Below <=> y < x
    BY DEF Below
  <2> QED BY <1>2, <2>1
<1> QED BY <1>3

LEMMA Greatest ==
  ASSUME NEW N \in Nat, NEW S, S \subseteq 0..N, S # {}
  PROVE  \E x \in S : \A y \in S : y <= x
<1> DEFINE T == {N - x : x \in S}
<1>1. T \subseteq Nat /\ T # {}
  <2>1. \A x \in S : x \in Nat /\ N - x \in Nat
    OBVIOUS
  <2> QED BY <2>1
<1>2. PICK z \in T : \A y \in T : z <= y
  BY <1>1, Least
<1>3. PICK x \in S : z = N - x
  BY <1>2
<1>4. ASSUME NEW y \in S PROVE y <= x
  <2>1. N - y \in T
    OBVIOUS
  <2>2. N - x <= N - y
    BY <1>2, <1>3, <2>1
  <2>3. x \in Nat /\ y \in Nat
    OBVIOUS
  <2> QED BY <2>2, <2>3
<1> QED BY <1>4

\* Trimming cuts line ends off, at the beginning and at the end, and nothing else.
LEMMA TrimCutsEnds ==
  ASSUME NEW t \in Seq(Keys), trim(t) # <<>>
  PROVE  \E m, n \in 0..Len(t) :
           /\ trim(t) = SubSeq(t, m + 1, n)
           /\ \A i \in DOMAIN t \ (m + 1 .. n) : t[i] = "enter"
<1> DEFINE marks == {i \in DOMAIN t : t[i] # "enter"}
           first == CHOOSE i \in marks : \A j \in marks : i <= j
           last == CHOOSE i \in marks : \A j \in marks : j <= i
<1>1. marks # {} /\ trim(t) = SubSeq(t, first, last)
  BY DEF trim
<1>2. DOMAIN t = 1..Len(t) /\ Len(t) \in Nat
  BY LenProperties
<1>3. marks \subseteq 1..Len(t) /\ marks \subseteq 0..Len(t) /\ marks \subseteq Nat
  BY <1>2
<1>4. first \in marks /\ \A j \in marks : first <= j
  <2> HIDE DEF marks
  <2>1. \E i \in marks : \A j \in marks : i <= j
    BY <1>1, <1>3, Least
  <2> QED BY <2>1
<1>5. last \in marks /\ \A j \in marks : j <= last
  <2> HIDE DEF marks
  <2>1. \E i \in marks : \A j \in marks : j <= i
    BY <1>1, <1>2, <1>3, Greatest
  <2> QED BY <2>1
<1> HIDE DEF first, last
<1>6. first \in 1..Len(t) /\ last \in 1..Len(t)
  BY <1>3, <1>4, <1>5
<1>7. \A i \in DOMAIN t \ (first..last) : t[i] = "enter"
  BY <1>2, <1>4, <1>5, <1>6
<1>8. first - 1 \in 0..Len(t) /\ last \in 0..Len(t) /\ (first - 1) + 1 = first
  BY <1>2, <1>6
<1>9. /\ trim(t) = SubSeq(t, (first - 1) + 1, last)
      /\ \A i \in DOMAIN t \ ((first - 1) + 1 .. last) : t[i] = "enter"
  BY <1>1, <1>7, <1>8
<1> QED BY <1>8, <1>9

-----------------------------------------------------------------------------
\* Counting keys of a stretch.
LEMMA Counted ==
  ASSUME NEW line, NEW keys, NEW i \in Nat, NEW j \in Nat
  PROVE  Count(line, keys, i, j) \in Nat /\ IsFiniteSet({k \in i..j : line[k] \in keys})
<1>1. IsFiniteSet(i..j)
  BY FS_Interval
<1>2. IsFiniteSet({k \in i..j : line[k] \in keys})
  BY <1>1, FS_Subset
<1> QED BY <1>2, FS_CardinalityType DEF Count

\* Stretches add up.
LEMMA CountSplit ==
  ASSUME NEW line, NEW keys, NEW i \in Nat, NEW j \in Nat,
         NEW m \in Nat, NEW n \in Nat, n = m + 1, i <= n, m <= j
  PROVE  /\ Count(line, keys, i, j) = Count(line, keys, i, m) + Count(line, keys, n, j)
         /\ {Count(line, keys, i, m), Count(line, keys, n, j)} \subseteq Nat
<1> DEFINE S == {k \in i..m : line[k] \in keys}
           T == {k \in n..j : line[k] \in keys}
<1>1. {k \in i..j : line[k] \in keys} = S \cup T /\ S \cap T = {}
  OBVIOUS
<1>2. IsFiniteSet(S) /\ IsFiniteSet(T) /\ Cardinality(S) \in Nat /\ Cardinality(T) \in Nat
  BY Counted, ZenonT(30) DEF Count
<1>3. Cardinality(S \cup T) = Cardinality(S) + Cardinality(T) - Cardinality(S \cap T)
  BY <1>2, FS_Union
<1>4. Cardinality(S \cap T) = 0
  BY <1>1, FS_EmptySet
<1> HIDE DEF S, T
<1>5. Cardinality(S \cup T) = Cardinality(S) + Cardinality(T)
  BY <1>2, <1>3, <1>4
<1> QED BY <1>1, <1>2, <1>5 DEF Count, S, T

\* None in an empty stretch, at most one in one key.
LEMMA CountFew ==
  ASSUME NEW line, NEW keys, NEW i \in Nat
  PROVE  /\ \A j \in Nat : j < i => Count(line, keys, i, j) = 0
         /\ line[i] \in keys => Count(line, keys, i, i) = 1
         /\ line[i] \notin keys => Count(line, keys, i, i) = 0
<1>1. ASSUME NEW j \in Nat, j < i PROVE Count(line, keys, i, j) = 0
  <2>1. {k \in i..j : line[k] \in keys} = {}
    BY <1>1
  <2> QED BY <2>1, FS_EmptySet DEF Count
<1>2. line[i] \in keys => {k \in i..i : line[k] \in keys} = {i}
  OBVIOUS
<1>3. line[i] \notin keys => {k \in i..i : line[k] \in keys} = {}
  OBVIOUS
<1> QED BY <1>1, <1>2, <1>3, FS_EmptySet, FS_Singleton DEF Count

\* Lines that agree on a stretch have the same counts there.
LEMMA CountSame ==
  ASSUME NEW l, NEW m, NEW keys, NEW i \in Nat, NEW j \in Nat, \A k \in i..j : l[k] = m[k]
  PROVE  Count(l, keys, i, j) = Count(m, keys, i, j)
<1>1. {k \in i..j : l[k] \in keys} = {k \in i..j : m[k] \in keys}
  OBVIOUS
<1> QED BY <1>1 DEF Count

\* What follows the last letter that stands has no more letters than erasures:
\* else a letter after the last balance between the two would stand as well.
LEMMA RestErased ==
  ASSUME NEW line \in Seq(Keys), NEW m \in 0..Len(line), NEW a \in Nat, a = m + 1,
         \A i \in a..Len(line) : ~Survives(line, i)
  PROVE  Count(line, Letters, a, Len(line)) <= Count(line, {"erase"}, a, Len(line))
<1> DEFINE N == Len(line)
           L(i, j) == Count(line, Letters, i, j)
           E(i, j) == Count(line, {"erase"}, i, j)
           S == {j \in 0..N : m <= j /\ L(a, j) <= E(a, j)}
<1>1. N \in Nat /\ m \in Nat /\ m <= N
  BY LenProperties
<1>2. m \in S
  <2>1. m < a /\ m \in Nat
    BY <1>1
  <2>2. L(a, m) = 0 /\ E(a, m) = 0
    BY <2>1, CountFew
  <2>3. m \in 0..N /\ m <= m
    BY <1>1
  <2> QED BY <2>2, <2>3
<1>3. PICK j \in S : \A i \in S : i <= j
  <2>1. S \subseteq 0..N /\ S # {}
    BY <1>2
  <2> HIDE DEF S
  <2> QED BY <1>1, <2>1, Greatest
<1>4. j \in Nat /\ m <= j /\ j <= N /\ L(a, j) <= E(a, j)
  BY <1>1
<1> SUFFICES ASSUME j < N PROVE FALSE
  <2>1. j = N => L(a, N) <= E(a, N)
    BY <1>4
  <2> HIDE DEF L, E, N
  <2>2. j < N \/ j = N
    BY <1>1, <1>4
  <2> QED BY <2>1, <2>2 DEF L, E, N
\* Beyond j the letters outnumber the erasures.
<1>5. ASSUME NEW i \in j + 1..N PROVE E(a, i) < L(a, i)
  <2>1. i \in 0..N /\ i \notin S /\ i \in Nat
    BY <1>1, <1>3, <1>4
  <2>2. L(a, i) \in Nat /\ E(a, i) \in Nat
    BY <1>1, <2>1, Counted
  <2>3. ~(L(a, i) <= E(a, i))
    BY <1>1, <1>4, <2>1
  <2> HIDE DEF L, E
  <2> QED BY <2>2, <2>3
<1>6. PICK n \in Nat : n = j + 1
  BY <1>4
<1>7. /\ L(a, n) = L(a, j) + L(n, n) /\ E(a, n) = E(a, j) + E(n, n)
      /\ {L(a, j), E(a, j), L(n, n), E(n, n)} \subseteq Nat
  BY <1>1, <1>4, <1>6, CountSplit
<1>8. "erase" \notin Letters
  BY InputAssumption
<1>9. line[n] \in Letters
  <2>1. E(a, n) < L(a, n)
    BY <1>4, <1>5, <1>6
  <2>2. L(n, n) # 0
    <3>1. L(a, j) <= E(a, j)
      BY <1>4
    <3> HIDE DEF L, E
    <3> QED BY <1>7, <2>1, <3>1
  <2> QED BY <1>6, <2>2, CountFew
<1>10. L(n, n) = 1 /\ E(n, n) = 0
  <2>1. line[n] \notin {"erase"}
    BY <1>8, <1>9
  <2> QED BY <1>6, <1>9, <2>1, CountFew
<1>11. ASSUME NEW i \in n + 1..N PROVE E(n + 1, i) <= L(n + 1, i)
  <2>1. PICK b \in Nat : b = n + 1
    OBVIOUS
  <2>2. i \in Nat /\ n <= i /\ i \in j + 1..N
    BY <1>1, <1>4, <1>6, <1>11
  <2>3. a <= b /\ a <= n /\ n <= i /\ i \in Nat /\ n \in Nat
    BY <1>1, <1>4, <1>6, <2>1, <2>2
  <2>4. /\ L(a, i) = L(a, n) + L(b, i) /\ E(a, i) = E(a, n) + E(b, i)
        /\ {L(b, i), E(b, i)} \subseteq Nat
    <3> HIDE DEF S, L, E, N
    <3>1. ASSUME NEW keys
          PROVE  /\ Count(line, keys, a, i) = Count(line, keys, a, n) + Count(line, keys, b, i)
                 /\ Count(line, keys, b, i) \in Nat
      BY <2>1, <2>3, CountSplit
    <3> QED BY <3>1 DEF L, E
  <2>5. E(a, i) < L(a, i)
    BY <1>5, <2>2
  <2>6. E(b, i) <= L(b, i)
    <3> HIDE DEF L, E
    <3>1. L(a, n) <= E(a, n) + 1
      BY <1>4, <1>7, <1>10
    <3> QED BY <1>4, <1>7, <1>10, <2>4, <2>5, <3>1
  <2> QED BY <2>1, <2>6
<1>12. Survives(line, n)
  BY <1>9, <1>11 DEF Survives
<1> QED BY <1>1, <1>4, <1>6, <1>12

\* A letter that stands is followed by as many letters as erasures.
LEMMA StandsToTheEnd ==
  ASSUME NEW line \in Seq(Keys), NEW i \in 1..Len(line), Survives(line, i)
  PROVE  Count(line, {"erase"}, i + 1, Len(line)) <= Count(line, Letters, i + 1, Len(line))
<1>1. Len(line) \in Nat
  BY LenProperties
<1>2. CASE i < Len(line)
  <2>1. Len(line) \in i + 1..Len(line)
    BY <1>1, <1>2
  <2> QED BY <2>1 DEF Survives
<1>3. CASE i = Len(line)
  <2>1. i + 1 \in Nat /\ Len(line) < i + 1
    BY <1>1, <1>3
  <2>2. \A keys : Count(line, keys, i + 1, Len(line)) = 0
    BY <1>1, <2>1, CountFew
  <2> QED BY <2>2
<1> QED BY <1>1, <1>2, <1>3

\* What stands of a line after one more key.
LEMMA OneMoreKey ==
  ASSUME NEW line \in Seq(Keys), NEW key \in Keys
  PROVE  LET more == Append(line, key)
         IN  /\ more \in Seq(Keys) /\ Len(more) = Len(line) + 1
             /\ Survives(more, Len(line) + 1) <=> key \in Letters
             /\ key \in Letters => \A i \in 1..Len(line) : Survives(more, i) <=> Survives(line, i)
             /\ key = "erase" => \A i \in 1..Len(line) : Survives(more, i) <=>
                  /\ Survives(line, i)
                  /\ Count(line, {"erase"}, i + 1, Len(line)) < Count(line, Letters, i + 1, Len(line))
<1> DEFINE more == Append(line, key)
           N == Len(line)
<1>1. N \in Nat
  BY LenProperties
<1>2. /\ more \in Seq(Keys) /\ Len(more) = N + 1
      /\ \A i \in 1..N : more[i] = line[i]
      /\ more[N + 1] = key
  BY AppendProperties
<1> HIDE DEF more, N
<1>3. Survives(more, N + 1) <=> key \in Letters
  <2>1. \A j \in (N + 1) + 1..Len(more) : FALSE
    BY <1>1, <1>2
  <2> QED BY <1>2, <2>1 DEF Survives
<1>4. PICK z \in Nat : z = N + 1
  BY <1>1
<1>5. ASSUME NEW i \in 1..N
      PROVE  /\ Survives(more, i) <=> Survives(line, i) /\
                  Count(more, {"erase"}, i + 1, z) <= Count(more, Letters, i + 1, z)
             /\ \A keys : /\ Count(more, keys, i + 1, z) = Count(line, keys, i + 1, N) + Count(more, keys, z, z)
                          /\ Count(line, keys, i + 1, N) \in Nat
  <2>1. PICK a \in Nat : a = i + 1
    BY <1>1
  <2>2. a <= z /\ N <= z /\ i \in Nat /\ a <= N + 1
    BY <1>1, <1>4, <2>1
  <2>3. ASSUME NEW keys, NEW j \in a..N PROVE Count(more, keys, a, j) = Count(line, keys, a, j)
    <3>1. \A k \in a..j : k \in 1..N
      BY <1>1, <2>1
    <3>2. j \in Nat /\ \A k \in a..j : more[k] = line[k]
      BY <1>1, <1>2, <3>1
    <3> QED BY <3>2, CountSame
  <2>4. more[i] = line[i]
    BY <1>2
  <2>5. Survives(more, i) <=> Survives(line, i) /\ Count(more, {"erase"}, a, z) <= Count(more, Letters, a, z)
    <3>1. \A j : j \in a..z <=> j \in a..N \/ j = z
      BY <1>1, <1>4, <2>1, <2>2
    <3>2. /\ Survives(more, i) <=> more[i] \in Letters /\
               \A j \in a..z : Count(more, {"erase"}, a, j) <= Count(more, Letters, a, j)
          /\ Survives(line, i) <=> line[i] \in Letters /\
               \A j \in a..N : Count(line, {"erase"}, a, j) <= Count(line, Letters, a, j)
      BY <1>2, <1>4, <2>1 DEF Survives, N
    <3> QED BY <2>3, <2>4, <3>1, <3>2
  <2>6. ASSUME NEW keys
        PROVE  /\ Count(more, keys, a, z) = Count(line, keys, a, N) + Count(more, keys, z, z)
               /\ Count(line, keys, a, N) \in Nat
    <3>1. Count(more, keys, a, z) = Count(more, keys, a, N) + Count(more, keys, z, z)
      BY <1>1, <1>4, <2>2, CountSplit
    <3>2. Count(more, keys, a, N) = Count(line, keys, a, N)
      <4>1. \A k \in a..N : k \in 1..N
        BY <1>1, <2>1
      <4> QED BY <1>1, <1>2, <4>1, CountSame
    <3> QED BY <1>1, <3>1, <3>2, Counted
  <2> QED BY <2>1, <2>5, <2>6
<1>6. "erase" \notin Letters
  BY InputAssumption
<1>7. ASSUME key \in Letters, NEW i \in 1..N PROVE Survives(more, i) <=> Survives(line, i)
  <2>1. Count(more, {"erase"}, z, z) = 0 /\ Count(more, Letters, z, z) = 1
    <3>1. more[z] = key /\ key \notin {"erase"}
      BY <1>2, <1>4, <1>6, <1>7
    <3> QED BY <1>7, <3>1, CountFew
  <2>2. Survives(line, i) => Count(line, {"erase"}, i + 1, N) <= Count(line, Letters, i + 1, N)
    BY StandsToTheEnd DEF N
  <2>3. /\ Count(more, {"erase"}, i + 1, z) = Count(line, {"erase"}, i + 1, N) + 0
        /\ Count(more, Letters, i + 1, z) = Count(line, Letters, i + 1, N) + 1
        /\ Count(line, {"erase"}, i + 1, N) \in Nat /\ Count(line, Letters, i + 1, N) \in Nat
    BY <1>5, <2>1
  <2>4. Survives(line, i) => Count(more, {"erase"}, i + 1, z) <= Count(more, Letters, i + 1, z)
    BY <2>2, <2>3
  <2> QED BY <1>5, <2>4
<1>8. ASSUME key = "erase", NEW i \in 1..N
      PROVE  Survives(more, i) <=>
               Survives(line, i) /\ Count(line, {"erase"}, i + 1, N) < Count(line, Letters, i + 1, N)
  <2>1. Count(more, {"erase"}, z, z) = 1 /\ Count(more, Letters, z, z) = 0
    <3>1. more[z] = key /\ key \in {"erase"} /\ key \notin Letters
      BY <1>2, <1>4, <1>6, <1>8
    <3> QED BY <3>1, CountFew
  <2>2. /\ Count(more, {"erase"}, i + 1, z) = Count(line, {"erase"}, i + 1, N) + 1
        /\ Count(more, Letters, i + 1, z) = Count(line, Letters, i + 1, N) + 0
        /\ Count(line, {"erase"}, i + 1, N) \in Nat /\ Count(line, Letters, i + 1, N) \in Nat
    BY <1>5, <2>1
  <2>3. Count(more, {"erase"}, i + 1, z) <= Count(more, Letters, i + 1, z)
          <=> Count(line, {"erase"}, i + 1, N) < Count(line, Letters, i + 1, N)
    BY <2>2
  <2> QED BY <1>5, <2>3
<1> QED BY <1>2, <1>3, <1>7, <1>8 DEF more, N

\* An erasure takes back the last letter that stands, and no other.
LEMMA ErasesTheLast ==
  ASSUME NEW line \in Seq(Keys), NEW m \in 1..Len(line), Survives(line, m),
         \A i \in m + 1..Len(line) : ~Survives(line, i), NEW i \in 1..Len(line)
  PROVE  Survives(Append(line, "erase"), i) <=> Survives(line, i) /\ i # m
<1> DEFINE N == Len(line)
           L(x, y) == Count(line, Letters, x, y)
           E(x, y) == Count(line, {"erase"}, x, y)
<1>1. N \in Nat /\ m \in Nat /\ i \in Nat /\ m <= N /\ i <= N
  BY LenProperties
<1>2. "erase" \in Keys /\ "erase" \notin Letters
  BY InputAssumption DEF Keys
<1>3. Survives(Append(line, "erase"), i) <=> Survives(line, i) /\ E(i + 1, N) < L(i + 1, N)
  BY <1>2, OneMoreKey
<1>4. Survives(line, i) => i <= m
  BY <1>1
<1>5. PICK a \in Nat : a = m + 1
  BY <1>1
<1>6. /\ E(a, N) <= L(a, N) /\ L(a, N) <= E(a, N)
      /\ E(a, N) \in Nat /\ L(a, N) \in Nat
  <2>1. E(a, N) <= L(a, N)
    BY <1>5, StandsToTheEnd
  <2>2. m \in 0..Len(line) /\ \A x \in a..Len(line) : ~Survives(line, x)
    BY <1>1, <1>5
  <2>3. L(a, N) <= E(a, N)
    BY <1>5, <2>2, RestErased
  <2> QED BY <1>1, <2>1, <2>3, Counted
<1>7. CASE i = m
  <2>1. ~(E(i + 1, N) < L(i + 1, N))
    <3> HIDE DEF L, E, N
    <3> QED BY <1>5, <1>6, <1>7
  <2> QED BY <1>3, <1>7, <2>1
<1>8. CASE i # m /\ Survives(line, i)
  <2>1. PICK b \in Nat, c \in Nat : b = i + 1 /\ m = c + 1 /\ b <= m
    BY <1>1, <1>4, <1>8
  <2>2. E(b, c) <= L(b, c) /\ E(b, c) \in Nat /\ L(b, c) \in Nat
    <3>1. CASE b <= c
      <4>1. c \in i + 1..Len(line)
        BY <1>1, <2>1, <3>1
      <4>2. E(i + 1, c) <= L(i + 1, c)
        BY <1>8, <4>1 DEF Survives
      <4> QED BY <2>1, <4>2, Counted
    <3>2. CASE c < b
      <4>1. \A keys : Count(line, keys, b, c) = 0
        BY <3>2, CountFew
      <4> QED BY <4>1
    <3> QED BY <3>1, <3>2
  <2>3. L(m, m) = 1 /\ E(m, m) = 0
    <3>1. line[m] \in Letters /\ line[m] \notin {"erase"}
      BY <1>2 DEF Survives
    <3> QED BY <1>1, <3>1, CountFew
  <2>4. ASSUME NEW keys
        PROVE  Count(line, keys, b, N) = Count(line, keys, b, c) + (Count(line, keys, m, m) + Count(line, keys, a, N))
    <3>1. Count(line, keys, b, N) = Count(line, keys, b, c) + Count(line, keys, m, N)
      <4>1. b <= m /\ c <= N
        BY <1>1, <2>1
      <4> HIDE DEF N
      <4> QED BY <1>1, <2>1, <4>1, CountSplit
    <3>2. Count(line, keys, m, N) = Count(line, keys, m, m) + Count(line, keys, a, N)
      <4>1. m <= a /\ m <= N
        BY <1>1, <1>5
      <4> HIDE DEF N
      <4> QED BY <1>1, <1>5, <4>1, CountSplit
    <3> QED BY <3>1, <3>2
  <2>5. /\ L(b, N) = L(b, c) + (L(m, m) + L(a, N))
        /\ E(b, N) = E(b, c) + (E(m, m) + E(a, N))
    BY <2>4
  <2>6. E(b, N) < L(b, N)
    <3> HIDE DEF L, E, N
    <3> QED BY <1>6, <2>2, <2>3, <2>5
  <2> QED BY <1>3, <1>8, <2>1, <2>6
<1> QED BY <1>3, <1>7, <1>8

-----------------------------------------------------------------------------
\* Spelling, a key at a time.
LEMMA SpellsNothing == Spells(<<>>, <<>>)
<1>1. DOMAIN <<>> = {}
  OBVIOUS
<1>2. <<>> \in [DOMAIN <<>> -> DOMAIN <<>>]
  OBVIOUS
<1>3. /\ {<<>>[n] : n \in DOMAIN <<>>} = {}
      /\ {i \in DOMAIN <<>> : Survives(<<>>, i)} = {}
  BY <1>1
<1> QED BY <1>1, <1>2, <1>3 DEF Spells

\* The places in a line of n keys that the w letters of a word are from.
Places(line, word, n, w, order) ==
  /\ order \in [1..w -> 1..n]
  /\ \A i, j \in 1..w : i < j => order[i] < order[j]
  /\ \A i \in 1..n : Survives(line, i) <=> \E j \in 1..w : order[j] = i
  /\ \A j \in 1..w : word[j] = line[order[j]]

LEMMA Spelling ==
  ASSUME NEW line \in Seq(Keys), NEW word \in Seq(Letters),
         NEW n, NEW w, Len(line) = n, Len(word) = w
  PROVE  Spells(line, word) <=> \E order : Places(line, word, n, w, order)
<1>1. DOMAIN line = 1..n /\ DOMAIN word = 1..w
  BY LenProperties
<1>2. ASSUME NEW order \in [1..w -> 1..n]
      PROVE  {order[j] : j \in 1..w} = {i \in 1..n : Survives(line, i)} <=>
             \A i \in 1..n : Survives(line, i) <=> \E j \in 1..w : order[j] = i
  <2>1. \A j \in 1..w : order[j] \in 1..n
    OBVIOUS
  <2>2. ASSUME {order[j] : j \in 1..w} = {i \in 1..n : Survives(line, i)}, NEW i \in 1..n
        PROVE  Survives(line, i) <=> \E j \in 1..w : order[j] = i
    BY <2>2, Zenon
  <2>3. ASSUME \A i \in 1..n : Survives(line, i) <=> \E j \in 1..w : order[j] = i
        PROVE  {order[j] : j \in 1..w} = {i \in 1..n : Survives(line, i)}
    BY <2>1, <2>3, ZenonT(30)
  <2> QED BY <2>2, <2>3
<1> DEFINE Spelled(letters, places) ==
             \E order \in [letters -> places] :
               /\ \A i, j \in letters : i < j => order[i] < order[j]
               /\ {order[j] : j \in letters} = {i \in places : Survives(line, i)}
               /\ \A j \in letters : word[j] = line[order[j]]
<1>3. Spells(line, word) <=> Spelled(1..w, 1..n)
  <2>1. Spells(line, word) <=> Spelled(DOMAIN word, DOMAIN line)
    BY Zenon DEF Spells
  <2> HIDE DEF Spelled
  <2> QED BY <1>1, <2>1, Zenon
<1> QED BY <1>2, <1>3, Zenon DEF Places

LEMMA SpellsALetter ==
  ASSUME NEW line \in Seq(Keys), NEW word \in Seq(Letters), NEW key \in Letters,
         Spells(line, word)
  PROVE  Spells(Append(line, key), Append(word, key))
<1> DEFINE more == Append(line, key)
           longer == Append(word, key)
           N == Len(line)
           W == Len(word)
<1>1. N \in Nat /\ W \in Nat /\ key \in Keys
  BY LenProperties DEF Keys
<1>2. /\ more \in Seq(Keys) /\ Len(more) = N + 1
      /\ \A i \in 1..N : more[i] = line[i]
      /\ more[N + 1] = key
      /\ Survives(more, N + 1)
      /\ \A i \in 1..N : Survives(more, i) <=> Survives(line, i)
  BY <1>1, AppendProperties, OneMoreKey
<1>3. /\ longer \in Seq(Letters) /\ Len(longer) = W + 1
      /\ \A n \in 1..W : longer[n] = word[n]
      /\ longer[W + 1] = key
  BY AppendProperties
<1>0. PICK order : Places(line, word, N, W, order)
  BY Spelling
<1>4. /\ order \in [1..W -> 1..N]
      /\ \A m, n \in 1..W : m < n => order[m] < order[n]
      /\ \A i \in 1..N : Survives(line, i) <=> \E n \in 1..W : order[n] = i
      /\ \A n \in 1..W : word[n] = line[order[n]]
  BY <1>0 DEF Places
<1> HIDE DEF more, longer, N, W
<1> DEFINE next == [n \in 1..(W + 1) |-> IF n = W + 1 THEN N + 1 ELSE order[n]]
<1>5. \A n \in 1..(W + 1) : n = W + 1 \/ n \in 1..W
  BY <1>1
<1>6. \A n \in 1..W : order[n] \in 1..N /\ n # W + 1 /\ n \in 1..(W + 1)
  BY <1>1, <1>4
<1>7. next[W + 1] = N + 1 /\ \A n \in 1..W : next[n] = order[n]
  BY <1>1, <1>6
<1>8. next \in [1..(W + 1) -> 1..(N + 1)]
  <2>1. \A n \in 1..(W + 1) : (IF n = W + 1 THEN N + 1 ELSE order[n]) \in 1..(N + 1)
    BY <1>1, <1>5, <1>6
  <2> QED BY <2>1
<1> HIDE DEF next
<1>9. ASSUME NEW m \in 1..(W + 1), NEW n \in 1..(W + 1), m < n PROVE next[m] < next[n]
  <2>1. m \in 1..W
    BY <1>1, <1>9
  <2>2. next[m] = order[m] /\ order[m] \in 1..N
    BY <1>6, <1>7, <2>1
  <2>3. CASE n = W + 1
    <3>1. next[n] = N + 1
      BY <1>7, <2>3
    <3> QED BY <1>1, <2>2, <3>1
  <2>4. CASE n \in 1..W
    BY <1>4, <1>7, <1>9, <2>1, <2>2, <2>4
  <2> QED BY <1>5, <2>3, <2>4
<1>10. ASSUME NEW i \in 1..(N + 1)
       PROVE  Survives(more, i) <=> \E n \in 1..(W + 1) : next[n] = i
  <2>1. CASE i = N + 1
    <3>1. W + 1 \in 1..(W + 1)
      BY <1>1
    <3> QED BY <1>2, <1>7, <2>1, <3>1
  <2>2. CASE i \in 1..N
    <3>1. i # N + 1
      BY <1>1, <2>2
    <3>2. (\E n \in 1..(W + 1) : next[n] = i) <=> \E n \in 1..W : order[n] = i
      BY <1>5, <1>6, <1>7, <3>1
    <3> QED BY <1>2, <1>4, <2>2, <3>2
  <2> QED BY <1>1, <2>1, <2>2
<1>11. \A n \in 1..(W + 1) : longer[n] = more[next[n]]
  BY <1>2, <1>3, <1>4, <1>5, <1>6, <1>7
<1>12. Places(more, longer, N + 1, W + 1, next)
  BY <1>8, <1>9, <1>10, <1>11 DEF Places
<1>13. Spells(more, longer)
  BY <1>2, <1>3, <1>12, Spelling
<1> QED BY <1>13, ZenonT(30) DEF more, longer

LEMMA SpellsAnErasure ==
  ASSUME NEW line \in Seq(Keys), NEW word \in Seq(Letters), word # <<>>, Spells(line, word)
  PROVE  Front(word) \in Seq(Letters) /\ Spells(Append(line, "erase"), Front(word))
<1> DEFINE more == Append(line, "erase")
           shorter == Front(word)
           N == Len(line)
<1>1. PICK W \in Nat : Len(word) = W + 1
  <2>1. Len(word) \in Nat /\ Len(word) # 0
    BY LenProperties, EmptySeq
  <2>2. Len(word) - 1 \in Nat /\ Len(word) = (Len(word) - 1) + 1
    BY <2>1
  <2> QED BY <2>2, ZenonT(30)
<1>2. "erase" \in Keys /\ "erase" \notin Letters /\ N \in Nat
  BY InputAssumption, LenProperties DEF Keys
<1>3. /\ more \in Seq(Keys) /\ Len(more) = N + 1
      /\ \A i \in 1..N : more[i] = line[i]
      /\ ~Survives(more, N + 1)
  BY <1>2, AppendProperties, OneMoreKey
<1>4. /\ shorter \in Seq(Letters) /\ Len(shorter) = W
      /\ \A n \in 1..W : shorter[n] = word[n]
  <2>1. shorter = SubSeq(word, 1, W)
    BY <1>1 DEF Front
  <2>2. \A n \in 1..W : n \in 1..Len(word) /\ word[n] \in Letters
    BY <1>1, ElementOfSeq
  <2> QED BY <1>1, <2>1, <2>2, SubSeqProperties
<1>0. PICK order : Places(line, word, N, W + 1, order)
  BY <1>1, Spelling
<1>5. /\ order \in [1..(W + 1) -> 1..N]
      /\ \A m, n \in 1..(W + 1) : m < n => order[m] < order[n]
      /\ \A i \in 1..N : Survives(line, i) <=> \E n \in 1..(W + 1) : order[n] = i
      /\ \A n \in 1..(W + 1) : word[n] = line[order[n]]
  BY <1>0 DEF Places
<1> DEFINE last == order[W + 1]
<1>6. /\ W + 1 \in 1..(W + 1) /\ last \in 1..N /\ Survives(line, last)
      /\ \A n \in 1..W : n \in 1..(W + 1) /\ order[n] \in 1..N /\ order[n] < last
  <2>1. W + 1 \in 1..(W + 1) /\ \A n \in 1..W : n \in 1..(W + 1) /\ n < W + 1
    OBVIOUS
  <2> QED BY <1>5, <2>1
<1>7. \A i \in last + 1..N : ~Survives(line, i)
  <2>1. ASSUME NEW i \in last + 1..N, Survives(line, i) PROVE FALSE
    <3>1. i \in 1..N /\ last < i
      BY <1>2, <1>6
    <3>2. PICK n \in 1..(W + 1) : order[n] = i
      BY <1>5, <2>1, <3>1
    <3>3. n = W + 1 \/ n \in 1..W
      BY <1>1
    <3> HIDE DEF N
    <3>4. order[n] <= last
      BY <1>2, <1>6, <3>3
    <3> QED BY <1>2, <1>6, <3>1, <3>2, <3>4
  <2> QED BY <2>1
<1>8. \A i \in 1..N : Survives(more, i) <=> Survives(line, i) /\ i # last
  <2> HIDE DEF last
  <2> QED BY <1>6, <1>7, ErasesTheLast
<1> HIDE DEF more, shorter, last, N
<1> DEFINE next == [n \in 1..W |-> order[n]]
<1>9. /\ next \in [1..W -> 1..(N + 1)]
      /\ \A n \in 1..W : next[n] = order[n]
  <2>1. \A n \in 1..W : order[n] \in 1..(N + 1)
    BY <1>2, <1>6
  <2> QED BY <2>1
<1> HIDE DEF next
<1>10. \A m, n \in 1..W : m < n => next[m] < next[n]
  BY <1>5, <1>6, <1>9
<1>11. ASSUME NEW i \in 1..(N + 1)
       PROVE  Survives(more, i) <=> \E n \in 1..W : next[n] = i
  <2>1. CASE i = N + 1
    <3>1. \A n \in 1..W : next[n] # N + 1
      BY <1>2, <1>6, <1>9
    <3> QED BY <1>3, <2>1, <3>1
  <2>2. CASE i \in 1..N
    <3>1. Survives(more, i) <=> i # last /\ \E n \in 1..(W + 1) : order[n] = i
      BY <1>5, <1>8, <2>2
    <3>2. \A n \in 1..(W + 1) : n = W + 1 \/ n \in 1..W
      BY <1>1
    <3>3. \A n \in 1..W : order[n] # last
      BY <1>2, <1>6
    <3>4. (i # last /\ \E n \in 1..(W + 1) : order[n] = i) <=> \E n \in 1..W : order[n] = i
      BY <1>6, <3>2, <3>3 DEF last
    <3> QED BY <1>9, <3>1, <3>4
  <2> QED BY <1>2, <2>1, <2>2
<1>12. \A n \in 1..W : shorter[n] = more[next[n]]
  <2> SUFFICES ASSUME NEW n \in 1..W PROVE shorter[n] = more[next[n]]
    OBVIOUS
  <2>1. order[n] \in 1..N /\ n \in 1..(W + 1)
    BY <1>6
  <2>2. shorter[n] = word[n] /\ next[n] = order[n] /\ word[n] = line[order[n]]
    BY <1>4, <1>5, <1>9, <2>1
  <2>3. more[order[n]] = line[order[n]]
    BY <1>3, <2>1
  <2> QED BY <2>2, <2>3
<1>13. Places(more, shorter, N + 1, W, next)
  BY <1>9, <1>10, <1>11, <1>12 DEF Places
<1>14. Spells(more, shorter)
  BY <1>3, <1>4, <1>13, Spelling
<1> QED BY <1>4, <1>14, ZenonT(30) DEF more, shorter

\* Where nothing stands an erasure takes nothing.
LEMMA SpellsNothingErased ==
  ASSUME NEW line \in Seq(Keys), Spells(line, <<>>)
  PROVE  Spells(Append(line, "erase"), <<>>)
<1> DEFINE more == Append(line, "erase")
<1>1. "erase" \in Keys /\ "erase" \notin Letters /\ Len(line) \in Nat
  BY InputAssumption, LenProperties DEF Keys
<1>2. <<>> \in Seq(Letters) /\ Len(<<>>) = 0 /\ 1..0 = {}
  BY EmptySeq
<1>3. \A i \in 1..Len(line) : ~Survives(line, i)
  BY <1>2, Spelling, ZenonT(30) DEF Places
<1>4. more \in Seq(Keys) /\ \A i \in 1..Len(more) : ~Survives(more, i)
  <2>1. /\ more \in Seq(Keys) /\ Len(more) = Len(line) + 1
        /\ ~Survives(more, Len(line) + 1)
        /\ \A i \in 1..Len(line) : Survives(more, i) => Survives(line, i)
    BY <1>1, OneMoreKey
  <2>2. \A i \in 1..Len(more) : i \in 1..Len(line) \/ i = Len(line) + 1
    BY <1>1, <2>1
  <2> QED BY <1>3, <2>1, <2>2
<1> HIDE DEF more
<1>5. Places(more, <<>>, Len(more), 0, <<>>)
  <2>1. <<>> \in [1..0 -> 1..Len(more)]
    BY <1>2
  <2> QED BY <1>2, <1>4, <2>1 DEF Places
<1>6. Spells(more, <<>>)
  BY <1>2, <1>4, <1>5, Spelling
<1> QED BY <1>6 DEF more

-----------------------------------------------------------------------------
\* Characters of a receipt: what the function of receiptCharacters is.
Pressing(gathered, chunk, n, line) ==
  line = [i \in 0..n |-> IF i = 0 THEN [text |-> gathered, state |-> "open"]
                                  ELSE Press(line[i - 1], chunk[i])]

LEMMA Pressed ==
  ASSUME NEW gathered, NEW chunk, NEW n \in Nat
  PROVE  \E line : Pressing(gathered, chunk, n, line)
<1> DEFINE start == [text |-> gathered, state |-> "open"]
           Bad == {i \in Nat : ~ \E line : Pressing(gathered, chunk, i, line)}
<1> SUFFICES ASSUME Bad # {} PROVE FALSE
  OBVIOUS
<1>1. PICK x \in Bad : \A y \in Bad : x <= y
  <2>1. Bad \subseteq Nat
    OBVIOUS
  <2> HIDE DEF Bad
  <2> QED BY <2>1, Least
<1>2. CASE x = 0
  <2> DEFINE line == [i \in 0..0 |-> start]
  <2>1. Pressing(gathered, chunk, 0, line)
    <3>1. \A i \in 0..0 : i = 0
      OBVIOUS
    <3> QED BY <3>1 DEF Pressing
  <2> QED BY <1>2, <2>1
<1>3. CASE x # 0
  <2>1. PICK y \in Nat : x = y + 1
    <3>1. x - 1 \in Nat /\ x = (x - 1) + 1
      BY <1>3
    <3> QED BY <3>1
  <2>2. y \notin Bad
    BY <1>1, <2>1
  <2>3. PICK line : Pressing(gathered, chunk, y, line)
    BY <2>2
  <2> DEFINE next == [i \in 0..x |-> IF i = x THEN Press(line[y], chunk[x]) ELSE line[i]]
             step(f, i) == IF i = 0 THEN start ELSE Press(f[i - 1], chunk[i])
  <2>4. ASSUME NEW i \in 0..x
        PROVE  (IF i = x THEN Press(line[y], chunk[x]) ELSE line[i]) = step(next, i)
    <3>1. CASE i = x
      <4>1. i - 1 = y /\ y \in 0..x /\ y # x /\ i # 0
        BY <1>3, <2>1, <3>1
      <4>2. next[y] = line[y]
        BY <4>1
      <4> HIDE DEF next
      <4> QED BY <3>1, <4>1, <4>2
    <3>2. CASE i # x
      <4>1. i \in 0..y
        BY <2>1, <3>2
      <4>2. line[i] = step(line, i)
        BY <2>3, <4>1 DEF Pressing
      <4>3. CASE i = 0
        BY <3>2, <4>2, <4>3
      <4>4. CASE i # 0
        <5>1. i - 1 \in 0..x /\ i - 1 # x
          BY <2>1, <4>1, <4>4
        <5>2. next[i - 1] = line[i - 1]
          BY <5>1
        <5> HIDE DEF next
        <5> QED BY <3>2, <4>2, <4>4, <5>2
      <4> QED BY <4>3, <4>4
    <3> QED BY <3>1, <3>2
  <2>5. next = [i \in 0..x |-> step(next, i)]
    BY <2>4, Zenon
  <2>6. Pressing(gathered, chunk, x, next)
    <3> HIDE DEF next
    <3> QED BY <2>5 DEF Pressing
  <2> QED BY <2>6
<1> QED BY <1>2, <1>3

LEMMA Characters ==
  ASSUME NEW gathered, NEW chunk \in Seq(Keys)
  PROVE  \E line :
           /\ receiptCharacters(gathered, chunk) = line[Len(chunk)]
           /\ line[0] = [text |-> gathered, state |-> "open"]
           /\ \A i \in 1..Len(chunk) : line[i] = Press(line[i - 1], chunk[i])
<1> DEFINE line == CHOOSE f : Pressing(gathered, chunk, Len(chunk), f)
<1>1. Len(chunk) \in Nat
  BY LenProperties
<1>2. Pressing(gathered, chunk, Len(chunk), line)
  BY <1>1, Pressed
<1>3. receiptCharacters(gathered, chunk) = line[Len(chunk)]
  BY Zenon DEF receiptCharacters, Pressing
<1> HIDE DEF line
<1>4. \A i \in 0..Len(chunk) :
        line[i] = IF i = 0 THEN [text |-> gathered, state |-> "open"] ELSE Press(line[i - 1], chunk[i])
  BY <1>2 DEF Pressing
<1>5. 0 \in 0..Len(chunk) /\ \A i \in 1..Len(chunk) : i \in 0..Len(chunk) /\ i # 0
  BY <1>1
<1> QED BY <1>3, <1>4, <1>5

\* A key at a time: what is gathered is what the keys spell.
LEMMA OneKey ==
  ASSUME NEW line \in Seq(Keys), NEW word \in Seq(Letters), Len(word) <= Size,
         Spells(line, word), NEW key \in Keys,
         NEW after, after = Press([text |-> word, state |-> "open"], key)
  PROVE  /\ after = [text |-> after.text, state |-> after.state]
         /\ after.text \in Seq(Letters) /\ Len(after.text) <= Size
         /\ after.state \in {"open", "done", "invalid"}
         /\ after.state = "open" =>
              key \in Letters \cup {"erase"} /\ Spells(Append(line, key), after.text)
         /\ after.state = "done" => key = "enter" /\ after.text = word
<1> DEFINE open == [text |-> word, state |-> "open"]
<1>1. "enter" \notin Letters /\ "erase" \notin Letters /\ "cancel" \notin Letters
  BY InputAssumption
<1>2. open.text = word /\ open.state = "open"
  OBVIOUS
<1>3. CASE key = "cancel"
  <2>1. after = [open EXCEPT !.state = "invalid"]
    BY <1>1, <1>2, <1>3 DEF Press
  <2> QED BY <2>1
<1>4. CASE key = "enter"
  <2>1. after = [open EXCEPT !.state = "done"]
    BY <1>1, <1>2, <1>4 DEF Press
  <2> QED BY <1>4, <2>1
<1>5. CASE key = "erase"
  <2>1. after = [open EXCEPT !.text = IF word = <<>> THEN word ELSE Front(word)]
    BY <1>1, <1>2, <1>5 DEF Press
  <2>2. CASE word = <<>>
    <3>1. after = [text |-> word, state |-> "open"]
      BY <2>1, <2>2
    <3>2. Spells(Append(line, key), word)
      BY <1>5, <2>2, SpellsNothingErased
    <3> QED BY <1>5, <3>1, <3>2
  <2>3. CASE word # <<>>
    <3>1. after = [text |-> Front(word), state |-> "open"]
      BY <2>1, <2>3
    <3>2. Front(word) \in Seq(Letters) /\ Spells(Append(line, key), Front(word))
      BY <1>5, <2>3, SpellsAnErasure
    <3>3. Len(Front(word)) <= Size
      <4>1. Len(word) \in Nat /\ Len(word) # 0 /\ Size \in Nat
        <5>1. Len(word) \in Nat
          BY LenProperties
        <5>2. Len(word) # 0
          BY <2>3, EmptySeq, SMTT(30)
        <5> QED BY <5>1, <5>2, InputAssumption
      <4>2. PICK n \in Nat : Len(word) = n + 1
        <5>1. Len(word) - 1 \in Nat /\ Len(word) = (Len(word) - 1) + 1
          BY <4>1
        <5> QED BY <5>1
      <4>3. Front(word) = SubSeq(word, 1, n) /\ \A i \in 1..n : word[i] \in Letters
        BY <4>2, ElementOfSeq DEF Front
      <4>4. Len(Front(word)) = n
        BY <4>3, SubSeqProperties
      <4> QED BY <4>1, <4>2, <4>4
    <3> QED BY <1>5, <3>1, <3>2, <3>3
  <2> QED BY <2>2, <2>3
<1>6. CASE key \in Letters /\ Room(word)
  <2>1. after = [open EXCEPT !.text = Append(word, key)]
    BY <1>1, <1>2, <1>6 DEF Press
  <2>2. Spells(Append(line, key), Append(word, key))
    BY <1>6, SpellsALetter
  <2>3. Append(word, key) \in Seq(Letters) /\ Len(Append(word, key)) <= Size
    <3>1. Len(word) \in Nat /\ Size \in Nat /\ Len(word) < Size
      BY <1>6, LenProperties, InputAssumption DEF Room
    <3> QED BY <1>6, <3>1, AppendProperties
  <2> QED BY <1>6, <2>1, <2>2, <2>3
<1>7. CASE ~(key \in {"cancel", "enter", "erase"} \/ (key \in Letters /\ Room(word)))
  <2>1. after = [open EXCEPT !.state = "invalid"]
    BY <1>2, <1>7 DEF Press
  <2> QED BY <2>1
<1> QED BY <1>3, <1>4, <1>5, <1>6, <1>7

-----------------------------------------------------------------------------
\* The first k keys sent spell a word and end no line.
Written(sent, k, word) ==
  /\ \A i \in 1..k : sent[i] \in Letters \cup {"erase"}
  /\ Spells(SubSeq(sent, 1, k), word)

\* The first line sent spells a word.
Ended(sent, word) ==
  \E k \in 0..Len(sent) : k < Len(sent) /\ sent[k + 1] = "enter" /\ Written(sent, k, word)

\* Where a line stands after the first k keys sent.
Gathered(sent, k, line) ==
  /\ line = [text |-> line.text, state |-> line.state]
  /\ line.text \in Seq(Letters) /\ Len(line.text) <= Size
  /\ line.state \in {"open", "done", "invalid"}
  /\ line.state = "open" => Written(sent, k, line.text)
  /\ line.state = "done" => Ended(sent, line.text)

LEMMA GathersAKey ==
  ASSUME NEW sent \in Seq(Keys), NEW k \in Nat, k < Len(sent),
         NEW line, Gathered(sent, k, line), NEW next, next = Press(line, sent[k + 1])
  PROVE  Gathered(sent, k + 1, next)
<1>1. CASE line.state # "open"
  <2>1. next = line
    BY <1>1 DEF Press
  <2> QED BY <1>1, <2>1 DEF Gathered
<1>2. CASE line.state = "open"
  <2> DEFINE key == sent[k + 1]
             word == line.text
             first == SubSeq(sent, 1, k)
  <2>1. Len(sent) \in Nat /\ k + 1 \in 1..Len(sent) /\ k \in 0..Len(sent) /\ key \in Keys
    <3>1. Len(sent) \in Nat
      BY LenProperties
    <3>2. k + 1 \in 1..Len(sent) /\ k \in 0..Len(sent)
      BY <3>1
    <3> QED BY <3>1, <3>2, ElementOfSeq
  <2>2. /\ word \in Seq(Letters) /\ Len(word) <= Size /\ Written(sent, k, word)
        /\ line = [text |-> word, state |-> "open"]
    BY <1>2 DEF Gathered
  <2>3. first \in Seq(Keys) /\ Len(first) = k /\ \A i \in 1..k : first[i] = sent[i]
    <3>1. \A i \in 1..k : sent[i] \in Keys
      BY <2>1, ElementOfSeq
    <3> QED BY <3>1, SubSeqProperties
  <2>4. Append(first, key) = SubSeq(sent, 1, k + 1)
    <3>1. \A i \in 1..(k + 1) : sent[i] \in Keys
      BY <2>1, ElementOfSeq
    <3>2. /\ SubSeq(sent, 1, k + 1) \in Seq(Keys) /\ Len(SubSeq(sent, 1, k + 1)) = k + 1
          /\ \A i \in 1..(k + 1) : SubSeq(sent, 1, k + 1)[i] = sent[i]
      BY <3>1, SubSeqProperties
    <3>3. /\ Append(first, key) \in Seq(Keys) /\ Len(Append(first, key)) = k + 1
          /\ \A i \in 1..k : Append(first, key)[i] = sent[i]
          /\ Append(first, key)[k + 1] = key
      BY <2>1, <2>3, AppendProperties
    <3>4. \A i \in 1..(k + 1) : i \in 1..k \/ i = k + 1
      OBVIOUS
    <3> QED BY <3>2, <3>3, <3>4, SeqEqual
  <2>5. Spells(first, word)
    BY <2>2 DEF Written
  <2>6. next = Press([text |-> word, state |-> "open"], key)
    BY <2>2
  <2> HIDE DEF key, word, first
  <2>7. /\ next = [text |-> next.text, state |-> next.state]
        /\ next.text \in Seq(Letters) /\ Len(next.text) <= Size
        /\ next.state \in {"open", "done", "invalid"}
        /\ next.state = "open" =>
             key \in Letters \cup {"erase"} /\ Spells(Append(first, key), next.text)
        /\ next.state = "done" => key = "enter" /\ next.text = word
    BY <2>1, <2>2, <2>3, <2>5, <2>6, OneKey
  <2>8. next.state = "open" => Written(sent, k + 1, next.text)
    <3>1. \A i \in 1..(k + 1) : i \in 1..k \/ i = k + 1
      OBVIOUS
    <3> QED BY <2>2, <2>4, <2>7, <3>1 DEF Written, key
  <2>9. next.state = "done" => Ended(sent, next.text)
    BY <2>1, <2>2, <2>7 DEF Ended, key
  <2> QED BY <2>7, <2>8, <2>9 DEF Gathered
<1> QED BY <1>1, <1>2

\* However the keys come in pieces, what a piece leaves is what all of them spell.
LEMMA Gathers ==
  ASSUME NEW sent \in Seq(Keys), NEW d \in 0..Len(sent), NEW n \in 0..Len(sent), d <= n,
         NEW word \in Seq(Letters), Len(word) <= Size, Written(sent, d, word)
  PROVE  Gathered(sent, n, receiptCharacters(word, SubSeq(sent, d + 1, n)))
<1> DEFINE chunk == SubSeq(sent, d + 1, n)
<1>1. Len(sent) \in Nat /\ d \in Nat /\ n \in Nat
  BY LenProperties
<1>2. chunk \in Seq(Keys) /\ Len(chunk) = n - d /\ \A i \in 1..(n - d) : chunk[i] = sent[d + i]
  <2>1. \A i \in (d + 1)..n : sent[i] \in Keys
    BY <1>1, ElementOfSeq
  <2>2. /\ chunk \in Seq(Keys)
        /\ Len(chunk) = IF d + 1 <= n THEN n - (d + 1) + 1 ELSE 0
        /\ \A i \in 1..(n - (d + 1) + 1) : chunk[i] = sent[(d + 1) + i - 1]
    BY <1>1, <2>1, SubSeqProperties
  <2> HIDE DEF chunk
  <2>3. n - (d + 1) + 1 = n - d /\ \A i \in 1..(n - d) : (d + 1) + i - 1 = d + i
    BY <1>1
  <2>4. Len(chunk) = n - d
    BY <1>1, <2>2
  <2> QED BY <2>2, <2>3, <2>4
<1> HIDE DEF chunk
<1>0. PICK line : /\ receiptCharacters(word, chunk) = line[Len(chunk)]
                  /\ line[0] = [text |-> word, state |-> "open"]
                  /\ \A i \in 1..Len(chunk) : line[i] = Press(line[i - 1], chunk[i])
  <2>1. chunk \in Seq(Keys)
    BY <1>2
  <2> QED BY <2>1, Characters, ZenonT(30)
<1>3. /\ receiptCharacters(word, chunk) = line[n - d]
      /\ line[0] = [text |-> word, state |-> "open"]
      /\ \A i \in 1..(n - d) : line[i] = Press(line[i - 1], chunk[i])
  BY <1>0, <1>2
<1> DEFINE Bad == {i \in 0..(n - d) : ~Gathered(sent, d + i, line[i])}
<1>4. Bad = {}
  <2> SUFFICES ASSUME Bad # {} PROVE FALSE
    OBVIOUS
  <2>1. PICK i \in Bad : \A j \in Bad : i <= j
    <3>1. Bad \subseteq Nat
      BY <1>1
    <3> HIDE DEF Bad
    <3> QED BY <3>1, Least
  <2>2. CASE i = 0
    <3>1. line[0].text = word /\ line[0].state = "open" /\ d + 0 = d
      BY <1>1, <1>3
    <3>2. Gathered(sent, d, line[0])
      BY <1>3, <3>1 DEF Gathered
    <3> QED BY <2>2, <3>1, <3>2
  <2>3. CASE i # 0
    <3>1. PICK j \in Nat : i = j + 1
      <4>1. i - 1 \in Nat /\ i = (i - 1) + 1
        BY <1>1, <2>3
      <4> QED BY <4>1
    <3>2. Gathered(sent, d + j, line[j])
      BY <1>1, <2>1, <3>1
    <3>3. i \in 1..(n - d) /\ i - 1 = j /\ d + i = (d + j) + 1 /\ d + j \in Nat /\ d + j < Len(sent)
      BY <1>1, <3>1
    <3>4. line[i] = Press(line[j], sent[(d + j) + 1])
      BY <1>2, <1>3, <3>3
    <3>5. PICK k \in Nat : k = d + j /\ k < Len(sent)
      BY <3>3
    <3>6. Gathered(sent, k + 1, line[i])
      BY <3>2, <3>4, <3>5, GathersAKey
    <3> QED BY <3>3, <3>5, <3>6
  <2> QED BY <2>2, <2>3
<1>5. n - d \in 0..(n - d) /\ d + (n - d) = n
  BY <1>1
<1>6. Gathered(sent, n, line[n - d])
  BY <1>4, <1>5
<1> QED BY <1>3, <1>6 DEF chunk

-----------------------------------------------------------------------------
\* The terminal's mode is another only while a read at the terminal goes on.
ModeInv ==
  /\ wasRaw \in BOOLEAN /\ raw \in BOOLEAN
  /\ kind \in {"terminal", "piped", "changes"}
  /\ outcome = "idle" => listening = FALSE /\ flowing = FALSE
  /\ outcome # "reading" \/ kind # "terminal" => raw = wasRaw
  /\ outcome \notin {"idle", "reading"} /\ kind = "terminal" => listening = FALSE /\ flowing = FALSE

\* A pipe's text is what has been delivered, and no more than the limit; once
\* it is read the writer is done.
PipeInv ==
  /\ typed \in Seq(Keys) /\ delivered \in 0..Len(typed) /\ closed \in BOOLEAN
  /\ outcome = "idle" => text = <<>> /\ delivered = 0
  /\ kind # "terminal" =>
       /\ text \in Seq(Keys) /\ Len(text) <= Limit
       /\ outcome \in {"idle", "reading"} => text = SubSeq(typed, 1, delivered)
       /\ outcome = "read" =>
            /\ closed = TRUE /\ listening = FALSE /\ Len(typed) <= Limit
            /\ value = IF kind = "piped" THEN trim(typed) ELSE typed
            /\ kind = "piped" => IsReceipt(value)

\* What is gathered at the terminal is what the keys delivered spell, and a
\* value what the first line does.
ReceiptInv ==
  kind = "terminal" =>
    /\ text \in Seq(Letters) /\ Len(text) <= Size
    /\ outcome \in {"idle", "reading"} => Written(typed, delivered, text)
    /\ outcome = "read" => IsReceipt(value) /\ Ended(typed, value)

InputInv == ModeInv /\ PipeInv /\ ReceiptInv

LEMMA InitInputInv == WInit => InputInv
<1> SUFFICES ASSUME WInit PROVE InputInv
  OBVIOUS
<1>1. ModeInv
  BY DEF WInit, ModeInv
<1>2. typed \in Seq(Keys) /\ text \in Seq(Keys) /\ Len(typed) = 0 /\ Len(text) = 0
  BY EmptySeq DEF WInit
<1>3. SubSeq(typed, 1, 0) = <<>>
  BY SubSeqEmpty
<1>4. Limit \in Nat
  BY InputAssumption
<1>5. outcome = "idle" /\ text = <<>> /\ delivered = 0 /\ closed \in BOOLEAN
  BY DEF WInit
<1>6. PipeInv
  BY <1>2, <1>3, <1>4, <1>5 DEF PipeInv
<1>7. ReceiptInv
  <2>1. text \in Seq(Letters) /\ Size \in Nat
    BY <1>5, EmptySeq, InputAssumption
  <2>2. Written(typed, delivered, text)
    <3>1. typed = <<>> /\ text = <<>> /\ delivered = 0 /\ 1..0 = {}
      BY DEF WInit
    <3> QED BY <1>3, <3>1, SpellsNothing DEF Written
  <2> QED BY <1>2, <1>5, <2>1, <2>2 DEF ReceiptInv
<1> QED BY <1>1, <1>6, <1>7 DEF InputInv

\* How a read is let go of.
LEMMA LetsGo ==
  ASSUME ModeInv, outcome = "reading", NEW pending \in BOOLEAN, LetGo(pending),
         pending = TRUE => kind # "terminal"
  PROVE  /\ raw' = wasRaw /\ listening' = pending
         /\ kind = "terminal" => flowing' = FALSE
BY DEF LetGo, ModeInv

\* A step of the terminal's reader, as far as the mode and a pipe's text matter.
LEMMA ReaderSteps ==
  ASSUME InputInv, Begin \/ Data \/ End \/ Error \/ Timeout
  PROVE  /\ UNCHANGED <<terminal, writer>>
         /\ ModeInv'
<1>1. UNCHANGED <<terminal, writer>>
  BY DEF Begin, Data, End, Error, Timeout, Rejected
<1> SUFFICES ModeInv'
  BY <1>1
<1>2. kind' = kind /\ wasRaw' = wasRaw
  BY <1>1 DEF terminal
<1>3. ASSUME UNCHANGED outcome, outcome # "idle",
             \/ UNCHANGED raw /\ outcome = "reading"
             \/ UNCHANGED raw /\ listening' = FALSE /\ flowing' = FALSE
      PROVE  ModeInv'
  BY <1>2, <1>3 DEF InputInv, ModeInv
<1>4. ASSUME outcome = "reading", outcome' \in {"read", "invalid"}, NEW pending \in BOOLEAN,
             LetGo(pending), pending = TRUE => kind # "terminal"
      PROVE  ModeInv'
  BY <1>2, <1>4, LetsGo DEF InputInv, ModeInv
<1>5. \A v : Judge(v) => outcome' \in {"read", "invalid"}
  BY DEF Judge, Return, Throw
<1>6. Unwanted => UNCHANGED <<outcome, raw>> /\ listening' = FALSE /\ flowing' = FALSE
  BY DEF Unwanted, Cleanup
<1>7. CASE Begin
  <2>1. outcome = "idle"
    BY <1>7 DEF Begin
  <2>2. \/ Throw("refused") /\ UNCHANGED <<raw, listening, flowing>>
        \/ outcome' = "reading" /\ raw' = (raw \/ kind = "terminal")
    BY <1>7, Zenon DEF Begin
  <2>3. CASE Throw("refused") /\ UNCHANGED <<raw, listening, flowing>>
    BY <1>2, <2>1, <2>3 DEF Throw, InputInv, ModeInv
  <2>4. CASE outcome' = "reading" /\ raw' = (raw \/ kind = "terminal")
    <3>1. raw' \in BOOLEAN
      BY <2>4
    <3>2. kind # "terminal" => raw' = raw
      <4>1. kind # "terminal" => raw' = (raw \/ FALSE)
        BY <2>4
      <4>2. raw \in BOOLEAN
        BY DEF InputInv, ModeInv
      <4> QED BY <4>1, <4>2
    <3> QED BY <1>2, <2>1, <2>4, <3>1, <3>2 DEF InputInv, ModeInv
  <2> QED BY <2>2, <2>3, <2>4
<1>8. CASE Data
  <2>1. PICK chunk : \/ outcome = "reading" /\ kind = "terminal" /\ Typing(chunk)
                     \/ outcome = "reading" /\ kind # "terminal" /\ Collecting(chunk)
                     \/ outcome # "reading" /\ Unwanted
    BY <1>8 DEF Data
  <2>2. outcome # "idle"
    BY <1>8 DEF Data, InputInv, ModeInv
  <2>3. CASE outcome = "reading" /\ kind = "terminal" /\ Typing(chunk)
    BY <1>3, <1>4, <1>5, <2>3 DEF Typing, Throw
  <2>4. CASE outcome = "reading" /\ kind # "terminal" /\ Collecting(chunk)
    BY <1>3, <1>4, <2>4 DEF Collecting, Throw
  <2> QED BY <1>3, <1>6, <2>1, <2>2, <2>3, <2>4
<1>9. CASE End
  <2>1. outcome # "idle"
    BY <1>9 DEF End, InputInv, ModeInv
  <2> QED BY <1>3, <1>4, <1>5, <1>6, <1>9, <2>1 DEF End, Throw
<1>10. CASE Error \/ Timeout
  <2>1. outcome # "idle"
    BY <1>10 DEF Error, Timeout, InputInv, ModeInv
  <2> QED BY <1>3, <1>4, <1>6, <1>10, <2>1 DEF Error, Timeout, Rejected, Throw
<1> QED BY <1>1, <1>7, <1>8, <1>9, <1>10

\* Ends of reads: nothing is read while nobody listens, and what is given up,
\* or refused, was no value.
LEMMA NothingReadYet ==
  ASSUME InputInv, listening
  PROVE  outcome # "read" \/ kind = "terminal"
BY DEF InputInv, PipeInv

LEMMA PipeSteps ==
  ASSUME InputInv, Begin \/ Data \/ End \/ Error \/ Timeout
  PROVE  PipeInv'
<1>1. /\ typed' = typed /\ closed' = closed /\ kind' = kind
      /\ typed \in Seq(Keys) /\ closed \in BOOLEAN /\ Len(typed) \in Nat /\ delivered \in 0..Len(typed)
  BY ReaderSteps, LenProperties DEF terminal, writer, InputInv, PipeInv
\* A step that gives nothing back, and takes nothing, or a piece that nobody reads.
<1>2. ASSUME delivered' \in 0..Len(typed), UNCHANGED text, outcome' # "idle", outcome' # "read",
             outcome' = "reading" => UNCHANGED delivered /\ outcome \in {"idle", "reading"}
      PROVE  PipeInv'
  BY <1>1, <1>2 DEF InputInv, PipeInv
<1>3. ASSUME kind = "terminal", delivered' \in 0..Len(typed), outcome' # "idle"
      PROVE  PipeInv'
  BY <1>1, <1>3 DEF PipeInv
<1>4. CASE Begin
  <2>1. UNCHANGED <<text, delivered>> /\ outcome = "idle" /\ outcome' \in {"refused", "reading"}
    BY <1>4, Zenon DEF Begin, Throw
  <2> QED BY <1>1, <1>2, <2>1
<1>5. CASE Data
  <2>1. PICK n \in delivered + 1 .. Len(typed) :
          /\ delivered' = n
          /\ LET chunk == SubSeq(typed, delivered + 1, n)
             IN \/ outcome = "reading" /\ kind = "terminal" /\ Typing(chunk)
                \/ outcome = "reading" /\ kind # "terminal" /\ Collecting(chunk)
                \/ outcome # "reading" /\ Unwanted
    BY <1>5 DEF Data, Cleanup
  <2> DEFINE chunk == SubSeq(typed, delivered + 1, n)
  <2>2. n \in 0..Len(typed) /\ outcome # "idle" /\ (outcome # "read" \/ kind = "terminal")
    <3>1. listening
      BY <1>5 DEF Data
    <3>2. outcome # "idle"
      BY <3>1 DEF InputInv, ModeInv
    <3> QED BY <1>1, <3>1, <3>2, NothingReadYet
  <2>3. CASE outcome = "reading" /\ kind = "terminal" /\ Typing(chunk)
    <3>1. outcome' # "idle"
      BY <2>3 DEF Typing, Judge, Return, Throw
    <3> QED BY <1>3, <2>1, <2>2, <2>3, <3>1
  <2>4. CASE outcome = "reading" /\ kind # "terminal" /\ Collecting(chunk)
    <3>1. CASE Len(text) + Len(chunk) <= Limit /\ text' = text \o chunk /\ UNCHANGED outcome
      <4>1. /\ chunk \in Seq(Keys) /\ text \in Seq(Keys)
        <5>1. \A i \in (delivered + 1)..n : typed[i] \in Keys
          BY <1>1, <2>2, ElementOfSeq
        <5>2. chunk \in Seq(Keys)
          BY <1>1, <2>2, <5>1, SubSeqProperties
        <5> QED BY <2>4, <5>2 DEF InputInv, PipeInv
      <4>2. text' = SubSeq(typed, 1, n)
        <5>1. text = SubSeq(typed, 1, delivered)
          BY <2>4 DEF InputInv, PipeInv
        <5>2. 1 \in 1..(Len(typed) + 1) /\ delivered \in (1 - 1)..Len(typed) /\ n \in delivered..Len(typed)
          BY <1>1, <2>2
        <5> QED BY <1>1, <3>1, <5>1, <5>2, ConcatAdjacentSubSeq
      <4>3. text' \in Seq(Keys) /\ Len(text') <= Limit
        BY <3>1, <4>1, ConcatProperties
      <4> QED BY <1>1, <2>1, <2>2, <2>4, <3>1, <4>2, <4>3 DEF PipeInv
    <3>2. CASE outcome' = "invalid" /\ UNCHANGED text
      BY <1>2, <2>1, <2>2, <3>2
    <3> QED BY <2>4, <3>1, <3>2 DEF Collecting, Throw
  <2>5. CASE outcome # "reading" /\ Unwanted
    <3>1. UNCHANGED <<text, outcome>>
      BY <2>5 DEF Unwanted
    <3> QED BY <1>2, <1>3, <2>1, <2>2, <2>5, <3>1
  <2> QED BY <2>1, <2>3, <2>4, <2>5
<1>6. CASE End
  <2>1. /\ listening /\ closed = TRUE /\ delivered = Len(typed) /\ UNCHANGED <<delivered, text>>
    BY <1>1, <1>6 DEF End, Unwanted
  <2>2. outcome # "idle" /\ (outcome # "read" \/ kind = "terminal")
    BY <2>1, NothingReadYet DEF InputInv, ModeInv
  <2>3. outcome = "reading" /\ kind # "terminal" => text = typed
    BY <1>1, <2>1, SubSeqFull DEF InputInv, PipeInv
  <2>4. ASSUME outcome = "reading", kind # "terminal",
               NEW v, v = IF kind = "piped" THEN trim(typed) ELSE typed, Judge(v), LetGo(FALSE)
        PROVE  PipeInv'
    <3>1. CASE outcome' = "invalid"
      BY <1>1, <1>2, <2>1, <3>1
    <3>2. CASE outcome' = "read" /\ value' = v /\ (kind = "changes" \/ IsReceipt(v))
      <4>1. listening' = FALSE
        BY <2>4 DEF LetGo
      <4>2. text \in Seq(Keys) /\ Len(text) <= Limit /\ kind \in {"piped", "changes"}
        BY <2>4 DEF InputInv, ModeInv, PipeInv
      <4>3. kind = "piped" => IsReceipt(value)'
        BY <3>2 DEF IsReceipt
      <4> QED BY <1>1, <2>1, <2>3, <2>4, <3>2, <4>1, <4>2, <4>3 DEF PipeInv
    <3> QED BY <2>4, <3>1, <3>2 DEF Judge, Return, Throw
  <2>5. CASE outcome = "reading" /\ kind = "terminal"
    <3>1. outcome' = "invalid"
      BY <1>6, <2>5 DEF End, Throw
    <3> QED BY <1>1, <1>3, <2>1, <2>5, <3>1
  <2>6. CASE outcome = "reading" /\ kind # "terminal"
    <3>1. Judge(IF kind = "piped" THEN trim(text) ELSE text) /\ LetGo(FALSE)
      BY <1>6, <2>6 DEF End
    <3>2. text = typed
      BY <2>3, <2>6
    <3> QED BY <2>4, <2>6, <3>1, <3>2
  <2>7. CASE outcome # "reading"
    <3>1. UNCHANGED outcome
      BY <1>6, <2>7 DEF End, Unwanted
    <3> QED BY <1>1, <1>2, <1>3, <2>1, <2>2, <2>7, <3>1
  <2> QED BY <2>5, <2>6, <2>7
<1>7. CASE Error \/ Timeout
  <2>1. listening /\ Rejected
    BY <1>7 DEF Error, Timeout
  <2>2. outcome # "idle" /\ (outcome # "read" \/ kind = "terminal")
    BY <2>1, NothingReadYet DEF InputInv, ModeInv
  <2>3. UNCHANGED <<text, delivered>> /\ (outcome' = "invalid" \/ (outcome' = outcome /\ outcome # "reading"))
    BY <2>1 DEF Rejected, Throw, Unwanted
  <2> QED BY <1>1, <1>2, <1>3, <2>2, <2>3
<1> QED BY <1>4, <1>5, <1>6, <1>7

\* A piece is gathered key by key, and judged at the end of its line.
LEMMA ReceiptSteps ==
  ASSUME InputInv, Begin \/ Data \/ End \/ Error \/ Timeout
  PROVE  ReceiptInv'
<1> SUFFICES ASSUME kind = "terminal" PROVE ReceiptInv'
  BY ReaderSteps DEF terminal, ReceiptInv
<1>1. /\ typed' = typed /\ kind' = kind /\ typed \in Seq(Keys)
      /\ Len(typed) \in Nat /\ delivered \in 0..Len(typed)
  BY ReaderSteps, LenProperties DEF terminal, writer, InputInv, PipeInv
<1>2. ASSUME UNCHANGED <<text, value>>, outcome' = outcome \/ outcome' \in {"invalid", "refused"},
             delivered' = delivered \/ outcome \notin {"idle", "reading"}
      PROVE  ReceiptInv'
  <2>1. outcome' = "read" => IsReceipt(value)' /\ Ended(typed', value')
    BY <1>1, <1>2 DEF InputInv, ReceiptInv, IsReceipt
  <2>2. outcome' \in {"idle", "reading"} => Written(typed', delivered', text')
    BY <1>1, <1>2 DEF InputInv, ReceiptInv
  <2> QED BY <1>1, <1>2, <2>1, <2>2 DEF InputInv, ReceiptInv
<1>3. CASE Begin
  <2>1. UNCHANGED <<text, delivered, value>> /\ outcome = "idle" /\ outcome' \in {"refused", "reading"}
    BY <1>3, Zenon DEF Begin, Throw
  <2> QED BY <1>1, <2>1 DEF InputInv, ReceiptInv
<1>4. CASE Data
  <2>1. PICK n \in delivered + 1 .. Len(typed) :
          /\ delivered' = n
          /\ LET chunk == SubSeq(typed, delivered + 1, n)
             IN \/ outcome = "reading" /\ Typing(chunk)
                \/ outcome # "reading" /\ Unwanted
    BY <1>4 DEF Data, Cleanup
  <2> DEFINE chunk == SubSeq(typed, delivered + 1, n)
             line == receiptCharacters(text, chunk)
  <2>2. CASE outcome = "reading" /\ Typing(chunk)
    <3>1. Gathered(typed, n, line)
      <4>1. n \in 0..Len(typed) /\ delivered <= n
        BY <1>1
      <4>2. text \in Seq(Letters) /\ Len(text) <= Size /\ Written(typed, delivered, text)
        BY <2>2 DEF InputInv, ReceiptInv
      <4> QED BY <1>1, <4>1, <4>2, Gathers
    <3>2. /\ text' = line.text
          /\ \/ line.state = "open" /\ UNCHANGED <<outcome, value>>
             \/ line.state = "done" /\ Judge(line.text)
             \/ line.state = "invalid" /\ outcome' = "invalid"
      BY <2>2 DEF Typing, Throw
    <3> HIDE DEF line
    <3>3. line.text \in Seq(Letters) /\ Len(line.text) <= Size
      BY <3>1 DEF Gathered
    <3>4. CASE line.state = "open" /\ UNCHANGED <<outcome, value>>
      <4>1. Written(typed, n, line.text)
        BY <3>1, <3>4 DEF Gathered
      <4> QED BY <1>1, <2>1, <2>2, <3>2, <3>3, <3>4, <4>1 DEF ReceiptInv
    <3>5. CASE line.state = "done" /\ Judge(line.text)
      <4>1. Ended(typed, line.text)
        BY <3>1, <3>5 DEF Gathered
      <4>2. \/ outcome' = "read" /\ value' = line.text /\ IsReceipt(line.text)
            \/ outcome' = "invalid"
        BY <3>5 DEF Judge, Return, Throw
      <4>3. outcome' = "read" => IsReceipt(value)'
        BY <4>2 DEF IsReceipt
      <4>4. outcome' = "read" => Ended(typed', value')
        BY <1>1, <4>1, <4>2
      <4>5. outcome' \notin {"idle", "reading"}
        BY <4>2
      <4> QED BY <3>2, <3>3, <4>3, <4>4, <4>5 DEF ReceiptInv
    <3>6. CASE line.state = "invalid" /\ outcome' = "invalid"
      BY <3>2, <3>3, <3>6 DEF ReceiptInv
    <3> QED BY <3>2, <3>4, <3>5, <3>6
  <2>3. CASE outcome # "reading" /\ Unwanted
    <3>1. outcome # "idle"
      BY <1>4 DEF Data, InputInv, ModeInv
    <3>2. UNCHANGED <<text, outcome, value>>
      BY <2>3 DEF Unwanted
    <3> QED BY <1>2, <2>3, <3>1, <3>2
  <2> QED BY <2>1, <2>2, <2>3
<1>5. CASE End
  <2>1. UNCHANGED <<text, delivered, value>> /\ outcome' \in {outcome, "invalid"}
    BY <1>5 DEF End, Throw, Unwanted
  <2> QED BY <1>2, <2>1
<1>6. CASE Error \/ Timeout
  <2>1. UNCHANGED <<text, delivered, value>> /\ outcome' \in {outcome, "invalid"}
    BY <1>6 DEF Error, Timeout, Rejected, Throw, Unwanted
  <2> QED BY <1>2, <2>1
<1> QED BY <1>3, <1>4, <1>5, <1>6

\* What the keys so far spell they spell whatever is sent after them.
LEMMA SpelledStays ==
  ASSUME NEW sent \in Seq(Keys), NEW key \in Keys, NEW word
  PROVE  /\ \A k \in 0..Len(sent) : Written(sent, k, word) => Written(Append(sent, key), k, word)
         /\ Ended(sent, word) => Ended(Append(sent, key), word)
<1> DEFINE more == Append(sent, key)
<1>1. /\ Len(sent) \in Nat /\ more \in Seq(Keys) /\ Len(more) = Len(sent) + 1
      /\ \A i \in 1..Len(sent) : more[i] = sent[i]
  BY AppendProperties, LenProperties
<1> HIDE DEF more
<1>2. ASSUME NEW k \in 0..Len(sent), Written(sent, k, word) PROVE Written(more, k, word)
  <2>1. \A i \in 1..k : i \in 1..Len(sent) /\ more[i] = sent[i]
    BY <1>1
  <2>2. SubSeq(more, 1, k) = SubSeq(sent, 1, k)
    <3>1. k \in Nat /\ 0 <= k /\ \A i \in 1..k : more[i] \in Keys /\ sent[i] \in Keys
      BY <1>1, <2>1, ElementOfSeq
    <3> QED BY <2>1, <3>1
  <2> QED BY <1>2, <2>1, <2>2 DEF Written
<1>3. ASSUME Ended(sent, word) PROVE Ended(more, word)
  <2>1. PICK k \in 0..Len(sent) : k < Len(sent) /\ sent[k + 1] = "enter" /\ Written(sent, k, word)
    BY <1>3 DEF Ended
  <2>2. k \in 0..Len(more) /\ k < Len(more) /\ more[k + 1] = "enter"
    BY <1>1, <2>1
  <2> QED BY <1>2, <2>1, <2>2 DEF Ended
<1> QED BY <1>2, <1>3 DEF more

\* The writer adds to what was sent, and takes nothing of it back.
LEMMA WriterSteps ==
  ASSUME InputInv, (\E key \in Keys : Send(key)) \/ Hangup \/ PassDeadline
  PROVE  InputInv'
<1>1. /\ UNCHANGED <<kind, wasRaw, raw, outcome, value, text, delivered, listening, flowing>>
      /\ listening
  BY DEF Send, Hangup, PassDeadline, terminal
<1>2. ModeInv'
  BY <1>1 DEF InputInv, ModeInv
<1>3. outcome # "read" \/ kind = "terminal"
  BY <1>1, NothingReadYet
<1>4. typed \in Seq(Keys) /\ delivered \in 0..Len(typed) /\ closed \in BOOLEAN
  BY DEF InputInv, PipeInv
<1>5. ASSUME typed' \in Seq(Keys), Len(typed) <= Len(typed'), closed' \in BOOLEAN,
             SubSeq(typed', 1, delivered) = SubSeq(typed, 1, delivered)
      PROVE  PipeInv'
  <2>1. delivered' \in 0..Len(typed')
    BY <1>1, <1>4, <1>5, LenProperties
  <2> QED BY <1>1, <1>3, <1>5, <2>1 DEF InputInv, PipeInv
<1>6. CASE \E key \in Keys : Send(key)
  <2>1. PICK key \in Keys : typed' = Append(typed, key) /\ closed' = closed
    BY <1>6 DEF Send
  <2>2. typed' \in Seq(Keys) /\ Len(typed') = Len(typed) + 1 /\ Len(typed) \in Nat
    BY <1>4, <2>1, AppendProperties, LenProperties
  <2>3. \A i \in 1..Len(typed) : typed'[i] = typed[i]
    BY <1>4, <2>1, AppendProperties
  <2>4. SubSeq(typed', 1, delivered) = SubSeq(typed, 1, delivered)
    <3>1. \A i \in 1..delivered : typed'[i] = typed[i]
      BY <1>4, <2>2, <2>3
    <3> QED BY <1>4, <2>2, <3>1
  <2>5. ReceiptInv'
    <3>1. /\ Written(typed, delivered, text) => Written(typed', delivered, text)
          /\ Ended(typed, value) => Ended(typed', value)
      BY <1>4, <2>1, SpelledStays
    <3>2. IsReceipt(value) => IsReceipt(value)'
      BY <1>1 DEF IsReceipt
    <3>3. outcome' \in {"idle", "reading"} /\ kind' = "terminal" => Written(typed', delivered', text')
      BY <1>1, <3>1 DEF InputInv, ReceiptInv
    <3>4. outcome' = "read" /\ kind' = "terminal" => IsReceipt(value)' /\ Ended(typed', value')
      BY <1>1, <3>1, <3>2 DEF InputInv, ReceiptInv
    <3> QED BY <1>1, <3>3, <3>4 DEF InputInv, ReceiptInv
  <2> QED BY <1>2, <1>4, <1>5, <2>1, <2>2, <2>4, <2>5 DEF InputInv
<1>7. CASE Hangup \/ PassDeadline
  <2>1. typed' = typed /\ closed' \in BOOLEAN
    BY <1>4, <1>7 DEF Hangup, PassDeadline, writer
  <2>2. Len(typed) <= Len(typed')
    BY <1>4, <2>1, LenProperties
  <2>3. ReceiptInv'
    BY <1>1, <2>1 DEF InputInv, ReceiptInv, IsReceipt
  <2> QED BY <1>2, <1>4, <1>5, <2>1, <2>2, <2>3 DEF InputInv
<1> QED BY <1>6, <1>7

THEOREM InputInvariant == WSpec => []InputInv
<1>1. InputInv /\ UNCHANGED wvars => InputInv'
  BY DEF wvars, terminal, writer, InputInv, ModeInv, PipeInv, ReceiptInv, IsReceipt
<1>2. InputInv /\ [WNext]_wvars => InputInv'
  BY <1>1, ReaderSteps, PipeSteps, ReceiptSteps, WriterSteps DEF WNext, InputInv
<1> QED BY <1>2, InitInputInv, PTL DEF WSpec

\* However a read ends, by an answer, the limit, an error, a refusal or the
\* deadline, the terminal has its mode back and nothing of the read is left.
THEOREM ModeRestored == WSpec => []TerminalRestored
<1>1. InputInv => TerminalRestored
  BY DEF InputInv, ModeInv, TerminalRestored
<1> QED BY <1>1, InputInvariant, PTL

\* However it comes in pieces, what a command reads is what was sent: from a
\* pipe, all of it until its end, without the line ends around a receipt; at a
\* terminal, the letters of the first line that were not erased.  It never
\* holds more than the limit.
THEOREM AlwaysWhatWasSent == WSpec => []ValueIsWhatWasSent
<1>1. ASSUME InputInv, kind # "terminal" PROVE ValueIsWhatWasSent
  <2>1. Len(text) <= Limit
    BY <1>1 DEF InputInv, PipeInv
  <2>2. ASSUME outcome = "read", kind = "piped"
        PROVE  /\ closed /\ IsReceipt(value) /\ Len(typed) <= Limit
               /\ \E m, n \in 0 .. Len(typed) :
                    /\ value = SubSeq(typed, m + 1, n)
                    /\ \A i \in DOMAIN typed \ (m + 1 .. n) : typed[i] = "enter"
    <3>1. /\ closed /\ Len(typed) <= Limit /\ typed \in Seq(Keys)
          /\ value = trim(typed) /\ IsReceipt(value)
      BY <1>1, <2>2 DEF InputInv, PipeInv
    <3>2. value # <<>>
      <4>1. Len(value) # 0
        BY <3>1, InputAssumption DEF IsReceipt
      <4> QED BY <4>1
    <3> QED BY <3>1, <3>2, TrimCutsEnds
  <2>3. ASSUME outcome = "read", kind = "changes"
        PROVE  closed /\ value = typed /\ Len(typed) <= Limit
    BY <1>1, <2>3 DEF InputInv, PipeInv
  <2>4. kind \in {"piped", "changes"}
    BY <1>1 DEF InputInv, ModeInv
  <2> QED BY <1>1, <2>1, <2>2, <2>3, <2>4 DEF ValueIsWhatWasSent
<1>2. ASSUME InputInv, kind = "terminal" PROVE ValueIsWhatWasSent
  <2>1. Len(text) <= Size
    BY <1>2 DEF InputInv, ReceiptInv
  <2>2. ASSUME outcome = "read"
        PROVE  /\ IsReceipt(value)
               /\ \E n \in 0 .. Len(typed) :
                    LET line == SubSeq(typed, 1, n)
                    IN IsFirstLine(line) /\ Spells(line, value)
    <3>1. typed \in Seq(Keys) /\ Len(typed) \in Nat /\ IsReceipt(value) /\ Ended(typed, value)
      BY <1>2, <2>2, LenProperties DEF InputInv, PipeInv, ReceiptInv
    <3>2. PICK k \in 0..Len(typed) : k < Len(typed) /\ typed[k + 1] = "enter" /\ Written(typed, k, value)
      BY <3>1 DEF Ended
    <3> DEFINE line == SubSeq(typed, 1, k)
    <3>3. Len(line) = k /\ DOMAIN line = 1..k /\ \A i \in 1..k : line[i] = typed[i]
      <4>1. \A i \in 1..k : typed[i] \in Keys
        BY <3>1, ElementOfSeq
      <4>2. line \in Seq(Keys) /\ Len(line) = k /\ \A i \in 1..k : line[i] = typed[i]
        BY <3>1, <4>1, SubSeqProperties
      <4> QED BY <4>2, LenProperties
    <3>4. "enter" \notin Range(line)
      <4>1. \A i \in 1..k : line[i] # "enter"
        BY <3>2, <3>3, InputAssumption DEF Written
      <4> HIDE DEF line
      <4> QED BY <3>3, <4>1 DEF Range
    <3>5. Spells(line, value)
      BY <3>2 DEF Written
    <3>6. IsFirstLine(line)
      <4>1. \E rest \in 0..Len(typed) : line = SubSeq(typed, 1, rest)
        OBVIOUS
      <4> HIDE DEF line
      <4> QED BY <3>2, <3>3, <3>4, <4>1 DEF IsFirstLine
    <3> QED BY <3>1, <3>5, <3>6
  <2> QED BY <1>2, <2>1, <2>2 DEF ValueIsWhatWasSent
<1>3. InputInv => ValueIsWhatWasSent
  BY <1>1, <1>2
<1> QED BY <1>3, InputInvariant, PTL
=============================================================================
