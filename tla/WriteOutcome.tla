---------------------------- MODULE WriteOutcome ----------------------------
(***************************************************************************)
(* One write through its three commands: preview, execute, status.  What   *)
(* the client takes for an answer is decided by the validators of its      *)
(* operation: quote-write-response.ts, quote-accept-response.ts,           *)
(* quote-decline-response.ts, service-create-response.ts,                  *)
(* service-update-response.ts, service-transition-response.ts and          *)
(* service-delivery-response.ts, and for customers and leads validWrite    *)
(* and statusData of canonical-crm-client.ts; agent-error.ts turns an      *)
(* error into a code and an exit status.  AgentClient has the transport:   *)
(* here an answer is there or lost, and its content matters.               *)
(***************************************************************************)
EXTENDS Naturals

Crm == {"customer_update", "lead_update"}
Writes == Crm \cup {
  "quote_create", "quote_update", "quote_accept", "quote_decline",
  "service_create", "service_update", "service_transition", "service_deliver"}

VARIABLES
  op,       \* the operation of the three commands
  at,       \* the command being run, or the user between two
  shown,    \* what the accepted preview stands for
  flight,   \* the execution may still reach the server
  journal,  \* server: what it has recorded of the execution
  applied,  \* server: the change it has made
  heard,    \* the journal's entry the last lookup was answered from
  verdict,  \* what the user knows of the execution
  exit      \* the exit status of execute

server == <<journal, applied>>
ovars == <<op, at, shown, flight, server, heard, verdict, exit>>

\* The user asks for one resource and, for a transition, one target status;
\* an answer may stand for another.
Which == {"asked", "other"}
Changes == [op : Writes, resource : Which, target : Which]
Nothing == [op |-> "none"]

\* What can be wrong with a preview: an identifying field, its label, a field
\* of the proposed changes missing, of the wrong type or undocumented, its
\* side effects or warnings.
PreviewParts == {"identity", "label", "missing", "type", "extra", "effects"}
\* What can be wrong with the data of a success: its shape, or the state the
\* resource is in after the change.
DataDefects == {"none", "shape", "state"}

Codes == {"authentication_required", "authorization_denied", "approval_required",
          "conflict", "invalid_request", "internal_error", "provider_unavailable",
          "execution_ambiguous", "execution_in_progress"}
Uncertain == {"execution_ambiguous", "execution_in_progress"}
ServerCodes ==
  Codes \cup {"crm_operation_unsupported", "payment_provider_unavailable", "unheard_of"}

\* What a write's validators demand: which parts of a preview they look at, what
\* of it they compare with the request, the status of a success, and whether
\* they look at the state the change leaves the resource in.
Rule(parts, bound, status, state) ==
  [checked |-> parts, bound |-> bound, status |-> status, state |-> state]

\* A customer's preview names no operation, is shown without a label and may
\* have any changes that are strings; a lead's only the documented ones.
customer_update == Rule({"identity", "type", "effects"}, {"resource"}, 200, FALSE)
lead_update == Rule(PreviewParts \ {"label"}, {"resource"}, 200, FALSE)
\* A quote to be created has no identifier to compare.
quote_create == Rule(PreviewParts, {"op"}, 201, FALSE)
quote_update == Rule(PreviewParts, {"op", "resource"}, 200, FALSE)
quote_accept == Rule(PreviewParts, {"op", "resource"}, 200, FALSE)
quote_decline == Rule(PreviewParts, {"op", "resource"}, 200, TRUE)
\* A new service's target is "backlog", a delivery's its one action.
service_create == Rule(PreviewParts, {"op", "resource", "target"}, 201, TRUE)
service_update == Rule(PreviewParts, {"op", "resource"}, 200, FALSE)
service_transition == Rule(PreviewParts, {"op", "resource", "target"}, 200, FALSE)
service_deliver == Rule(PreviewParts, {"op", "resource", "target"}, 200, TRUE)

rule ==
  [customer_update |-> customer_update, lead_update |-> lead_update,
   quote_create |-> quote_create, quote_update |-> quote_update,
   quote_accept |-> quote_accept, quote_decline |-> quote_decline,
   service_create |-> service_create, service_update |-> service_update,
   service_transition |-> service_transition, service_deliver |-> service_deliver][op]

Blank == [status |-> 0, defect |-> "none", code |-> "none"]
Success(s, d) == [Blank EXCEPT !.status = s, !.defect = d]
Failure(s, c) == [Blank EXCEPT !.status = s, !.code = c]

OInit ==
  /\ op \in Writes /\ at = "preview"
  /\ shown = Nothing /\ flight = FALSE
  /\ journal = [state |-> "unknown", outcome |-> Blank] /\ applied = Nothing
  /\ heard = Nothing /\ verdict = "none" /\ exit = 0

-----------------------------------------------------------------------------
(* Previews *)

\* Variant: the previewed resource is not compared with the one asked for.
BoundByOperation(a) ==
  /\ "op" \in rule.bound => a.op = op
  /\ "target" \in rule.bound => a.target = "asked"

\* The preview stands for the request it answers.
Bound(a) ==
  /\ "op" \in rule.bound => a.op = op
  /\ "resource" \in rule.bound => a.resource = "asked"
  /\ "target" \in rule.bound => a.target = "asked"

PreviewAccepted(status, a, defect) ==
  /\ status = 200 \/ (op \in Crm /\ status \in 200..299)
  /\ Bound(a)
  /\ defect \notin rule.checked

Preview ==
  /\ at = "preview"
  /\ \E status \in {200, 201, 409, 503}, a \in Changes, d \in PreviewParts \cup {"none"} :
       IF PreviewAccepted(status, a, d)
       THEN at' = "review" /\ shown' = a
       ELSE UNCHANGED <<at, shown>>
  /\ UNCHANGED <<op, flight, server, heard, verdict, exit>>

\* The user has the preview approved and sends its identifier, the receipt
\* and a key of his own.
Execute ==
  /\ at = "review" /\ at' = "execute"
  /\ flight' = TRUE
  /\ UNCHANGED <<op, shown, server, heard, verdict, exit>>

-----------------------------------------------------------------------------
(* Errors *)

\* canonicalErrorCode, and internal_error for a code it does not know.
Canonical(c) ==
  CASE c = "crm_operation_unsupported" -> "unsupported_operation"
    [] c = "payment_provider_unavailable" -> "provider_unavailable"
    [] c \in Codes -> c
    [] OTHER -> "internal_error"

\* recordedFailureCode: the codes a recorded failure may have.
RecordedFailure(c) ==
  c \in (Codes \ (Uncertain \cup {"provider_unavailable"})) \cup {"crm_operation_unsupported"}

\* Variant: the server's word on a retry is taken for every code.
RetryableAsSaid(status, code, said) ==
  IF said # "nothing" THEN said = "retry" ELSE status = 429 \/ status >= 500

\* agentFailure: an uncertain execution is not retryable, whatever is said.
Retryable(status, code, said) ==
  /\ code \notin Uncertain
  /\ IF said # "nothing" THEN said = "retry" ELSE status = 429 \/ status >= 500

\* agentFailureExitCode
ExitCode(status, code, said) ==
  IF code = "authentication_required" \/ status = 401 THEN 3
  ELSE IF code = "authorization_denied" \/ status = 403 THEN 4
  ELSE CASE code = "approval_required" -> 5
         [] code = "conflict" -> 6
         [] code \in {"invalid_request", "unsupported_operation"} -> 2
         [] OTHER -> IF Retryable(status, code, said) THEN 7 ELSE 1

-----------------------------------------------------------------------------
(* Executions *)

ValidData(defect) == defect # "shape" /\ (rule.state => defect # "state")
ValidSuccess(r) == ValidData(r.defect) /\ (r.status = rule.status \/ op \in Crm)

\* Variant: a success with data the client rejects is an invalid response.
RejectedPlainly(r) ==
  IF r.status >= 500 THEN "execution_ambiguous"
  ELSE IF r.status >= 400 THEN Canonical(r.code)
  ELSE IF ValidSuccess(r) THEN "success" ELSE "invalid_response"

\* What the code prints for an answered execution: a success, or a code.  A
\* server error and an invalid success are both ambiguous.
Printed(r) ==
  IF r.status >= 500 THEN "execution_ambiguous"
  ELSE IF r.status >= 400 THEN Canonical(r.code)
  ELSE IF ValidSuccess(r) THEN "success" ELSE "execution_ambiguous"

Concluded(r) ==
  CASE Printed(r) = "success" -> "done"
    [] Printed(r) \in Uncertain -> "doubtful"
    [] OTHER -> "failed"

Receive(r, said) ==
  /\ at = "execute" /\ at' = "rest"
  /\ verdict' = Concluded(r)
  /\ exit' = IF Printed(r) = "success" THEN 0
             ELSE ExitCode(r.status, Printed(r), IF r.status < 500 THEN said ELSE "nothing")
  /\ UNCHANGED <<op, shown, server, heard>>

\* The request or its answer is lost, or the answer cannot be read.
Lose ==
  /\ at = "execute" /\ at' = "rest"
  /\ verdict' = "doubtful" /\ exit' = ExitCode(503, "execution_ambiguous", "nothing")
  /\ UNCHANGED <<op, shown, flight, server, heard>>

-----------------------------------------------------------------------------
(* Lookups *)

\* Variant: the lookup of every write expects the status of an update.
SettlesAsUpdate(o) == o.status = 200 /\ ValidData(o.defect)

\* The recorded success of a lookup is held to the execution's own validator
\* and status.
SettlesSuccess(o) == o.status = rule.status /\ ValidData(o.defect)

\* What a status command takes from an answer: nothing, unless it is about
\* this preview, forbids a retry and agrees with itself.
LookedUp(a) ==
  IF ~(a.mine /\ ~a.retry /\ (a.reconcile <=> a.state \in {"unknown", "ambiguous"}))
  THEN "doubtful"
  ELSE CASE a.state = "succeeded" /\ SettlesSuccess(a.outcome) -> "done"
         [] a.state = "failed" /\ a.outcome.status \in 400..599 /\ RecordedFailure(a.outcome.code) -> "failed"
         [] OTHER -> "doubtful"

LookUp ==
  /\ at = "rest" /\ verdict = "doubtful" /\ at' = "status"
  /\ heard' = Nothing
  /\ UNCHANGED <<op, shown, flight, server, verdict, exit>>

Hear(a, from) ==
  /\ at = "status" /\ at' = "rest"
  /\ verdict' = LookedUp(a) /\ heard' = from
  /\ UNCHANGED <<op, shown, flight, server, exit>>

\* The lookup is lost, refused or unreadable.
HearNothing ==
  /\ at = "status" /\ at' = "rest"
  /\ UNCHANGED <<op, shown, flight, server, heard, verdict, exit>>

-----------------------------------------------------------------------------
(* The server (external) *)

Claim ==
  /\ flight /\ flight' = FALSE
  /\ journal' = [journal EXCEPT !.state = "pending"]
  /\ UNCHANGED <<op, at, shown, applied, heard, verdict, exit>>

Apply ==
  /\ journal.state = "pending" /\ applied' = shown
  /\ UNCHANGED <<op, at, shown, flight, journal, heard, verdict, exit>>

Settles(o, s) == journal' = [state |-> s, outcome |-> o]

\* The outcome is recorded as it is, or as one the server cannot tell.
Record ==
  /\ journal.state = "pending"
  /\ \/ /\ applied # Nothing
        /\ \E d \in DataDefects : Settles(Success(rule.status, d), "succeeded")
     \/ /\ applied = Nothing
        /\ \E s \in {400, 429, 503}, c \in ServerCodes \ Uncertain : Settles(Failure(s, c), "failed")
     \/ Settles(Failure(503, "execution_ambiguous"), "ambiguous")
  /\ UNCHANGED <<op, at, shown, flight, applied, heard, verdict, exit>>

\* What the server adds to an error about repeating the request.
Said == {"nothing", "retry", "final"}

\* The execution is turned down, and will not be made.
Refuse ==
  /\ flight /\ flight' = FALSE
  /\ \E s \in {400, 401, 403, 429}, c \in ServerCodes \ Uncertain, said \in Said :
       Receive(Failure(s, c), said)
  /\ UNCHANGED server

\* It is answered from the journal, or by something that does not know it.
Answer ==
  /\ \E said \in Said :
       \/ journal.state = "pending" /\ Receive(Failure(409, "execution_in_progress"), said)
       \/ journal.state = "ambiguous" /\ Receive(Failure(409, "execution_ambiguous"), said)
       \/ journal.state \in {"succeeded", "failed"} /\ Receive(journal.outcome, said)
       \/ \E c \in ServerCodes : Receive(Failure(503, c), said)
  /\ UNCHANGED <<flight, server>>

Entry(s, o) ==
  [mine |-> TRUE, retry |-> FALSE, state |-> s, outcome |-> o,
   reconcile |-> s \in {"unknown", "ambiguous"}]

AnswerStatus == Hear(Entry(journal.state, journal.outcome), journal)

\* Another preview's entry, or one of a server in doubt about its own.
Settlements ==
  {Entry("succeeded", Success(rule.status, "none"))} \cup
  {Entry("failed", Failure(503, c)) : c \in ServerCodes}

InDoubt ==
  {[e EXCEPT !.reconcile = TRUE] : e \in Settlements} \cup
  {[e EXCEPT !.retry = TRUE] : e \in Settlements} \cup
  {Entry("failed", Failure(409, c)) : c \in Uncertain \cup {"provider_unavailable"}}

AnswerWrongly ==
  \/ \E e \in Settlements : Hear([e EXCEPT !.mine = FALSE], Nothing)
  \/ /\ journal.state \in {"unknown", "pending", "ambiguous"}
     /\ \E e \in InDoubt : Hear(e, Nothing)

-----------------------------------------------------------------------------
Next ==
  \/ Preview \/ Execute \/ Lose \/ LookUp \/ HearNothing
  \/ Claim \/ Apply \/ Record \/ Refuse \/ Answer \/ AnswerStatus \/ AnswerWrongly

OSpec == OInit /\ [][Next]_ovars

-----------------------------------------------------------------------------
(* Properties *)

\* What the user is told is so and stays so, whichever command told it: done
\* only when the previewed change was made, failed only when it never is.
VerdictsTrue ==
  /\ verdict = "done" => applied = shown
  /\ verdict = "failed" => applied = Nothing

\* The change made is the one asked for, in every respect the preview of its
\* operation binds: an answer to another request is never carried on with.
AskedIsApplied ==
  applied # Nothing =>
    /\ op \notin Crm => applied.op = op
    /\ op # "quote_create" => applied.resource = "asked"
    /\ op \in {"service_transition", "service_create", "service_deliver"} =>
         applied.target = "asked"

\* The execution is the one key of ReportedChange: what is said of it is so and
\* is never taken back, and once it was reported as failed it changes nothing,
\* though the server took the request long before (canonical-crm-client.ts
\* 370-389, README.md 541-552).
Reported == INSTANCE ReportedChange WITH
  MaxKeys <- 1,
  told <- [k \in {1} |-> IF at = "execute" THEN "open" ELSE verdict],
  made <- IF applied = Nothing THEN {} ELSE {1}

ImplementsReported == Reported!RSpec

\* An execution that ends with the exit status for a later retry has had no
\* effect and has none later, whatever the server says about repeating it.
RetryIsSafe == exit = 7 => applied = Nothing

\* For every operation, a lookup settles what the answer to the execution,
\* had it come, would have settled: a journal's success under the validator
\* and status of that operation, its failure under a code it may record.
LookupAgrees ==
  at = "rest" /\ heard # Nothing =>
    /\ heard.state = "succeeded" /\ Concluded(heard.outcome) = "done" => verdict = "done"
    /\ heard.state = "failed" /\ RecordedFailure(heard.outcome.code) => verdict = "failed"
=============================================================================
