# Verification of the BizYeet command line tool

TLA+ models of the parts of the `bizyeet` CLI, and of the tooling that releases
it, whose correctness depends on order, failure and time: where credentials are
kept and which of them is believed, the life of a grant across login, refresh and
logout, requests that may be lost, late or repeated, the two login flows, the
locked files under all of them, what is read from the terminal and from
responses, exported and concluded, and the publication of a release.
Small instances are checked with TLC; the most important safety
properties are proved for all values of the constants with TLAPS.

Paths below are relative to the repository; line numbers are those of the
modelled commit. The exact lines each definition translates are in
`PROJECT.json`, `map`.

## 1. The system

The CLI is a short-lived process per command. Several may run at once, and what
they share is on disk, in the keychain and at the server.

| part | source | state it keeps | operations | behaviour that is hard |
|---|---|---|---|---|
| credential store | `src/credential-store.ts` | per profile: a keychain entry, an entry of `credentials.json`, an authority record (backend, generation) | `read`, `save`, `remove`, each one transaction under `.credential-authority.lock` | any of five external calls fails with or without its effect; keychain comes and goes; crash anywhere; `BIZYEET_CREDENTIAL_STORE=file` goes round the transaction |
| private JSON files | `src/profile-store.ts`, `src/credential-cleanup.ts` | two files, two lock directories, temporary files | read under a descriptor check, locked read-modify-rename, cleanup that keeps the result | lost updates, half-written files, abandoned locks, a lock that cannot be removed after the change |
| profile session | `src/cli.ts`, `src/agent-client.ts` (`currentCredentials`) | `.profile-<name>.lock`; tokens in memory | `auth login`, `auth logout`, refresh by any other command | a refresh token is consumed by use; responses are lost; a save fails after the grant exists; a kill between grant and save |
| agent transport | `src/agent-client.ts` (`invoke`), `src/canonical-crm-client.ts`, `src/agent-error.ts` | the command's token and tries | reads, status lookups, previews, executions | requests time out and arrive later; two independent retries; a change must be made at most once and never misreported |
| device login | `src/oauth.ts` 296-353 | interval, deadline | poll, slow down, sleep, expire | clock changes, the limit of timers, late answers |
| browser login | `src/auth-session.ts`, `src/loopback.ts` | a listener, its connections, a promise | register, open the browser, wait, close, exchange | requests at any moment, before anything waits for them; connections that stay |
| OAuth requests | `src/oauth.ts` | none | discovery, registration, exchange, refresh, revoke | each fails with or without effect (steps of the models above) |
| write input | `src/write-input.ts` | terminal mode, collected bytes | piped input, hidden receipt | four events race for one read |
| bounded responses | `src/bounded-json.ts` | byte count, decoder, the stream | read up to a limit | chunks cut anywhere, a chunk pulled ahead, a body that trickles on, cancellation that fails |
| read export | `src/cli.ts` 527-541, `src/read-export.ts`, `src/export-security.ts` | a private directory and file | print or export, clean up | any of eleven calls fails, the cleanup too; a kill in between |
| status validation of writes | `src/*-write-response.ts` and the other `src/quote-*`, `src/service-*` validators, `statusData`, `src/agent-error.ts` | none; the user's view of a write | preview, execute, look up | ten writes, each with validators of its own for preview, execution and recorded outcome, which have to agree |
| contracts | `src/*-contract.ts`, `src/service-response.ts`, `src/quote-response.ts`, `src/mcp-contract.ts` | none | validate, project | none: stateless |
| command line | `src/cli.ts` | none | parse, dispatch, print | its control is in the session, transport and output models |
| release environment helper | `scripts/release-environment.ts` | what it read and planned; the environment is GitHub's | inspect, plan, apply, resume | other administrators and accounts between read and write; lost answers; a run killed half way |
| release workflow | `scripts/release-workflow-template.ts`, `.github/workflows/release-cli.yml`, `scripts/release-publication.ts` | npm's version, GitHub's releases, drafts and assets; a run's attempts | prepare, reconcile, publish, verify, create, upload, finish; re-run | jobs that die anywhere, lost answers, a registry that lags, hand-made changes, re-runs with other build files |
| other tooling | `scripts/` | none at run time | policy and documentation checks | none: over text |

How they interact: `cli.ts:run` takes the profile lock and runs the command
inside it; the command reads the credential store, may refresh (a token request
followed by a store save), then calls the agent transport. The store runs each
operation under its own lock and rewrites its files through the locked
rewriting, the fallback under a third lock. Locks are always taken in that
order, and every wait for one is bounded. A response is read by the bounded
reader, judged by the validators of its operation, and printed or exported. The
release tooling runs apart from the program and shares no state with it.

What must be true of each part, beyond returning the right thing when nothing
fails:

- store: what the caller was told about a save or a removal stays true, whatever
  failed underneath; a credential whose save was refused never comes back;
- files: one atomic collection, whatever fails;
- session: no grant is lost without the user being told, no kept token is
  revoked, no refresh token is used twice;
- transport: verdicts are true, the change is made at most once, each command ends;
- device login: never faster than the server asked, and it ends;
- browser login: only the matching callback logs in, nothing keeps listening, and it ends;
- input: what is read is what was sent, the terminal has its mode back, and each read ends;
- responses and exports: read exactly or not at all, written only where it is private, reported truly;
- write validation: what the user is told of a write is so, what is made was
  asked for, and a lookup settles whatever the answer would have;
- release helper: it changes nothing but what it made or was told to finish, and claims only what is so;
- release workflow: what is published is whole and of one build, once and in
  time, overwrites nothing, and can be completed after a stop.

`PROJECT.json` lists the concrete hazards at their lines, with the properties
that cover each.

## 2. Modules

| module | models | kind |
|---|---|---|
| `CredentialStore` | `credential-store.ts` in the POSIX automatic mode | detailed |
| `CredentialRegister` | what that store promises | abstract, implemented by `CredentialStore` |
| `CredentialStoreInvariant` | the inductive invariant of the store | invariant |
| `CredentialStoreProofs` | its theorems, including the refinement | proofs |
| `ProfileSession` | login, logout and refresh of one profile; EXTENDS `CredentialStore` and runs its actions | composition |
| `ProfileSessionInvariant` | the inductive invariant of the session | invariant |
| `ProfileSessionProofs` | its theorems | proofs |
| `LockedCollection` | the locked rewriting of one private JSON file | detailed |
| `AtomicCollection` | what that promises | abstract, implemented by `LockedCollection` |
| `LockedCollectionProofs` | theorems, including the refinement | proofs |
| `AgentClient` | one change by one user through `invoke` and the transport, with a server that journals executions | detailed |
| `ReportedChange` | what a write promises its user | abstract, implemented by `AgentClient` and `WriteOutcome` |
| `AgentClientProofs` | its theorems, including the refinement | proofs |
| `DevicePolling` | `pollDeviceToken` with clock, timers and server | detailed |
| `BrowserLogin` | `loginWithBrowser` and the loopback listener | detailed |
| `LoginProofs` | the theorems of both logins | proofs |
| `WriteInput` | reading receipts and proposals from the standard input | detailed |
| `ReadOutput` | `readBoundedJson`, then `readOutput` and `exportReadResponse` | detailed |
| `ReadOutputProofs` | its theorems | proofs |
| `WriteOutcome` | the ten writes through their validators: preview, execution, lookup | detailed |
| `WriteProofs` | theorems of `WriteInput` and `WriteOutcome`, a refinement among them | proofs |
| `ReleaseEnvironment` | the release helper, GitHub's settings and other people | detailed |
| `ReleasePublication` | the runs of the release workflow, npm, GitHub and maintainers | detailed |
| `ReleaseProofs` | the theorems of both release models | proofs |
| `MCLogin` | `auth login`, which takes one flow or the other (`cli.ts:463-465`) | choice between the two |
| `MCCredentialStore`, `MCProfileSession` | symmetry of the instances TLC checks; the other modules are checked as they are, with constants from their `.cfg` | |

In several modules an operator called *Variant* stands before the one it
distorts. It shows a plausible mistake in that piece of code (a dropped guard, a
forgotten reset, a wrong order), under which a property named in `PROJECT.json`
fails. No specification uses them.

### CredentialStore

State: `authority`, `native` and `file` are the three places on disk and in the
keychain; `owner` is the transaction lock. A command in a transaction has a step
`pc`, the operation and profile it was called with, the generation it drew, and
how it will end (`outcome`). A credential is its storage generation and a token
identity, which is all the code compares (`sameCredentials` compares the whole
record). Each `await` of the code is one action, with one action per way it can
fail: `SaveNative` takes effect, `NativeUnavailable` is the one error that
permits the fallback, `SaveNativeFails` is any other, with or without the effect.
`Recover` and `Retire` are the two halves of the catch block (152-158): look
whether the save is recoverable, else retire the generation, so that the caller
may revoke. `Selection` is `read` as a function of what answers at the moment.

`promise`, `refused` and `tainted` are history: what the last finished mutation
told its caller, which generations the caller was told to give up, and whether a
file-mode command touched the fallback entry since. No guard reads them.

`CredentialRegister` is the promise in one page: a register per profile, whose
generations never return once spent. `Standing` in the mapping drops a promise
that file mode has overwritten: this is the one thing the automatic mode does
not, and cannot, protect.

### ProfileSession

One profile. A command holds the profile lock from before its read to its last
step and calls the store's own actions in between (`StoreStep` is `Transact`,
not a summary of it), so every failure of the store occurs inside every command.
The server keeps the `grant` of each refresh token and which are `valid`; a
refresh replaces one by the next (`Mint`); a revocation ends the family.
Every request may be lost with or without effect. `payload` says which token
each storage generation carries. `astray` collects the grants the client cannot
know of (lost responses, kills) or has told its user to revoke; `NoSilentOrphan`
says there is no other way to lose one. A server that ends the family when an
old token is presented adds nothing the properties see: `NewestTokenInUse` shows
that none is.

### AgentClient

`kind`, `at`, `good`, `renewed`, `tries`, `sent` are the variables of `invoke`
and `requestRead`; `wire` is the request or reply under way. All resources'
operations have the same control, which the model has once: reads and status
lookups are GETs with both retries, previews and executions are posts with
neither. `journal`, `applied` and `late` are the server as the client's code and
documentation take it to be: an execution's key is claimed once, applied or not,
and recorded. A request the client has given up on may arrive at any later time.
The user follows `README.md:541-552`: after an uncertain result only a lookup or
a repeat with the same key, a new key only after a definite failure. `verdict`
is what the exit code and message tell that user.

`ReportedChange` is what this promises as a whole: a change is made while its key is
open or in doubt and once only; what is told of a key is so then and never taken back;
and another key follows definite failures. In the mapping a key is open while its
first command runs, and `made` is what the server has applied. Everything else, the
journal, tokens, retries and requests on their way, is hidden by it.

### LockedCollection

Each system call is a step. Readers take no lock, so the properties speak of
`file` at every moment. A process may die at any step; the operator removes only
a lock whose owner is gone, as the README requires. `AtomicCollection` is the
promise: between call and answer each change takes effect at one moment, and the
answer says truly whether it did. The effect is the rename, or, for a removal
with nothing to remove, the moment that was seen.

### DevicePolling and BrowserLogin

`DevicePolling` has discrete time. `left` is the distance to the deadline by the
wall clock, which `SetClock` moves at will; `timer` is what `setTimeout` counts,
which no clock change affects; `elapsed` is the true time since the last poll.
`Wait` is `setTimeout` with its limit: a longer wait fires at once.
`BrowserLogin` has the login's steps, the listener, its connections and the
promise of the code. A second request finds the promise settled. `handlers` says
who has attached a handler to the promise so far: `openLoopbackCallback` does so
(`loopback.ts:74`) in the turn in which it asks for the socket, `awaitCode` when it
starts its race. A request may come at any moment from the opening of the socket
(`Opened`) on, and a rejection that finds no handler ends the process (`Handle`).

### WriteInput

`kind` says which function reads. A piece of input is a run of keys, which covers
the bytes of a pipe as well; `delivered` counts what the stream has given out of
`typed`, so a piece that nobody took would show in the value. An action is one
event with everything that runs before the next can come: cleanup, the reducer,
the next request or the answer. `Readable.from` asks for the next piece before
the reducer sees the one that came. A pipe that brings more than its limit
therefore leaves a `nextInput` behind (`LetGo(TRUE)`). For a receipt the `finally`
pauses the stream, so that this timer, up to five minutes, is the only thing that
ends the wait after the error was decided: `InputEnds` holds, with that delay.
`ValueIsWhatWasSent` compares with a definition that does not process keys in
order (`Survives`: no later stretch erases more than it types).

### ReadOutput

`got` is every byte the stream has given, `taken` how many of them the reader has
reduced, `ahead` the length of the chunk that was pulled while the one before was
being looked at. A byte is plain, or the first or second half of a two-byte
character, which is all a streaming UTF-8 decoder distinguishes: `Decodes` is
what `fatal` accepts of a prefix, `Whole` that it may end there. `Text` says the
same of a whole body without the decoder's order and is what the property
uses. Whether a body is JSON, and the platform, are chosen at the start. Each call
of the export is an action that succeeds or throws, with or without effect;
`Throw` runs the `finally` blocks in the code's order, closing before removing.

### WriteOutcome

`AgentClient` takes validity as a choice; this module takes delivery as one and
models validity. `rule` is the table of what each write's validators look at
(`checked`), compare with the request (`bound`), expect as the status of a
success, and demand of the state afterwards (`state`). It is read off the ten
validator files, and the differences between them are the subject: a customer's
preview is not compared by operation, a new quote has no identifier, two writes
answer 201. Single fields are grouped into the parts of a preview. The server's
journal is that of `AgentClient`, with outcomes; `AnswerWrongly` are the
answers its documentation rules out and the code refuses: another preview's
entry, and one that contradicts itself. Both this model and `AgentClient` implement
`ReportedChange`, this one with a single key: delivery and validity keep the same promise.

### ReleaseEnvironment

`at` is the request the helper makes next, `phase` which of its four inspections it
is in: before planning, again before the first write, after the gate was made, at
the end. `Inspected` is what `setupReleaseEnvironment` does with each. A gate is
kept as its owner's, somebody else's or not as reviewed. `Stop` is `fail`, which
inside the `try` names the partial environment (`told`). Any request may be
refused or lost, with or without effect; the account may be switched; another
administrator may make, change or delete the environment at any step. `Start`
with any options is allowed; the operator who keeps to the documentation is
`FollowTheDocs`.

### ReleasePublication

`run` is where each dispatch of the workflow stands; `built` is the attempt whose
build it publishes and `memory` what the steps of one job leave for later ones,
lost with the job. `shown` is an earlier registry that readers may still get. A
release is its maker, notes, visibility and assets by name; an asset is told by
what it depends on (`Digest`): the package on the commit alone, the build record
and the signed provenance on run and attempt too, so that two builds of one commit
share a package and nothing else. `Fail` ends a job at any step; `PublishLost`,
`Create`, `Upload` and `Finish` may take effect unheard. `Resume` is GitHub's re-run of failed
jobs, which keeps the other jobs' results, after the registry answers as it is;
`Retry` is one that does not wait for that, or one of the whole run.
`HandOnRegistry` and `HandOnRelease` are maintainers, who act at any time, during a run too.
`public` tells who made a release public: the workflow, a maintainer (`"hand"`), or a maintainer
while a run was filling it (`"overtaken"`). Like the code, `Upload` and `ReadBack` do not
ask whether the release is still a draft; GitHub refuses only what it cannot do.

## 3. Runs

| run | instance | states | what it shows |
|---|---|---|---|
| `store` | 2 commands, 1 profile, 2 legacy tokens, 2 generations | 164 thousand | a refused generation is never selected; a save reported held is what reads select; a removal leaves nothing; only its own save makes a credential selectable; the store implements `CredentialRegister` |
| `session` | 2 commands, 2 generations, 2 tokens | 1.5 million | no silent orphan, compensated tokens are not read again, refreshes use the newest token |
| `replacement` | as `session` | stops at the first | a documented order that the code breaks (section 5) |
| `agent` | 3 keys, 2 late requests of each | 97 thousand | true verdicts, one post per command, termination; the client implements `ReportedChange` |
| `collection` | 2 processes, 2 names, 1 value, 1 retry | 223 thousand | the file is an atomic collection; each change ends |
| `login` | device: lifetimes 2 and 5, intervals 1 and 2, timer limit 5, 2 clock changes; browser: 3 connections, 4 requests | 26 thousand (667 of them the browser's) | interval kept, true expiry, termination; first match only, nothing left open, no crash, termination |
| `input` | receipts of 2 characters, a limit of 4, 5 keys | 2.2 million | a value is what was sent, the terminal is restored, each read ends |
| `output` | a limit of 4 bytes, chunks of up to 3 | 365 thousand | read exactly or not at all, private before written, true reports, termination |
| `writes` | the ten writes | 14 thousand | each write implements `ReportedChange`; what is made was asked for, safe exit statuses, lookups that settle |
| `settings` | 2 accounts, 4 environments ever, 3 faults | 523 thousand | true success, nothing rewritten, the documented procedure ends with a gate |
| `publication` | 2 runs, 2 commits, 2 attempts told apart, 2 faults, 1 change by hand | 344 thousand | releases whole, one per tag, nothing overwritten, one call in time, recovery completes |
| `touched` | as `publication` | stops at the first | a public release is added to, which the code means to refuse (section 5) |

Runs take three minutes at most. Type invariants and the
inductive invariants are not among the runs' properties: they are theorems
(section 4), and a run would only repeat them.

Bounds, and why they are enough. `MaxGeneration`: in `store` an old and a new save
meet, and what was there before either is one of two legacy records; the theorems
hold for any bound. `MaxTokens` and two generations: a grant, its
replacement by refresh or by another login, and a failed save; `LegacyTokens`
is empty in the session runs, whose credentials are bound ones. `MaxKeys` and
`MaxLate`: a user that starts over twice while requests of the earlier attempts
are still on their way. `Retries`: what matters is that the attempts run out; the
code's 50 differ only in length. In `login`, lifetimes on both sides of the
sum of intervals make the deadline fall into a request, a sleep and a last
sleep, and the timer's limit is low enough for `slow_down` to reach it.
In `input`, five keys are enough to fill a receipt, erase, go on and end the line,
or to go past it, and to exceed both the receipt's length and the pipe's limit.
`MaxRequests`: one more than is needed for a second request to follow a
settling one on another connection. In `output`, a chunk is shorter than the limit and two
are longer, so that the limit falls inside a chunk, at its end and into the chunk
that is ahead, and a character is cut by each of them. In `settings`, three faults are a lost creation, a
switched account and a change by somebody else in one run, or a stop in each of three; `MaxId` exceeds
the faults so that a later run can always create. In `publication`, an attempt beyond
the second is told from the first only, which is what the code compares;
two faults are a lost publication and a stop on the way to the release, and one change by
hand is a moved tag, a moved channel, a foreign version, a foreign draft, a draft deleted or published,
a replaced asset or a hasty re-run; two such changes (4.2 million states) show nothing else. The proofs hold without these bounds. Commands, processes, names and values are
symmetric where the run has no liveness property.

`DevicePolling`, `BrowserLogin`, `WriteInput`, `ReadOutput`, `WriteOutcome` and `ReleasePublication`
stop when the login, the read, the write or the last run has ended, so
their runs do not check for deadlock. All others do: some step is always possible.

### Fairness

- `AgentClient`: `WF(Advance)`. Every request carries `AbortSignal.timeout`, so
  a command that waits is always woken. The server and the network owe nothing.
- `LockedCollection`: per process, weak fairness of the steps that are not
  failures: calls to the file system and the 100 ms delay complete. That a lock is ever
  released or removed is not assumed, and `ChangesEnd` holds all the same.
- `DevicePolling`: code runs (`WF(Step)`) and time passes (`WF(Tick)`). Nobody
  has to approve or to answer.
- `BrowserLogin`: `WF(Advance)`: requests have deadlines, the wait has its five
  minutes, and closing is forced after a second. No browser has to do anything.
- `WriteInput`: the read begins, time passes and a timer fires. Nothing is assumed
  of who types, or of when the stream hands over what it has.
- `ReadOutput`: the request's deadline breaks off a body that does not end
  (`WF(BreakBody)`), code runs and calls to the file system return. Nothing is
  assumed of the server; a body may trickle until the deadline.
- `ReleaseEnvironment`: every request of the helper has a deadline, so a run goes on
  (`WF(Helper)`), and an operator who follows `docs/release-environment.md` runs it
  again (`SF(FollowTheDocs)`). Faults are bounded, so from some moment on nobody interferes.
- `ReleasePublication`: a job and its reviewer go on (`WF(Step(r))`), the registry
  shows in the end what it holds (`WF(ShowLatest)`), and a run that stopped is
  resumed whenever it can be again and again (`SF(Resume(r))`), as
  `docs/release-readiness.md:79-86` tells the operator to. `RecoveryCompletes` excepts
  changes by hand and half-uploaded files, which the code refuses and leaves to a maintainer.

The store, session and write validation models have safety properties only: a store operation
waits for nothing but its lock, whose bounded retry is `ChangesEnd`'s subject, and
the end of a command is `CommandsEnd`'s.

## 4. Proofs

All proofs hold for any values of the constants that satisfy the named
assumptions in the modules.

**Store** (`CredentialStoreProofs`): `TypeCorrect`, `RefusedStayOut`,
`HeldAreSelected`, `RemovedAreEmpty`, from `InvariantHolds`. The last three
speak of what a read would select, which is not inductive: a
credential not selected now might be claimed by the next step of a save. The
invariant `IInv` therefore says where every save and removal in progress stands
(`Reached`: at each step, what is in which place), that a running save's
generation is in no other profile and not refused (`Fresh`), that a refused
generation is dead in every place (`Dead`), and what each standing promise rests
on (`Holds`). One lemma per group of actions; `SelectionOfAuthority` connects
the invariant with what reads select. `SavesAlone` is an action property:
`SelectableChosen` says what is selectable under an authority record (`Chosen`),
`StepOfProfile` what a step may do to one profile, and of its three cases only the
save's own writes make something chosen that was not. `NumberInv` is needed
because a record without a generation would let unstamped records through.

`StoreImplementsRegister` is the refinement: every behaviour of the store is one of
the register, for any commands, profiles and generations. A step of the code
maps to a stutter, or to the register's commit, discard, answer or overwriting by file mode,
and which of them depends on what else is on disk at that moment: the write of a claim
commits only if the secret is there, a removal discards a generation whose save had
failed, and the release of the lock is the answer. Two facts are needed besides
`IInv`. `ContentInv` says that what the mapping shows as the register's content is what a
read with everything in reach selects; it follows from `IInv`. `RegisterInv` is inductive beside it: no two
profiles hold the same generation, and a mutation in progress has nothing of a read. Per group
of steps one lemma (`SaveRefines`, `RemoveRefines`, `ReleaseRefines`, `ReadRefines`,
`FileModeRefines`) names the register's step.

**Session** (`ProfileSessionProofs`): `NothingOrphaned`, `CompensatedStaysOut` and
`NewestIsUsed` from `SInv`, built in layers, each proved by induction with the ones before it
as known facts. (1) Every step of a command is a step of the store or leaves it alone, so `IInv` goes on to hold
(`SessionStoreInvariant`), and with it what the store promises one caller (`SessionPromises`).
(2) Commands take turns: only the profile lock's owner is past its first step
(`SessionTurns`). (3) The token in hand is good and in the store under its own save's generation
only, until that generation is refused (`HandInv`, `CarriedInv`). (4) What a read may find is a token,
and what a command has read is still to be found (`PayloadInv`, `SeenInv`). (5) Whoever replaces
or removes what a read finds has ended its grant, lost sight of it or holds a newer token of it
(`ReplaceInv`), which keeps `NewestInv` and `NoSilentOrphan`. The step that carries the
argument is the one where a read's result is overwritten: the register's promises decide there
whether the old grant is still reachable.

**Locked files** (`LockedCollectionProofs`): mutual exclusion and stability of
what was read are one invariant (`OwnerAlone`): the owner's `existing` is
the file's content until its own rename. With it each step maps to one of
`AtomicCollection` or to a stutter, which is `CollectionRefines`.

**Transport** (`AgentClientProofs`): `VerdictsAreTrue` and `AppliedAtMostOnce`
rest on `AgentInv`, whose core is `Dead(k)`: an execution that can never take
effect because it is recorded as failed, or because the server does not know it
and nothing of it is on its way. A verdict of failure implies `Dead`; a later
key is only used when every earlier one has that verdict. `CommandInv` says what
each reply that may be on the wire implies. `PostedAtMostOnce` needs `OnceInv`
besides: a preview or execution that is not waiting for an answer has sent nothing.
`WriteRefines` is the refinement of `ReportedChange`, for any number of keys and late
requests. `AgentInv` is enough for it: an end of a command tells something true of its
key or maps to a stutter (`EndReports`), and a key that the server has claimed but not
applied is open or in doubt, with nothing made under another (`MakesReported`).

**Device polling** (`LoginProofs`): `NeverPollsTooFast` from `PollInv`:
a sleep that is followed by a poll makes up for what has not yet passed of the
interval, and the interval equals what the server has asked for, except while an
answer is under way. Nothing in it mentions the clock, so that setting it
cannot matter. `ExpiresInTime` does need the clock to be left alone: `DeadlineInv`
says that the last sleep is as long as what is left.

**Browser login** (`LoginProofs`): `FirstMatchAlways`, `NothingLeft` and
`NoCrash` from `BInv`: the code is what the first request was, only a matching one
makes the login go on, and the listener is there between opening and closing. What
`NoCrash` rests on is an order: a connection needs the socket, and from the step that asks for
it on, the code has a handler.

**Responses and exports** (`ReadOutputProofs`): `ReadExactly`, `ProtectedAlways` and
`TrueReport` from `OInv`. `BodyInv` says that the reduced prefix decodes and that
what was rejected cannot become readable by what is pulled later, which is why
the chunk that is ahead does not matter. `DiskInv` says which of directory and file
exist, private and full, at each call.

**Release helper** (`ReleaseProofs`): `SuccessExactAlways` and
`NeverRewritesAlways` from `EInv`: a run in a writing phase has a plan that
calls for the write (`PlanInv`), and what its last inspection saw is so unless
somebody interfered since it started (`SeenInv`).

**Release workflow** (`ReleaseProofs`): `WholeAlways`, `OneReleaseAlways`,
`NothingOverwrittenAlways` and `OneTimelyCallAlways` from `PubInv`: an attempt that
may still publish is the first and has not called (`CallInv`); what npm shows it
also holds (`RegistryInv`); a job that makes a release has found its package
on npm (`JobInv`); and the release it fills was a draft when it was found, may be gone or published by hand
since, and holds its own files, or ones it will refuse (`DraftInv`). The last is what makes the reading back before `finish`
sufficient. `NothingOverwrittenAlways` therefore excepts, among public releases,
the overtaken one and no other.

**Input** (`WriteProofs`): `ModeRestored` from `ModeInv`, which says that the terminal's mode
differs from the one found only while a read at the terminal goes on. `AlwaysWhatWasSent` is
`ValueIsWhatWasSent` for all three readers. For the two of pipes it rests on `PipeInv`: the text
is the delivered part of what was sent, and once it is read the writer is done. `TrimCutsEnds`
says what trimming returns; the first and last character it keeps exist because sets of
numbers have a least element. For the terminal it rests on `ReceiptInv`: what is gathered is what the
keys delivered so far spell (`Written`), and a value what the first line does (`Ended`).
The difficulty is that the program takes letters back one by one, from the end, while the property says
which letters stand by counting (`Survives`). `OneMoreKey` says how one more key changes
which letters stand, `RestErased` that what follows the last standing letter has no more letters than
erasures, and so `ErasesTheLast` that an erasure takes back exactly that letter:
the place where both accounts meet. `GathersAKey` is then one key, and `Gathers` a piece of
any length, by a least counterexample among its keys (the library's induction theorems take an
operator as a parameter and cannot be used); `Pressed` shows that the recursive
function of `receiptCharacters` exists.

**Write validation** (`WriteProofs`): `VerdictsAlwaysTrue`, `AskedAlwaysApplied`, `RetryAlwaysSafe`
and `LookupAlwaysAgrees` from `OutcomeInv`: how far the three commands have come (`StageInv`),
that what the journal records is what was done (`JournalInv`), and that a verdict of failure
rests on an execution that is recorded as failed or was never taken up (`Never`).
`Conclusions` says what each kind of answer is taken for, `BoundIsAsked` what the
ten tables of rules bind of a preview. `OutcomeRefines` is the refinement of
`ReportedChange`: every end of the execution or of a lookup maps to a report of its
one key (`ReportedEnds`), and the server changes nothing but what is open or in doubt.

Model-checked only: all liveness properties, under fairness and so out of the prover's
reach. Every invariant that a run checks is also proved. `AppliedOnce` and `VerdictsTrue`
have a theorem and no run: both follow from `ReportedChange`, which the runs check.

`RetiresBeforeReplacing` and `PublicStays` are not proved because they are false (section 5).

## 5. Findings

### A grant that is overlooked

`RetiresBeforeReplacing` states `README.md:87-88`: "Repeating `auth login`
retires that profile's previous refresh grant before starting replacement
authorization". It fails. A save stores the secret in the keychain but cannot
write its claim; recovery finds the secret and the user is told "Credentials
were saved and access was retained" (`cli.ts:469-470`). The authority record
still says pending. If the keychain is unavailable at the next login, `read`
takes that for an empty keychain (`credential-store.ts:96-106`) and answers that
there is no record, so the login authorizes anew with the old grant live. With a
record that says native the same read would fail and the login would stop. The
logout of that state takes the same path: it revokes nothing and, if the keychain
is back for the removal, ends as `local_only` where `README.md:103`
reserves that for records without a binding.

`NoSilentOrphan` counts a grant overlooked in this way as astray (`FoundNothing`),
so that the run shows there are no others; it is `RetiresBeforeReplacing` that fails on this one.

### A public release that is added to

`PublicStays` states what `githubReleaseScript` says when it refuses a release that is public and
lacks files: "Published release is incomplete; do not change assets"
(`release-workflow-template.ts:191`; `release-inline.test.ts:223` calls it "never mutates
collisions"). It fails. Whether the release is a draft is asked once, when it is looked
for (178-195), and the uploads go by its id (197-201). If a maintainer publishes the draft
meanwhile, the job adds the missing files to the public release; the reading back
compares the files only (202-208), and the last request publishes it once more. GitHub does not refuse: its releases
are `immutable:false` (`docs/release-readiness.md:88`).

The damage is bounded. `ReleaseIsWhole` and `NothingOverwritten` hold with this case in them: the files added are of the one
build, none is replaced, no other public release is touched, and a job that does reach its end leaves the
release whole.

## 6. Not modelled

- The Windows branch of the store (keychain only, no authority record).
- Permission and ownership checks of the store's files: a failure that may happen at any read.
- Unbound legacy records in `ProfileSession` (login refuses them, logout removes
  them locally): the store models them.
- The field checks of single resources, the schemas of the MCP server, option
  parsing, help and the layout of output: stateless. `WriteOutcome` groups the fields
  of a preview into parts and tells a success's shape from its state, no more.
- `profiles.json`: legacy, not used for authentication. `saveProfile` writes it without a
  lock, but no command calls it.
- An operator who removes a lock whose owner still runs: `README.md` tells to make sure
  that none does, and nothing in the code could tell.
- `agentFailureMessage` names the status commands to turn to after an uncertain
  write and leaves out those of `services transition` and `services deliver`. It
  is wording, and those commands exist.
- A late request to GitHub that takes effect after a later run has begun, in either
  release model: a lost answer takes its effect at once or never. For the helper, the same holds of the
  interval between its last check and its PUT, which GitHub makes an upsert: `docs/release-environment.md`
  discloses it, and `NeverRewrites` excepts what others change meanwhile (`raced`).
- In `ReleasePublication`: an asset that a maintainer replaces between the reading back of a draft and
  its publication, and changes by hand to a release that is public already. A draft that is published or deleted
  by hand is modelled at every moment, during a run too (section 5).
  The removal of a version from npm is not. The channel `beta` moved between the second check and
  `npm publish` is, and no property forbids it, since npm offers nothing to
  prevent it. Packages are taken to be a function of their commit, as the
  workflow's two builds check. The generator that copies the scripts into the workflow, the
  candidate's field checks (one gate) and the job summaries are left out.
- Other tooling: checks over text, without state. `promote-required-checks.ts` reads, writes once and
  reads back, as the release helper does.

## 7. Plan

Done, in this order: the store and its register; its proofs; the session over
it; the transport; the locked files and their refinement; the two logins; input;
responses and exports; write validation; the two release models; the proofs of
all of them, the store's refinement of its register among them; the abstract write and its refinement
by transport and validation.

Next:

1. The Windows branch of the store as a second, smaller specification, and which
   of the register's promises it keeps.
2. Refinement of the store's file steps to `AtomicCollection`, to justify that
   `CredentialStore` takes them as one step.
3. One model of `AgentClient` and `WriteOutcome` together. Each implements
   `ReportedChange`; their product, with damaged answers under late arrivals, is large.

## 8. Running

    tlc -config MCCredentialStore.cfg MCCredentialStore
    tlapm CredentialStoreProofs.tla

`PROJECT.json` names the module and configuration of each run. Runs finish
within three minutes each; the proofs of the store, the session and the release workflow take some minutes each, the others less.
