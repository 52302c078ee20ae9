# Verification project of the FACIS Zero Trust demonstrator

TLA+ models of the parts of this repository that keep state and share it: the
admission provider that decides whether an image may run, the Builder node and
the script that run deployments, the page of the Control UI, the session boundary
and the journey engine behind it, and the Connector that a journey may call. Paths
below are relative to the repository.

Run one model with `tlc -config MCX_y.cfg MCX`, one proof module with
`tlapm XProofs.tla`. `PROJECT.json` lists the runs, the mutated definitions each
property is known to catch, the source lines of every definition, and the hazards.

## 1. Inventory

### Admission (Go)

| Component | State | Operations | Correct when |
|---|---|---|---|
| Image verifier, `internal/cosignverify/cosignverify.go` | `policy` (atomic pointer), `cache` of verdicts with TTL, `inflight` flights, semaphore `sem`; `mu` over the maps | `VerifyImage` (`lookup`, `start`, wait), the flight's goroutine (acquire, `verify`, `store`, delete, close), `SetPolicy` | one verification per image and revision; no verdict of a replaced policy is cached; every answer belongs to the policy the call loaded; maps bounded; nobody waits forever |
| Admission provider, `services/admission-provider` | `trust.revision`, `trust.loadErr`; per request the items, a wait group and a deadline | `ServeHTTP`, `trust.load`, `watch` | nothing revoked is admitted, a response is complete, the file that stays is the policy in force |
| OCI client, `internal/ociclient` | token cache of 256 scopes under `mu` | `get`, `login`, `checkRedirect` | at most one retry; a token fetched for a request serves it; credentials stay on their host |
| Evidence checks (same package as the verifier) | none | `verifySignature`, `verifyAttestation`, `verifyPlatform`, `validateSBOM` | the first failed check decides the code |

Gatekeeper asks the provider; the provider asks the verifier once per key, each
in a goroutine; the verifier asks registries through the client. What is hard:
requests, flights and policy reloads interleave, and requests give up while the
flights they started go on.

### Deployment (JavaScript and shell)

| Component | State | Operations | Correct when |
|---|---|---|---|
| Lifecycle node, `ui/nodes/ztd-lifecycle/ztd-lifecycle.js` | `lifecycle.jobs[requestId]` in the flow context, at most `KEPT_JOBS` | an input message, a chunk of the child's output, its end | a requestId names one execution, its result is final, success means exit 0 with a result line, an accepted command finishes |
| Lifecycle script, `scripts/lifecycle.sh` | none; Helm's release (external) | validate, dry-run, upgrade, inventory, uninstall, the trap | exactly one result line, and true of what Helm did |

The node spawns the script and reads its lines. Two scripts may name one release;
a script may fail after Helm succeeded, or be killed while Helm works.

### Control UI (JavaScript in Node-RED)

| Component | State | Operations | Correct when |
|---|---|---|---|
| Session boundary, `flows/demonstrator/identity-on-start.js` | `transactions`, `sessions`, `refreshes`, `replays`, the keys fetched, `generation` | login, callback, session (verify, refresh), logout, back- and front-channel notices, cleanup, reset | one session per login; an ended session stays ended; refresh tokens that rotate are presented once; roles are current; logout tokens are not replayed |
| Keycloak (external) | SSO sessions, roles, granted and spent refresh tokens | token endpoint, notices | - |
| Journey engine, `flows/demonstrator/journey-*.js` | the shared run, the command history, the adapter's configuration | status, start, next, reset, deadline, HTTP request, validation, commit | a run completes once, by checks that passed; late responses change nothing; a command acts once |
| Connector adapter, `flows/demonstrator/connector-adapter.mjs` | the generated client, per adapter | register, token, protected call | one nonce retry per call, one deadline for the run |
| Replacement journey, `flows/demonstrator/replacement-adapters.mjs` | none | preflight, run | both configurations are valid before anything is called |
| Browser page, `ui/demonstrator/src/index.js` | identity, its epoch and poll; the snapshot shown, its epoch and poll; loading, connection | polls of session and status, commands with resynchronisation, login, logout, reload | it never goes back to an earlier state of the run, shows nothing without a session, and keeps up with the run |

What is hard: everything after an `await` may find its session, its transaction
or its run gone or replaced; several operators share one run; responses come
late, twice, or after a reset. In the page, two pollers and the user's commands
are under way at once, and each answer may be too old.

### Services (Go)

| Component | State | Operations | Correct when |
|---|---|---|---|
| Connector OAuth2 provider, `services/connector/internal/oauth2provider` | clients, tokens, nonces, used proofs, each under a lock and in memory only | token, registration, resource validation | a request takes effect once, whatever is delivered twice, late or after a restart |
| Participant, Protected resource | none between requests | one handler each | a deadline that passed is never reported as a success |
| Policy guard, `cmd/policy-hook-probe` | none between requests | `Evaluate` behind two Envoy front ends | any failure refuses |

Charts, Rego templates, contracts, features, CI and evidence tooling hold no
state of the running system; `PROJECT.json` lists each with its reason.

## 2. Modules

| Module | Models | Built on |
|---|---|---|
| `AdmissionVerdicts` | which answer an image deserves under a policy | |
| `AdmissionVerifier` | the verifier, one action per atomic section | `AdmissionVerdicts` |
| `AdmissionOracle` | the abstract promise: answered by the policy in force when asked, or not admitted | `AdmissionVerdicts` |
| `AdmissionRefinement` | the verifier as an implementation of the oracle | `AdmissionVerifier`, `AdmissionOracle` |
| `AdmissionProvider` | handler and policy reload composed with the verifier | `AdmissionVerifier` |
| `LifecycleNode` | the Builder node, with any output of its children | |
| `LifecycleDeployment` | the node composed with the script and Helm's releases | `LifecycleNode` |
| `LogoutReplay` | logout tokens over an explicit clock | |
| `SessionBoundary` | logins, sessions, shared refreshes and key fetches, with Keycloak | |
| `SharedRun` | the abstract run: what the replies of the engine can show, in order | |
| `JourneyEngine` | the shared run and the sample adapter behind it; implements `SharedRun` | `SharedRun` |
| `ControlUI` | one page in front of the run it shares with others, and the sessions behind it | `SharedRun` |
| `ConnectorFlow` | the adapter's protected call and the OAuth2 provider that serves it | |
| `MC*` | instances for TLC | the module of that name |
| `AdmissionVerifierProofs`, `ProviderProofs`, `LifecycleProofs`, `LogoutReplayProofs`, `SessionProofs`, `JourneyProofs`, `ControlUIProofs`, `ConnectorProofs` | theorems | `AdmissionRefinement`, `AdmissionProvider`, `LifecycleDeployment`, `LogoutReplay`, `SessionBoundary`, `JourneyEngine`, `ControlUI`, `ConnectorFlow` |

### How states and actions correspond to the code

**Admission.** An action is what the code does under `v.mu`, one channel
operation, or one load of the policy pointer; so `StartHit`, `StartJoin`,
`StartTooMany` and `StartFlight` are the four ways out of the critical section
of `start`. A policy is a revision (the hash of its content) and `gen`, the
identity of the pointer: `SetPolicy` with an earlier content makes a new pointer
with an old revision, and `store` compares pointers. Time is absent: an entry
may expire at any moment (`Expire`), a call may give up at any moment
(`GiveUp`, or the request's `Deadline` in `AdmissionProvider`). The registry is
two facts about an image, `Signed` and `published`; evidence may be pushed
during a behaviour (`Late`) and is not withdrawn. The seven refusing codes are
one verdict. In the provider, a call of the verifier is named by its request
and its key; a response may hold verdicts of two policies for two keys, as in
the code, where each goroutine loads the pointer itself.

**Lifecycle node and script.** An action of `LifecycleNode` is a turn of the event
loop; its child is what the node reads of it. In `LifecycleDeployment` a step of the
script ends with the line it prints and the turn in which the node reads that line:
the script never looks at the node, so the pair is one action. Helm is external: an
operation begins on a release with none under way, then completes or is rolled
back. `did` (history) says whether it completed for a child. A kill takes the script
with its helm and leaves the release busy; a helm that outlives its script is left
out. `order` is the key order of a
JavaScript object, integer keys first in ascending order, because pruning
follows it.

**Session boundary.** An action is a turn of the event loop up to the next
`await`, or one promise reaction of a turn. While reactions are left (`Busy`)
nothing else runs. Requests that waited for keys resume before the token
responses, which have a second token to verify. The end of `session()` (`Return`) and
the handler that awaited it (`Proceed`: the command, the status, the delete of a
logout) are two reactions, and a request between them is `held`; all that one fetch or
refresh released return before the first of them proceeds. So two requests may both
find their session, the logout of one delete it, and the other still be granted:
`GrantedWhileLive` names this case, and says that it ends with the turn. A session is named by the
callback that made it, its tokens are numbered versions. Ages and expiry may be
found at any check (`CheckExpired`, `Timeout`). `LogoutReplay` alone needs real
times: there an instant is a second and a millisecond within it, because
`verify` works in whole seconds and the memory in milliseconds.

**Journey engine.** Every function node runs to its end; messages between the
engine, the HTTP node, validation and commit are the `inbox`. A run's id stands
for its request's. A plan is the outcomes of its steps, one plan of each kind
the fixtures have, shortened to two or three steps. `senderr` is off in the
flow, so a transport failure produces two results. Seen through its replies, the
engine is a `SharedRun`: a snapshot is the run's number, its phase and its step,
and within a run snapshots only move forward (`Rank`). The page is modelled over that
abstraction, so that `ControlUI` needs nothing of the engine's inside.

**Page.** An action is a turn of the browser, or the service that answers an
exchange. An exchange carries what waits for it, and `fresh` says whether the epoch
it captured (`epoch` of the component, `identityEpoch` of the client) still is the
current one. The sessions behind it are one number, that of the cookie, and whether
the boundary still knows it: `SessionBoundary` has the rest. The page is installed
in one of three modes (redirect, password, or a fixture over the socket without
identity). The password login is served by a component that is not in the
repository, and is answered either way, with a session that has a role or none. The
logout of the boundary answers with a redirect, which is an error to the page's
`fetch`: in the password mode the page learns of its own logout from the next poll.
A session that cannot be verified, because Keycloak's keys cannot be had, is answered
as if it were logged out; the page then stops polling (`Fail`).

**Connector.** A proof is known by what its `jti` stands for: the request it was
made for and the instant it was made at; a credential by the request and the boot of
the Connector that made it. The library behind the provider is external; the order
of its checks (credential, time, nonce, then the mark of the proof) is that of the
conformance tests in the repository. The mark and the check before it are two readings of the
clock and two critical sections, and what the request asked for, with its answer, comes
after both: `Deliver`, `Mark` and `Act` are three actions. Each delivery is answered on
its own connection: the run takes the answer to the request it made, never one to a copy
(`Answer`), so a run whose request is marked after its copy is refused with
`dpop_replayed`, and its adapter does not try again. A run that is refused keeps its
reason code. Stores are pruned with the clock rather than at the next insertion: what has
expired is never read.

## 3. Runs

| Run | Question | Bounds, and why they suffice |
|---|---|---|
| `verifier_calls` | Are flights shared, does the cache follow the policy, is each answer of the policy its call loaded, are cache and sharing invisible to a caller, and is an image decided whose requests all give up? | two calls, two policies of two contents, an image signed late under one of them, one failure and one expiry; one flight may be registered at a time, so that calls of the second policy are refused while a flight of the first runs; a second goroutine may still be closing |
| `provider_safety` | Can a revoked policy admit? | two requests, two edits, broken ones included; three contents, four policy pointers, two flights at once: a content may come back, and a flight of each policy may run |
| `provider_batch` | Is a response complete at its deadline, do the limits hold, is every request answered, does the last edit take effect? | two keys over one cache entry and one verification at a time: keys refuse, evict and wait for each other; two edits, so a content may come back after a broken one |
| `lifecycle_records` | Bounded records; results that are true of the release; a second execution or a replaced outcome only after pruning; what was spawned finishes | three requestIds, one of them integer-like, over two records: pruning happens, in both key orders; two scripts on one release, deploying or uninstalling in any combination, one kill |
| `logout_replay` | Which logout tokens can be accepted twice? | two tokens, memory of one, half-second clock, window 2 s and skew 1 s: all orders of receipt, expiry and clean-up |
| `sessions` | Refresh, role, logout, notice and reset between the steps of two requests and of a callback delivered twice; is every request answered? | two token versions and two roles: one refresh and one change between any two steps |
| `journey_runs` | Is a run completed once, by checks that passed, and finally; does a pending run resolve; is what its replies show a shared run? | three runs, a memory of one of two commandIds, two redeployments: a response may outlive a reset, another start and a change of mode |
| `control_ui` | Does polling survive every race of a poll, a login and the end of a session; is anything shown without a session; can the page go back; does it catch up? | one run of two steps, moved by others at any time, two sessions; two clicks, or one and a fault, in each mode: a command and a login overlap two polls, and one answer in flight is late or lost |
| `connector_runs` | Does a request take effect once; is the reason of a refusal true; does a run end? | two runs, on one adapter or two, and three events among runs (a later one that meets another or has an adapter of its own counts twice), lost and repeated requests and restarts; the timeout and every lifespan are one tick of a clock of two, and the tolerance another, so that each expires during a run; every reason code of the module is met |

The cache of one entry in `provider_batch` is why `ColdVerificationDecides` is
asked in `verifier_calls` instead: when images outnumber the entries, one
image's verdict may be evicted by another's each time before its caller comes
back. The code allows 4096 entries (`maxCacheEntries`).

The type invariant of a module (`TypeOK`, `PageOK` of the page) is the first conjunct
of the invariant proved of it, and proved with it.

Three runs show a disagreement between what the repository says and what the
code does (the quotes are in `PROJECT.json`, "findings"):

- `lifecycle_stranded`: when the values file cannot be written, the accepted job
  stays `running` and its repeats are refused.
- `session_late_login`: a callback whose code was exchanged before the notice
  makes a session of a Keycloak session that has ended. `OrphanEndsWithItsToken`
  shows that it does not outlive its first access token.
- `control_ui_stuck`: when one status of a pending run is lost, the page shows the
  run as pending until its user acts: the session poll leaves the status out while
  a request is pending, and the poll of the pending request is scheduled by the
  status that succeeds. `ProgressUnlessPending` says that nothing else keeps a page
  behind the run.

Four observations are part of properties that hold, as exceptions they name:

- A requestId whose record was pruned, of a running job too, is accepted again, and
  an invalid command under a requestId replaces a recorded outcome by its refusal.
  `OneExecutionWhileRecorded` and `OutcomeOnlyRefused` name both.
- A logout token received within the second of its issue, or ahead of it, can be
  accepted twice (`OnlyEarlyArrivalsTwice`).
- A release may be ready although its job failed: when its inventory cannot be
  read, the trap reports a `systemError`. `ResultIsTrue` says that a failure with a
  reason is never of that kind.
- A proof whose time was checked just before it expired, and which is marked after
  that, finds its record expired: it can take effect again (`overtaken` in
  `ConnectorFlow`). `ActsOnce` says that nothing else acts twice. An adapter that keeps a
  client the Connector has forgotten in a restart never recovers; `RefusedForCause`
  has it as the cause of an `invalid_client`.

### Fairness

Steps of a goroutine or of an event-loop turn that has begun are weakly fair:
schedulers run them. Flights are strongly fair, because senders on the full
channel `v.sem` are served in order. A step of the lifecycle script ends, because
Helm has a timeout. A Keycloak call ends, because `request` aborts after 10 s. The
UI polls the status (`Look`) and clocks pass deadlines (`DeadlinePasses`). In the
page, its timers fire and an exchange is answered, since `fetch` and `send` have
timeouts; the socket need not come back, and the user need not click. In
`ConnectorFlow` only the clock and the timeout of a run are fair: the Connector may
never answer.
Nothing is assumed of callers, of edits, of operators, of expiry or of a
deadline of the provider's request: they may or may not happen.

`CHECK_DEADLOCK FALSE` stands where a system may stop: the session boundary at
its bounds has no more logins to offer, and runs through the Connector end.

## 4. Proofs

Every safety property and every action property that a passing run checks is a
theorem of the specification, and so are the three refinements, for every value of
the constants that the named `ASSUME`s admit: any number of callers, images,
children, logins, plans, runs, adapters, clicks and faults, and any limit, window,
skew or lifespan.

| Module | Theorems about the invariant | Properties proved from it |
|---|---|---|
| `AdmissionVerifierProofs` | `TypeCorrect`, `Invariance` (`VerifierInv`) | `NeverTwoFlights` (`SingleFlight`), `CacheFollowsPolicy` (`CacheOfPolicyInForce`), `OnlySoundAnswers` (`AnswersAreSound`), `NeverTooManyFlights`, `CacheNeverOutgrows`, `LimitsKept` (`LimitsHold`), `NeverMissed` (`FinishedFlightNeverMissed`), `Refinement` (`ImplementsOracle`) |
| `ProviderProofs` | `ProviderIsVerifier`, `VerifierHolds`, `ProviderInvariance` (`ProviderInv`) | `NeverAdmittedByRevoked` (`NoRevokedAdmission`), `ResponsesWhole` (`ResponsesComplete`), `ProviderLimits` (`LimitsHold`), `ProviderIsOracle` (`ImplementsOracle`) |
| `LifecycleProofs` | `NodeInvariance` (`NodeInv`), `DeploymentIsNode` | `RecordsKept` (`RecordsBounded`), `OneExecution` (`OneExecutionWhileRecorded`), `OutcomeFinal` (`OutcomeOnlyRefused`), `ResultsTrue` (`ResultIsTrue`, with `ScriptInv`), `DeploymentKeeps` |
| `LogoutReplayProofs` | `Remembers` (`ReplayInv`) | `ReplayRefused` (`OnlyEarlyArrivalsTwice`), `MemoryBounded` (`ReplaysBounded`) |
| `SessionProofs` | `SessionInvariance` (`SessionInv`), `HeldInvariance` (`HeldInv`) | `LoginOnce` (`OneSessionPerLogin`), `ResetEndsLogins` (`NoSessionAcrossReset`), `RefreshTokenUnused` (`HoldsUnusedRefresh`), `OrphanEnds` (`OrphanEndsWithItsToken`), `EndIsFinal` (`EndedStaysEnded`), `EndRefusesRequests` (`GrantedWhileLive`), `RolesAreCurrent` (`RoleIsCurrent`) |
| `JourneyProofs` | `JourneyInvariance` (`JourneyInv`) | `RunCompletesOnce` (`CompletedOnce`), `GrantedBy` (`GrantedByAllChecks`), `VerdictIsFinal` (`VerdictFinal`), `SuccessAnswers` (`SuccessIsAnswered`), `JourneyIsSharedRun` (`ImplementsSharedRun`) |
| `ControlUIProofs` | `PageInvariance` (`PageInv`); of the abstract run, `RunNeverGoesBack` | `PollingSurvives` (`PageOK`), `NothingAfterTheEnd` (`EndedShowsNothing`), `ViewOnlyForward` (`ViewNeverGoesBack`) |
| `ConnectorProofs` | `ConnectorInvariance` (`ConnectorInv`) | `EffectOnce` (`ActsOnce`), `RefusalsHaveCause` (`RefusedForCause`) |

Hardly one of the properties is inductive by itself. Each invariant was checked by
TLC on the instance of its run before it was proved; what it adds, and why it has to:

**Verifier.** A cached verdict is sound because the flight that stored it verified
under the policy in its key (`FlightsAgree`), an answer received from a flight
because the call's key is the flight's (`CallsAgree`), and two flights never share a
key because `inflight` names every flight that has not been deleted
(`InflightAgrees`). `Late` evidence only appears, which keeps a verdict sound that
was sound when it was found. In the refinement, every step maps to a step of the
oracle or to none.

**Provider.** A step of the provider is one of the verifier or leaves it alone, so
the verifier's theorems hold in the composition. `ProviderInv` adds that a call which
is not idle belongs to an open request that waits for its item, and loaded a policy in
force while that request was open (`CallOK`); and that the revision the watcher
remembers, if any, is that of the policy (`TrustOK`).

**Lifecycle.** Children and records agree: the requestId of a child has a record
unless it was pruned (`Remembered`), and a recorded outcome is that of a child which
ran for this requestId and is over (`ResultsOfChildren`). `ScriptInv` says for each
step of the script what Helm has done for it and what the report may say. The
composition implements `LifecycleNode`, whose children print anything, so the theorem
about results stands on the node's invariant.

**Logout tokens.** `ReplayInv` says of every accepted token that it is remembered, or
that a full window has passed since its first receipt. With a receipt a second or more
after the issue, a window that has passed on the millisecond clock has also passed on
the second clock, so the token is no longer current when it is forgotten.

**Sessions.** A transaction is used up by the callback that takes it, so one callback
may make its session (`OneLogin`). For every session the tokens granted, presented and
held are counted: a live one holds the newest, never presented, except while its
refresh is granted, when it holds the one before (`SessionOK`). A refresh settles after
the checks of the requests that wait for keys, so what a request checked is what its
session still holds (`RequestOK`), and the role is that of the token held. A request that
is held was released in the turn that goes on, and its session is live or was ended in
that turn by a logout (`HeldInv`). A live
session of an announced end has one token, and no refresh of it is ever granted.

**Journey.** A run is in progress, awaits its response, or is over; the invariant
says for each what its step, its checks and its result are. Every function node is
shown to keep, end, reset, start or advance the run, whatever messages are in the
inbox, and each of these is a step of `SharedRun` or none.

**Page.** `Turn(u, w, s)` describes the page `u` in the middle of a turn that goes on
for what waits with `w`, in front of the run `s`; `PageInv` is `Turn(ui, "none",
shared)` and what is around. One exchange about the run is fresh, and its answer is
between what the page has shown and the run (`NewestOK`): this is why a stale answer
can be dropped and a fresh one believed. One poll and one login are under way at
most (`BusyOK`). While a login is on its way no session poll is fresh (`LoginAlone`):
otherwise a late poll could bring back a session beneath the login, or leave a page
without a poll. Each function of the component (`publish`, `syncStatus`,
`applyFlowState`, `pollIdentity`, ...) has a lemma that takes a turn to a turn.

**Connector.** Of a run and a stage, one request can take effect, with its copies: a
challenge answered none that has its nonce (`OneRequest`). Once it has been marked, what
is left of it is spent (`TakenOnceIsSpent`): its use is remembered, its time is over, or
it presents what a restart forgot; save when it was overtaken by its expiry. A stage that
was marked is not one its run has still to come to (`TakenIsPast`). A run that waits
presents a credential that the Connector knows unless it restarted since, and a nonce
that it knows until the nonce expires (`WillBeServed`); an original whose proof was used
before it is marked has a copy that was (`CopiesKnown`). These two are what makes a
reason code true of the run that reports it.

Only model-checked, by the runs: liveness (`ColdVerificationDecides`,
`EveryRequestAnswered`, `EditsTakeEffect`, `EverySpawnedFinishes`, `PendingResolves`,
`EndedSessionDisables`, `ProgressUnlessPending`, `EveryRunEnds`), because the prover
handles neither fairness nor `ENABLED`. The theorems are about the specification
without fairness (`Spec`, `ProviderSpec`, `DeploymentSpec`), which the fair ones
imply. Nothing in the modules with theorems is defined by recursion over data.

## 5. Not modelled, and plan

Left out of what is modelled: the checks inside one verification; TLS material,
metrics and readiness of the provider; masking and logs of the lifecycle node and
script; the split of a manifest; claims other than times, CSRF, headers and rotation
of keys in the session boundary; a token request that the boundary gave up on and
Keycloak processes later; a registration token of type Bearer, which the adapter would
take and the Connector of this repository never returns for a proof; what the journey and the page display; the requests of the
provider to update or delete a client or a token, which no endpoint exposes.

Not modelled at all, with the reasons in `PROJECT.json`: the OCI client, the policy
guard and its front ends, participant and protected resource (one request at a time,
little state of their own); the probes, the evidence tooling, the installers, the
charts, contracts and features (no state of the running system).

Next, in this order:

1. `OciClient`: the retry after a challenge and the shared token cache.
2. `DemoRequest`: participant and protected resource under their two deadlines.
3. `PolicyGuard` and its front ends; the order of refusals of the evidence checks.
