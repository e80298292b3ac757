# Agent Enterprise Protocol in TLA+

TLA+ modules that model the Agent Enterprise Protocol, the TLC configurations that
check them on small instances, and TLAPS proofs of the properties that matter most.
`PROJECT.json` ties every definition to the lines it models and lists the runs, the
mutants that show each property can fail, the hazards and the theorems. Paths below
are relative to `src/`; `cs` stands for `services/control-service/internal`.

## 1. The system

The control service keeps identities, a model catalog, limit rules, credentials,
skills, assets and control events of a deployment in PostgreSQL and serves them
over HTTP. What the gateway should do is *published*: an administrator selects an
immutable snapshot, a relay turns it into Kubernetes custom resources, an operator
renders those into gateway configuration and confirms what the data plane has
loaded. A second ledger captures what each session and workload may use and
projects it as grants that the gateway enforces. Older deployments use a reconciler
that copies desired routes directly. Agents open sessions, receive control events,
synchronise skills and credentials and report results.

| Component | State | Operations | Hard parts | What makes it correct |
|---|---|---|---|---|
| Publication ledger (`cs/repository/data_plane_*`, `publication_delivery.go`, migrations 046-048) | intents, snapshots, outbox, rules, removals, withdrawal signal | publish, replay, edit and delete models, rules and subjects, invalidate, claim, acknowledge | several statements per transaction, leases, stale workers, re-used ids | rows agree; one acknowledger; nothing deleted stays selected |
| Publication relay (`cs/publicationrelay/worker.go, projector.go, policies.go`) | worker progress, custom resources with markers | invalidate, claim, list, write, verify, stamp, confirm, acknowledge | two relays, crashes, late writes, lapsed leases | no roll-back, no mixture, acknowledged means live |
| Model access ledger and access relay (`cs/repository/model_access_*`, `cs/publicationrelay/access_*`) | captured policies with a window, renewal schedule, grants | signal, capture, renew, retire, claim, read, write, confirm | expiry, captures racing changes, two relays | one open publication; grants move forward; access is recent and ends |
| Gateway operator and its access controller (`services/gateway-operator/internal/controller`) | objects, snapshots, rendered resources, conditions | reconcile routes, deployment, grants; finalize | reads one after the other, writes one after the other | never renders a mixture; exposure follows the aggregate |
| Data plane inspection (`services/gateway-operator/internal/dataplane`) | evidence | roster, dumps, comparison, second roster | pods replaced meanwhile | evidence is about the fleet that is there |
| Gateway reconciler (`services/gateway-reconciler`) | leader lease, inventory, status | elect, fetch, apply, prune, report | leadership lost in mid-apply, calls that land late | one leader; ready means loaded |
| Control events (`cs/httpapi/event_handlers.go`, `app/app.go`) | events, deliveries | create, supersede, cancel, fan out, acknowledge, report, expire | transactions overlapping logins | every session reached; withdrawn copies not delivered |
| Sessions (`cs/app/app.go`, `cs/httpapi/auth_*`, `admin_users.go`) | sessions, refresh tokens | login, refresh, revoke, change password, delete | rotation races, partial revocation | a revoked session stays revoked |
| Login throttle (`cs/httpapi/auth_security.go`) | counters per principal and source | check, count, prune | row locks in different orders, concurrent attempts | failures are all counted, blocks last |
| Directory, roles, teams, data scope (`cs/httpapi/rbac_handlers.go, directory_handlers.go`, `cs/repository/rbac.go, subject_guard.go, identity.go`) | roles, teams, memberships, grants, agents, scope rules | delegated writes, grants, deletions, agent creation | checks before the transaction, re-used ids, copies made in several statements | nobody hands out what he does not hold; grants die with their subject; copied scope does not widen |
| Credentials, publisher and cache (`cs/credentialdelivery`, `cs/httpapi/credential_handlers.go`, `examples/node-agent/src/credentials.ts`) | credential rows, Secrets, cached material | rotate, publish, resolve, revoke | rotation during a pass, shared requests | Secrets follow the table, uses are fresh |
| Skills (`cs/httpapi/skill_handlers.go`, `examples/node-agent/src/skills.ts`) | versions, packages, manifests, directories | upload, publish, assign, reconcile | row and blob are separate, passes stop halfway | every listed package can be downloaded; ETag tells what is installed |
| Assets (`cs/httpapi/asset_*`, `cs/repository/assets.go`) | assets, bindings, executions | administer, bind, execute | four reads before the command runs | every run was allowed |
| Model health (`cs/app/model_health.go`) | statuses, alerts | probe rounds | deadlines, edits during a round | a status was observed, an alert follows |
| Audit (`cs/httpapi/admin_audit.go`) | audit rows, limiter | record, throttle | handlers that record themselves | no failure is dropped unseen |
| Node agent example (`examples/node-agent`) | inbox, outbox | receive, execute, report | stops and lost calls anywhere | what was acknowledged is executed |
| Node SDK, `aepctl`, rendering, configuration, licences, deployment settings | little or none | formatting, input and output | none | tested as data |

Components meet in four ways: rows of PostgreSQL (HTTP handlers and relays),
custom resources (relays and operator), HTTP (agents, reconciler, SDK) and triggers
(deleting a model, user, team or role retires rules inside the same transaction).

## 2. How the project is organised

One module per component; a module that composes components EXTENDS them and adds
what happens between them (`PublicationRelay` on `PublicationLedger`,
`AccessEnforcement` on `ModelAccess`, `SkillSync` on `SkillRegistry`,
`AssetExecution`, `SecretPublisher` and `CredentialCache` on `Credentials`,
`AgentDirectory` on `DataScope`, `LoginThrottle` and `LoginInputs` on
`LoginPolicy`). `DeliveryContract` is the abstract specification that ledger and
relay implement. An `MC` module instantiates components for a run. A run that
holds several components has a variable `part`: a behaviour is a behaviour of one
part, and the others rest in their initial states, so the run explores the union of
the state spaces and never a product of components that share nothing.

Every component has one invariant that collects its type invariant and its safety
properties as named conjuncts; action properties are collected the same way.

Not covered yet: the single-flight refresh of the Node SDK; cursor paging of
deliveries.

## 3. Modules

### PublicationLedger

One deployment's tables. Every action is one committed transaction.

| Variable | Table |
|---|---|
| `catalog`, `subjects` | `models`; `users`, `teams`, `roles` |
| `limits` | `gateway_limits`; `retired` is `reference_invalidated` |
| `removals`, `signal` | `gateway_model_removals`, `gateway_reference_invalidations` |
| `intents` | immutable columns of `data_plane_publications` with their snapshot, by sequence |
| `status`, `outbox` | phase and error code; `data_plane_publication_outbox` |
| `claim` | what each relay worker remembers, not a table |
| `epoch`, and `born` in an intent | auxiliary: how often a model id was deleted |

Why one action per transaction is enough: publishing, replaying and invalidating
hold the publication lock and then the native lock; rule writers and the deletion
trigger hold the native lock; a claim holds the publication lock. Only
acknowledgement (`FinishDataPlanePublication`) takes no advisory lock. Its guarded
UPDATE reads "no newer intent" from its snapshot, so an insert may commit before
the acknowledgement does; the insert reads neither phase nor outbox, so the
acknowledgement can be placed before it. Against a claim the two row locks are
taken in opposite order: either one waits and re-checks its WHERE clause, or
PostgreSQL aborts one of them, which leaves no trace.

Abstractions: a route definition (endpoint, protocol, upstream model, credential
reference) is a member of `Defs`; a rule carries the set of references it names;
quotas, audit rows and request validation are left out; the `attempts` counter
stands for the claim token, a fresh uuid per claim; clock comparisons are the
values `live`/`expired` and `due`, changed by `LeaseExpires` and `RetryDue`. The
caps on 500 routes and 100 rules of a deployment are not modelled.

### PublicationRelay and DeliveryContract

`PublicationRelay` extends the ledger with the API server (`cr`: resourceVersion,
marker and spec of every object), worker program counters (`work`) and requests
that outlived their caller (`late`). Every Kubernetes call of `Project` is an
action: `Open`, `List`, `Write`/`SkipWrite`, `Verify`, then the same three for
policies, `Stamp`, `Update`, `Confirm`, `StepFinish`. `Desired` is what
`desiredRoutes` and `desiredPolicies` compute from the immutable prefix of the
ledger, disabled tombstones of removed models included. Objects of one stage are
written in any order: the code sorts routes by id and iterates over policies in map
order. Disturbances (`LoseWrite`, `LoseUpdate`, `ApiError`, `Crash`, `LockBusy`, a
lease that lapses under its holder, `OperatorTouch`) are limited by `MaxFaults`;
late requests arrive at any time or never. The API server and the operator are
external: creation needs an absent object, an update the resourceVersion it was
read at, and a CRD schema check.

`DeliveryContract` is what publication promises without workers and requests:
objects move only forward, the aggregate follows its objects, only the newest
intent is acknowledged and only when the aggregate carries it. `PublicationRelay`
maps `needs` to the objects each intent asks for, `placed` and `stamped` to markers
and `acknowledged` to the newest projected operation.

### ModelAccess and AccessEnforcement

`ModelAccess` has one subject with its sessions and workloads. Business changes
(assignments, disabling, logins, revocations, registrations, time) raise a signal;
`Capture` turns the subject into publications with a window and schedules the next
renewal. Both hold one advisory lock, so each is one step. The relays take a
publication in six calls (`Claim`, `ReadGrant`, `WriteGrant`, `ConfirmGrant`,
`Finish`, and `ClaimLost` or `Hiccup` for what goes wrong). Time is in seconds and
the claim lease is shorter than a window.

`AccessEnforcement` adds the access controller of the operator (bounds, policy,
binding route and finalizer, one write at a time) and the authorizer, which loads
policy and bounds on its own and allows a request when both name one policy and
the time is inside the window. The relays are replaced by `Projects`, the promise
that `GrantsMoveForward` checks in `ModelAccess`.

### GatewayOperator and FleetEvidence

Two workers of the operator read the deployment, the routes, the policies and the
secrets one after the other, and apply an aggregate or an ingress under conditions
on status hashes; a relay writes marked objects in its order, or administrators edit
directly. `FleetEvidence` is the observation that makes a snapshot count as loaded:
first roster, one dump per pod, comparison, second roster and snapshot, while pods
are replaced and load routes and plugins by themselves.

### GatewayReconciler

Replicas compete for one Lease (`Acquire`, `Lose`, `Shutdown`, the guarded release
in two calls). The leader fetches a desired state (`Fetch`), and applies it call by
call (`Call`): rendered resources, deletions of disabled routes and of the unscoped
legacy ingress, pruning of what the inventory remembers, status; then the same for
the native limit publication; `Store` writes the inventory. Every call may fail
before or after it took effect, and a call that was on the wire when its leader was
cancelled may land late (`LateCall`); `strayed` remembers that one did.

### ControlEvents and ControlInbox

Events, sessions and deliveries at PostgreSQL's READ COMMITTED level. Creation is
`CreateInsert` (with the snapshot of the supersede statement), `CreateSupersede`,
`CreateFanOut`, `CreateCommit`; opening a session is `LoginFanOut`, `LoginCommit`;
either may abort. Rows changed by an open transaction are locked. Cancellation is
two separate statements, the second of which may never run. Audiences are sets of
users; who is in a team or role is fixed. The auxiliary `crossed` records the pairs
of event and session whose transactions overlapped.

`ControlInbox` is the receiving side in the reference agent: a run resumes the
inbox, receives pending deliveries, executes and reports, flushes telemetry. Every
call may be lost before or after the server acted and the process may stop anywhere.

### UserSessions

`users`, `user_sessions` and `user_session_tokens` with the requests that change
them. A request (`req`) remembers what it has read and which statement comes next;
`Abandon` ends it after any of them, as an error or a crash does.

| Handler | Actions |
|---|---|
| `passwordLogin` | `LoginRead`, `IssueCheck`, `IssueInsert` |
| `refreshSession` | `Refresh`: the row locks on token, session and account make it one step |
| `changePassword` | `ChangeBegin`, `ChangeUpdate`, the three `Sweep` steps, `IssueCheck`, `IssueInsert` |
| `resetUserPassword`, `updateUser` | `Reset` or `Disable`, the three `Sweep` steps; `Enable` |
| `logout` | `LogoutToken`, `LogoutSession` |
| `revokeUserSession` | `AdminRevokeStart`, `AdminRevokeCommit` |
| `deleteUser`, `deleteAgent` | `DeleteUser`; `DeleteAgentCount`, `DeleteAgentRows` |
| retention | `Retain` |

The statement that revokes the tokens of an account is split in its snapshot and
its effect, because it may wait for a refresh in between. A revoked and an expired
token are both `dead`: nothing distinguishes them. Auxiliary: `epoch` counts
password updates and disablings of an account, a session keeps the epoch of the
account row it was issued from, `cleared` is the last epoch whose sign-out
finished, and `crossed` marks sessions of requests that held an older row while
that sign-out ran. The triggers of migration 052 add an advisory lock to some of
these transactions; it orders them further and can only make one of them fail,
which is `Abandon`. The mock federated login of development builds is left out.

### LoginPolicy, LoginInputs and LoginThrottle

`LoginPolicy` has `loginBackoff`, `loginSource` and `retryAfterSeconds` as
recursive functions; durations are integers of `Bits` bits, addresses model values.
`LoginInputs` compares them with references over all inputs of a bounded size.
`LoginThrottle` has the rows of `login_rate_limits` by key (a principal at a
source, or `"any"` at a source) and attempts with their program step and the time
they began. A failing attempt locks the row of its principal, the row of its
source, and at the end the rows it prunes; `WaitsFor` is the resulting wait-for
relation and `DeadlockDetected` what PostgreSQL does about a cycle. Whether the
password is right is a free choice. Auxiliary: `refused` counts the plain refusals
(401) of a key since its count began.

### Directory: RoleDelegation, SubjectGrants, DataScope, AgentDirectory

In `RoleDelegation` a delegate's request is authorised by reads of its own (`Ask`)
and committed by a later transaction (`Commit`); the auxiliary `given` holds what
administrators handed out. `SubjectGrants` has the grants that name a role or a
team by id without a foreign key, the advisory lock per subject and ids that are
used again (`births`). `DataScope` is `BuildRetrievalContext` as operators over a
team tree, with a reference that walks the tree the other way. `AgentDirectory` is
`createAgent`, statement by statement, with the copied scope of ephemeral agents.

### Resources: Credentials, SecretPublisher, CredentialCache, AssetExecution, SkillRegistry, SkillSync

`Credentials` has the rows and the writes of administrators. `SecretPublisher` is
the pass that brings Secrets in line, `CredentialCache` the client that shares
synchronisations and resolutions between concurrent uses, `AssetExecution` the four
checks before a command and the updates validated before their transaction.
`SkillRegistry` writes version rows and packages one after the other; `SkillSync` is
the pass of an agent host that may stop between any two of its steps.

### ModelHealth and AuditTrail

`ModelHealth` is a probe round with its deadline: read all, then resolve, probe,
record and announce one model after the other. `AuditTrail` is the middleware
around administrative writes with its bounded, process-local failure limiter.

## 4. Runs

| Run | Checks | Instance |
|---|---|---|
| `Ledger` | `SelectedRoutesCurrent`, `SelectedRulesCurrent`, `TerminalForGood` | a model, a rule, a user; 2 publications, 2 signals, edits to version 2, 2 workers; either rules or deliveries move |
| `Relay` | `OutboxAgrees`, `OneAcknowledger`, `SpecFollowsMarker`, `ProjectedIsLive`, `RelayInvariant`, `MarkersNeverRollBack`, `KeepsContract` (refinement of `DeliveryContract`) | 2 workers, 2 publications, 1 withdrawal, 3 claims each; routes of one model with a disturbance, or policies of one rule |
| `Liveness` | `EveryOperationSettles`, `WithdrawalsSelected`, `EveryAttemptAnswered`, `SettlesUnlessPoisoned`, `SecretsConverge`, `OperatorConverges` | 2 relay workers with one disturbance, 2 attempts at 2 sources, 2 deliveries, 1 publisher, 1 route and 2 publications |
| `Sessions` | `SignedOut`, `OneLiveToken`, `SessionInvariant`, `RevokedIsOver` | 1 agent account, 2 requests at a time, 2 sessions, 3 tokens, 2 sign-outs |
| `Administration` | `ThrottleInvariant`, `PolicyMeetsReference`, `EventInvariant`, `GrantsInvariant`, `AuditInvariant`, `HealthInvariant`, `AdministrationSteps` | parts login, policy, events, grants, audit, health |
| `Resources` | `DelegationInvariant`, `AgentInvariant`, `AssetInvariant`, `SkillInvariant`, `InboxInvariant`, `CredentialInvariant`, `OperatorInvariant`, `ResourceSteps` | parts delegation, agents, assets, skills, inbox, secrets, cache, operator, fleet |
| `Gateway` | `AccessInvariant`, `EnforceInvariant`, `ReconcilerInvariant`, `OneLeader`, `GrantsMoveForward` | parts sessions, workloads, enforcement, reconciler |

What the collected properties say:

- `RelayInvariant`: types; the aggregate is stamped last; projected means stamped;
  deleted models are withdrawn; relays do not trip over each other's objects.
- `SessionInvariant`: types; sessions go with their account, carry model scopes
  only when no password change is due, and are refused to expired agents.
- `ThrottleInvariant`: fewer plain refusals than the limit per count. `BlocksLast`
  (in `AdministrationSteps`): nobody else lifts a running block.
- `EventInvariant`: the fan-outs of an event and of a login meet unless they
  overlapped; withdrawn events are not pending. `ReceivedWorkStays` (step).
- `GrantsInvariant`: a grant belongs to the very role or team it was made to,
  although ids are used again; parents form a tree.
- `AuditInvariant`: a suppressed attempt repeats one on record; repeats are
  throttled; one row per success of marked handlers.
- `HealthInvariant`: a status could be observed during its round; alerts name it.
- `DelegationInvariant`: nobody holds what no administrator handed out.
  `DelegatesGiveWhatTheyHold` (step).
- `AgentInvariant`: the quota is passed by concurrent creators only; a copied scope
  never widens; the retrieval context meets its reference.
- `AssetInvariant`: each check of an execution held at some moment of it; an active
  asset keeps its credential unless updates overlapped.
- `SkillInvariant`: listed packages are stored; the stored ETag tells what is
  installed; directories hold only listed packages.
- `InboxInvariant`: what was acknowledged is kept; a reported success is real.
  `SuccessIsImmutable`, `TelemetryIsNotLost` (steps).
- `CredentialInvariant`: ready publishers have delivered; uses are never older than
  the synchronisation they waited for. `ForeignSecretsUntouched` (step).
- `OperatorInvariant`: no mixture of publications is rendered; an ingress follows
  an aggregate of the same inputs; deletion waits for it. `EvidenceIsReal` (step).
- `AccessInvariant`: only the latest publication of a binding is open; projected
  means on the cluster; open access has its renewal or end on the schedule.
- `EnforceInvariant`: what a request may use was granted within the freshness; a
  deadline ends access; a route belongs to a grant.
- `ReconcilerInvariant`: ready means loaded and pruned, unless a late call strayed.

Five runs are expected to find a violation; each states what a document or a
comment of the repository says, quoted in the findings of `PROJECT.json`.

| Run | Violated | What happens |
|---|---|---|
| `RelayPoison` | `FailsForItsOwnContent` | A definition longer than the CRD schema allows fails its publication and, as the tombstone of its deleted model, every later one |
| `SkillRevoked` | `RevokedIsRemoved` | After a pass that stopped halfway the manifest returns to the content of the stored ETag; the host is told that nothing changed and keeps a revoked skill |
| `AuditTwice` | `OneRowPerSuccess` | Asset handlers record their success and do not mark the request, so the middleware records it again |
| `ExposedEarly` | `ExposedWithAggregate` | A route goes from A to B and back to A and is exposed on the aggregate of B |
| `DepartedRoutes` | `ReadyHasNoDeparted` | A pass that failed before storing its inventory leaves resources of a departed route while the status is ready |

Behaviours of the code that properties are written around:

- *A login during a sign-out.* A login that read the account before a password
  update and inserts its session after the sign-out keeps the session; `SignedOut`
  says that this is the only way.
- *A login during a fan-out.* `FanOutMeets` leaves out pairs whose transactions
  overlapped: neither then creates the delivery.
- *A moved rule.* The trigger of migration 048 looks at the draft row of a rule. A
  rule that was published, then moved to another user in the draft, stays enabled
  on the first user when that user is deleted, and no withdrawal is signalled.
  `SelectedRulesCurrent` therefore speaks of retired rules.
- *An unreadable profile.* `agentExpired` answers "not expired" when the profile
  of an agent cannot be read. `ExpiredAgentsRefused` is about profiles that could
  be read; the failing read is part of the model.
- *A long delay.* `recordLoginFailure` prunes rows after two windows whether or
  not their delay is over. `BlocksLast` holds when the maximum delay is at most
  two windows (the defaults are one window each); `config.Load` does not ask for
  that.
- *A poisoned inbox.* A delivery withdrawn between being listed and being
  acknowledged ends every later run of the reference agent with a conflict;
  `SettlesUnlessPoisoned` assumes that it does not happen.
- *A late call.* The reconciler's calls are not fenced by the lease; `ReadyIsLoaded`
  and `DepartedArePruned` hold until a cancelled call of a former leader lands.

### Bounds

- *Two workers, replicas, relays, requests, creators or uses.* Races here are between an owner and
  a stale one, or between two requests; a third adds no new relation between them.
  The proofs cover any number.
- *Two publications and a withdrawal.* Enough for an older, a current and a newer
  intent at once; the third is inserted by the relay itself.
- *Three claims of one publication.* First owner, second owner after a lapse, and
  one more after a retry.
- *One disturbance.* Each kind alone, at every point, with every interleaving of
  the two workers. Late requests stay in flight without costing more. In `Liveness`
  the faults meet one of the two interchangeable workers.
- *Versions up to 2.* A captured rule is then older than, equal to and newer than
  the row that a deletion retires (which moves it further).
- *Two sign-outs, three tokens.* Signing out races one login or another sign-out;
  a session is refreshed during a revocation and once more after.
- *The clock of the throttle* runs past a window, so that rows get old enough to be
  pruned; attempts last at most `MaxAge` units. The maximum delay is two windows.
- *Freshness 2, time up to 3.* A publication is renewed once and expires once, and
  a grant is deleted at time 1, inside its first window.
- *Five bits.* The largest duration of that width is an input, so doubling would
  overflow if the code let it.
- *One session, two events.* The overlaps are between pairs of transactions; two
  events are needed for superseding.
- *One limiter key, three audited requests.* The limiter is full after the first.
- *Two births of an id, two teams.* A grant can then outlive its subject, and a
  parent can be deleted and come back.
- *Two packages of one version.* A manifest can change and return.
- *A pod and its successor, two snapshots.* A pod is replaced and the snapshot moves
  during one observation.

Symmetry is used for workers, keys, requests, attempts, replicas and tokens, which
no action tells apart; runs with temporal properties that need it use none. Runs
switch deadlock checking off because they end when their bounds are used up.

### Fairness

`LivenessSpec` states the fairness of each part for the part that runs.

- *Relay.* Weak fairness of each worker's program step: `Worker.Run` repeats `Step`
  every second whatever it returned, and the process is restarted when it dies. Time
  is fair: a lease that nobody holds runs out and a retry becomes due. None is
  assumed of administrators, disturbances or late requests. The bound on claims is
  chosen so that it is not reached: settling is a property of the protocol.
- *Login.* Strong fairness of each attempt's next statement: PostgreSQL serves the
  queue of a row lock in order, so a waiting statement is not overtaken for ever,
  and it breaks deadlocks. `Begin`, `Tick` and failing statements are not fair.
- *Inbox and publisher.* Weak fairness of the agent's and the publisher's own steps:
  both loops run on a timer for as long as the process lives.
- *Operator.* Weak fairness of the steps of a reconciliation and of starting one:
  every object is requeued on events and every drift interval; and of the relay that
  writes the objects.

## 5. Theorems

Eight modules hold theorems. They hold for all sets of models, rules, workers,
replicas, sessions, relays, events, roles, teams, people, deliveries, credentials and
so on, and for all bounds, from the named assumptions on constants alone. Every
inductive invariant below was checked by TLC on a small instance before it was
proved. All invariants and action properties of the passing runs are theorems; the
liveness properties are not (section 6).

### PublicationLedgerProofs (from `LedgerAssumption`)

| Theorem | Statement |
|---|---|
| `LedgerSafe` | `Spec => []LedgerInvariant` |
| `TypeCorrect` | `Spec => []TypeOK` |
| `OutboxCorrect` | `Spec => []OutboxAgrees` |
| `AcknowledgerUnique` | `Spec => []OneAcknowledger` |
| `RoutesCurrent` | `Spec => []SelectedRoutesCurrent` |
| `RulesCurrent` | `Spec => []SelectedRulesCurrent` |
| `TerminalIsFinal` | `Spec => TerminalForGood` |

`LedgerInvariant` is the conjunction of

- `TypeOK`;
- `OutboxAgrees`, inductive by itself: each transaction changes both rows;
- `ClaimsDistinct`: remembered claims were really made and differ. It gives
  `OneAcknowledger`, since an acknowledgement compares the remembered token with
  the row's;
- `SignalOrdered`: acknowledged versions do not run ahead. Without it a raised
  signal need not be pending;
- `RoutesTracked`: an enabled route of the selected intent comes from the model
  that exists, or that model was removed under this very intent *and* the signal
  is pending. `SelectedRoutesCurrent` says nothing while a signal is pending, so
  it is not inductive: the step that acknowledges the signal needs to know which
  removals the invalidation sees;
- `RulesTracked`: a captured rule is never ahead of its row, and it is enabled
  over a retired row only while the signal is pending. The version bound is what
  makes the fence comparison of `invalidateSelected` find every such rule.

There is one lemma per conjunct (`TypeStep`, `OutboxStep`, `ClaimsStep`,
`SignalStep`, `RoutesStep`, `RulesStep`) with one step per action, and lemmas on
tables, rows and the columns that `insertPublication` extends. `LedgerStart` and
`LedgerKept` are what the relay's proofs use of them.

### PublicationRelayProofs (from `LedgerAssumption` and `RelayAssumption`)

| Theorem | Statement |
|---|---|
| `RelayImplementsLedger` | `RelaySpec => Spec`: every relay step is a ledger step or a stutter |
| `RelaySafe` | `RelaySpec => [](LedgerInvariant /\ RelayInductive)` |
| `SpecsFollowMarkers` | `RelaySpec => []SpecFollowsMarker` |
| `ProjectedLive` | `RelaySpec => []ProjectedIsLive` |
| `RelayCorrect` | `RelaySpec => []RelayInvariant` |
| `MarkersMoveForward` | `RelaySpec => MarkersNeverRollBack` |
| `ContractKept` | `RelaySpec => KeepsContract`, the refinement of `DeliveryContract` |

Several workers, among them some whose lease is over, and requests that the cluster
executes late all write the same objects. What keeps them apart is the marker in
every object and the resource version of an update, so the invariant has to say what
each writer *knew*:

- `ObjectsMarked`, `SpecFollowsMarker`: a live object carries exactly the content its
  marker's operation asked for;
- `WorkerOK`, `RequestOK`: what a worker read is the object as it was at that
  resource version. If the object has not moved, the marker that was read is the
  marker it has; if it has, the update is refused. A late request obeys the same;
- what a worker counts as done stays at its operation or a newer one, and a worker
  that ends with an ownership outcome has met a newer operation. This gives
  `NoOwnershipConflict` and, with the claim, `ProjectedIsStamped`;
- `AggregateStampedLast`: an aggregate at an operation means all its children are
  there or beyond;
- `PoliciesGrow`, `ClaimsFollow`: the wanted children of later operations include
  those of earlier ones, and a worker's operation is one that was claimed.

The refinement maps every insertion of an intent to `Select`, an accepted write of a
child to `Place`, of the aggregate to `StampAggregate`, the acknowledgement to
`Acknowledge`, and every other step to a stutter. `FailsForItsOwnContent` is no theorem: the code does not
keep it (run `RelayPoison`).

### GatewayReconcilerProofs (from `OperatorAssumption`; the reconciler needs none)

| Theorem | Statement |
|---|---|
| `ReconcilerSafe` | `ReconcilerSpec => []ReconcilerInductive` |
| `ReconcilerCorrect` | `ReconcilerSpec => []ReconcilerInvariant` |
| `LeaderIsUnique` | `ReconcilerSpec => []OneLeader` |
| `OperatorAppliesOnePublication` | `OperatorSpec => []OperatorInvariant` |

The reconciler:

- `LeaderHolds`, `ReleaseIsOwn`, `OthersIdle`: a replica that leads has an unexpired
  lease, it gives up no lease but its own, and one that does not lead has no pass
  under way. `OneLeader` follows, and that passes do not interleave;
- `PassesLoad`, `ReadyIsLoaded`: how far a pass has come tells what it has loaded; a
  ready status was written at the end of such a pass;
- `PassesLimit`, `LimitsAreLoaded`: the same for the limits of the plugins;
- `Inventory`, `DepartedArePruned`: what is loaded is in the inventory, which is why
  a route that has departed is found and pruned.

The operator reads the deployment, the routes and the policies one after the other
while the relay rewrites them. `DeploymentOK`, `RoutesOK` and `PolicyOK` say that an
object carries the content of the publication in its mark, and `SnapshotOK` that a
copy which a worker holds still does, however old it is. A rendering is applied only
when its parts have one mark, so it is the content of one publication (`HashOK`).
`RouteWorkOK` and `RouteOK` tie what the route worker knows to the object: a route
that is being deleted has its finalizer until this worker has seen an aggregate
without it, and an ingress is one of an aggregate that was applied.

### UserSessionsProofs (from `SessionsAssumption`)

| Theorem | Statement |
|---|---|
| `SessionsSafe` | `SessionSpec => []SessionInductive` |
| `SessionsCorrect` | `SessionSpec => []SessionInvariant` |
| `SignOutHolds` | `SessionSpec => []SignedOut` |
| `RefreshRotates` | `SessionSpec => []OneLiveToken` |
| `RevocationIsFinal` | `SessionSpec => RevokedIsOver` |

The handlers read the account, check and write in separate statements, so the
invariant ties what a request remembers to rows that may have changed since:

- `RequestsWellFormed`, `Promised`: what a request holds at each of its statements,
  and what the checks it has passed still guarantee;
- `RowsOwned`, `TokensOwned`, `TokensSingle`: sessions and tokens belong to rows that
  were made; a session has one unused token. The rotation marks the old token before
  it inserts the new one, in one transaction, which is why it is inductive;
- `EpochsPast`, `RowsRemembered`, `LateRefused`: a request that remembers an account
  row from before a sign-out is either refused or counted as overlapping.

### AccessProofs (from `AccessAssumption`)

| Theorem | Statement |
|---|---|
| `AccessSafe` | `AccessSpec => []AccessInductive` |
| `AccessCorrect` | `AccessSpec => []AccessInvariant` |
| `GrantsOnlyForward` | `AccessSpec => GrantsMoveForward` |
| `EnforceSafe` | `EnforceSpec => []EnforceInductive` |
| `RevocationTakesEffect` | `EnforceSpec => []AccessIsRecent` |
| `AccessEndsInTime` | `EnforceSpec => []ExpiryEndsAccess` |
| `EnforceCorrect` | `EnforceSpec => []EnforceInvariant` |

The ledger and its relays:

- `SourceInductive`: types, that `allowedAt` is a true record of the source, and
  that every publication is `Covered`: its window ends with the verification and
  within the freshness, and all it allows was allowed when the window began, or
  later. A kept window is why the last part says "or later": the policy is the same,
  and it has been observed since. No verification reaches further ahead than one
  lifetime, so that a renewal never shortens a window already published;
- `RelaysKnow`: what a relay read before its write was that version of the grant,
  with nothing newer in it; what it has confirmed is still there, or something
  newer. Claims lapse at any time, so nothing is said of who owns the publication.
  `GrantsMoveForward` follows from it and `GrantsPublished`;
- `GrantsPublished`: one grant for a binding, and it carries one of its publications;
- `ClaimsMarked`, `OnlyLatestIsOpen`, `ProjectedCarried`, `Scheduled`.
  `ProjectedIsOnCluster` speaks of the grants that exist and is not inductive;
  `ProjectedCarried` says that there is one, at that sequence or a newer one.

`MinimumOfNaturals` shows that the `CHOOSE` of `Minimum` finds one, by well-foundedness.

The enforcement:

- `GrantsCovered`, `OpCovered`, `ObjectsCovered`: a window the source covers stays
  covered, since verifications are only extended and `allowedAt` only grows
  (`CoveredKept`). So a grant, the copy a reconcile works on, the ConfigMap it
  writes and the copy the authorizer has loaded are all covered however old they
  are. Nothing is said about their order: a stale copy is harmless because the time
  is compared with its own window when a request comes;
- `RouteGuarded`: the grant that a reconcile renders has its finalizer until that
  reconcile ends, since only `RemoveFinalizer`, a step of a reconcile itself, takes
  one away, and then there is no route. Deletion in between leaves a grant with a
  finalizer in place. `NoOrphanRoute` is inductive with it, and not without.

`EnforceSpec` takes relays by their promise (`Projects`); `GrantsOnlyForward` is the
proof that they keep it. Grants are deleted in `EnforceSpec` only: that a relay does
not write into one that is being deleted is the check of `ReadGrant` and the resource
version, which a deletion changes too.

### AdministrationProofs (from the assumptions of the components of run `Administration`)

| Theorem | Statement |
|---|---|
| `EventSafe` | `EventSpec => []EventInductive` |
| `EventCorrect` | `EventSpec => []EventInvariant` |
| `WorkIsKept` | `EventSpec => ReceivedWorkStays` |
| `RefusalsStayBounded` | `ThrottleSpec => []ThrottleInvariant` |
| `BlocksOutlastPruning` | `BackoffMax <= 2 * Window => (ThrottleSpec => BlocksLast)` |
| `PolicyIsRight` | `PolicyMeetsReference` on every accepted input |
| `AuditTrailIsKept` | `"unmarked" \notin Kinds => (AuditSpec => []AuditInvariant)` |
| `HealthIsObserved` | `HealthSpec => []HealthInvariant` |
| `StatusKeepsItsStart` | `HealthSpec => SinceMarksTheChange` |
| `GrantsSafe` | `GrantsSpec => []GrantsInductive` |
| `GrantsCorrect` | `GrantsSpec => []GrantsInvariant` |
| `AdministrationStepsHold` | `BackoffMax <= 2 * Window => (AdministrationSpec => AdministrationSteps)` |
| `AdministrationIsSafe` | the invariants of login attempts, events, grants and health under `AdministrationSpec` |

*Events.* A creation (insert, supersede, fan out, commit) and a login (fan out,
commit) are transactions that do not see each other's rows:

- `RowsExist`: what a transaction holds of other rows exists, its own row does not;
- `LocksHeld`: the row locks of the update keep an event in one superseding
  transaction at a time, so that what it will withdraw is still pending when it
  commits;
- `LoginsCross`: a login that has read the events and is not committed is recorded
  as crossing every creation under way. `FanOutMeets` and `WithdrawnNotPending`
  excuse crossings, so a pair missing from the record would make them false;
- `FanOutsFind`, `WithdrawalsFind`: without a crossing, either side has found what
  the other committed. They are the two properties before the commit.

*Login throttle.* The bound on plain refusals is not inductive by itself; `RowOK` adds
that a row counts at least the refusals given, and that it blocks for at most the
maximum after its last update. The second part is why pruning takes no running block
away: a pruned row was updated more than two windows ago. That is also where the
hypothesis of `BlocksOutlastPruning` comes from. The code prunes after
`2 * LoginFailureWindow` (`cs/httpapi/auth_security.go:138`) and `config.Load` asks
only that the maximum is not below the base (`cs/config/config.go:334`); the defaults
(15 minutes each) satisfy it. Nothing else in the proof needs it, and
`RefusalsStayBounded` holds without.

*Login policy.* `loginBackoff` doubles until a further doubling would overflow, and
`loginSource` walks the forwarded chain from its end. Both are recursive functions.
Their values come from least counterexamples: a set of steps at which the function
differs from its reference has a least member, and one unfolding of the definition
shows that there is none (`LeastExists`, from the well-foundedness of the naturals).

*Audit.* `SeenOK` and `Remembered` say what the limiter's entries stand for: each is of
an attempt that was let pass, and each attempt that was let pass is in the limiter for
one window unless it was full. `Throttled` and `SuppressedOK` follow. The hypothesis
leaves out handlers that write their own row without saying so; with them
`OneRowPerSuccess` is false, which is what run `AuditTwice` shows.

*Health.* `RoundObserves` holds of every process: what it is about to record, a probe
could find since its round began. `RoundAlone` holds of a process that is the only
one: what it read is what the rows say but for the row it has just recorded, and only
that row lacks its alert. Two processes may overtake each other, and nothing is
claimed of their alerts.

*Grants.* `WritersHold` says that a deletion or a grant has the lock of its subject
alone, that the subject exists meanwhile, and that a deletion which has looked at the
grants has seen all there are: this is what `subjectGuard` is for. `TeamsRanked` says
that there is a rank by which every parent is below its teams or the team itself. A
new team gets a rank above its parent's, and since no team that exists refers to an id
that does not, a reused id may be ranked anew. The teams above a team are then of
lower rank (`AncestorsRankLower`), so no two are above each other. `Ancestors` is
defined by closed sets and not by recursion to make this a proof.

### DirectoryProofs (from `DelegationAssumption`, `ScopeAssumption` and `AgentAssumption`)

| Theorem | Statement |
|---|---|
| `DelegationSafe` | `DelegationSpec => []DelegationInductive` |
| `DelegationCorrect` | `DelegationSpec => []DelegationInvariant` |
| `DelegatesGiveTheirOwn` | `DelegationSpec => DelegatesGiveWhatTheyHold` |
| `AgentsStayInScope` | `AgentSpec => []AgentInvariant` |

*Delegation.* `CallsWithin` ties a request that has passed its checks to tables that
others have changed since: what it will write is within what administrators have
handed out, and within what the delegate holds as long as nothing has committed.
The first needs `OwnRolesWithin` (roles that are not built in carry only what was
handed out, enabled or not) and that no request touches a built-in role.
`CommitFits` states once for every transaction that what people can hold moves within
whatever the request is within; `HeldWithin` draws both theorems from it.
`DelegationInit` admits all tables whose bindings name existing rows.

*Data scope.* `BuildRetrievalContext` finds subtrees by repeated steps down the tree
until nothing is added; its reference walks up from the team. Nothing forbids cycles
among parents. `WalkEnds` shows that a walk of as many steps as there are teams ends
where nothing is added, from a count of what it has found, and `WalkStaysInside` that
it stays in every set which is closed under a step. So `SubtreeIDs` and the walk up are
least closed sets (`SubtreeIsClosure`, `AboveIsClosure`), and a path from one team to
another is found from either end (`DownMeetsUp`). `ContextIsRight` compares the
context with its reference; `CopyStaysWithin` is the fact about copies: rules within
the reach of a source, without the teams that the source is denied, widen nothing.

*Agents.* `createAgent` reads its source once and then writes account with teams, profile
and rules one by one, while teams, rules and members change. `MakingOK`
says of each of those statements what the rows so far hold of the source as it was
read, and which denials are still to be copied; `MadeOK` says it of a finished agent;
`Apart` that no two requests make the same one. Grants are copied before
denials, so an agent that is half made may see more than its source; the property
speaks of finished agents, and the invariant has to carry the list of denials still to
be copied until it is empty. `QuotaOK` counts residents
*and* requests that were counted and have not made theirs: with `n` creators the quota
is passed by `n - 1` at most.

### ResourceProofs (from the assumptions of the components of run `Resources`)

| Theorem | Statement |
|---|---|
| `CredentialsAreSafe` | `ResourcesSpec => []CredentialInvariant` |
| `ReadyIsDelivered` | `PublisherSpec => []ReadyMeansDelivered` |
| `ForeignSecretsStay` | `PublisherSpec => ForeignSecretsUntouched` |
| `CachedUsesAreFresh` | `CacheSpec => []UsesAreFresh` |
| `AssetsAreSafe` | `AssetSpec => []AssetInvariant` |
| `SkillsAreInstalled` | `SyncSpec => []SkillInvariant` |
| `InboxSafe` | `InboxSpec => []InboxInductive` |
| `InboxKeepsItsDeliveries` | `InboxSpec => []InboxInvariant` |
| `SuccessNeverChanges` | `InboxSpec => SuccessIsImmutable` |
| `TelemetryArrives` | `InboxSpec => TelemetryIsNotLost` |
| `FleetSafe` | `FleetSpec => []FleetInductive` |
| `EvidenceIsOfAFullRoster` | `FleetSpec => []FleetTypeOK` |
| `EvidenceIsGenuine` | `FleetSpec => EvidenceIsReal` |
| `ResourceStepsHold` | `ResourcesSpec => ResourceSteps` |
| `ResourcesAreSafe` | delegation, agents, skills and inbox under `ResourcesSpec` |

- *Publisher.* `SeenWas`: what a publisher has read of a Secret is what the Secret was
  at that resource version, which is why it never takes over the Secret of another
  owner. `PassHolds`, of passes that nothing has disturbed: what is not delivered is
  still to come.
- *Cache.* A use shares a synchronisation or a resolution that another use began
  earlier. `Viewed` says what the beginning of a synchronisation promises, `Listed` and
  `Suits` that whatever is cached or being resolved under the listed revision is not
  older, `StoreOK` that material is as new as its revision, and `AsksOK` that a
  resolution belongs to a use that waits for it. The revision, not the time of the
  answer, is what makes a late answer harmless.
- *Assets.* `Earned` says which checks have held by the phase of an execution. `PatchHolds`
  ties an update that was validated before its transaction to the row it will meet,
  unless another update of the same asset overlapped.
- *Skills.* `PackagesKept` relates rows, packages, uploads and withdrawals; `PassOK`,
  `DirsOK` and `EtagOK` say how far a pass has come, how directories differ from the
  rows at that point, and that the ETag is written at the end of a pass in which
  nothing failed.
- *Inbox.* `RunTakesKept`: a run works on deliveries that are on disk. `RunReportsReal`:
  it reports success after the execution and keeps it after the server has it. A stop
  loses the run and neither of the two.
- *Fleet.* `DumpsMatched`: a dump that is done was of a pod that matched while the
  observation ran. With the second roster the pods of the evidence are those of the
  fleet.
- *Side by side.* `PartsKeepToTheirSpecs` shows that a behaviour of the run is one of
  each part; credentials are shared by publisher, cache and assets, so an edit made in
  one part is a step of the others. Assets are proved under `AssetSpec`: it has an
  auxiliary step that the other parts do not take.

## 6. Only model-checked

- Liveness under fairness, which is out of the prover's reach: the six properties of
  run `Liveness` (`EveryOperationSettles`, `WithdrawalsSelected`,
  `EveryAttemptAnswered`, `SettlesUnlessPoisoned`, `SecretsConverge`,
  `OperatorConverges`).
- `OperatorInvariant`, `AssetInvariant` and `AuditInvariant` are proved of their own
  components; that they hold of the parts of a run side by side is what TLC adds.

The violations of section 4 are found by TLC on an instance, and an instance is enough.

## 7. Not modelled

The components that `PROJECT.json` lists as `not_modelled`, with the reason: they
parse, format, answer from what others store, or write single rows. Within the
modelled ones: HTTP validation, log lines, several deployments in one database (no
row or lock is shared between them), physical deletion of custom resources (the
relay never deletes), foreign writers of relay objects (an ownership conflict is
then the intended result), licence evidence in grants, detection and health of
assets, identity sources and their mappings, prices, paging of lists.
