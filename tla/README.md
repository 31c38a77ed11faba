# Verification of ray-mcp

ray-mcp is an MCP server that lets agents read and change Ray on Kubernetes: RayClusters, RayServices and
RayJobs (KubeRay custom resources) through the Kubernetes API server, and Ray jobs through the Ray dashboard of a
cluster. The server is a single Go process. It keeps nothing durable: no database, no queue, no leader election.
What makes it hard is everything around it. The objects it writes are written at the same time by the KubeRay
operator, the Ray autoscaler, kubectl users and other calls of the same server; every operation is several requests
long; and an agent's confirmation, minted by one call, is used by a later one, perhaps against another process.

This directory holds TLA+ models of those parts, the TLC runs that check small instances of them, and TLAPS proofs of
their safety for all values of their constants. Paths below are relative to `src/`; `domain/`, `mcp/` and `adapters/`
are under `src/internal/`.

- [Inventory](#inventory) · [Modules](#modules) · [Runs](#runs) · [Fairness](#fairness) · [Proofs](#proofs)
- [Divergences](#divergences) · [Not modelled](#not-modelled) · [Plan](#plan) · [Running](#running)

## Inventory

The code is hexagonal. `mcp/` decodes tool arguments and encodes answers; `domain/` holds the services (one per kind
and plane) with all decisions; `adapters/kuberay` talks to the API server, `adapters/rayapi` to a Ray dashboard,
`adapters/reachability` finds a way to that dashboard; `transport/` serves MCP over stdio or HTTP; `config`,
`observability` and `cmd/ray-mcp` assemble the process. Each tool call is a goroutine; the state that calls share inside
the process is the lazily built API client, the tunnel pool and the audit log's mutex. All other shared state is on the
API server.

| Component | State | Operations | Interacts with | Hard behaviour | Correct when |
|---|---|---|---|---|---|
| RayCluster writes (`domain/cluster_write.go`, `cluster_update.go`, `apply.go`, `merge.go`; `adapters/kuberay/apply.go`) | per call: body, force, attempt; the RayCluster and its managedFields on the API server; the audit log | create, update, scale, dry run, conflict retry | GetCluster, Server-Side Apply, audit | read-modify-apply against the autoscaler, kubectl and sibling calls; forced retry; lost answers; crash between commit and audit | a commit changes what was asked and reverts nothing older than its read; a call persists at most once; the audit tells what happened; only a refused call overrides another manager |
| Confirmed deletion (`domain/guards.go`, `cluster_write.go`, `service_write.go`, `job_submit.go`; `adapters/kuberay/delete.go`) | none in the process; the fingerprint is in the agent's hands | delete of a cluster, service or job: preview, commit | GetCluster/GetService/GetJob, Delete, audit | a confirm outlives calls, restarts and incarnations; read and delete are two requests; protection and serving state change | a cascade was confirmed for this incarnation and its tier is on; guarded resources never yield a fingerprint; a persistent agent gets its deletion |
| Dashboard reachability (`adapters/reachability/pool.go`, `portforward.go`, `strategy.go`) | map of tunnels, last use, mutex, reaper, forwarder goroutines | endpoint, dial, reap, close | API server (pods, SPDY), job reads | mutex held over the dial; lost tunnels; reaper's stale clock; lazily started reaper; port reuse | one tunnel per cluster, none leaks; nobody starves; idle tunnels go; a used tunnel stays |
| Two-plane job reads (`domain/job.go`, `mcp/job.go`, `adapters/kuberay/job.go`, `adapters/rayapi/client.go`) | per call: deadline, last observation | get, logs, wait, list | API server, then reachability, then dashboard | the job moves on between the planes; degradation; deadlines and cancellation | "reached" is true of the job; a stopped job is reported without a dashboard; waits are bounded |
| RayService writes (`domain/service_write.go`, `mcp/service_write.go`) | as RayCluster writes; the operator's clusters behind the service | deploy, update (no conflict retry), prediction of the operator's reaction | apply pipeline, operator | read-to-apply gap without a retry; a prediction from one object about another, later; lost answers | nothing of another manager's changes; the predicted path is the one taken; one attempt, one record |
| RayJob submission (`domain/job_submit.go`, `adapters/kuberay/job_submit.go`) | the RayJob and the run the operator starts of it | submit attached or ephemeral, dry run; `ray_job_delete` of the result | apply pipeline, operator | a submit goes over whatever has the name; a false that must survive a conversion; mode versus tier | one target; the cluster kept or torn down as asked; it runs; no cluster goes without the tier |
| Server process (`cmd/ray-mcp/main.go`, `adapters/kuberay/client.go`, `transport/http.go`) | reported context, client and its mutex, dashboard resolver, listener, signal context | boot, ensureClient, buildWedge, serve, drain | every adapter; kubeconfig | racing first calls; failure must not be cached; decisions made at boot; shutdown races calls, streams and the listener | one cluster for the process's life, and the one it reports; no lost or invented failure; bounded drain, true exit code |
| Configuration (`config/config.go`, `transport/auth.go`) | none | precedence of flags, environment and namespace file; the bind rule; the scope of a list | transport, lists | one rule written twice; empty values that count | what is accepted is served, never open beyond loopback; a list reads what it was told to |
| Events (`adapters/kuberay/events.go`) | none | filter, sort, bound | API server | four time fields, ties, a capped page | no Warning gives way to chatter |
| Pure algorithms: merge (`domain/merge.go`), diff (`domain/diff.go`), log tail (`rayapi/client.go`) | none | functions | their callers | depth limits, nulls, off-by-one at newlines and runes | agree with their reference definitions |
| Audit writer (`observability/audit.go`) | mutex | write one record | every mutation | concurrent writers | one whole record per mutation attempt |
| Reads, projections, capabilities, schemas | none | list, get, describe | API server | none of these hold state | — |

PROJECT.json lists each of them with its status, and under "hazards" each place in the code where something
can go wrong that a unit test would hardly reach, with the properties that watch it.

## Modules

| Module | Models |
|---|---|
| `AtomicWrite` | abstract specification: a call writes an object at most once, as if it read, overlaid and wrote at one moment, and answers truly; all write tools refine it |
| `ServerSideApply` | external: conflict detection, merge and ownership of Server-Side Apply, and of an Update-type write |
| `ClusterWrite` | create, update and scale of a RayCluster as concurrent calls; autoscaler, kubectl, crashes; refines `AtomicWrite` |
| `ClusterWriteClaims` | a statement of the docs about those calls that the code does not keep |
| `ClusterWriteProofs` | proofs about `ClusterWrite`: types and data, the accounting, the refinement |
| `ServiceWrite` | deploy and update of a RayService as concurrent calls, the predictor, and the operator it predicts; refines `AtomicWrite` |
| `ServiceWriteClaims`, `ServiceWriteProofs` | as above |
| `JobSubmit` | submits and deletes of one RayJob name, the operator that starts and ends the job; refines `AtomicWrite` |
| `JobSubmitProofs` | proofs about `JobSubmit` |
| `GuardedDelete` | the confirmed deletion of a RayCluster, RayService or RayJob (constant `Kind`) |
| `GuardedDeleteProofs` | proofs about `GuardedDelete` |
| `TunnelCache` | abstract specification: one tunnel per cluster, established only where there is none |
| `TunnelPool` | the pool with its mutex, reaper, forwarders, local ports; refines `TunnelCache` |
| `TunnelPoolProofs` | proofs about `TunnelPool`, and the refinement |
| `OneBinding` | abstract specification: answers of a process tell of one cluster, chosen once |
| `ServerProcess` | one life of the process: boot, lazy connection, serving, drain; refines `OneBinding` |
| `ServerProcessProofs` | proofs about `ServerProcess`, and the refinement |
| `JobWait` | get, logs and wait over the operator's record and the dashboard |
| `JobWaitProofs` | proofs about `JobWait` |
| `SpecMerge` | JSON values and the merge patch with its identity guard |
| `SpecDiff` | the summary of changes, collapsed below a depth |
| `LogTail` | the cut of a log at a line and a byte limit |
| `EventBound` | filter, order and bound of a cluster's events |
| `ConfigRules` | precedence of settings, the bind rule and its copy in the transport, the scope of a list |
| `PlainFunctions` | the inputs a run of the system gives the last three, which do not recurse, and what they promise |
| `PlainFunctionsProofs` | proofs about `PlainFunctions`: orders, ranks, and the lines and bytes of a log |
| `PureFunctions` | the same with the first two, which recurse |
| `MC*` | small instances for TLC |

A definition placed before the one it varies, with a comment that starts with "Mutant:", is a plausible bug in that
definition. Nothing uses it; PROJECT.json pairs it with the property that must fail when it takes the
definition's place.

### ClusterWrite

The state: `live`, the RayCluster in etcd with its values, per-field owners (managedFields) and the revision that last
changed each field; `rv`, the revision counter; `call[c]`, the local variables of each handler (`phase` is its program
counter, `body` the object it is about to apply, `force` the argument of the second attempt); `audit[c]`, the records of
each call. A *field* is a unit of ownership: `spec.enableInTreeAutoscaling`, the head image, the whole of
`workerGroupSpecs` (an atomic list under Server-Side Apply), the protected annotation, another label, and a field
newer than the compiled Go types. Worker groups are records of image, replicas, min, max and pending `workersToDelete`.

| Action | Code |
|---|---|
| `Begin` | the tool handlers; `Create`'s merge and `Update`'s hasChange refusal |
| `Build` | the build closures of `Update` and `Scale`: `readForWrite` (GetCluster, decode, strip `workersToDelete`), overlay, refusals |
| `Preview` | step 1 of `ApplyService.Apply`: the dry run, forced when the commit is; a user's dry run ends here |
| `Commit` | step 7: `Client.Apply`; persisted and answered, persisted and the answer lost, refused, or failed |
| `Emit` | the audit record and the answer; on a conflict, the one forced retry of `applyWithConflictRetry` |
| `Crash` | the process dies; nothing is kept |
| `AutoscalerScale`, `KubectlEdit`, `KubectlDelete`, `KubectlCreate` | the environment, between any two steps |

Abstracted: the merge's tree walk (an overlay assigns ownership units), the diff text, the schema (any dry run may be
rejected), namespaces and names (one cluster). `base`, `contended`, `commits`, `uid` and `touched` are history variables
that only properties read.

### AtomicWrite

What all write tools promise of the one object that they and others write, in a specification with two variables: the values of
the object, and how each call stands. A call is *begun*; it may have *read*, and from then on the contract keeps the set of fields
that somebody changed (`raced`). Its one `Write` leaves every other field as its request makes it of the value that is there
*then* (`Overlays`): what was read does not appear, which is the atomicity. A call that writes without having read has no race to
lose, so that its write is atomic altogether. `Retry` reads again, and only a call that has not written may. The `Answer` tells
whether the call wrote, unless it is an error; a request that only asks what would happen (`Dry`) writes nothing; `Crash` ends
calls anywhere. A *part* of the object is a field; of a RayCluster, whether it exists is one more (`Parts`, `MakesOf`), and a call
loses the race for it when the incarnation it read is gone. So an update or a scale leaves a cluster where there was none only in
place of one that was deleted after its read. `ServiceWrite` has no stamp for the incarnation: its contract is about fields.

`ClusterWrite`, `ServiceWrite` and `JobSubmit` map to it by `Transaction`: a call has written once the server has persisted its
apply, and before that it has read while it has a body made of what it read (`StateOf`); `raced` is what was stamped after that
read. So the dry run and a failed commit are stutters, a lost answer is a write with an answer that tells nothing, and the forced
second attempt of an update is a `Retry`. A create, a deploy and a submit never read: their bodies are made of their arguments.
A deletion of a job reads, but writes nothing that it read.

### ServiceWrite

`live` is the RayService with values, owners and revisions as in `ClusterWrite`; `built`, the spec that the operator's
clusters and Serve applications reflect; `call[c]` and `audit[c]` as before. The units of ownership are
`spec.serveConfigV2`, the upgrade strategy, the parts of `spec.rayClusterConfig` (scalars, the head, the atomic list of
worker groups, a field newer than the compiled types) and a label. In a worker group the image stands for all that the operator hashes and
`rep` for all that it leaves out.

| Action | Code |
|---|---|
| `Begin` | the two tool handlers; what `Deploy` and `Update` refuse before they read |
| `Build` | `Update`: GetService, the snapshot for the predictor, `readForWrite`, the deltas, rawSpec, `classifyServiceUpdate` |
| `Preview`, `Commit`, `Emit` | the pipeline of `ApplyService.Apply`, once, unforced; the audit record and the answer |
| `Reconcile` | external: the operator's reaction (`OperatorPath`), as the comments of the classifier describe KubeRay |
| `KubectlEdit`, `KubectlDelete`, `KubectlCreate`, `Crash` | the environment |

The operator's hash is a definition of its own (`OperatorHash`), not the predictor's normal form, so that a difference
between the two shows. The predictor compares decoded JSON with `reflect.DeepEqual`, so that specs of the same content may still
be different to it: a rawSpec's numbers are float64 where the read object's are int64, and it lacks what the CRD defaults and the
compiled types fill in (`numOfHosts`, zero values). Values are content in the model, and the *form* of an update (`Form`, chosen
when it is built) tells how it compares beyond that: like the read object, unlike it in what the hash leaves out (replica counts), or
unlike it in what is hashed. Only a rawSpec that writes the head, the groups or a novel field can be so (`Respelled`); the curated
deltas are strings and Booleans set in the read object itself.

`forecast` is what would bear out the prediction of the last commit of an update, until the spec is written again or
the operator acts. It is set only when the prediction is `Foreseeable`: the object in etcd has not been written since the call
read it, the operator has caught up, the submitted spec is what lands (no field pruned by the typed read or kept by a
co-owner). `PredictionHolds` then says that the prediction is exact for curated deltas, and that for a rawSpec it is never less than
what the operator does: a rawSpec in another form may be predicted to swap where the operator appends, scales or does nothing, and
never the other way round (`BornOut`).

### JobSubmit

`live` is the RayJob, with three units of ownership: the selector of an existing cluster, the description of an
ephemeral one, and `shutdownAfterJobFinishes`. `run` is what the operator made of it (`owns`: it created a
cluster for the job, and that is still there). A submit is `Begin` (the handler, `validate`, `BuildJobBase`, rawSpec with its identity
guard), `Preview`, `Commit`, `Emit`; a delete is `DeleteRead`, `Delete`, `RecordDestructive`, in a process without the destructive
tier, which is where `jobIsEphemeral` decides. `Start` and `End` are the operator's: a job starts on the cluster that it selects, if
that is there, or on one of its own if it selects none, and that is torn down at the job's end if the flag says so then. `clusters` is what is
there to be selected; others create and delete it (`ClustersChange`), and the tool never looks at it. A job that waits for its cluster has no
status in the model. `last` (the last persisted submit), `keep` (its word on the cluster),
`turned` (the targets were written after the start), `base`, `reused` and `commits` are history variables.

### GuardedDelete

`live` is one named resource with a uid per incarnation and a resourceVersion token; `tier` is the `--allow-destructive`
flag of the process now running; `agent[a].known` is the last fingerprint agent `a` was given; `call[a]` its call.
`Read` is the read with all guards in the order of the code (protected, serving, tier, then confirm), `Delete` the
request by name, `Record` the audit record and the answer. `Restart` ends calls in flight and may change the tier.
`Churn` is any write by others, `Recreate` another object of the same name. A write may turn a RayJob from one mode to the other
in place, as a submit over its name does; `cascade` (history) is whether the object read would have taken a cluster with it, by which
`CascadeIsConfirmed` knows the job that became ephemeral after its delete was let through (`TurnedEphemeral`). The three kinds differ as in the code: a
RayService is guarded by its serving state unless `force` is passed; a RayJob asks for confirm and tier only when it owns its
cluster. A fingerprint is modelled by what it hashes: operation, uid and, except for a deletion, the resourceVersion.
Dry-run deletes take the same path and delete nothing.

### TunnelPool

`mu` is held by a caller across its dial only; every other critical section is one action enabled when `mu` is
free. `tunnels`/`lastUsed` are the pool's map, `handle` the forwarders ever dialed (a forwarder has its cluster, the
local port it listens on until it is lost, and the closed flag of its stop channel), `reaper` the lazily started
goroutine with the clock value its tick delivered, `call` the calls with the URL they were handed. A call reads its URL
*after* the pool has released the mutex, so everything can happen in between: `Handed`, then `Connect`, then `Answer`.
`Lose` is a broken stream or the effect of `Close`. `TunnelCache` sees, for each cluster, no tunnel, one that is up, or one
that was lost; the refinement mapping derives that from the forwarders that are open, whether the map knows them or not.

### JobWait

`job` is the RayJob's record (deployment status, submission id, dashboard URL), `ray` what dashboards know of each
submission, `call` one call. `Read` is phase 1 with the shortcut of a stopped job and the dial gate, `Resolve` and `Dial`
phase 2, `Polled` what `Wait` does with an observation: answer or sleep. `Tick` passes time at any point. Calls share no
state except tunnels, so one call at a time is modelled. The deadline is `left`, the time remaining; a sleep is
`nap`; `slept` is history.

### ServerProcess

`proc` is the process (stage, exit code, whether it was signalled and its listener still accepts), `name` the context it
reports, `client` the lazily built client under the mutex `mu`, `wedge` the cluster of the dashboard resolver, or none; `file` is the
kubeconfig, which others edit. `NewClient`, `BuildWedge`, `RunHTTP`, `Select` and `Shutdown` are the steps of `main` and of
`serve`; `Signal`, `ListenerFails` and `EditKubeconfig` happen to it; a request is `Begin`, `Lookup` (the mutex, and the client
if there is one), `BuildClient` (the rest of `ensureClient`), `Ask`, and for a job call `AskDashboard`; a standing event
stream is open until its client closes it. `seen` is the clusters a request was told of, `steady` (history) that the
kubeconfig resolved ever since it began. `OneBinding` knows a cluster, chosen once, and requests that see no other.

### PlainFunctions and PureFunctions

The algorithms are operators; the actions make the inputs. What recurses (`SpecMerge`, `SpecDiff`) is in `PureFunctions`
only, since no theorem can be stated beside a recursive operator; the run checks both together. `Apply` is one rawSpec after the other over an object (`live`,
`before`, `rawSpec`), `Write` and `Happen` append to a `log` and to the namespace's `events`, `Start` gives the process its `settings`. An
object or a list is a function from keys or indices to values, so that one walk does for both; only the merge tells them apart.
The rendering of a path, the order of a summary's entries and the cloning that keeps arguments unchanged are left out. The
properties say what an algorithm promises without following it: `MergeIsExact` speaks of the values by their paths,
`CollapseKeepsCount` of the set of places that differ, `TailIsLongest` of all ends of the log, `WarningsSurvive` of the rank of each
event by the latest time it carries.

## Runs

Each run is one question. "Violation" runs show that a statement of the repository is not kept (see
[Divergences](#divergences)).

| Run | Instance | Shows |
|---|---|---|
| `shared` | two calls (symmetric), one worker group, 2 images, autoscaled cluster, update/scale requests, 2 kubectl edits, 3 environment writes | `RetryKeepsTheWinner`, `AuditTrail` |
| `every` | one call out of 15 requests of every kind (dry runs, refusals, negative and partial bounds, retargeting, a null), 5 edits including a type-erased field, 3 environment writes | `ScaleCommitsValidBounds`, `OverwriteOnlyAfterConflict`, `ImplementsAtomicWrite` |
| `service_update` | two calls out of 9 requests (a deploy, dry run, retargeting, image, strategy, serve, replicas, an appended group, a null), a service a kubectl user or a deploy made, 2 revisions of kubectl | `PredictionHolds`, `NothingIsTaken`, `ImplementsAtomicWrite` |
| `job_submit` | two calls out of 12 requests of both modes (kept or torn down, both targets, none, rawSpec over each, dry run, delete), 2 kubectl writes, a cluster to select that comes and goes | `OneTarget`, `SubmitIsExact`, `KeptForDebugging`, `NoSilentCascade`, `AnswerTellsReuse`, `OneRecord`, `SubmittedRuns` |
| `delete_service` | RayService, two agents, unreliable requests and restarts, two incarnations | `ClosedYieldsNoFingerprint`, `CascadeIsConfirmed` |
| `delete_job` | RayJob in both modes, one persistent agent, three incarnations | `ConfirmConverges` |
| `tunnel_pool` | two callers, two clusters, two ports, two dials, idle timeout 1, clock up to 1 | `NothingLeaks`, `NoStrayRequests`, `ReaperSparesRequests`, `ImplementsCache`, `CallsReturn`, `IdleIsReaped` |
| `server_life` | two requests of three kinds (cluster call, job call, stream), two contexts and the pod's own cluster, with and without `--context`, two edits of the kubeconfig | `ImplementsOneBinding`, `ReportedContextIsUsed`, `FailureIsForgotten`, `ExitTellsTheTruth`, `DrainIsBounded`, `CallsReturn` |
| `job_wait` | waits −1, 2 and 5 with a maximum of 4 and a poll interval of 2, two submissions | `SleepsWithinBound`, `ReachedIsReal`, `StoppedIsReported` |
| `pure` | objects to four levels with lists and nulls, 42 rawSpecs in any order, summary depths 0 to 5; logs of up to 8 bytes with two-byte characters, limits −1 to 5 (defaults 2 lines, 4 bytes); lists of up to 4 events of 7 shapes, a page of 3, a default limit of 2; every way to give the settings of the bind, and those of the namespace | `MergeIsExact`, `DiffIsExact`, `CollapseKeepsCount`, `TailIsLongest`, `WarningsSurvive`, `AcceptedIsServed`, `OneNamespaceUnlessTold` |
| `claim_sibling`, `claim_first_group` | the smallest instance that shows the divergence | `UnforcedKeepsUnnamed`, `AppendIsInPlace`, violated |

No run repeats what is proved for every instance and needs no illustration: the type invariants (`TypeOK` of each
module), `ConflictIsAbsorbed`, `DeletionIsAudited` and `OneAttempt`, and what `ImplementsAtomicWrite` implies
(`CommitsAtMostOnce`, and `AtomicUnlessRaced` or `UpdateIsAtomicUnlessRaced`); nor does `job_submit` repeat `ImplementsAtomicWrite`, which
`JobSubmitProofs` proves of its model. `RepeatIsHarmless` of the three write paths, `MismatchMeansReplaced` of the deletions, and
`HolderDials`, `HolderBuilds` and `CallsGoForward` of pool and process are proved as well: they hold on the instances above, to which a
configuration can add them. See [Proofs](#proofs).

Why the bounds are enough:

- *ClusterWrite.* The interesting histories have two read-apply windows of this server that overlap with each other
  and with the environment. Two calls give the overlap. Three environment writes allow one before the first read, one
  inside the first window (the conflict) and one inside the retry's window, which is the longest history that any
  property distinguishes: a call makes at most two attempts. One group is enough because the list is atomic. `MaxRevision`
  bounds environment writes only: the calls' own commits are never cut off.
- *ServiceWrite.* Two calls give a sibling's commit between a read and an apply, or a deploy under an update. Two kubectl revisions let the
  service be created and then written once at any point, or deleted and created again. A list of one worker group that
  grows to two tells "appended" from "changed"; the empty list has its own run, `claim_first_group`. The strategy is absent, `None` or
  `NewCluster`, the three cases of the classifier.
- *JobSubmit.* Two calls are a submit over a submit or a delete over a submit, in both modes and orders; the two kubectl writes
  make the job before either, or change its flag or its target at any point. One existing cluster and one template are enough: what
  matters is which of the two targets is there, and whether the cluster selected is. It is created and deleted without a bound. The kubectl edits never take a target away, since `SubmittedRuns` says nothing then.
- *GuardedDelete.* Two versions tell "same" from "changed"; two incarnations let a confirm outlive its object; three let it
  happen again after an aborted deletion. Two agents let one delete under the other.
- *TunnelPool.* Two calls contend for one cluster's tunnel or take different ones, two dials give a lost tunnel and
  its successor, or two tunnels at the same time, and the clock reaches the idle timeout once. With `MaxDials` used up,
  `DialFails` stays enabled, so no behaviour is stuck there. The clock stops at `MaxTime`, after which a tunnel used at
  that time is never idle: `IdleIsReaped` is about tunnels last used at 0. The proofs lift the bounds for safety.
- *ServerProcess.* Two requests race for the first client. The kubeconfig names either cluster, or none, with or without the pod's
  own to fall back on; two edits break it between two successes, or repair and then switch it. A finished request may begin anew, so lives are not
  limited to two calls.
- *JobWait.* Waits below zero, inside and above the maximum; the maximum is two polls, so a wait has a first, a middle and
  a last poll; two submissions give a retry or a replacement between the planes.
- *PureFunctions.* Depth 0 collapses everything and depth 5 nothing, in objects of four levels; the rawSpecs put each kind of
  value (scalar, object, list, null, nulls inside an object) over each other kind. Eight bytes give limits that cut
  before, inside and after a two-byte character and at, before and after a last newline. Four events are one more than a page, and the page one more
  than the default limit, so that each of the two cuts happens alone and together. An address is loopback by name or not at all in
  the run: loopback as an IP is the default.

`CHECK_DEADLOCK FALSE` is set where the system really stops: `ClusterWrite`, `ServiceWrite` and `JobSubmit`, when all calls have
returned and the environment's budget is used; `GuardedDelete`, where a resource of the last incarnation may be gone and no
tool be registered; `ServerProcess`, when the process has exited; and `PureFunctions`, where a log is full.

## Fairness

- *ClusterWrite*, *ServiceWrite*: `WF(Step(c))` for each call. Every request to the API server is answered or fails (client-go
  timeouts, the caller's context), and goroutines are scheduled. Nothing is assumed of the environment, and a call may
  crash.
- *JobSubmit*: the same, and `WF(Start)`: the operator starts a job that can start. Nothing is assumed of its end, nor of the clusters: that
  the one selected is there in the end is a condition of `SubmittedRuns`, since nothing in the code sees to it.
- *GuardedDelete*: `WF(Step)` as above. `PersistentSpec` adds `SF(Preview)` and `SF(Commit)`: `ConfirmConverges` is a statement
  about an agent that keeps trying. The run sets `Unreliable = FALSE`, since an API server that always fails deletes nothing.
- *TunnelPool*: `SF(Lock(c))` and `SF(Reap)`, because Go's `sync.Mutex` enters starvation mode and hands the lock to a
  waiter that has waited for more than a millisecond, so that a waiter is not passed over for ever; `WF(Step(c))`, because a dial and
  a request end when their context does, at the latest; `WF(ReaperTick)`, because the `time.Ticker` delivers a tick to a receiver that
  waits. Nothing is assumed of `Lose`, `Close` and `Begin`.
- *ServerProcess*: `WF(Process)`: `main` runs, `select` takes a case that is ready, and the shutdown's ten-second timer fires;
  `SF(Lookup(c))`, for the mutex, as in `TunnelPool`; `WF(Step(c))`, since API and dashboard requests end. Nothing is assumed of clients (a stream
  may stand for ever), signals, the kubeconfig or the listener.
- *JobWait*: `WF(Step)` and `WF(Tick)`. `PersistentSpec` adds an agent that calls `ray_job_wait` again and
  again and whose reads of the record do not all fail; `StoppedIsReported` needs both. A dial that hangs for ever is
  excluded by `WF(Step)`: see [Divergences](#divergences).

## Proofs

All theorems hold for every value of the constants that the modules' assumptions allow: any set of calls, agents,
clusters, ports or groups, any requests and edits, any bounds. The assumptions are only typing (`RequestAssumption`,
`TypedAssumption`, `TimeAssumption`, ...) and distinctness of the markers `Absent`, `None`, `Nobody`.

| Theorem | Property | Inductive invariant and why it is needed |
|---|---|---|
| `ClusterWriteProofs!TypeCorrect` | `TypeOK` | `TypeInv`: a call that has begun has a request, else `Intent` has no type |
| `ClusterWriteProofs!UpdateIsAtomicUnlessRaced`, `ForcedRetryKeepsTheWinner` | `AtomicUnlessRaced`, `RetryKeepsTheWinner` | `DataInv`: history stamps, those of fields and of the incarnation, are never ahead of etcd; a body is the overlay of every field nobody wrote since its read (`BodyIsOverlay`), and in a create of all; a forced body is not older than the conflict it retries (`FreshRetry`) |
| `ClusterWriteProofs!ScalesAreBounded` | `ScaleCommitsValidBounds` | `PassedInv`: a body between its build and its commit would pass that build again; a scale's names a group of a list, within bounds that the build checked on the read the body is made from |
| `RepeatsAreHarmless` of `ClusterWriteProofs`, `ServiceWriteProofs` and `JobSubmitProofs` | `RepeatIsHarmless` | `DataInv` and `PassedInv`, for a submit the types alone. The work is in lemmas that an overlay applied to its own result changes nothing, for every kind of request and every list of groups (`IntentTwice`), so that a call that lost no race builds from its own result the body it sent (`SameBody`); and an apply of what is there neither conflicts nor takes anything over |
| `ClusterWriteProofs!PersistsAtMostOnce`, `AuditTellsTheTruth`, `ConflictsAreAbsorbed`, `OverwritesAreRetries` | `CommitsAtMostOnce`, `AuditTrail`, `ConflictIsAbsorbed`, `OverwriteOnlyAfterConflict` | `AuditInv`: for each phase, how many applies a call has persisted and how many records it has written (`Accounted`, `Recorded`); a forced call has written exactly one, and it failed |
| `WritesAreAtomic` of `ClusterWriteProofs`, `ServiceWriteProofs` and `JobSubmitProofs` | `ImplementsAtomicWrite` | `DataInv`, by which a body that read nothing is the overlay of every field and another that of the fields nobody wrote since; the accounting (`AuditInv`, `AttemptInv`, `OwedInv`); and a lemma that every write stamps exactly the fields it changes, above every read made so far, so that each call loses the races it should (`Noticing`). One lemma per action then maps it: a commit that persists is the contract's `Write`, one that fails a stutter, and an answer is true because of what the accounting knows of its phase |
| `ServiceWriteProofs!TypeCorrect`, `NothingIsEverTaken`, `UpdateIsAtomic` | `TypeOK`, `NothingIsTaken`, `UpdateIsAtomicUnlessRaced` | `TypeInv` as in `ClusterWrite`; `DataInv`: an update's body is the overlay of every typed field that was not written since its read. `NothingIsTaken` needs only the types: the server's conflict check at the commit, on the owners as they are then |
| `ServiceWriteProofs!PredictionIsFaithful` | `PredictionHolds` | that property is inductive once a call's prediction is known to be the classifier's, of the object with the stamps of its read (`DataInv`); the work is a lemma that the classifier's path is the operator's for every pair of specs, among them lists of groups of any length and rawSpecs in any form, which may only be predicted to do more, with the empty live list the exception that `claim_first_group` shows |
| `ServiceWriteProofs!EveryWriteIsOneAttempt` | `OneAttempt` | `AttemptInv`: for each phase, how many applies a call has persisted and which records it has left |
| `JobSubmitProofs!TypeCorrect`, `JobHasOneTarget`, `SubmitLeavesWhatItSays`, `KeptIsKept` | `TypeOK`, `OneTarget`, `SubmitIsExact`, `KeptForDebugging` | `JobInv`: a field that is there has an owner (`HasOwner`); a run belongs to a job (`RunExists`); while `keep` holds the flag in etcd is not true (`KeptSaysSo`); two targets mean a kubectl user or the last rawSpec |
| `JobSubmitProofs!CascadeIsNotSilent` | `NoSilentCascade` | `JobInv`: a job that owns a cluster still describes one, or was turned (`OwnsIsEphemeral`); `KnownInv`: a delete past its read read a job that was not ephemeral, at the revision it remembers (`ReadOf`) |
| `JobSubmitProofs!ReuseIsTold`, `EveryAttemptIsRecorded` | `AnswerTellsReuse`, `OneRecord` | `KnownInv` (`Told`: an id in the call is of a job that had the name), `AttemptInv` as above |
| `ServerProcessProofs!TypeCorrect`, `OneClusterPerLife` | `TypeOK`, `ImplementsOneBinding` | `BindingInv`: no call is in the build unless it has the mutex, and then there is no client (`Held`); the resolver is none or the client's; nothing runs before boot is over (`BootOrder`). Each step then maps to a step of `OneBinding` or a stutter |
| `ServerProcessProofs!ReportedNameIsTrue`, `FailureIsNotCached`, `ExitCodeIsTrue` | `ReportedContextIsUsed`, `FailureIsForgotten`, `ExitTellsTheTruth` | `NameInv`: until the current context is switched, the reported name is the target of any build; `SteadyInv`: a call in flight that is still steady sees a kubeconfig that resolves; `EndInv`: calls are killed by the exit only, and draining means signalled |
| `GuardedDeleteProofs!TypeCorrect`, `CascadesAreConfirmed`, `ClosedResourcesYieldNoFingerprint`, `DeletionsAreAudited` | `TypeOK`, `CascadeIsConfirmed`, `ClosedYieldsNoFingerprint`, `DeletionIsAudited` | `IInv`: fingerprints and reads are of incarnations that exist or existed, so a later one cannot be confirmed by accident (`UidsArePast`); a confirm came through its agent's hands; a call about to delete has passed the guards of its kind *in this process* (a restart, which may change the tier, ends it), as they applied to the mode it read. The two ways to an unconfirmed cascade are in the property: another object of the name, and a job that others turned ephemeral in place |
| `GuardedDeleteProofs!ConfirmOutlivesChurn` | `MismatchMeansReplaced` | `TokensArePlain`: no fingerprint of a deletion that an agent holds has a resourceVersion in it, so that only another uid can make it differ |
| `TunnelPoolProofs!TypeCorrect`, `NoTunnelLeaks`, `RequestsAreSpared`, `Refinement` | `TypeOK`, `NothingLeaks`, `ReaperSparesRequests`, `ImplementsCache` | `IInv`: the map holds open tunnels of their own clusters; a dialing call has the mutex and its cluster has no tunnel (`DialsAlone`); a hand-out counts as a use (`CallsFit`); the reaper's clock value is of the past. The refinement shows first that, under `IInv`, the forwarders that are open are those of the map, then maps each action |
| `TunnelPoolProofs!RequestsStayHome` | `NoStrayRequests` | `PortsApart`: no two tunnels listen on one port at a time; `RequestsFit`: a call past the mutex holds the port of a forwarder of its own cluster for as long as that one listens, so that whoever answers there is that one |
| `MutexIsNotAbandoned` and `CallsNeverLoop` of `TunnelPoolProofs` and `ServerProcessProofs` | `HolderDials`, `HolderBuilds`, `CallsGoForward` | the safety half of `CallsReturn`: who holds a mutex is in the one step that gives it back however it ends, and no step takes a call back. What is left to the run is that the scheduler takes these steps |
| `JobWaitProofs!TypeCorrect`, `WaitsAreBounded`, `ReachedIsTrue` | `TypeOK`, `SleepsWithinBound`, `ReachedIsReal` | `IInv`: the time slept, less the sleep still to come, plus the time left never exceeds the clamped wait (`SleepFits`), and a sleep begins only with time left; a poll that is in the second plane has not met its condition (`CallFits`) |
| `PlainFunctionsProofs!TailsAreLongest` | `TailIsLongest` | none: it holds of every log. The end after the n-th newline from the back is the longest with n lines, and the first start of a character in the last bytes the longest that fits; that both such positions exist is the minimum principle |
| `PlainFunctionsProofs!WarningsOutliveChatter` | `WarningsSurvive` | the listed events are `Event`s. The order is total on any finite set of positions, so ranks are a bijection onto `1 .. n`, the chosen sorting exists, and the place of an event is its rank |
| `PlainFunctionsProofs!AcceptedConfigurationsAreServed`, `ListsStayInTheirNamespace` | `AcceptedIsServed`, `OneNamespaceUnlessTold` | the settings are of the declared form. A case analysis of precedence and bind rule |

The assumptions of `PlainFunctions` say what Kubernetes and the flags may give: a time field that is set is not earlier than those the
ladder looks at after it (`HappeningAssumption`), settings are strings or not given (`SettingAssumption`), and `NoneAssumption` keeps the two markers
apart from strings, among them the namespace `default`, which the provers do not know to be a string.

Only model-checked: all liveness properties (`CallsReturn`, `ConfirmConverges`, `IdleIsReaped`, `StoppedIsReported`, `DrainIsBounded`,
`SubmittedRuns`), since liveness under fairness is out of the prover's reach (what of it is safety is proved for `CallsReturn` and
`ConfirmConverges`, see above); and what the recursive operators compute (`MergeIsExact`,
`DiffIsExact`, `CollapseKeepsCount`), since no theorem can be stated beside them: it needs an induction over data that the prover cannot do. Where an
induction over numbers was needed (the order of events), the minimum principle of well-founded orders, which has no operator parameter, takes its place.

## Divergences

Places where a document or comment says one thing and the code does another, each met while modelling. The first two
are violation runs, listed under "findings" with their quotes.

1. `claim_sibling`: two calls of this server read the same cluster and both apply the whole object as the one field manager
   `ray-mcp`, without a resourceVersion. The later one reverts what the earlier one wrote, unforced and without a conflict
   (`domain/cluster_update.go:258`, against "concurrency-safe via SSA", `docs/specs/ray-mcp-design.md:474`).
2. `claim_first_group`: the first worker group that is appended to a service without any is predicted to swap its cluster
   (`domain/service_write.go:437`, against the append path of `:392-396`): the truncated list is empty, which is not the same as no list.

The rest is reachable in the models or seen in the code, without a run of its own. Writes:

- `ray_cluster_create` of an existing name is an apply, and succeeds (`domain/cluster_write.go:145`, against "an already-exists
  error", `mcp/cluster_write.go:89-90`). The same for `ray_job_submit` (`mcp/job_submit.go:77-78`).
- `ray_cluster_update` removes the protected annotation without a confirm: `GuardProtectedChange` (`domain/guards.go:145`) has no
  caller (`docs/specs/ray-mcp-design.md:553-554`).
- A dry run does conflict: "it mutates nothing, so it cannot conflict" (`domain/cluster_update.go:211-212`), but a user's dry
  run is sent unforced and the server reports ownership conflicts in dry runs too (`domain/apply.go:127-131`). The model has the
  step (`Preview`, `Clash`), which is why `ConflictIsAbsorbed` excludes dry runs.
- An update of a cluster deleted between its read and its apply creates it again (`domain/cluster_update.go:258`), although the tool
  updates "an existing RayCluster" (`mcp/cluster_update.go:59`). `ImplementsAtomicWrite` shows that this is the only way for it to make one.
- "let the autoscaler keep ownership of the field" (`domain/cluster_update.go:282-283`): the worker group list is atomic, so a forced
  apply without `workersToDelete` drops the autoscaler's pending deletions.
- "no typed round-trip, so the wedge holds" (`domain/cluster_update.go:38-40`): GetCluster decodes into the compiled types
  (`adapters/kuberay/cluster.go:81`), so a field newer than them is not in the body, and is pruned if `ray-mcp` owned it. This
  is why the properties about commits range over `TypedField`.
- The protected annotation is said to gate "destructive scale-down" (`domain/guards.go:30`); scale does not look at it
  (`domain/cluster_update.go:175`). Scale-to-zero is also reachable without the tier through `rawSpec` or an upper bound of zero.
- `validateWorkerBounds` "enforces non-negativity" (`domain/cluster_update.go:322`) of min and max, not of replicas. `ScaleCommitsValidBounds`
  says what it does enforce.
- "no concurrent writer to lose to, and SSA already serializes against a stale resourceVersion" (`domain/service_write.go:167-171`): the
  body has no resourceVersion, and a sibling call, a kubectl user or a GitOps tool is such a writer.
- The predicted path of a service update is wrong when the cluster config has a field newer than the compiled types (the
  read loses it, the apply prunes it), when a null is sent over a field that another manager co-owns (it stays), when the
  spec is written between read and apply, and while the operator lags. `PredictionHolds` leaves these out through
  `Foreseeable`.
- A rawSpec is predicted to do more than it does when it spells the same content in another way: its numbers are float64, those
  read back int64, and what the CRD defaults is missing, each a difference to `reflect.DeepEqual` (`domain/service_write.go:386`, `:438`,
  `:477`) and to the summary (`domain/diff.go:115`). So one that re-sends the live groups with one more, which `domain/service_write.go:392-396`
  calls an append in place, is predicted to swap unless it spells every default, and a swap is predicted where nothing changes.
  `PredictionHolds` allows this for a rawSpec, and nothing else.
- A job submitted to an existing cluster is answered with success whatever the name (`domain/job_submit.go:292-303` refuses only the empty
  one), and does not run unless a cluster of that name appears. `SubmittedRuns` is conditional on that.
- A submitted job's answer says "ephemeral" if the arguments do (`domain/job_submit.go:197`), while a
  rawSpec or a co-owner may have put a selector there, which the operator prefers. Its jobId and status may be those of the job it
  went over, which is what `AnswerTellsReuse` lets a caller tell.
- The two targets and the shutdown flag are checked on the arguments, so a rawSpec gets past both checks (`OneTarget`, `SubmitIsExact`).
- An ephemeral job that is submitted again as an attached one, while it runs, is not ephemeral to `jobIsEphemeral`
  (`domain/job_submit.go:211-213`), so `ray_job_delete` takes its cluster down without the tier or a confirm; its shutdown flag is pruned. This
  is `turned` in `NoSilentCascade`.

Deletions:

- The delete request carries no uid precondition, so a cluster recreated after the read goes with its predecessor's
  fingerprint (`adapters/kuberay/delete.go:40`, against `domain/guards.go:75`).
- Protection set between a delete call's read and its delete request is not seen, nor is an ephemeral job that comes under the name of an
  attached one in between, as another object or in place, by a `ray_job_submit` over the name (`domain/job_submit.go:168`): it takes its
  cluster along without the tier or a confirm. Both are exceptions in `CascadeIsConfirmed`.
- A "stale confirm is rejected" because the resourceVersion is hashed (`docs/specs/ray-mcp-design.md:545-547`); for deletions it is not
  (`domain/guards.go:60-62`), and `ConfirmConverges` shows why that is right.

Jobs and dashboards:

- A dashboard that does not know the submission yet answers 404, and `ray_job_wait` passes that on as not found instead of
  polling on (`domain/job.go:349-354`, against `mcp/job.go:211`).
- `waitSeconds` bounds sleeps, not polls: a poll's requests have the caller's context only, so a dial that hangs holds the call, and
  the pool's mutex, for longer than the 30 seconds of `docs/specs/ray-mcp-design.md:259`.
- The URL a call is handed is a bare local port that is used after the mutex is released (`pool.go:81`); if that tunnel breaks
  and another cluster's dial gets the same port first, the request reaches the other cluster. `TunnelPool` has the steps (`Handed`, `Lose`,
  `Dial`, `Connect`), and `NoStrayRequests` shows that a lost tunnel is the only way to it.
- "On a mid-call failure ... re-dial once" (`docs/specs/ray-mcp-design.md:386-387`): a tunnel is dialed again at the next call, not
  within one.
- "a tunnel is reaped within ~1.5× idle" (`pool.go:118`) only if no dial holds the mutex then; `IdleIsReaped` is the unconditional part.
- "a caller can raise MaxBytes well past the default and still get a useful tail" (`rayapi/client.go:38-39`): a log answer
  beyond the 4 MiB that are read is cut inside its JSON, does not decode, and gives no tail.

Process, configuration and reads:

- "so ContextName() reflects the real binding" (`adapters/kuberay/client.go:50-52`): the name is read once at boot, the client is
  built later, from the kubeconfig as it is then. `ReportedContextIsUsed` has the exception (`moved`).
- "until a cluster is bound" (`cmd/ray-mcp/main.go:109`): a process that boots without a cluster has no dashboard plane for the rest of its life, though
  its other calls connect later (`wedge` never changes after `BuildWedge`).
- A standing event stream outlives the drain's ten seconds, and the process that was told to stop exits with 1, against "returns nil on a clean,
  context-triggered shutdown" (`transport/http.go:19`); a second signal is absorbed; a listener that fails ends the process without a drain.
- `AllowAllNamespaces` ("permit cluster-wide list", `config/config.go:26`) is read by nothing outside the configuration. An empty default
  namespace, by flag or environment, makes every list one of all namespaces, and a list that asks for all gets them, although the flag is
  "the only mode that enables cluster-wide list" and off by default (`docs/specs/ray-mcp-design.md:592-594`, `:618`). `OneNamespaceUnlessTold`
  is about the other lists only: it says what the settings and the namespace argument decide without the flag.
- The configuration accepts the mode `tokenreview`, which the transport refuses: the exception in `AcceptedIsServed`.
- Warnings "survive the trim" (`adapters/kuberay/events.go:151`) if they are listed: one page of 500 is listed before it is filtered, so a busier
  namespace hides some. The filter goes by the object's name, not its kind, and pods are listed before events, so a pod that
  is gone or new in between loses its own. A message is cut at 250 bytes, perhaps inside a character.
- "totals the leaf-level fields changed" (`domain/diff.go:68`): an empty object or list that is added or removed counts one, and
  none when it lies inside a collapsed part, so the headline depends on the depth there. `CollapseKeepsCount` leaves such
  objects out.
- `serviceRolloutPhase` says "(or no conditions) → Initializing" and returns "Unknown" for none; `clusterPhase` says the state is used "only
  when no conditions are present" and looks at a suspended state first. Neither is modelled.

## Not modelled

- Text, schemas, projections (`domain/distill.go`, `types.go`, `mcp/*` outputs, the status columns of `adapters/kuberay/cluster.go` and
  `service.go`): functions of one answer of the API server, with no state and few cases.
- Tool registration and `ray_capabilities`: a function of the start flags, modelled where it is a guard (`AllowDestructive`, `Registered`).
- The listing of jobs, clusters and services: one read each; their namespaces are in `ConfigRules`.
- The bearer check (one constant-time comparison per request), stdio (one call of the SDK), and the audit writer (one locked write per
  record; what is recorded and when is modelled).
- `adapters/reachability/portforward.go` below its contract (a forwarder listens until it is stopped or its stream breaks): SPDY and goroutine
  plumbing of client-go. The in-cluster strategy has no state (a service URL).
- The lost confirm of an agent that mixes up fingerprints of two resources: one resource is modelled, and the fingerprint hashes
  kind, namespace and name besides what the model has.

## Plan

Done: all write paths, the deletions, the pool, the server process and the job reads, each with its proofs; the contract that
the three write paths implement, and that a write repeated is harmless; the one-binding and one-tunnel contracts of process and
pool; and the pure functions, proved where they do not recurse. In order of importance, what is left:

1. The safety half of the remaining liveness: that an operator's start (`SubmittedRuns`) and a reaper's tick (`IdleIsReaped`) are
   never disabled but by what makes them unnecessary; and an incarnation stamp in `ServiceWrite`, to state existence there as `ClusterWrite` does.
2. A composition of `ServerProcess` with `TunnelPool` (shutdown closes the pool while calls dial), and larger instances: two
   worker groups, three requests, three dials.
3. The distillation of statuses, as decision tables against the conditions the operator sets.

## Running

`tlc -workers 2 -config ClusterWrite_every.cfg MCClusterWrite` and likewise for the other configurations (the module is
the `MC` module of the group; PROJECT.json has the pairs); `tlapm ClusterWriteProofs.tla` and likewise for the other
proof modules. The largest runs are `shared`, with five million states, and
`tunnel_pool`, each about two minutes with two workers; `server_life` takes more than one, the others less.
