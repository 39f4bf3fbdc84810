# A TLA+ model of doplane

doplane is a Kubernetes operator that manages cloud resources by running one
Pulumi `do` operation per runner Job. A `DoResource` object describes one
external resource; objects reference each other's outputs; a `DoComposite`
renders a set of them from a versioned definition. This directory holds TLA+
modules that model its core, the TLC configurations that check them, and
theorems about them checked by TLAPS. `PROJECT.json` maps every definition to
the lines it models. Paths below are relative to `src/`.

## 1. Inventory of the system

| Part | State it keeps | Operations | Interacts with |
|---|---|---|---|
| DoResource reconciler (`internal/controller/doresource_controller.go`, `annotations.go`, `replacement.go`, `delete_state.go`) | spec, annotations (external name, paused, approval), finalizer, status (id, outputs, applied hash, conditions) | adopt, create, refresh, patch, replace, delete, pause | runner Jobs, schema cache, API server |
| Reference graph (`references.go`, `mapGraphNeighbors`) | references in specs, ready conditions, `DoUsage` objects | gate on sources, detect cycles, block teardown, wake neighbours | every other DoResource, informer caches |
| Job runner (`internal/pulumido/job.go`) | one Job (and Secret) per operation document, named by a hash | create or adopt, wait, read the log, clean up; timeout, TTL | Kubernetes, runner pod |
| Runner process (`internal/runnerops`, `cmd/runner`) | none beyond its workspace | create, read, patch, delete with recorded state, engine operations | provider |
| Plugin cache (`internal/runnerops/plugincache.go`) | a shared volume, a lock directory | install once under the lock, break stale locks | other runner pods |
| Schema cache (`internal/pulumido/schema.go`) | memoized schemas, fetches in flight | `Get` with a shared fetch | reconcilers |
| Composites (`docomposite_controller.go`, `composite_*.go`) | numbered revisions of a definition, status.revision, children | snapshot, resolve, prune revisions; render, apply, replace, prune children | DoResource objects, definition |
| Composite definitions, typed APIs (`docompositedefinition_controller.go`, `typed_*.go`) | generated CRDs (owner, versions, storedVersions), registrations of running controllers, definition finalizers, mirrors | serve, drop a version, retire, translate typed objects, copy status back | API server, composites, providers |
| Property paths, templates and outputs (`internal/runnerops/path.go`, `composite_render.go`, `composite_outputs.go`, `references.go`) | none: functions on JSON documents | parse, get, set and delete a path; render a child; resolve references; render outputs | composites, DoResource reconciler |
| Secret inputs (`secret_inputs.go`, `delete_state.go`, `internal/pulumido/secretinput.go`, `internal/runnerops/secretinput.go`) | placeholders and Secret versions in the applied hash and in Job names | stage, plan, salt, substitute, strip for delete | DoResource reconciler, Jobs, kubelet |
| Providers and provider configs | health conditions, usage counts, served typed resources | validate, guard deletion, serve typed resources | DoResource reconciler, typed APIs |
| Connection secrets | derived Secrets | publish outputs | DoResource reconciler |

What is hard here:

* **Every operation outlives its reconcile.** The reconciler waits minutes for
  a Job, with a copy of the object it read before; users edit, pause, approve
  and delete meanwhile. A crash, a timeout or an unreadable log leaves a Job
  whose outcome nobody has consumed, and a later operation of the same name
  adopts it.
* **Three records of one resource**: the external-name annotation, status.id
  and the Job. They are written one after the other.
* **Destruction needs consent** at one particular generation, while
  generations move on.
* **Graph decisions over stale caches**: dependents are looked up in an
  informer cache while other workers create and destroy them, and conditions
  such as `CyclicReference` are never retried: an event must come.
* **Composites** mix live and cached reads, delete by name, and have no
  periodic requeue after success.
* **Shared fetches and locks** must survive panics, errors and dead owners.
* **Typed APIs**: several sources claim one CRD; deleting it deletes every
  object, so counting, pruning and dropping must come in an order that no user
  action and no restart can spoil, and a replaced controller cannot be stopped.
* **Documents pass through text**: expressions, escapes, quoted keys and
  placeholders are substituted three times before the provider sees a value, and
  a secret is a placeholder and an environment variable until the pod runs.

What makes each part correct: nothing is destroyed without consent, released
before it is gone, lost, or reported as applied when it is not; objects come
to rest and deletions finish; teardown is reverse-topological and never
deadlocks; a composite that says Synced has exactly the children of its
revision, touches nobody else's, and is not rewritten behind a Manual policy;
a key is fetched once at a time and never poisoned; a plugin is downloaded by
one pod at a time and a dead owner blocks nobody; a generated CRD always has
the definition or provider behind it that claims it, and objects go with it only
when nobody could count them; a rendered and resolved document is what its
template says, and every secret arrives at its own path in its present version. The list "hazards" of
`PROJECT.json` says at which line each of these could go wrong.

## 2. Modules

### DoResource
One object, its reconciler, its Jobs, the provider, the user and the faults.
`obj` is spec and metadata, `status` the status subresource, `me`/`st` the
copies Reconcile works on, `op`/`out` the operation and its observed outcome,
`jobs` the Job of every operation document, `cloud` the external resources.
A property document stands for its own hash, so spec, applied hash and state of
the resource are members of one set `Props`.

One step is one call to the API server: `Get`, the branch up to the operation
(`ReconcilePaused`, `DeleteExternal`, ...), the Job (`ensureJob` inside `RunOp`,
then `Observe`, `ObserveUnreadable`, `WaitTimeout`, `Cleanup` and the like), and one handler per outcome
(`DeleteHandled`, ...), which ends in `markSynced`, `markSyncFailed`,
`markMissing` or `ReleaseFinalizer`. `persistStatus` re-reads the object as the
code does; writes of spec or metadata conflict when the object changed. The four
workers of the controller never reconcile the same object at once, so there is
one set of locals.

Faults, each a member of `Faults`: `crash`, `timeout`, `unreadable` (pod log),
`garbled` (no envelope), `keepJob` (cleanup failed), `jobLost`, `expire` (TTL),
`provider` error, `schema` fetch error, `drift` (resource vanishes), and two that
stand for the state of other objects: `references` (a cycle, a reference that does
not resolve or carries a value the schema rejects, a failed read of a source) and
`profile` (the provider profile is missing, pins another package or does not allow
the type). Both are recorded as terminal and not retried. A provider behaviour says
who names the resource, whether its type can be read (`canRead`), and whether a
delete can fall back to the recorded state (`canFallBack`: not for git and
private-registry packages, README.md:427-428). `deleteState` drops a state that is
too large for the operation document (`Oversize`).

Left out: component (engine) resources, the choice of package and credentials,
connection secrets, the Ready condition, re-creation of an object under the same name,
classification of infrastructure failures, secret inputs (see Properties). The
comparison of resourceVersions is a comparison of contents (no ABA). A timed-out
Job keeps running, as in the code.

### ResourceLife
The abstract specification of one object and its external resources: orders to
create or destroy a resource, which somebody carries out later or never, the
resource the status records, and the user's consent. There are no Jobs, waits,
results, retries or copies of the object in it. DoResource implements it with
`orders` as the running Jobs that mutate, `work` as the generation of the copy
Reconcile works on, `recorded` as status.id, `world` as `cloud` without the
properties of the resources, and `exact` as `AdoptionIsExact`.

### ReferenceGraph
Several resources named `1..N`, each cut down to three moments (operation
starts, is carried out, is recorded). `refsOf`, `dependentsOf`, `reaches`,
`detectCycle`, `blockingDependents` and `mapGraphNeighbors` are translated one
to one; `reaches` and `detectCycle` ask for membership in `Closure`, the least set
that contains the start and is closed under references. `Lates` are the sets of
resources that may be missing at first and be created later. An object and the sources of its references are read live; graph walks
and the lookup of dependents and usages read `cache`/`ucache`, which hold an
earlier state of all objects of the kind and catch up at once. The limits of 64
visits and of depth 32 of the walks are not modelled; the graphs have three nodes.
The history `late` holds the resources whose dependents or sources could not take
them into account: recorded when the deletion had been requested, or not in the
cache when a source began its teardown.

### Composite
Composites of one definition: revisions (`revs`, `rcache`), children (`kids`,
`kcache`), composites with the parts of status that matter, and the single
worker of the controller with its locals in `w`. Actions follow Reconcile:
`Get`, `GetDefinition`, `UseLatestRevision`/`CreateRevision`, `PruneRevisions`,
`DeleteRevision`, `RenderComposite`, per child `NameCollides`/`ReplaceChild`/
`CheckChild` (live read) and `CreateChild`/`UpdateChild`/`UpdateConflicts`/
`ApplyFailed` (CreateOrUpdate on the cached object), `ListChildren`,
`PruneChild`, `WriteStatus`. What a definition renders to is the constant
`Render`; `Broken` and `BrokenOutputs` are definitions that fail to render.
Events on composites and on the definition reach the queue at once; a child's
event when its cache catches up; `gone` keeps the event of a child that came and
went between two catch-ups. Revisions are not watched. Revision numbers and
`revisionHistoryLimit` keep their arithmetic with small bounds.

### SchemaCache
`SchemaCache.Get`: one step per critical section of the mutex, and one for
closing the channel. A fetch ends in a schema, an error or a panic; waiters may
be cancelled.

### SharedFetch
The abstract specification of Get: keys are known or being fetched, and the end
of a fetch is one instant for everybody who asked for the key meanwhile.
SchemaCache implements it with `known` as the cache, `fetching` as the keys with
a pending entry, and `Verdict(c)` as the outcome of the caller's fetch from the
moment it is no longer pending, before its channel is closed.

### PluginCache
`ensurePlugin` of several pods on one volume: Mkdir, Stat and Remove are the
atomic steps, `LockAges` lets a lock pass `staleLockAge`, and a pod can die
anywhere. A lock ages past the limit only when its owner is no longer in the
critical section: the defaults (15 minutes against an operation timeout of 10)
make it so.

### TypedAPI
One CRD name, the definitions (`Defs`) and the provider tokens (`Tokens`)
that claim it, typed objects and their mirrors (a DoComposite for a definition, a
DoResource for a token). `crd` keeps owner annotation, served versions, storage
version and storedVersions; `reg` is the entry of `TypedRegistrar.registrations`.
The definition controller has one worker `dw` whose steps are its API calls:
`Reconcile` (`Nothing`, `Invalid`, `Serve`, `finalizeDefinition`),
`prepareVersionDrop` (Get), `listBeforeDrop` (List), `pruneStoredVersions`
(Status().Update), `applyCRD`, `serveCompositeAPI` on the one path,
`countObjects`, `deleteServedCRD`, `Forget`, `removeInformer`,
`releaseDefinition` on the other. `applyCRD`, which is a Create or a Get and an
Update, and `ProviderStep`, which is `ensureTypedResources`, are one step each. Every
token stands for a provider of its own (`ready`): a provider that lists several
tokens of other CRD names makes no difference to this one. A
typed controller reconciles in `Translate`, `CreateOrUpdate` and
`mirrorStatusBack`; reconciles in flight (`tws`) outlive the registration they
began under (`cur`). Definitions, objects and mirrors are read from caches that
catch up one object at a time, CRDs and counts are live. External: the API
server's rule for storedVersions, the cleanup of a terminating CRD, garbage
collection. Left out: the schemas inside generated CRDs and the per-version
counts in the definition's status.

### Paths, Expressions, Rendering, Properties, TemplateMeaning
`Paths` has the path syntax and the operators on JSON documents, `Expressions`
the expression language: template strings, `resolveReferences`, and what they
use; `Rendering` walks documents with it (`renderChild`, `renderOutputs`).
Text is a sequence of characters in which a word nobody looks into
is one character; the substitutions of the code (markers, escapes, `${value}`)
are done on it, since they are what can go wrong. `Properties` uses them as the
operator does: a composite renders a child (`RenderChild`) and publishes outputs
(`PublishOutputs`) while the source gets its id and outputs (`SourceMoves`); the
DoResource controller resolves, stages secrets and starts or adopts a Job
(`Reconcile`, `executeOp`), the pod starts with the Secrets as they are
(`StartPod`), substitutes them (`RunOperation`), and the result is recorded
(`FinishOp`) or left behind (`Interrupted`). Users edit the spec and rotate the
Secret. Creates and patches are one operation here; their failures are in
DoResource. `TemplateMeaning` has the reference definition (`Lex`, `Meaning`,
`MeaningOf`: a template read once from the left, without markers) and the
properties that look into documents.

Rendering and TemplateMeaning are recursive on documents, and for TLC only.
Properties reads what a template becomes from the constants `ChildOf` and
`OutputsOf`, which the configurations set to `renderChild` and `renderOutputs`.

### Proof modules
`DoResourceProofs`, `DoResourceLife`, `PropertiesProofs`,
`ReferenceGraphProofs`, `CompositeProofs`, `SchemaCacheProofs`,
`PluginCacheProofs` and `TypedAPIProofs` hold the theorems of section 4 and the
inductive invariants they need; the modules they extend hold no proofs.

`MC*` modules only give constants their values. Definitions under a comment
that starts with "Mutation" are deliberately wrong variants of the definition
below them; replacing the one by the other must make TLC report the property
`PROJECT.json` names.

## 3. Runs

All passing runs explore their instance completely. Deadlock checking is off
where bounded user actions and faults let the system come to rest with nothing
left to do; the liveness properties say where it may rest. In Properties a
refused template and a deleted object are final. TypedAPI checks for deadlock.

| Run | Instance | Shows |
|---|---|---|
| DoResourceSafety | 1 object, 3 ids, 3 documents (one invalid, one reachable only by replacement), 4 provider behaviours, 2 user actions, 1 fault of 12 kinds | `DestroyNeedsConsent`, `FinalizerOutlivesResource`, `EveryResourceRecorded`, `AppliedHashIsApplied`, `ImplementsLife` |
| DoResourceLiveness | 4 ids, 2 documents (one puts a secret into the id, one is too large for a delete), adopted objects too, 4 provider behaviours, 1 user action, 1 fault of 10 kinds | `Converges`, `DeletionCompletes`, `SecretFailureIsTerminal`, `ReplacementIsFinal` |
| ReferenceGraph | 3 resources in 5 graphs (chain, two rings, a mutual pair as source and as dependent), new or provisioned, one resource possibly created late, one usage, 3 user actions | `DependentsGoFirst`, `TeardownCompletes` |
| ReferenceGraphRewired | 3 resources in a chain or ring, one created late, references edited, one failed read | `Provisions` |
| Composite | 1 composite, 5 definitions, 2 names, a foreign DoResource, 2 user actions | `SyncedIsRendered`, `ForeignUntouched`, `Settles`, `TracksLatest` |
| CompositeRevisions | 2 composites (Manual at first), 2 definitions, 3 revisions of which 2 are kept, pins, 2 user actions, 1 failed call or crash | `RecordedRevisionSurvives`, `ManualStays` |
| SchemaCache | 3 callers, 1 key, 4 calls | `FetchIsShared`, `EveryCallReturns`, `ImplementsSharedFetch` |
| PluginCache | 3 pods, 2 faults | `OneDownload`, `EveryoneServed` |
| TypedAPI | 1 definition with 5 versions of spec.api (two of them refused), 1 provider token, no CRD or a foreign or unannotated one, 1 object name, 2 user actions, failed calls or restarts | `CRDHasDefinition`, `ServedOnce`, `DeletionWaitsWhenServed`, `ObjectsStayReadable`, `ForeignKept`, `APISettles`, `DefinitionsGo`, `ObjectsTranslated` |
| TypedAPIDrop | 1 definition, 3 user actions | finding: `DeletionWaitsForObjects` fails |
| Properties | template strings of up to three pieces, 6 kinds of keys, 5 parameters, 4 statuses of the source; 6 specs with valuesFrom, 2 edits or rotations, 1 crash or failed read | `RenderedIsTemplate`, `OutputsAreWhole`, `SecretsInPlace`, `SecretsCurrent`, `DeleteStateIsClean` |
| PropertiesRekeyed | the same specs, 1 edit | finding: `SpecEditsReachResource` fails |

Why the bounds are enough. DoResource: consent takes two user actions to go
wrong (an approval or protect=false, then an edit), a stale Job one fault and
one edit; three ids are the old resource, its replacement and one more attempt.
ReferenceGraph: the tie-break of mutual references involves pairs, and a third
resource distinguishes direct from transitive reachability; three user actions
delete everything, or delete, add a usage and remove it. Composite: the cases
that matter are a child of another type (replaced), of another name (pruned),
one that does not render, and a user who deletes a child in the middle; with a
history of two, three revisions are needed before one is pruned, which two edits
produce. SchemaCache: a leader, a waiter, and a third caller that arrives
between publication and the closing of the channel. PluginCache: a dead owner
and two waiters. TypedAPI: a definition and a token are two owners of different
kinds, which is all that ownership distinguishes; an edit of the version and a
deletion, or a recreated object and a restart, are two events. Properties: three
pieces put every piece before, between and after the others; two paths of one
array and two spellings of one path are the cases of the plan; a rotation needs
a Job left behind by one fault.

### Statements that carry a condition

* `FinalizerOutlivesResource`, `EveryResourceRecorded`: when the *client* names
  the resource (`FixedId`), a Job left over from an earlier life of the name can
  be adopted by a later operation; both properties except that combination
  (`AdoptionIsExact`). ResourceLife has the same exception in `exact`: while it
  holds, what is recorded was born, what is forgotten is gone, and the object
  outlives its resource; consent and order are promised without it. `EveryResourceRecorded` also excepts faults that take the
  only copy of a result with them.
* `Converges` has one exception: a create whose client-chosen name meets the
  unrecorded resource of an earlier attempt answers AlreadyExists for ever. The
  object reports the failure on every retry.
* `Provisions` excepts resources marked `InvalidReferences`: `resolveReferences`
  reports a failed read of a source as invalid, and that is not retried. It is
  checked with one edit of references and one creation. With two edits of
  references it fails: a walk over a stale cache can report a cycle after the
  last event that would have woken the resource.
* `TracksLatest` excepts composites that were last given an outdated revision
  because their cached list lagged and the next number was taken
  (`ensureLatestRevision`). Revisions are not watched, so such a composite stays
  there until another event.
* `ForeignUntouched` is about DoResources that existed, and were in the cache,
  when the reconcile began. One created between the live check and
  CreateOrUpdate, or under the name of a child just removed, can be overwritten
  or deleted.
* `DependentsGoFirst` excepts a dependent whose create is in flight when the
  deletion is requested (it has no id, and `blockingDependents` skips it), and one
  that the informer cache did not show when its source began its teardown. The
  second exception came out of the proof: an object created late can be woken by
  the event of a neighbour or of a usage, provisioned against its live source, and
  still be missing from the cache in which the source looks up its dependents.
* `OneDownload` holds until a fresh lock is removed: two waiters can find the
  same lock stale, and the second removes the lock of the first (`stolen`).
* `SecretFailureIsTerminal` and `ReplacementIsFinal` say less than
  `annotations.go:81-84`, by which the failure is terminal until the spec changes
  (see Divergences): `secretIDTerminal` looks at the Synced condition, and everything
  that reports through that condition overwrites the record at the same generation. For an object without an external name that is
  pausing and resuming, a failed fetch of the schema, references that do not
  resolve, form a cycle or whose source could not be read once, and a provider
  profile that is missing or refuses; for one with a name also a failed read, and for
  a replacement a failed patch. `ReplacementIsFinal` is therefore checked with
  crashes and drift only.
* `DeletionCompletes` excepts types without read support whose delete has nothing to
  fall back to: the package comes from git or a private registry (documented in
  README.md:427-428), no state was recorded, or more than 64 KiB of it
  (`MaxDeleteStateBytes`). Such an object stays in Terminating: every attempt ends
  in ReadNotSupported.
* `FinalizerOutlivesResource` is about the id in the status: an object that is
  deleted between the write of its external name and the next reconcile is
  released while the named resource is live, since `reconcileDelete` does not
  look at the annotation.
* `ServedOnce` excepts a definition that took over a terminating CRD. The run has
  one definition and one token; that two definitions exclude each other rests on
  `ServedTheorem`.
* `ObjectsStayReadable` excepts objects stored in a dropped version after
  `listBeforeDrop` listed them, before or after `pruneStoredVersions`; without the
  exception it is false (see Divergences).
* `ForeignKept` leaves the storedVersions of a CRD without doplane's label out:
  `prepareVersionDrop` may prune them before `checkCRDOwnership` refuses the CRD.
  Without the exception it is false (see Divergences).
* `ObjectsTranslated` excepts a controller whose informer a concurrent `Forget` removed
  (`Deaf`) and a name taken by a hand-made mirror.
* `RenderedIsTemplate` excepts two inputs: a parameter that ends in `$` right
  before the value of a sibling (`expandTemplate` takes the two for an escape),
  and parameters that leave no text around it (the value keeps its type).
* `SecretsCurrent` is about Secrets the controller can read. In operator-namespace
  mode the Secrets live elsewhere, `mixSecretVersions` skips them
  (`secret_inputs.go:43-44`), and a rotation waits for the next edit or drift patch.
* `SecretsCurrent` excepts an operation that ran beside another or was adopted
  after another had run (`overtaken`), one that was never recorded, and edits the
  hash does not show. `DeleteStateIsClean` excepts a path taken out of valuesFrom
  after the state was recorded.
* `AppliedHashIsApplied` is checked without adoption: `adoptExternal` records
  the hash of a spec it did not apply.

### Fairness

`Reconcile` is weakly fair: controller-runtime serves its workqueue, errors and
`RequeueAfter` put the request back. Runner Jobs and pods are run by Kubernetes
(`Runner`, `Operation`, `ensurePlugin`). Informer caches catch up (`CacheSync`,
`UsageSync`, `KidSync`, `RevSync`), deleted children are released in the end
(`KidGone`, which is `DeletionCompletes` of DoResource), garbage is collected,
and time passes (`LockAges`). In TypedAPI a request for a definition or an object
is strongly fair: other requests may take the worker in between, and the
workqueue serves every request it holds. Users and faults are bounded, never fair, and no
resync is assumed: the models have only the events the watches produce.

### Divergences

Two runs end in a counterexample to what the code or its documentation says
(quotations and lines are in `PROJECT.json`).

* `TypedAPIDrop`: a definition deleted right after an edit of its API version is not
  blocked by its objects. They are counted in a version that is not served, and
  NotFound counts as zero.
* `PropertiesRekeyed`: an edit of the key a valuesFrom entry reads is in no hash, so
  it is never applied.

Three more came up and have no run of their own. A passing property excepts each
of them, by name; without the exception TLC finds the trace given here.

* `SecretFailureIsTerminal` without `seen \cap GateFaults = {}`: a create fails with
  SecretInputInID, something wakes the object, one fetch of the schema fails (or a
  source cannot be read once, or a reference or the provider profile does not
  resolve), and the next reconcile of the same generation creates a second resource.
  `annotations.go:81-84` calls the failure "hard-terminal until the spec changes".
* `ObjectsStayReadable` without `late`: `spec.api.version` moves from v1 to v2, the List
  of `prepareVersionDrop` finds no object, one is created in v1, and the CRD is
  updated to serve v2 only. Creating an object does not change the resourceVersion
  of the CRD, so nothing conflicts. `website/guide/platform-apis.md:145` says that
  dropping a version whose objects still exist is refused.
* `ForeignKept` with `crd' = crd`: a CRD of somebody else has the name of the
  definition's API and no objects; `prepareVersionDrop` (`typed_controllers.go:220`)
  removes its version from `status.storedVersions`, and only then does the reconcile
  end in CRDConflict. `typed_crd.go:41-43` and `platform-apis.md:162` say that a
  foreign CRD is never overwritten.

## 4. Proofs

Proved with TLAPS for every value of the constants that satisfies the named
assumptions: `IdAssumption`, `PropsAssumption`, `EnvAssumption` (DoResource),
`GraphAssumption`, `CompositeAssumption`, `CacheAssumption`,
`RunnersAssumption`, `TypedAPIAssumption` and `SecretsAssumption`. They say that model values are
distinct, that sets which describe different things are disjoint, that there is
at least one composite or definition, that typed objects are finitely many, that
bounds are naturals (and leave room for a CRD that is there already), and that
valuesFrom names Secrets, in the specs of users only. Every safety invariant and action
property of these components that a passing run checks is the subject of a theorem,
and both refinements are, except `ReplacementIsFinal` and what documents contain
(Properties);
`AppliedTheorem` and `SecretsTheorem` have a hypothesis, stated below.

Each proof has the same shape: an inductive invariant, one lemma per action (or
per group of actions that write the same variables), one step per conjunct, and
a temporal theorem that combines them. TLC checked each invariant first.

### DoResource

* `DoResourceProofs!TypeCorrect`: `Spec => []TypeOK`. Types alone are not
  inductive: `LocalsFit` adds that an operation under way is a well-formed
  document and that the continuations that use status.id have one.
* `DoResourceProofs!ConsentTheorem`: `Spec => []DestroyNeedsConsent`. The
  history of authorisations only grows; `ConsentInv` says that the object, if
  it authorises destruction, is in the history, that the same holds for the
  reconciler's copy, that a delete under way is authorised by that copy, and
  that a replacement under way was permitted by it (a replacement may turn into
  a delete several steps later).
* `DoResourceProofs!TerminalTheorem`: `Spec => []SecretFailureIsTerminal`.
  `TerminalInv` says where the refusal is remembered: the status of an unnamed
  object of the refused generation shows the condition, unless it is paused, and so does the copy of a
  reconcile, which has not passed the check (`Kept`). That needs the copy to lag
  behind the object in nothing but the user's edits (`CopyCurrent`,
  `RefusedPast`), and every result that is recorded to bring a name with it
  (`Named`, `OutcomeNamed`, `JobsNamed`).
* `DoResourceProofs!FinalizerTheorem`: `Spec => []FinalizerOutlivesResource`.
  An id the provider assigns is never reused, so a Job that reports a delete tells
  the truth whenever it is read. `FinalizerInv`: whatever id anyone knows has been
  assigned, Jobs and outcomes are honest about deletes, the copy agrees with the
  object on id and finalizer, and without a finalizer there is no id. A name the
  client chooses is reused, and a report about it is true only until the next
  create: there the invariant adds, as long as `AdoptionIsExact` holds, that
  there is no Job but the one of the operation under way.
* `DoResourceLife!RecordedTheorem`: `Spec => []EveryResourceRecorded`.
  `RecordInv` follows a new resource through its record: from
  the finished Job (`JobsReport`) to the outcome (`OutcomeReports`), to the copy
  and the external name (`CopyNamed`), to the status, which names the same
  resource as the annotation except in the middle of a replacement, and while a
  client's name is being revived (`NameFits`, `Reviving`);
  an operation is the one its continuation waits for (`OpFits`). It rests on `FinalizerInv`,
  since a delete must remove the resource it names and no other.
* `DoResourceLife!AppliedTheorem`: `AppliedHashIsApplied` under `Plain`:
  nothing live is imported, and a provider whose clients name the resources does
  not embed a secret in the id. Both parts are needed: adoption records the hash
  of a spec it did not apply, and a create under a client's name whose id embeds a
  secret overwrites the resource without recording it. `AppliedInv` holds as
  long as only faults have occurred that lose no result: there is at most one
  Job, it is the one of the operation under way (`Alone`), the copy and the operation are
  those of the object (`Working`), and hash and resource agree whenever none is under way
  (`Truthful`).
* `DoResourceLife!LifeTheorem`: `Spec => ImplementsLife`, the refinement. Every
  step of the API calls, Jobs and faults is mapped to one step of ResourceLife or
  to none: `RunOp` of a mutation to an order, the steps of a Job to `CarryOut`,
  `markSynced` to `Record`, `markMissing` to `Forget`, the writes of a status that
  keeps its id and crashes to `End`, faults around a Job to `Doubt`. The proof uses the
  invariants of the four theorems before it and one of its own, `LifeInv`: the copy names the
  resource the status names, an adoption or a first create is for an object
  that has none, what is about to be recorded has an id, and a Job that is
  cleaned up no longer runs. A handler then does to the record what the world
  permits: that a resource was born, or is gone, is what `RecordInv` and
  `FinalizerInv` know of its Job.

### ReferenceGraph

* `TypeCorrect`, and `OrderTheorem`: `Spec => []DependentsGoFirst`. The decision
  to tear down is read from a cache and carried out later, so `OrderInv` says
  what a cache can be wrong about. Without rewiring references are constant
  (`Steady`), so that the cache shows a dependent as such if it shows it at all;
  what the cache shows to exist or to be terminating was so (`Aged`); one that
  does not exist has nothing outside (`Unborn`). A source that has passed its
  check remains terminating (`Condemned`), and each of its dependents is gone, or
  will itself be recorded too late (`Overtaken`, `Ordered`). The tie-break of
  mutual references needs a property of `Closure`: if r reaches d and d refers
  to r, then d reaches r, so that of two names only the smaller one is skipped.

### Composite

* `TypeCorrect`, and `RevisionTheorem`: `RecordedRevisionSurvives`. Pruning
  spares the revisions that live composites record, but reads them before it
  deletes. `RevisionInv`: the newest cached revision exists and at most one is newer
  (`Numbered`), the latest one the worker uses exists and is out of reach of the
  set to be deleted (`Latest`), no live composite records a revision of that set
  (`Spared`), and the revision the worker renders exists (`Chosen`). That a newest and an oldest
  revision exist in every finite set of numbers is proved from the
  well-foundedness of the order on the naturals (`LeastNumber`,
  `GreatestNumber`).
* `ManualTheorem`: `ManualStays`, from the same invariant.
* `ForeignTheorem`: `ForeignUntouched`. `Apart`: an object that was foreign, and seen
  to be, when the reconcile began still is; it is neither the child that was
  checked and is about to be written, nor on the list of children to be pruned.
* `SyncedTheorem`: `SyncedIsRendered`. `Progress` says how far the loop over the
  children has come: each child that was passed is as rendered, and each
  superfluous one is on the list to be pruned, unless something happened that
  brings the composite back to the queue. `Evolved` says what a cached child can
  be wrong about: its live version has the same owner, and neither readiness nor a
  deletion is taken back. `Settled` is the promise while no reconcile is under way.

### SchemaCache, SharedFetch, PluginCache

* `SharedFetchTheorem`, `AnswersTheorem`, `TypeCorrect`: whoever fetches or
  publishes owns the pending entry of its key, the key is not cached, and two
  leaders have different fetches.
* `RefinementTheorem`: `Spec => ImplementsSharedFetch`. Every step maps to one
  step of SharedFetch (`Publish` to the end of the fetch, `Close` and `Wake` to a
  reply) or to none (`FetchSchema`). It needs the links between calls and fetches
  of `AnswersTheorem`: a leader's fetch is pending for its key until it
  publishes, waiters share its key, and a fetch that is done is pending for
  nobody, so that the verdict a caller returns is the one it got when its fetch
  ended.
* `PluginCacheProofs!OneDownloadTheorem`: until a fresh lock is removed, whoever
  is in the critical section owns the lock, and the lock is not stale.

### TypedAPI

* `TypeCorrect`, with `Seen`: a cache is right about what it has caught up with.
* `CRDTheorem`, `ServedTheorem`, `ForeignTheorem`: `CRDHasDefinition`,
  `ServedOnce` and `ForeignKept` from `DefInv`. A definition leaves in several
  steps, each of which another owner may precede: a cached definition is an
  earlier one of the same object (`Aged`), the worker acts for one that still has
  its finalizer (`Guarded`), one that has dropped the CRD no longer owns a live one (`Dropped`), only a CRD of the operator has an owner (`Owned`), and a definition that
  says Served owns the CRD and is not being finalized, unless it took over a
  terminating one (`Claims`).
* `ReadableTheorem`: `ObjectsStayReadable`. Dropping a version reads the CRD, lists
  the objects, prunes storedVersions and applies the CRD, each in a call of its own.
  `ObjInv`: the version an object is stored in is one of storedVersions, unless it
  was written after the list, and storedVersions are served (`Listed`); a worker
  that is about to prune has listed no object (`Looked`); objects have distinct
  uids and go with their CRD (`Named`); and a typed controller's copy is the
  object as long as nobody else wrote it (`Copies`).
* `DeletionTheorem`: `DeletionWaitsWhenServed`. `Counted`: a worker about to delete a
  CRD that is its own and serves the version it counted in has counted nothing.

### Properties

* `PropertiesProofs!SecretsTheorem`: `Spec /\ []SecretsPlaced => []SecretsCurrent`.
  The hypothesis is the first part of `SecretsInPlace`, which TLC checks: the
  runner puts the value of a variable at its path. The theorem is about the rest,
  which Job ran last and what is recorded of it. `SecretsInv`: a Job has
  the versions its name is salted with or later ones (`JobsInv`); operations come
  one after the other until one is overtaken (`OneAtATime`); what runs, or ran last,
  has no older version than what is recorded or what a finished Job could still
  record (`NoneOlder`); a result that is recorded is the last one, or the Job of the
  last one is still there (`LatestKept`, `RecordedIsLive`). The applied hash names
  the present versions, so the versions the resource has are between those and the
  present ones: they are the present ones. Without the salt in the name a Job of
  older versions could be adopted, and `NoneOlder` would be false.

### What the proof attempts found

* `DependentsGoFirst` was false for an object created late (see above). The
  instance had no run in which a late object was woken before the cache showed
  it. The exception is now in the property, and the instances contain the case.
* `SecretFailureIsTerminal` was false after a failed schema fetch. The run had no
  such fault; it has one now, and the property names it (see Divergences).
* `AppliedHashIsApplied` needs `Plain`; the run satisfies it.
* The annotation and status.id can differ outside a replacement when the client
  names the resource: an adoption that finds nothing under the annotated name is
  followed by a create that makes the resource of that name live again before it
  is recorded. The invariant of `RecordedTheorem` says so (`Reviving`).
* The result that is recorded need not be that of the last operation: while a
  finished Job is adopted, the Job an interrupted reconcile left behind can run
  after it. `SecretsCurrent` holds all the same, since that Job read the Secrets
  later than the adopted one.

### Only model-checked

* All liveness, since TLAPS handles neither fairness nor ENABLED: `Converges`,
  `DeletionCompletes`, `TeardownCompletes`, `Provisions`, `Settles`,
  `TracksLatest`, `EveryCallReturns`, `EveryoneServed`, `APISettles`,
  `DefinitionsGo`, `ObjectsTranslated`.
* What documents contain: `RenderedIsTemplate`, `OutputsAreWhole`,
  `SecretsInPlace`, `DeleteStateIsClean`. They say what recursion over a template,
  a path or the entries of valuesFrom computes; without induction over data the
  prover cannot.
* `AppliedHashIsApplied` outside `Plain`, and `ReplacementIsFinal`.

## 5. Not modelled

Component (engine) resources, what provider resolution picks, provider health,
connection secrets, the validation of parameters and properties against schemas,
the schemas of generated CRDs, names and labels of children, the construction of
pods, redaction of logs, the exec runner, manager wiring, manifests, website and
tests. `PROJECT.json` gives the reason for each. What the wiring decides for the
models: one manager reconciles at a time (leader election), four workers for
DoResources and one for every other controller, live reads through the API
reader, lists through informer caches.

## 6. Plan

1. *Done:* DoResource, ReferenceGraph, SchemaCache with SharedFetch, PluginCache,
   Composite, TypedAPI, Paths, Expressions, Rendering and Properties.
2. Providers and provider configs: usage counts and the deletion guard.
3. Component resources: reconcileComponent with its checkpoint, as a second
   client of the Job runner.
4. Abstract specifications: *done* for the life cycle that DoResource implements.
   Left: an atomic install that PluginCache implements, which must say what a
   removed fresh lock does to it.
5. *Done:* the safety of DoResource, ReferenceGraph, Composite, SchemaCache,
   PluginCache and TypedAPI, and the order of operations in Properties, for every
   value of the constants; the refinements of ResourceLife and SharedFetch.
6. Proofs left: a refinement for PluginCache (item 4), and the placement of secrets
   (`SecretsPlaced`), which needs induction over paths.
