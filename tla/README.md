# Verification of the Kubernetes SBOM collector

TLA+ models of the collector (the Go program under `src/`), checked by TLC on
small instances, and theorems about them checked by TLAPS for every instance.

## 1. The system

A collector watches pods, finds out which images they use, and for each image
that no collector has dealt with yet generates an SBOM and sends it to an
output. It runs once per node (DaemonSet, each collector watching the pods of
its node) or as a deployment watching the whole cluster. An agent, another
program, hands out the configuration and the API token and keeps a cache of
images: which are processed and which are reserved by a collector.

    API server -> watch -> transform -> cache -> predicate -> work queue -> Reconcile
                                                                               |
                    agent <-- status, token, mark, --- service, clients <------+--> SBOM generator
                   output <-- SBOM, error reports ---

| component | source | state it keeps | operations |
|---|---|---|---|
| pod cache transform | `cmd/main.go` 195-326, `internal/podcache` | start time, node name | strip or keep a pod |
| predicate, namespace filter | `internal/predicates` | compiled patterns | create, update and delete events |
| informer, work queue (external) | configured in `main.go`, `watcher.go` 233-242 | cache; one entry per pod | apply, notify, relist, delay |
| reconcile worker | `internal/controllers/watcher.go` | where a pass stands, its errors, images reserved by others | `Reconcile` |
| service | `internal/service` | none | `GetImageStatus`, `SendImageSBOM`, `MarkProcessedImage` |
| agent and output clients | `internal/clients` | none between calls | each repeats a request until it is answered with 200 |
| error reporting | `pkg/logger` | none | `ReportError`, which blocks its caller |
| agent, output (external) | the requests of the clients | processed, reserved; delivered; valid token | status, mark; receive; rotate |
| SBOM generator | `pkg/sbom/sbom.go` | retries, platform asked for | `GenerateImageSBOM` |
| keychain | `pkg/keychain`, `watcher.go` 244-297 | where the lookups stand, credentials so far | `getKeychain`: credentials of a pod, of the collector, mounted ones |
| image references | `pkg/image`, `pkg/models/image_reference.go` | none | full name and shorthand name of an image |
| image resolver, containerd | `pkg/imageresolver`, `pkg/containerd` | none | list a pod's images; look one up on the node |
| image name filter | `pkg/imagefilter` | compiled patterns | `Match` |
| SBOM configuration file | `pkg/sbom/config.go` | what the file held when it was first read | `loadConfig`, once |
| startup, environment | `cmd/main.go`, `pkg/config` | the step main is at, node name, containerd client | the steps before the manager runs, exit, restart |

What is hard about it:

* One worker per collector makes every call in turn, and each call may repeat
  without limit or end with an error after the request took effect. Sending and
  marking are two requests; the process may die between them.
* The reservation is read, the scan takes minutes, and only then is the image
  marked; collectors interleave, and a reservation may expire.
* A pod changes while it is reconciled, or while a delayed request waits.
* Three filters in a row (transform, predicate, the checks in `Reconcile`) look
  at different versions of a pod, and the transform puts stubs in the cache
  that the predicate compares with. An update refused now may be the last.
* The initial list, watch events, relists and restarts deliver the same pod
  differently.
* The generator's three kinds of retry change each other's conditions.
* Five calls that find credentials may each fail, with different effects on
  whose credentials are used.
* An image has a reference in the spec, an image ID in the status, a name in
  containerd and perhaps a mirror; each may say something else by the time it is
  used, and one digest and one name must come out of it.
* An image is asked about and reserved under its own name, and sent and marked
  under its mirror's if the agent's answer gives one.
* main goes on after some failures and exits at others, and is started again.

What makes the components correct: nothing counts as processed that was not
delivered; each duplicate is paid for by an answer that was lost; two collectors
do not work on one image; no pod in hand is dropped; a pod sleeps for twelve hours
only when each of its images was marked or given up; every image is processed in
the end; whoever should be scanned is
reconciled with its present image IDs, nobody else is; the generator makes only
a bounded number of attempts; each status of a pod gives the image it reports,
and what is sent under a name and digest is what the agent granted and was made
from that image; credentials are used in the order of whom they belong to, and
no secret is read that nobody named; a valid environment ends in a running
collector, an invalid one never does. `PROJECT.json` lists the hazards line by line with
the properties about them.

## 2. The modules

| module | what it is |
|---|---|
| `ScanLedger` | abstract specification: what collectors, agent and output promise together about each image |
| `WorkQueue` | abstract specification: what `Reconcile` and the work queue promise together about each pod |
| `Delivery` | the reconcile workers, service, clients and error reports of several collectors, with agent, output, network, queue |
| `MCDelivery` | instances of `Delivery` |
| `DeliveryProofs` | theorems about `Delivery`: types and safety |
| `SleepProofs` | that a pass leaves nothing behind, ends, and uses its reservations in time |
| `LedgerProofs` | `Delivery` implements `ScanLedger` and `WorkQueue` |
| `PodFilter` | pure operators: transform, predicate, namespace filter |
| `PodFilterProofs` | theorems about them |
| `PodFeed` | the path of a pod from the API server to `Reconcile`, built on `PodFilter` |
| `MCPodFeed` | instances of `PodFeed` |
| `PodFeedProofs` | theorems about `PodFeed`, which implements `WorkQueue` |
| `SbomGenerator` | `GenerateImageSBOM` with its retries |
| `SbomProofs` | theorems about `SbomGenerator` |
| `ImageReference` | pure operators: the names of an image |
| `ImageFilter` | pure operators: excluded names |
| `ImageResolver` | pure operators: a pod's images, and what containerd says of one; built on `ImageReference` |
| `Keychain` | `getKeychain`: the lookups and their failures |
| `Startup` | main until its manager runs, its failures and restarts; uses `ImageFilter` |
| `Collector` | composes `Startup`, `Keychain` and `ImageResolver` with what `Reconcile` does to an image around the agent's answer |
| `MCCollector` | instances of `Collector` |
| `CollectorProofs` | theorems about `Collector`: start, images, what is sent |
| `CredentialProofs` | theorems about `Collector`: secrets and credentials |

### Delivery

The state of a worker is the program counter of `Reconcile` and its local
variables: `pc`, the pod `cur`, the images left `todo`, `failed`
(`processingErrors # nil`), `waiting` (`imagesReservedByOtherCollectors > 0`),
`resume` (what follows a report), the `token` held by `SendSBOM` and the `name`
under which a granted image is scanned, sent and marked (`img.ShorthandName()`
after the mirror was put in).

| in `Reconcile` | action |
|---|---|
| 81-102 pod gone, stripped, AKS; or `Get` fails | `SkipPod`, `GetFails` |
| 104-119 keychain and listing, with their reports | `Begin` |
| 125-146 no digest, excluded | `ReportNoDigest`, `SkipImage` |
| 148-182 status; processed, reserved, or granted, then the mirror | `StatusProcessed`, `StatusReserved`, `StatusGranted` with `TakeUp` |
| 184-201 scan | `Generate`, `GenerateUntidy` (SBOM and error), `GenerateFails` |
| 203-215 `SendImageSBOM`: token, SBOM, mark, the last two of `payload.Image` | `GetToken`, `Send`, `Mark` |
| `predicates/pod.go` 16-96, in front of the queue | `CreateFunc`, `UpdateFunc` in `InitialEntries` and `Passes` |
| a call ends with an error | `CallFails` (its request arrives now, later or never) |
| a call is answered with another status than 200 | `AnswerNotOK` (the first copy is still under way), else a stuttering step |
| any `ReportError` | `pc = "report"`, ended by `Reported` |
| 220-230 result | `Finish`, `Result` |

A request's effect at the other end and the answer to it are one step when the
answer arrives; otherwise the request goes to `late` and `Arrive` delivers it at
any time. What is abstracted: an image is a name, and `Class` says what the code
will find out about it; the keychain and the containerd lookup only matter
through "can it be pulled"; texts and levels of reports are left out.

The agent is external and four things about it cannot be read from `src/`:

* whether it grants a reservation to the collector that already has it
  (`AgentKnowsCaller`; the request carries no identity, only its connection does);
* when it lets reservations expire (`LapseMode`: never, never while the holder
  works on the image, at any time);
* which mirrors a grant of an image may name (`Mirrors[i]`, which holds `i` itself
  if the answer may name none);
* under which reference it files a name (`Filed[i]`), whether it is asked about,
  reserved, sent to the output or marked.

The runs and theorems name what they use. Of the last two everything depends that
is said about an image with a mirror, because the code asks about it under its own
name and marks it under the mirror's (`watcher.go` 148, 177-180, 205, `service.go`
58). `Traced(k)` says that what is filed as `k` when reserved is what is filed as
`k` when marked. It is true of every image without a mirror if the agent files each
reference by itself, and of an image with a mirror only if the agent files the two
together. Where it is not, the model does what the code does: the reservation of
the asked name is never used up, and after it has expired the image is granted,
scanned and sent again, without any fault. `OneExtraPerLostAnswer`,
`ReservationsAreUsed` and the ledger (`Followed`) are therefore about traced
references; `ProcessedWasDelivered`, `OneWorkerPerImage`, `NoPodDropped` and
`NearerToIdle` need nothing of the kind; `SleepMeansDone` and `EventuallyProcessed`
take the mark of a mirror the agent may name for the image's (`Done`). `Collector`
has the names themselves.

A pod in the cache is what the predicate tells apart: its state, whether it has
started with all image IDs known (`whole`), and a token for phase, conditions and
image IDs (`shows`). A pod that appears after the initial list is not made ready
(`Passes`), whole or not; that this may lose one is `PodFeed`'s finding. So
`NoPodDropped` is about a pod once it is in hand, in the queue or in a pass: no path
of `Reconcile`, event, error or restart takes it out while it is to be looked after.

`extra`, `unanswered` and `owed` are observations. `unanswered` counts, for each
reference, the sends and marks that were left without an answer in a way that may
have taken (or not taken) effect; `extra` counts the SBOMs of it after the first, up
to `MaxExtra`; `owed` has the images that the last pass over a pod listed and did not
give up for a failed scan or a bad mirror. A request carries a number, that of the
fault that left it behind, so that two copies of one request are two.

### PodFilter and PodFeed

An object is what the filters tell apart: namespace, node, phase, conditions,
image IDs of the three kinds of containers, when each container ended and
whether the pod is older than the collector. `Transform` and `Wanted` are the
code's conditions in its order. The API server's pod takes steps a pod can take:
bound once while pending, phases in one direction, image IDs resolved at any
time. `Apply` and `Handle` are the informer and the handler; they run one after
the other but not in lockstep, so a reconcile reads a cache that is ahead of the
notification that caused it. A relist delivers an add as a create that is not
part of the initial list. A restart gives all pods the age "early", empties the
queue and lists again.

A pass takes time here too: `Reconcile(p)` reads the cache and makes the worker
`busy` with the pod, the cache moves on, and `Finish(p)` puts the pod back after
a delay, or at once if it has been notified meanwhile. What happens in the pass
is `Delivery`'s. That the two modules use one and the same work queue is said by
`WorkQueue`, which both implement (`ImplementsQueue`): an event or the end of a
delay makes an entry ready, the free worker takes a ready one, and what it holds
comes back. There is one entry per pod, as in the priority queue that
controller-runtime 0.24 (`go.mod`) uses by default.

### SbomGenerator

An attempt ends with a source or with an error whose text contains any subset of
the phrases the code looks for; the order of the code's tests decides. The retry
counter, the platform and the attempts are the state.

### Startup, Keychain and Collector

`Delivery` looks at a pass from the agent and abstracts an image to what the code
will find out about it. `Collector` looks at one collector and works that out:
which environment it has, which pods it sees, with which credentials, which
images a pod has, under which names they are asked about, looked for and sent.

| in the code | action |
|---|---|
| `main.go` 89-143 environment, 145-155 clients of the API server | `ParseEnvironment`, `NoKubeconfig` |
| 157-160 the own node; the error is only logged | `GetNodeNameForPod`, `NodeNameUnknown` |
| 162-206 agent's client and configuration, output, manager | `NewAgentClient`, `GetCollectorConfig`, `BadCollectorConfig`, `NewOutputClient`, `NewManager` |
| 345-386 patterns, containerd (dropped when it does not answer) | `CompileExcludedImageNames`, `NewContainerdClient`, `NoContainerdClient` |
| 388-430 watcher, start, and the failures reported before the exit | `SetupWatcher`, `StartManager`, `SetupFails`, `ReportFailure` |
| the process and the kubelet (external) | `Killed`, `Restarted` |
| `watcher.go` 244-253 permission | `StartKeychain` |
| 255-260, 270-276 service accounts | `GetPodAccount`, `GetCollectorAccount` |
| `kubernetes_secrets.go` 25-37 one secret after the other | `SecretFound`, `SecretNotFound`, `SecretFails` |
| `watcher.go` 262-292, `kubernetes_secrets.go` 37: an owner's keychain, or the one without a client | `AddChain`, `ChainFails` |
| `watcher.go` 294-297 mounted files, default keychain | `AddMountedKeychain`, `HandOverKeychain` |
| 110-146 the lists, what is left out | `ListImages`, `SkipStatus`, `SkipImage` |
| 148-182 status, containerd, mirror | `GetImageStatus`, `ResolveContainerdImage`, `UseMirror` |
| 184-217 scan and submission, `config.go` 59-130 | `GenerateAndSend`, `ScanFails`, both with `LoadConfig` |
| 220-231 | `Return` |

`PassLost` ends a pass with the manager or the process; the configuration of
scans goes with the process only.

A reference is the record of its parts, a name the sequence of what is between
its slashes; the code's prefixes and hosts are compared as parts. An image ID is a
digest, alone or behind a name, or nothing (`IsImageID`, as the comment of
`ParseImageDigest` has it; of a name without a digest the code would return the
name). A keychain is what it answers for each registry, so precedence is `Layer`.
The keychain that `k8schain` makes of an owner's secrets goes on with what needs no
secret, the docker configuration of the collector and the clouds' keychains
(`Machine`), before the next owner's is asked; without the permission there is one
of these alone. The mounted files come after all of them, and the docker
configuration again at the very end. `images` keeps each
image at the place of its status. `Infos` are the answers containerd may give:
the name is the container's, the digest and content are what that name stands
for by now. `sent` and `reads` are observations. A digest stands for the content
it names: what a scan finds under a digest is that image, what it finds under a
name may be any (`Found`).

The selector, the transform and the predicate are in `PodFilter` as they treat a
pod, and in `Startup` (`SelectsPod`, `StripsPod`, `RefusesPod`) as they depend on
what main has found out about its node.

## 3. What is checked

| run | instance | shows |
|---|---|---|
| `delivery_faults` | 2 collectors with a pod each, 2 images in both, one pulled from a mirror that the agent files with it, 2 faults, reservations expire unused | `OneWorkerPerImage`, `OneExtraPerLostAnswer`, the refinement `ImplementsLedger`, `TypeOK` |
| `delivery_pods` | 1 collector, 2 pods of 4 contents with 5 classes of images and a mirror filed apart, 2 changes, 1 fault, 1 rotation, reservations expire at any time, holder not recognised | `ProcessedWasDelivered`, `NoPodDropped`, `SleepMeansDone`, `ImplementsQueue` |
| `delivery_live` | 2 replicas, 1 pod of 2 contents, with a bad mirror and a mirror filed apart, 1 fault, fairness | `EventuallyProcessed`, `NearerToIdle`, `ReservationsAreUsed` |
| `pod_feed` | 1 pod, 20 shapes of it, 3 changes, 1 gap of the watch, 1 restart, fairness | `NoLostWakeup`, `OnlyRelistsHide`, `OnlyOwnExamined`, `EventuallyExamined`, `ImplementsQueue`, `TypeOK` |
| `sbom_generator` | the code's `maxRetries`, all platforms, all mixtures of errors | `AttemptsBounded`, `PlatformKept`, `TypeOK` |
| `collector` | 9 environments, 2 faults, 2 pods (one with six containers on the own node, one elsewhere), 2 mirrors (one does not parse), 2 digests, 3 contents of containerd, 3 files of the scan, 3 mounted files, fairness | `RunsIfValid`, `NearerToRunning`, `NeverRunsInvalid`, `OthersOnlyUnnamed`, `ScopesAgree`, `OwnCredentialsFirst`, `NamedSecretsOnly`, `ListedAsReported`, `OneIdentity`, `SentAsAsked`, `PlatformIsItsOwn`, `OnlyNamesDrift`, `TypeOK` |
| `stale_token` | 1 collector, 1 rotation, no fault | violates `SubmissionEnds` |
| `once_per_cluster` | 2 replicas, 1 image, 1 fault | violates `EachImageOnce` |
| `create_is_transient` | 1 pod, 1 gap of the watch | violates `CreatesAreTransient` |
| `sbom_backoff` | as `sbom_generator` | violates `BackoffIsExponential` |
| `other_nodes_pods` | 1 fault at the start | violates `OwnNodeOnly` |
| `excluded_example` | the README's pattern, no fault | violates `LibraryExcluded` |

Why the bounds are enough. Two collectors are all a race for an image needs;
what a third adds is another loser. Two images let one go wrong and the next go
well in the same pass, which is where counted and uncounted errors differ; two
faults let a retry fail again, or a crash follow a lost answer. The run is taken
modulo `Swapping`: a collector changes place with the other one together with its
pod, which maps `OwnPods` to itself. `MaxExtra` is 3 where duplicates are counted: two
lost answers explain two, so a third would show. In the other passing runs it is 0,
since nothing there reads the count. Two changes let
a pod change during the pass that its first change caused, and become whole one
change after it started. The mirror is filed with its image in `delivery_faults` and
apart from it in `delivery_pods` and `delivery_live`, so both kinds of agent are met. In the feed, three
changes take a pod from unbound to running with a late image ID; pods do not
interact there except through the order of one stream, so one pod is enough. The
retries of the generator are the code's own fifteen. `PodFeed`'s safety is proved
for any number of pods; the run is where its formulas were found out, and where
its liveness is checked.

In `collector`, two faults are enough to lose the node's name and containerd in one
start, or to lose a start and the one after it. The first pod has a status for
each way through the list and the names: a reference pinned to another digest
than the status', one that does not parse, a status without a reference in the
spec, one without an image ID, one with neither, and an excluded registry. The
secrets have each of Docker Hub's three names once, one secret with two of them,
and one for another registry; every lookup may fail. For that other registry the
collector's docker configuration and a cloud have credentials too, for Docker Hub
neither has, so that the machine's come before the collector's for one and not for
the other. The environments take each
branch of main, valid and invalid.

The six violations are disagreements between the program and what it says of
itself (`findings` in `PROJECT.json`): a token that is repeated stale, images
processed at least once instead of once, creates that are dropped as incomplete
when they are complete, a backoff that is linear, a collector of the DaemonSet
that watches every node after one failed lookup, and an example of an excluded
name that excludes nothing. `NoLostWakeup` and
`EventuallyExamined` except exactly the pods of the third one, in `unheard`.

### Fairness

* `WF(Work(c))`: a worker goes on. This includes that each call is answered with
  200 after finitely many other answers; the code repeats without limit, so
  without it nothing ends. `Send` is part of it only while its token is valid.
* `SF(Take(c, p))`: the work queue is first in, first out, so a ready pod is
  taken although the worker is busy with another one again and again.
* `WF(Due(c, p))`: delays end. `WF(Lapse(k))`: a reservation nobody uses expires
  in the end. This one is the agent's; without it a failed scan would keep its
  image reserved for ever.
* `WF(Relist)`, `WF(Apply)`, `WF(Handle)`: client-go lists again after a broken
  watch and goes through what it has received in order.
* `SF(Reconcile(p))`, `WF(Finish(p))`, `WF(Due(p))`: as in `Delivery`, the queue is
  first in, first out, a pass ends, and so does a delay.
* `WF(Start)`: main goes on, the agent hands out its configuration in the end
  (the client asks until it does), a last report ends, and the kubelet starts an
  exited container again. Nothing is assumed of passes: `RunsIfValid` does not
  need them.

No fairness is assumed of faults, events, rotations or late requests.

## 4. What is proved

`DeliveryProofs`, about `Spec`, for all values of the constants:

* `TypeCorrect`: `[]TypeOK`. It includes `PassOK`: a pod is held exactly during
  a pass and an image while one is worked on, without which `Head(todo[c])` means
  nothing. It is inductive.
* `ProcessedAreDelivered`: `[]ProcessedWasDelivered`. Not inductive alone: a mark
  may be on the wire or late. `MarkBacked` adds that a worker at "mark" and every
  late mark is for an image the output already has.
* `ScansAreExclusive`: `[]OneWorkerPerImage`, if reservations do not expire at
  any time. Follows from `HoldsItsImage`: who works on an image is its holder.
  The proof needs that a late status request cannot move a reservation, since a
  held one is granted to its holder at most.
* `PodsAreKept`: `NoPodDropped`, an action property, one step at a time from `TypeOK`:
  a request taken off the queue of a live pod begins a pass or is an error's; a pass
  that ends gives its pod back (`Result`); a restart finds every whole pod in the
  initial list.
* `DuplicatesAreExplained`: `[]OneExtraPerLostAnswer`, under the assumption of
  `ScansAreExclusive`. `ExtrasPaid` keeps an account of every traced reference: the
  SBOMs that were too many, the sends of it that are still late, and one more if it
  may be sent `Again`, together never exceed its lost answers. `Again` says: it has
  been received, and a worker is on the way to a send of it, or it is not processed
  and no worker is about to mark it. A send pays the one for the extra it causes, a
  lost answer brings in one for what it leaves open. That a worker which sends as `k`
  has reserved `k` is `TracedKey`.
* `OnceWithoutFaults`: as long as nothing has failed, nothing is received twice of a
  traced reference, under the same assumption. It is what remains true of the
  README's "each image only once" (`once_per_cluster` shows that one lost answer
  breaks it), and follows from `DuplicatesAreExplained` because only a fault loses an
  answer (`LossesAreFaults`).

`SleepProofs`:

* `SleepIsEarned`: `[]SleepMeansDone`, whatever the agent's reservations do and
  however it files names. `PassOwes` says that what a pass without a reason to come
  back owes and has not done is still before it. The images owed are those the pass
  listed, so a change of the pod during the pass does not enter.
* `PassesComeToAnEnd`: `NearerToIdle`. Every step of a replica's worker but a request that
  is repeated brings its pass nearer to its end: eight for each image left and the place
  of its stage among the eight, whatever the agent and the output answer. It is the
  half of `EventuallyProcessed` that needs no fairness: a worker cannot go round in
  a pass.
* `ReservedIsInWork`: `[]ReservationsAreUsed`: unless something has failed, a
  reservation that is not marked is in its holder's hands, or one of the images filed
  there cannot be scanned, or has a mirror filed elsewhere (it then stays until it
  expires). `Quiet` says that nothing is late before the first fault, so no
  reservation is made for a worker that has given up. This is what lets a refused pod
  wait for the holder.

`LedgerProofs`:

* `LedgerImplemented`: `ImplementsLedger`, i.e. `Spec => Ledger!LSpec`, under the
  assumption of `ScansAreExclusive`, for the ledger of the `Followed` references. The
  mapped `scanner` is well defined because of `HoldsItsImage`; a step of a worker is a
  claim, a receipt, a finish, a release, a stray request or a stutter, and a stutter
  whenever it is about a reference that is not followed; a late request is covered by
  `ExtrasPaid` (its reference has a lost answer, so it is astray) and `MarkBacked`.
* `QueueImplemented`: `ImplementsQueue` of `Delivery`, whatever fails. `NotPutOff` says
  that a pod whose pass is under way has no delayed entry.

`PodFilterProofs`, about any two objects with finite maps of statuses and
conditions:

* `RefusedUpdateIsNoNews`: a wanted object whose update is refused has the old
  one's phase, conditions and image IDs; comparing sizes and looking up the new
  entries is equality. (Names are unique in the API's lists of statuses and
  conditions, which is why they are maps here.)
* `StubNeverHidesUpdate`, `WantedIsKept`: the stub in the cache hides no change,
  and transform and predicate agree but for pods that were over early.
* `TransformIsIdempotent`, `KeptIsWanted`: transforming what is cached changes
  nothing (the informer may do it again), and what the transform keeps whole is what
  the predicate of a create lets through.

`PodFeedProofs`, about `Spec`, for any pods, objects, changes, gaps and restarts:

* `TypeCorrect`: `[]TypeOK`.
* `OthersAreNotExamined`: `OnlyOwnExamined`. What is cached is absent, a stub, or an
  object the transform has kept (`CachedForm`), and a reconcile stops at the first
  two.
* `NoWakeupIsLost`: `[]NoLostWakeup`. Three facts are needed along the way from the
  API server to the worker. `StreamInStep`: the last change of a pod in the
  stream, or the cache if there is none, has what the API server has, as long as
  the watch delivers; a relist re-establishes it for all pods. `NotesChained` and
  `NotesReachIndex`: the notifications of a pod form a chain, the old object of
  each the new one of the one before, that ends with the cache. `NoneAsleep`: if
  what the handler has seen last of a pod is wanted, its reconcile is to come, or
  the last pass has read the images handled, or there is a pending notification
  that brings what the pass has read or an unwanted object, after which the
  next wanted one passes. A refused notification keeps this because of
  `FirstWantedPasses` and `RefusedKeepsImages`, which rest on `PodFilterProofs`.
* `CreatesAreYoung`: `[]OnlyRelistsHide`, the bound on what `CreatesAreTransient`
  shows. As long as the watch has not been listed again (`Unbroken`), the first
  change to come of a pod that is not cached, the one after its deletion, and
  every create that waits to be handled are of a pod not yet to be scanned
  (`Young`): the pod was created pending, or was bound to the node while pending.
* `FeedUsesQueue`: `ImplementsQueue` of `PodFeed`, from the type invariant.

`SbomProofs`:

* `TypeCorrect`, `PlatformIsKept`: the types, and `[]PlatformKept`.
* `AttemptsAreBounded`: `[]AttemptsBounded` for every `MaxRetries`. The invariant
  counts: attempts are at most retries, plus changes of the platform already
  made, plus the last one; each platform has a number of changes left.

`CollectorProofs`, about `Spec` of `Collector`, for any environments, pods,
mirrors, files and answers of containerd:

* `TypeCorrect`: `[]TypeOK`, inductive: a pass exists only while main runs, an image
  is worked on only where there is one, and lookups are on exactly while the
  pass is at its keychain.
* `InvalidNeverRuns`: `[]NeverRunsInvalid`. `Checked` says what main has checked by
  the time it is at a step.
* `OnlyUnnamedSeeOthers`: `[]OthersOnlyUnnamed`, what remains true of the README's
  `OwnNodeOnly`. `Scoped` says that past the lookup main has its node's name or
  something has failed, and that the pod of a pass is one the selector lets
  through, with what main knew when the pass began and knows still.
  `FiltersAgree` (`[]ScopesAgree`) follows from the definitions of the three filters.
* `MainGoesOn`: `NearerToRunning`. `Distance` orders main's steps from a reported
  failure to running; each step main takes of its own is downward. With `WF(Start)`
  and a bounded number of faults this is why `RunsIfValid` holds.
* `WhatIsSentWasAsked`, `PlatformOfTheImage`, `DriftOnlyByName`: `[]SentAsAsked`,
  `[]PlatformIsItsOwn`, `[]OnlyNamesDrift`. `ImagesOK` says of every image that its
  platform is its own and that it is looked for by its own digest, unless
  containerd was asked; `WorkOK` that the image worked on has the digest and the
  name the agent was asked about, until a mirror replaces its name.
* `ImagesHaveOneIdentity`: `[]OneIdentity`. Every name an image ever has comes from
  parsing one text (`Named`), and two texts with the same registry and repository
  have the same shorthand name (`NamesDetermine`, by cases on the registry: Docker
  Hub's, Google's, or another).
* `ImagesAreReported`: `[]ListedAsReported`. `Listed` says that images keep the place,
  container and digest of their status whatever the pass does to them.
* `FullNamesAreStable`: an image's full name, parsed again, is the same identity.

`CredentialProofs`:

* `OnlyNamedSecrets`: `[]NamedSecretsOnly`. `NamesOK` bounds the names still unread at
  each lookup.
* `CredentialsHaveTheirOrder`: `[]OwnCredentialsFirst`, for whatever the default and the
  clouds' keychains answer. `CredentialsOK` says, lookup by lookup, that what is held
  so far is what the secrets read so far offer, that a failure has emptied both, and
  that the keychains made so far answer in the order in which they were made; `AnswersSays` that normalizing a secret gives a
  name of Docker Hub credentials of one of its names and its own if it has them.
* `AliasesAreFilledIn`: a normalized secret has its credentials for Docker Hub under
  every name the code knows, if it has any.

Assumed: the named assumptions of the modules on their constants, nothing else.
`ShapesAssumption` says that objects have finite lists, `CollectorAssumption` that
container IDs are unique in a pod and that a node has a name, `KeychainAssumption`
that every credential is one, `FeedAssumption` that the API server creates pods
pending (it resets the status of what it is given).

Only model-checked: the liveness properties (beyond the prover), which are
`EventuallyProcessed`, `EventuallyExamined` and `RunsIfValid`. (`SubmissionEnds` is
stated for the run that violates it.)
Every invariant and every other action property of a passing run is a theorem.

## 5. What is not modelled, and what could follow

Not modelled:

* what the keychains of cloud providers and the default one answer: constants of
  `Keychain`, which has their places in the order;
* the options of the scan's file other than its sources, and what the scanning
  library does with them;
* containerd itself and the index of its contents, beyond what the resolver reads
  of them; that a node's containerd may hold an image only in part shows as
  `exists`;
* the texts and levels of logs and reports, health probes, metrics, the build and
  deployment files;
* an HTTP call that never returns, and an error report that is repeated for ever. The
  clients set no timeout and no limit; fairness excludes both, so no property is about
  them;
* the check for AKS' own pods, which ends a pass at its beginning and is part of
  `SkipPod` in `Delivery`.

The agent, the output and the API server are modelled from what the collector
asks of them. What the agent does beyond that are constants of `Delivery`; which
mirror it names is free in `Collector`. Whether a real agent files a mirror with its
image is not known here: `Filed` leaves it open, and section 2 says what follows if
it does not.

What could follow: `PodFeed` and `Delivery` in one composition. `PodFeed` says that
a pod is passed over with its images, `Delivery` that a pass leaves nothing
behind; the two meet at a pass's beginning and end, which both have, and neither
reads the other's state in between. An instance of `PodFeed` with two pods for its
liveness would exercise the fairness of the queue, which `Delivery` does now.
