----------------------------- MODULE Collector -----------------------------
(***************************************************************************)
(* One collector from its start to its passes over pods: what main has     *)
(* decided (Startup) meets what Reconcile does with a pod before and after *)
(* it asks the agent about an image: the credentials (Keychain), the       *)
(* images (ImageResolver) and the file that configures the scan            *)
(* (pkg/sbom/config.go). What the agent, the output and several collectors *)
(* do to each other is Delivery's, the retries of a scan SbomGenerator's.  *)
(***************************************************************************)
EXTENDS Startup, Keychain, ImageResolver

CONSTANTS Pods,                \* pods as the cache has them
          InfrastructureHosts, \* the hosts excludedRegistries names
          Mirrors,             \* texts the agent may name as mirrors
          Digests,             \* digests images may have
          Contents,            \* contents images may have in containerd
          ConfigFiles          \* what the file of the scan may hold

NoPod == [name |-> "none"]

ASSUME CollectorAssumption ==
  /\ MaxFaults \in Nat
  /\ OwnNode # ""
  /\ NoPod \notin Pods
  /\ \A p \in Pods :
       /\ p.ns \in DOMAIN SecretAuths
       /\ p.pullSecrets \in Seq(STRING)
       /\ \A c \in DOMAIN p.spec : IsText(p.spec[c])
       /\ \A k \in DOMAIN p.statuses : IsImageID(p.statuses[k].imageID)
       /\ \A j, k \in DOMAIN p.statuses :
            p.statuses[j].containerID = p.statuses[k].containerID => j = k
  /\ \A t \in Mirrors : IsText(t)

VARIABLES stage,   \* where the pass is
          pod,     \* its pod
          images,  \* its images, by the place of their status
          at,      \* the status it is at
          asked,   \* the name and digest the agent was asked about
          mirror,  \* the mirror it named
          config,  \* the configuration of scans, read once in a process
          sent     \* the last SBOM sent in the pass, with what it was made from
                   \* (an observation, never read by the program)

passVars == <<stage, pod, images, at, asked, mirror, sent>>
vars == <<startVars, keyVars, passVars, config>>

NoImages == <<>>
NoImage == [name |-> <<>>, digest |-> ""]
NoText == [scheme |-> "", host |-> "", path |-> <<>>, tag |-> "", digest |-> ""]
NotSent == [name |-> <<>>, digest |-> "", reference |-> ByDigest(<<>>, ""), platform |-> NoPlatform, of |-> ""]
NotRead == [read |-> FALSE, from |-> {}]

PassInit ==
  /\ stage = "idle" /\ pod = NoPod /\ images = NoImages /\ at = 1
  /\ asked = NoImage /\ mirror = NoText /\ sent = NotSent

PassEnds ==
  /\ stage' = "idle" /\ pod' = NoPod /\ images' = NoImages /\ at' = 1
  /\ asked' = NoImage /\ mirror' = NoText /\ sent' = NotSent

-----------------------------------------------------------------------------
(* A pass begins, and lists its images. *)

\* What the cache hands out: pods of the selector that are not stripped.
Reconcile(p) ==
  /\ step = "running"
  /\ stage = "idle"
  /\ SelectsPod(p.node) /\ ~StripsPod(p.node)
  /\ stage' = "keychain"
  /\ pod' = p
  /\ StartKeychain(HasSecretsPermission, p.pullSecrets)
  /\ UNCHANGED <<images, at, asked, mirror, sent, config>>

GetKeychain == /\ stage = "keychain"
               /\ KeychainStep(pod.ns)
               /\ UNCHANGED <<passVars, config>>

ListImages ==
  /\ stage = "keychain"
  /\ HandOverKeychain
  /\ stage' = "image"
  /\ images' = ListPodUsedImages(pod, ListImageReferencesByContainer(pod.spec))
  /\ UNCHANGED <<pod, at, asked, mirror, sent, config>>

-----------------------------------------------------------------------------
(* The loop over the images. *)

AtImage == stage = "image" /\ at \in DOMAIN images
Image == images[at]

FromExcludedRegistry(r) == \E k \in DOMAIN ShorthandName(r) : ShorthandName(r)[k] \in InfrastructureHosts

\* No digest, an excluded registry, an excluded name in either form.
LeftOut(r) == \/ r.digest = ""
              \/ FromExcludedRegistry(r)
              \/ Match(env.excluded, ShorthandName(r)) \/ Match(env.excluded, Name(r))

NextImage == stage' = "image" /\ at' = at + 1

\* A status whose image could not be listed.
SkipStatus ==
  /\ stage = "image"
  /\ at \in DOMAIN pod.statuses \ DOMAIN images
  /\ NextImage
  /\ UNCHANGED <<pod, images, asked, mirror, sent, keyVars, config>>

SkipImage ==
  /\ AtImage
  /\ LeftOut(Image.ref)
  /\ NextImage
  /\ asked' = NoImage /\ mirror' = NoText /\ sent' = NotSent
  /\ UNCHANGED <<pod, images, keyVars, config>>

\* The agent is asked, and it grants the image, perhaps naming a mirror of it;
\* or the image is left because it is processed, reserved or in error.
GetImageStatus ==
  /\ AtImage
  /\ ~LeftOut(Image.ref)
  /\ asked' = [name |-> ShorthandName(Image.ref), digest |-> Image.ref.digest]
  /\ sent' = NotSent
  /\ \/ /\ mirror' \in Mirrors \cup {NoText}
        /\ stage' = "resolve"
        /\ UNCHANGED at
     \/ NextImage /\ mirror' = NoText
  /\ UNCHANGED <<pod, images, keyVars, config>>

\* What containerd may say of a container's image: its name is the one the
\* container has; what the name stands for may have changed since, unless it is
\* a digest.
Infos(id) == {info \in [name : {id.image}, digest : Digests, content : Contents] :
                id.image.digest \in {"", info.digest}}

\* Mutated form: the digest of containerd's image is taken over.
ResolveToLocalDigest ==
  /\ stage = "resolve"
  /\ \E info \in Infos(Image.containerID), exists \in {"yes", "no"} :
       images' = [images EXCEPT ![at].ref.digest = info.digest]
  /\ stage' = "mirror"
  /\ UNCHANGED <<pod, at, asked, mirror, sent, keyVars, config>>

\* On a node with containerd its image is looked up there, unless that fails.
ResolveContainerdImage ==
  /\ stage = "resolve"
  /\ \/ UNCHANGED images
     \/ /\ client = "open" /\ IsContainerdContainer(Image.containerID)
        /\ \E info \in Infos(Image.containerID), exists \in {"yes", "no"} :
             images' = [images EXCEPT ![at] = Resolved(Image, info, exists)]
  /\ stage' = "mirror"
  /\ UNCHANGED <<pod, at, asked, mirror, sent, keyVars, config>>

\* The mirror's names replace the image's; one that does not parse ends its turn.
Mirrored(img, t) ==
  LET m   == ParseImageReference(t)
      ref == [img.ref EXCEPT !.registry = m.registry, !.repository = m.repository,
                             !.shorthandRegistry = m.shorthandRegistry,
                             !.shorthandRepository = m.shorthandRepository]
  IN [img EXCEPT !.ref = ref, !.imageNameReference = NameWithDigest(ref)]

UseMirror ==
  /\ stage = "mirror"
  /\ IF mirror = NoText THEN stage' = "scan" /\ UNCHANGED <<images, at>>
     ELSE IF IsReference(mirror)
       THEN /\ images' = [images EXCEPT ![at] = Mirrored(Image, mirror)]
            /\ stage' = "scan"
            /\ UNCHANGED at
       ELSE NextImage /\ UNCHANGED images
  /\ UNCHANGED <<pod, asked, mirror, sent, keyVars, config>>

-----------------------------------------------------------------------------
(* The scan. *)

AllowedSources == {"containerd", "docker", "podman", "registry"}

\* A file that is absent, does not parse or names another source counts as none.
readCreateSBOMConfig(file) ==
  IF file.parses /\ file.from \subseteq AllowedSources
    THEN [read |-> TRUE, from |-> file.from] ELSE [read |-> TRUE, from |-> {}]

\* Once in a process; what came of it stays, an error too. SbomGenerator says
\* what the sources named there are for.
LoadConfig == IF config.read THEN UNCHANGED config
              ELSE \E file \in ConfigFiles : config' = readCreateSBOMConfig(file)

\* What is found (external): under a digest, that image; under a name, what the
\* name stands for now, on the node or in the registry.
Found(reference) == IF reference.digest # "" THEN {reference.digest} ELSE Digests

\* The SBOM is sent and the image marked, under its name and its digest.
GenerateAndSend ==
  /\ stage = "scan"
  /\ LoadConfig
  /\ \E found \in Found(Image.imageNameReference) :
       sent' = [name |-> ShorthandName(Image.ref), digest |-> Image.ref.digest,
                reference |-> Image.imageNameReference, platform |-> Image.imagePlatform,
                of |-> found]
  /\ NextImage
  /\ UNCHANGED <<pod, images, asked, mirror, keyVars>>

\* The image cannot be pulled or scanned, or the SBOM not be sent.
ScanFails ==
  /\ stage = "scan"
  /\ LoadConfig
  /\ NextImage
  /\ UNCHANGED <<pod, images, asked, mirror, sent, keyVars>>

Return ==
  /\ stage = "image"
  /\ at \notin DOMAIN pod.statuses
  /\ PassEnds
  /\ UNCHANGED <<keyVars, config>>

-----------------------------------------------------------------------------
(* The whole. *)

PassNext ==
  /\ step = "running"
  /\ \/ (\E p \in Pods : Reconcile(p)) \/ GetKeychain \/ ListImages
     \/ SkipStatus \/ SkipImage \/ GetImageStatus \/ ResolveContainerdImage \/ UseMirror
     \/ GenerateAndSend \/ ScanFails \/ Return
  /\ UNCHANGED startVars

\* Mutated form: passes go on until main exits.
PassLostAtExit ==
  IF step' = "exited"
    THEN /\ PassEnds
         /\ KeychainEnds
         /\ config' = NotRead
    ELSE UNCHANGED <<passVars, keyVars, config>>

\* With the manager the pass ends, and with the process what it has read.
PassLost ==
  IF step' \in {"failing", "exited"}
    THEN /\ PassEnds
         /\ KeychainEnds
         /\ config' = IF step' = "exited" THEN NotRead ELSE config
    ELSE UNCHANGED <<passVars, keyVars, config>>

Start == StartWork /\ PassLost

Fail == StartFaults /\ PassLost

Init == StartInit /\ KeychainInit /\ PassInit /\ config = NotRead

Next == Start \/ Fail \/ PassNext

Spec == Init /\ [][Next]_vars

\* main goes on, which includes that the agent hands out its configuration in
\* the end, and the kubelet starts what has exited.
FairSpec == Spec /\ WF_vars(Start)

-----------------------------------------------------------------------------
(* Properties. *)

Texts == Mirrors \cup {NoText}
Statuses(p) == Range(p.statuses)

\* Types, and: where a pass is says what it has.
TypeOK ==
  /\ env \in Environments
  /\ step \in Steps
  /\ node \in {"", OwnNode}
  /\ client \in {"nil", "open"}
  /\ faults \in 0..MaxFaults
  /\ stage \in {"idle", "keychain", "image", "resolve", "mirror", "scan"}
  /\ pod \in Pods \cup {NoPod}
  /\ stage = "idle" <=> pod = NoPod
  /\ stage # "idle" => step = "running"
  /\ stage \in {"resolve", "mirror", "scan"} => at \in DOMAIN images
  /\ stage = "keychain" <=> look # "none"
  /\ mirror \in Texts
  /\ config \in [read : BOOLEAN, from : SUBSET AllowedSources]

\* What makes an environment one main can run with.
Valid == /\ env.podName /\ env.json /\ env.agentURL
         /\ env.secretsAccess # "garbled"
         /\ CompileNamePatterns(env.excluded)

\* A collector runs in the end if its environment is valid, whatever goes wrong
\* on the way a finite number of times, and never if it is not.
RunsIfValid == Valid ~> step = "running"
NeverRunsInvalid == step = "running" => Valid

\* How far main is from running, along its way without failures.
Distance == [running |-> 0, start |-> 1, watcher |-> 2, containerd |-> 3, patterns |-> 4,
             manager |-> 5, output |-> 6, config |-> 7, agent |-> 8, node |-> 9,
             environment |-> 10, exited |-> 11, failing |-> 12]

\* With a valid environment main never turns back, and never exits or reports a
\* failure, of its own: each of its steps brings it nearer to running, or comes of
\* a failure elsewhere (the safety half of RunsIfValid).
NearerToRunning ==
  [][Valid /\ step' # step => Distance[step'] < Distance[step] \/ faults' > faults]_vars

\* A collector of a DaemonSet passes over a pod of another node only if it could
\* not find out the name of its own (main.go goes on without it): one that has the
\* name passes over pods of its node alone, from start to start.
OthersOnlyUnnamed ==
  RunAsDaemonSet /\ stage # "idle" /\ pod.node # OwnNode => node = "" /\ faults > 0

\* The three filters agree on the nodes whose pods are watched, also when the
\* collector's own node could not be found out.
ScopesAgree ==
  step = "running" => \A on \in {p.node : p \in Pods} :
                        /\ SelectsPod(on) <=> ~StripsPod(on)
                        /\ SelectsPod(on) <=> ~RefusesPod(on)

\* A secret is read only with the permission; under a name the pod, its service
\* account or the collector's gives, in the namespace of who gives it; under a
\* configured name only if the collector's service account cannot be looked up.
NamedSecretsOnly ==
  \A x \in reads :
    /\ HasSecretsPermission
    /\ x.by = "pod" => /\ x.ns = pod.ns
                       /\ x.name \in Range(pod.pullSecrets) \cup Range(lookup.pod.names)
    /\ x.by = "collector" =>
         /\ x.ns = CollectorNamespace
         /\ x.name \in IF lookup.collector.ok THEN Range(lookup.collector.names)
                       ELSE Range(ConfiguredSecrets)

\* Each container status of a pod gives one image, with the digest that status
\* reports, or is one that neither the spec nor its image ID names an image for.
ListedAsReported ==
  stage \in {"image", "resolve", "mirror", "scan"} =>
    /\ \A s \in Statuses(pod) :
         LET mine == {k \in DOMAIN images : images[k].containerID = s.containerID} IN
         IF (s.name \in DOMAIN pod.spec /\ IsReference(pod.spec[s.name]))
              \/ s.imageID.path # <<>> \/ s.imageID.digest # ""
           THEN Cardinality(mine) = 1 /\ \A k \in mine : images[k].ref.digest = s.imageID.digest
           ELSE mine = {}
    /\ \A k \in DOMAIN images : \E s \in Statuses(pod) : images[k].containerID = s.containerID

\* An image goes by one name at the agent and the output, however its references
\* in specs, image IDs and mirrors are written: two images with the same full name
\* have the same shorthand name.
OneIdentity ==
  \A j, k \in DOMAIN images :
    Name(images[j].ref) = Name(images[k].ref)
      => ShorthandName(images[j].ref) = ShorthandName(images[k].ref)

\* An SBOM is sent, and the image marked, under the name and digest the agent was
\* asked about; only if the agent named a mirror, under the mirror's name.
SentAsAsked ==
  sent # NotSent =>
    /\ sent.digest = asked.digest
    /\ sent.name = IF mirror = NoText THEN asked.name
                   ELSE ShorthandName(ParseImageReference(mirror))

\* The platform asked for is the node's or that of the very image, never that of
\* what containerd now has under the same name.
PlatformIsItsOwn == sent.platform # NoPlatform => sent.platform.of = sent.digest

\* What is sent under a digest was made from the image with this digest; except
\* for an image that is looked for under the name containerd had for it, on a
\* node, and not from a mirror: there the name may stand for another one by now.
OnlyNamesDrift ==
  sent # NotSent /\ sent.of # sent.digest =>
    /\ sent.reference.digest = ""
    /\ RunAsDaemonSet /\ client = "open"
    /\ mirror = NoText

\* When running as a DaemonSet, only caches and reconciles pods assigned to the
\* collector's node (README.md, Pod Filtering).
OwnNodeOnly == RunAsDaemonSet /\ stage # "idle" => pod.node = OwnNode

\* EXCLUDED_IMAGE_NAMES with ["docker.io/library/*", ...], its example, excludes
\* the images of Docker Hub's library (README.md, Image Filtering).
LibraryExcluded ==
  sent # NotSent => ~\E k \in DOMAIN images :
                       /\ images[k].ref.digest = asked.digest
                       /\ images[k].ref.registry = DefaultRegistry
                       /\ images[k].ref.repository[1] = "library"
=============================================================================
