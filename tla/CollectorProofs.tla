--------------------------- MODULE CollectorProofs ---------------------------
(***************************************************************************)
(* Theorems of Collector: its start, and the passes over pods from the     *)
(* images they list to the SBOMs they send, for every pod, mirror, digest, *)
(* content, environment and number of faults.                              *)
(***************************************************************************)
EXTENDS Collector, SequenceTheorems, FiniteSetTheorems, TLAPS

(***************************************************************************)
(* Type correctness. One lemma per group of actions: main's, which end a    *)
(* pass or leave it alone, and those of a pass.                            *)
(***************************************************************************)

StartTypes ==
  /\ env \in Environments
  /\ step \in Steps
  /\ node \in {"", OwnNode}
  /\ client \in {"nil", "open"}
  /\ faults \in 0..MaxFaults

PassTypes ==
  /\ stage \in {"idle", "keychain", "image", "resolve", "mirror", "scan"}
  /\ pod \in Pods \cup {NoPod}
  /\ stage = "idle" <=> pod = NoPod
  /\ stage # "idle" => step = "running"
  /\ stage \in {"resolve", "mirror", "scan"} => at \in DOMAIN images
  /\ stage = "keychain" <=> look # "none"
  /\ mirror \in Texts
  /\ config \in [read : BOOLEAN, from : SUBSET AllowedSources]

LEMMA Types == TypeOK <=> StartTypes /\ PassTypes
  BY DEF TypeOK, StartTypes, PassTypes

LEMMA ConfigTypes ==
  /\ NotRead \in [read : BOOLEAN, from : SUBSET AllowedSources]
  /\ \A file : readCreateSBOMConfig(file) \in [read : BOOLEAN, from : SUBSET AllowedSources]
  <1>1. NotRead \in [read : BOOLEAN, from : SUBSET AllowedSources]
    BY DEF NotRead
  <1>2. ASSUME NEW file
        PROVE  readCreateSBOMConfig(file) \in [read : BOOLEAN, from : SUBSET AllowedSources]
    <2>1. CASE file.parses /\ file.from \subseteq AllowedSources
      BY <2>1 DEF readCreateSBOMConfig
    <2>2. CASE ~(file.parses /\ file.from \subseteq AllowedSources)
      BY <2>2 DEF readCreateSBOMConfig
    <2> QED
      BY <2>1, <2>2
  <1> QED
    BY <1>1, <1>2

LEMMA TypeInit == Init => StartTypes /\ PassTypes
  <1> SUFFICES ASSUME Init PROVE StartTypes /\ PassTypes
    OBVIOUS
  <1>a. MaxFaults \in Nat
    BY CollectorAssumption
  <1>b. StartInit
    BY DEF Init
  <1>1. StartTypes
    <2>1. 0 \in 0..MaxFaults
      BY <1>a
    <2> QED
      BY <1>b, <2>1 DEF StartInit, StartTypes, Steps
  <1>2. PassTypes
    BY ConfigTypes, CollectorAssumption DEF Init, KeychainInit, PassInit, PassTypes, Texts
  <1> QED
    BY <1>1, <1>2

LEMMA StartTypesWork == StartTypes /\ StartWork => StartTypes'
  <1> USE DEF StartTypes, Steps, From, To
  <1> SUFFICES ASSUME StartTypes, StartWork PROVE StartTypes'
    OBVIOUS
  <1>1. CASE ParseEnvironment \/ GetNodeNameForPod \/ NewAgentClient
    BY <1>1 DEF ParseEnvironment, GetNodeNameForPod, NewAgentClient
  <1>2. CASE GetCollectorConfig \/ NewOutputClient \/ NewManager
    BY <1>2 DEF GetCollectorConfig, NewOutputClient, NewManager
  <1>3. CASE CompileExcludedImageNames \/ NewContainerdClient
    BY <1>3 DEF CompileExcludedImageNames, NewContainerdClient
  <1>4. CASE SetupWatcher \/ StartManager \/ ReportFailure \/ Restarted
    BY <1>4 DEF SetupWatcher, StartManager, ReportFailure, Restarted
  <1> QED
    BY <1>1, <1>2, <1>3, <1>4 DEF StartWork

LEMMA FaultType == faults \in 0..MaxFaults /\ Fault => faults' \in 0..MaxFaults
  <1>1. MaxFaults \in Nat
    BY CollectorAssumption
  <1> QED
    BY <1>1 DEF Fault

LEMMA StartTypesFaults == StartTypes /\ StartFaults => StartTypes'
  <1> SUFFICES ASSUME StartTypes, StartFaults PROVE StartTypes'
    OBVIOUS
  <1>1. faults' \in 0..MaxFaults
    BY FaultType DEF StartTypes, StartFaults, NoKubeconfig, NodeNameUnknown, BadCollectorConfig,
                     NoContainerdClient, SetupFails, Killed
  <1> USE <1>1 DEF StartTypes, Steps, From, To
  <1>2. CASE NoKubeconfig \/ NodeNameUnknown \/ BadCollectorConfig
    BY <1>2 DEF NoKubeconfig, NodeNameUnknown, BadCollectorConfig
  <1>3. CASE NoContainerdClient \/ SetupFails \/ Killed
    BY <1>3 DEF NoContainerdClient, SetupFails, Killed
  <1> QED
    BY <1>2, <1>3 DEF StartFaults

\* Only a failure takes main out of "running", and it takes the pass with it.
LEMMA RunningEnds ==
  (StartWork \/ StartFaults) /\ step = "running" => step' \in {"failing", "exited"}
  BY DEF StartWork, StartFaults, From, To, ParseEnvironment, GetNodeNameForPod, NewAgentClient,
         GetCollectorConfig, NewOutputClient, NewManager, CompileExcludedImageNames,
         NewContainerdClient, SetupWatcher, StartManager, ReportFailure, Restarted, NoKubeconfig,
         NodeNameUnknown, BadCollectorConfig, NoContainerdClient, SetupFails, Killed

LEMMA TypeStart == PassTypes /\ (Start \/ Fail) => PassTypes'
  <1> SUFFICES ASSUME PassTypes, Start \/ Fail PROVE PassTypes'
    OBVIOUS
  <1>1. PassLost /\ (step = "running" => step' \in {"failing", "exited"})
    BY RunningEnds DEF Start, Fail
  <1>2. CASE step' \in {"failing", "exited"}
    BY <1>1, <1>2, ConfigTypes DEF PassTypes, PassLost, PassEnds, KeychainEnds, Texts
  <1>3. CASE step' \notin {"failing", "exited"}
    BY <1>1, <1>3 DEF PassTypes, PassLost, passVars, keyVars
  <1> QED
    BY <1>2, <1>3

\* getKeychain goes on until it is ready.
LEMMA KeychainGoesOn ==
  ASSUME NEW ns, look # "none", KeychainStep(ns)
  PROVE  look' # "none"
  BY DEF KeychainStep, GetPodAccount, GetCollectorAccount, SecretFound, SecretNotFound,
         SecretFails, ReadingSecrets, AddChain, ChainFails, ChainDue, After, AddMountedKeychain

LEMMA ConfigType ==
  ASSUME config \in [read : BOOLEAN, from : SUBSET AllowedSources], LoadConfig
  PROVE  config' \in [read : BOOLEAN, from : SUBSET AllowedSources]
  BY ConfigTypes DEF LoadConfig

LEMMA TypePass == PassTypes /\ PassNext => PassTypes'
  <1> SUFFICES ASSUME PassTypes, PassNext PROVE PassTypes'
    OBVIOUS
  <1> step = "running" /\ step' = "running"
    BY DEF PassNext, startVars
  <1>1. ASSUME NEW p \in Pods, Reconcile(p) PROVE PassTypes'
    BY <1>1, CollectorAssumption DEF Reconcile, StartKeychain, PassTypes
  <1>2. CASE GetKeychain
    BY <1>2, KeychainGoesOn DEF GetKeychain, PassTypes, passVars
  <1>3. CASE ListImages
    BY <1>3 DEF ListImages, HandOverKeychain, KeychainEnds, PassTypes
  <1>4. CASE SkipStatus \/ SkipImage
    BY <1>4 DEF SkipStatus, SkipImage, NextImage, AtImage, PassTypes, keyVars, Texts
  <1>5. CASE GetImageStatus
    BY <1>5 DEF GetImageStatus, NextImage, AtImage, PassTypes, keyVars, Texts
  <1>6. CASE ResolveContainerdImage
    BY <1>6 DEF ResolveContainerdImage, PassTypes, keyVars
  <1>7. CASE UseMirror
    BY <1>7 DEF UseMirror, NextImage, PassTypes, keyVars
  <1>8. CASE GenerateAndSend \/ ScanFails
    BY <1>8, ConfigType DEF GenerateAndSend, ScanFails, NextImage, PassTypes, keyVars
  <1>9. CASE Return
    BY <1>9 DEF Return, PassEnds, PassTypes, keyVars, Texts
  <1> QED
    BY <1>1, <1>2, <1>3, <1>4, <1>5, <1>6, <1>7, <1>8, <1>9 DEF PassNext

LEMMA TypeNext == TypeOK /\ [Next]_vars => TypeOK'
  <1>a. TypeOK' <=> StartTypes' /\ PassTypes'
    BY DEF TypeOK, StartTypes, PassTypes
  <1> SUFFICES ASSUME StartTypes, PassTypes, [Next]_vars PROVE StartTypes' /\ PassTypes'
    BY <1>a, Types
  <1>1. CASE UNCHANGED vars
    <2>1. StartTypes'
      BY <1>1 DEF StartTypes, vars, startVars
    <2>2. PassTypes'
      BY <1>1 DEF PassTypes, vars, startVars, keyVars, passVars
    <2> QED
      BY <2>1, <2>2
  <1>2. CASE Start \/ Fail
    BY <1>2, StartTypesWork, StartTypesFaults, TypeStart DEF Start, Fail
  <1>3. CASE PassNext
    <2>1. StartTypes'
      BY <1>3 DEF PassNext, startVars, StartTypes
    <2> QED
      BY <1>3, <2>1, TypePass
  <1> QED
    BY <1>1, <1>2, <1>3 DEF Next

\* Types, and where a pass is says what it has: it is over when the manager ends,
\* and at an image when it works on one (Watcher.Reconcile, main).
THEOREM TypeCorrect == Spec => []TypeOK
  BY Types, TypeInit, TypeNext, PTL DEF Spec

-----------------------------------------------------------------------------
(* The start: what main has checked by the time it is at a step. *)

Parsed == {"node", "agent", "config", "output", "manager", "patterns", "containerd", "watcher",
           "start", "running"}

Checked ==
  /\ step \in Parsed => env.podName /\ env.json /\ env.secretsAccess # "garbled"
  /\ step \in Parsed \ {"node", "agent"} => env.agentURL
  /\ step \in {"containerd", "watcher", "start", "running"} => CompileNamePatterns(env.excluded)

LEMMA CheckedWork == Checked /\ StartWork => Checked'
  <1> USE DEF Checked, Parsed, From, To
  <1> SUFFICES ASSUME Checked, StartWork PROVE Checked'
    OBVIOUS
  <1>1. CASE ParseEnvironment
    BY <1>1 DEF ParseEnvironment
  <1>2. CASE GetNodeNameForPod \/ NewAgentClient
    BY <1>2 DEF GetNodeNameForPod, NewAgentClient
  <1>3. CASE GetCollectorConfig \/ NewOutputClient \/ NewManager
    BY <1>3 DEF GetCollectorConfig, NewOutputClient, NewManager
  <1>4. CASE CompileExcludedImageNames
    BY <1>4 DEF CompileExcludedImageNames
  <1>5. CASE NewContainerdClient \/ SetupWatcher \/ StartManager
    BY <1>5 DEF NewContainerdClient, SetupWatcher, StartManager
  <1>6. CASE ReportFailure \/ Restarted
    BY <1>6 DEF ReportFailure, Restarted
  <1> QED
    BY <1>1, <1>2, <1>3, <1>4, <1>5, <1>6 DEF StartWork

LEMMA CheckedFaults == Checked /\ StartFaults => Checked'
  BY DEF Checked, Parsed, From, To, StartFaults, NoKubeconfig, NodeNameUnknown,
         BadCollectorConfig, NoContainerdClient, SetupFails, Killed

LEMMA CheckedNext == Checked /\ [Next]_vars => Checked'
  <1> SUFFICES ASSUME Checked, [Next]_vars PROVE Checked'
    OBVIOUS
  <1>1. CASE PassNext \/ UNCHANGED vars
    BY <1>1 DEF PassNext, vars, startVars, Checked
  <1> QED
    BY <1>1, CheckedWork, CheckedFaults DEF Next, Start, Fail

\* A collector whose environment is broken never runs, whatever else goes wrong.
THEOREM InvalidNeverRuns == Spec => []NeverRunsInvalid
  <1>1. Init => Checked
    BY DEF Init, StartInit, Checked, Parsed
  <1>2. Checked => NeverRunsInvalid
    BY DEF Checked, Parsed, NeverRunsInvalid, Valid
  <1> QED
    BY <1>1, <1>2, CheckedNext, PTL DEF Spec

-----------------------------------------------------------------------------
(***************************************************************************)
(* The images of a pass. Besides the form of its records, an image keeps:   *)
(* its platform, if it has one, is that of its digest; it is looked for     *)
(* under its digest, or by a name only if containerd has been asked, which  *)
(* a collector asks only on a node; and its names come from a text.         *)
(***************************************************************************)

RefForm(r) == r = [registry |-> r.registry, repository |-> r.repository,
                   shorthandRegistry |-> r.shorthandRegistry,
                   shorthandRepository |-> r.shorthandRepository,
                   tag |-> r.tag, digest |-> r.digest]

ImageForm(img) == /\ img = [ref |-> img.ref, containerID |-> img.containerID,
                            imageNameReference |-> img.imageNameReference,
                            imagePlatform |-> img.imagePlatform]
                  /\ RefForm(img.ref)

\* The names of r are those of the text t.
NamesOf(r, t) == LET parsed == ParseImageReference(t) IN
  /\ r.registry = parsed.registry
  /\ r.repository = parsed.repository
  /\ r.shorthandRegistry = parsed.shorthandRegistry
  /\ r.shorthandRepository = parsed.shorthandRepository

Named(r) == \E t : IsText(t) /\ NamesOf(r, t)

OwnPlatform(img) == img.imagePlatform # NoPlatform => img.imagePlatform.of = img.ref.digest

ByItsDigest(img) == img.imageNameReference.digest = img.ref.digest

\* What a lookup in containerd may do to the reference.
Sought(img) == ByItsDigest(img) \/ img.imageNameReference.digest = ""

ImageOK(img, asks) ==
  /\ ImageForm(img)
  /\ Named(img.ref)
  /\ OwnPlatform(img)
  /\ Sought(img)
  /\ ByItsDigest(img) \/ asks

LEMMA ParsedForm == \A t : RefForm(ParseImageReference(t)) /\ NamesOf(ParseImageReference(t), t)
  BY DEF RefForm, NamesOf, ParseImageReference

\* Another digest or other names leave the form.
LEMMA DigestForm ==
  ASSUME NEW r, RefForm(r), NEW d
  PROVE  LET s == [r EXCEPT !.digest = d] IN
         /\ RefForm(s) /\ s.digest = d
         /\ \A t : NamesOf(r, t) => NamesOf(s, t)
  <1> DEFINE s == [r EXCEPT !.digest = d]
  <1>1. s = [registry |-> r.registry, repository |-> r.repository,
             shorthandRegistry |-> r.shorthandRegistry,
             shorthandRepository |-> r.shorthandRepository, tag |-> r.tag, digest |-> d]
    BY DEF RefForm
  <1> HIDE DEF s
  <1> QED
    BY <1>1 DEF RefForm, NamesOf, s

LEMMA TrimmedText == \A t : IsText(t) => IsText(TrimImageIDPrefix(t))
  BY DEF IsText, TrimImageIDPrefix

RefFields == {"registry", "repository", "shorthandRegistry", "shorthandRepository", "tag", "digest"}

ImageFields == {"ref", "containerID", "imageNameReference", "imagePlatform"}

LEMMA SoughtForm ==
  ASSUME NEW img, ImageForm(img), NEW r, NEW n
  PROVE  [img EXCEPT !.ref = r, !.imageNameReference = n]
           = [ref |-> r, containerID |-> img.containerID, imageNameReference |-> n,
              imagePlatform |-> img.imagePlatform]
  <1> DEFINE f == [x \in ImageFields |-> IF x = "ref" THEN r
                                         ELSE IF x = "imageNameReference" THEN n ELSE img[x]]
  <1>1. DOMAIN img = ImageFields
    BY DEF ImageForm, ImageFields
  <1>2. [img EXCEPT !.ref = r, !.imageNameReference = n] = f
    BY <1>1
  <1>3. [ref |-> r, containerID |-> img.containerID, imageNameReference |-> n,
         imagePlatform |-> img.imagePlatform] = f
    BY DEF ImageFields
  <1> QED
    BY <1>2, <1>3

\* A status is listed with the names of a text and the digest it reports, to be
\* looked for by this digest.
LEMMA ListedOK ==
  ASSUME NEW p \in Pods, NEW k \in DOMAIN p.statuses,
         NEW tags, tags = ListImageReferencesByContainer(p.spec)
  PROVE  LET img == GetPodImageFromStatus(p.statuses[k], tags) IN
         ImageForm(img) /\ Named(img.ref) /\ OwnPlatform(img) /\ ByItsDigest(img)
  <1> DEFINE s == p.statuses[k]
             parsed == IF s.name \in DOMAIN tags THEN tags[s.name]
                       ELSE ParseImageReference(TrimImageIDPrefix(s.imageID))
             ref == [parsed EXCEPT !.digest = ParseImageDigest(s.imageID)]
             img == GetPodImageFromStatus(s, tags)
  <1>1. \E t : IsText(t) /\ parsed = ParseImageReference(t)
    <2>1. CASE s.name \in DOMAIN tags
      <3>1. s.name \in DOMAIN p.spec /\ parsed = ParseImageReference(p.spec[s.name])
        BY <2>1 DEF ListImageReferencesByContainer
      <3> QED
        BY <3>1, CollectorAssumption
    <2>2. CASE s.name \notin DOMAIN tags
      <3>1. IsText(s.imageID)
        BY CollectorAssumption DEF IsImageID
      <3>2. IsText(TrimImageIDPrefix(s.imageID))
        BY <3>1, TrimmedText
      <3> QED
        BY <2>2, <3>2
    <2> QED
      BY <2>1, <2>2
  <1>2. PICK t : IsText(t) /\ parsed = ParseImageReference(t)
    BY <1>1
  <1>3. RefForm(parsed) /\ NamesOf(parsed, t)
    BY <1>2, ParsedForm
  <1>4. RefForm(ref) /\ NamesOf(ref, t)
    <2> HIDE DEF parsed
    <2> QED BY <1>3, DigestForm
  <1>5. img = [ref |-> ref, containerID |-> s.containerID,
               imageNameReference |-> NameWithDigest(ref), imagePlatform |-> NoPlatform]
    BY DEF GetPodImageFromStatus
  <1> HIDE DEF ref, img
  <1>6. ImageForm(img) /\ Named(img.ref)
    BY <1>2, <1>4, <1>5 DEF ImageForm, Named
  <1>7. OwnPlatform(img) /\ ByItsDigest(img)
    BY <1>5 DEF OwnPlatform, ByItsDigest, NameWithDigest, ByDigest
  <1> QED
    BY <1>6, <1>7 DEF img

\* What containerd says leaves the names and the digest, and gives no platform
\* but that of the digest.
LEMMA ResolvedOK ==
  ASSUME NEW img, ImageForm(img), Named(img.ref), OwnPlatform(img), Sought(img),
         NEW info \in Infos(img.containerID), NEW exists
  PROVE  LET res == Resolved(img, info, exists) IN
         /\ ImageForm(res) /\ Named(res.ref) /\ OwnPlatform(res) /\ Sought(res)
         /\ res.ref = img.ref /\ res.containerID = img.containerID
  <1> DEFINE res == Resolved(img, info, exists)
             platform == IF GetImagePlatform(info.content) = "" THEN NoPlatform
                         ELSE [of |-> info.digest, os |-> GetImagePlatform(info.content)]
             reference == IF IsReference(info.name) /\ exists = "yes" THEN Candidate(info)
                          ELSE AsWritten(info.name)
  <1>1. CASE info.digest # img.ref.digest
    BY <1>1 DEF Resolved
  <1>2. CASE info.digest = img.ref.digest
    <2>1. res = [ref |-> img.ref, containerID |-> img.containerID,
                 imageNameReference |-> reference, imagePlatform |-> platform]
      BY <1>2 DEF Resolved, ImageForm
    <2>2. platform # NoPlatform => platform.of = img.ref.digest
      BY <1>2
    <2>3. reference.digest \in {"", img.ref.digest}
      <3>1. info.name = img.containerID.image /\ info.name.digest \in {"", info.digest}
        BY DEF Infos
      <3> QED
        BY <1>2, <3>1 DEF Candidate, AsWritten, ByDigest
    <2> HIDE DEF res, platform, reference
    <2>4. /\ ImageForm(res) /\ Named(res.ref)
          /\ res.ref = img.ref /\ res.containerID = img.containerID
      BY <2>1 DEF ImageForm
    <2>5. OwnPlatform(res) /\ Sought(res)
      BY <2>1, <2>2, <2>3 DEF OwnPlatform, Sought, ByItsDigest
    <2> QED
      BY <2>4, <2>5 DEF res
  <1> QED
    BY <1>1, <1>2

\* A mirror gives its names, and the image is looked for there by its digest.
LEMMA MirroredOK ==
  ASSUME NEW img, ImageForm(img), OwnPlatform(img), NEW t, IsText(t)
  PROVE  LET mir == Mirrored(img, t) IN
         /\ ImageForm(mir) /\ Named(mir.ref) /\ OwnPlatform(mir) /\ ByItsDigest(mir)
         /\ mir.ref.digest = img.ref.digest /\ mir.containerID = img.containerID
         /\ ShorthandName(mir.ref) = ShorthandName(ParseImageReference(t))
  <1> DEFINE m == ParseImageReference(t)
             ref == [img.ref EXCEPT !.registry = m.registry, !.repository = m.repository,
                                    !.shorthandRegistry = m.shorthandRegistry,
                                    !.shorthandRepository = m.shorthandRepository]
             mir == Mirrored(img, t)
  <1>1. ref = [registry |-> m.registry, repository |-> m.repository,
               shorthandRegistry |-> m.shorthandRegistry,
               shorthandRepository |-> m.shorthandRepository,
               tag |-> img.ref.tag, digest |-> img.ref.digest]
    <2> DEFINE f == [x \in RefFields |->
                       IF x = "registry" THEN m.registry
                       ELSE IF x = "repository" THEN m.repository
                       ELSE IF x = "shorthandRegistry" THEN m.shorthandRegistry
                       ELSE IF x = "shorthandRepository" THEN m.shorthandRepository
                       ELSE img.ref[x]]
    <2> HIDE DEF m
    <2>1. DOMAIN img.ref = RefFields
      BY DEF ImageForm, RefForm, RefFields
    <2>2. ref = f
      BY <2>1
    <2>3. f = [registry |-> m.registry, repository |-> m.repository,
               shorthandRegistry |-> m.shorthandRegistry,
               shorthandRepository |-> m.shorthandRepository,
               tag |-> img.ref.tag, digest |-> img.ref.digest]
      BY DEF RefFields
    <2> QED BY <2>2, <2>3
  <1>2. mir = [ref |-> ref, containerID |-> img.containerID,
               imageNameReference |-> NameWithDigest(ref), imagePlatform |-> img.imagePlatform]
    <2>1. mir = [img EXCEPT !.ref = ref, !.imageNameReference = NameWithDigest(ref)]
      BY DEF Mirrored
    <2> HIDE DEF mir, ref
    <2> QED BY <2>1, SoughtForm
  <1>3. RefForm(ref) /\ NamesOf(ref, t)
    <2> HIDE DEF ref
    <2> QED BY <1>1 DEF RefForm, NamesOf
  <1> HIDE DEF mir, ref, m
  <1>4. ImageForm(mir) /\ Named(mir.ref) /\ mir.containerID = img.containerID
    BY <1>2, <1>3 DEF ImageForm, Named
  <1>5. OwnPlatform(mir) /\ ByItsDigest(mir) /\ mir.ref.digest = img.ref.digest
    BY <1>1, <1>2 DEF OwnPlatform, ByItsDigest, NameWithDigest, ByDigest
  <1>6. ShorthandName(mir.ref) = ShorthandName(m)
    BY <1>1, <1>2 DEF ShorthandName
  <1> QED
    BY <1>4, <1>5, <1>6 DEF mir, m

-----------------------------------------------------------------------------
(***************************************************************************)
(* The pass: where it works on an image, the agent was asked about this     *)
(* image's digest, and under its name or the mirror's; what was sent is     *)
(* kept until the next image.                                              *)
(***************************************************************************)

Asks == client = "open"

ImagesOK == \A k \in DOMAIN images : ImageOK(images[k], Asks)

WorkOK ==
  /\ stage \in {"idle", "keychain"} => images = NoImages /\ sent = NotSent
  /\ stage \in {"resolve", "mirror", "scan"} =>
       /\ sent = NotSent
       /\ asked.digest = images[at].ref.digest
       /\ asked.digest # ""
  /\ stage \in {"resolve", "mirror"} => asked.name = ShorthandName(images[at].ref)
  /\ stage = "scan" =>
       IF mirror = NoText THEN asked.name = ShorthandName(images[at].ref)
       ELSE /\ ShorthandName(images[at].ref) = ShorthandName(ParseImageReference(mirror))
            /\ ByItsDigest(images[at])

SentOK == SentAsAsked /\ PlatformIsItsOwn /\ OnlyNamesDrift

PassOK == /\ Asks => RunAsDaemonSet
          /\ ImagesOK
          /\ WorkOK
          /\ SentOK

LEMMA NotSentPlatform == NotSent.platform = NoPlatform
  BY DEF NotSent

LEMMA NothingSent == /\ sent = NotSent => SentOK
                     /\ sent' = NotSent => SentOK'
  BY NotSentPlatform DEF SentOK, SentAsAsked, PlatformIsItsOwn, OnlyNamesDrift

LEMMA PassOKInit == Init => PassOK
  <1> SUFFICES ASSUME Init PROVE PassOK
    OBVIOUS
  <1>1. client = "nil" /\ images = <<>> /\ sent = NotSent /\ stage = "idle"
    BY DEF Init, StartInit, PassInit, NoImages
  <1> QED
    BY <1>1, NothingSent DEF PassOK, ImagesOK, WorkOK, Asks, NoImages

\* No step of main but the one that makes the client opens it.
LEMMA ClientStep ==
  ASSUME StartWork \/ StartFaults, Asks => RunAsDaemonSet
  PROVE  /\ Asks' => RunAsDaemonSet'
         /\ step = "running" => client' = client
  <1> USE DEF From, To, Asks, RunAsDaemonSet
  <1>1. CASE ParseEnvironment \/ GetNodeNameForPod \/ NewAgentClient \/ GetCollectorConfig
    BY <1>1 DEF ParseEnvironment, GetNodeNameForPod, NewAgentClient, GetCollectorConfig
  <1>2. CASE NewOutputClient \/ NewManager \/ CompileExcludedImageNames
    BY <1>2 DEF NewOutputClient, NewManager, CompileExcludedImageNames
  <1>3. CASE NewContainerdClient
    BY <1>3 DEF NewContainerdClient, WantsContainerd
  <1>4. CASE SetupWatcher \/ StartManager \/ ReportFailure \/ Restarted
    BY <1>4 DEF SetupWatcher, StartManager, ReportFailure, Restarted
  <1>5. CASE NoKubeconfig \/ NodeNameUnknown \/ BadCollectorConfig
    BY <1>5 DEF NoKubeconfig, NodeNameUnknown, BadCollectorConfig
  <1>6. CASE NoContainerdClient \/ SetupFails \/ Killed
    BY <1>6 DEF NoContainerdClient, SetupFails, Killed
  <1> QED
    BY <1>1, <1>2, <1>3, <1>4, <1>5, <1>6 DEF StartWork, StartFaults

LEMMA NoPassOK ==
  (Asks => RunAsDaemonSet) /\ stage = "idle" /\ images = <<>> /\ sent = NotSent => PassOK
  BY NothingSent DEF PassOK, ImagesOK, WorkOK, NoImages

LEMMA PassOKStart == PassTypes /\ PassOK /\ (Start \/ Fail) => PassOK'
  <1> SUFFICES ASSUME PassTypes, PassOK, Start \/ Fail PROVE PassOK'
    OBVIOUS
  <1>1. PassLost /\ (step = "running" => step' \in {"failing", "exited"})
    BY RunningEnds DEF Start, Fail
  <1>2. Asks' => RunAsDaemonSet'
    BY ClientStep DEF Start, Fail, PassOK
  <1>3. stage' = "idle" /\ images' = <<>> /\ sent' = NotSent
    <2>1. CASE step' \in {"failing", "exited"}
      BY <1>1, <2>1 DEF PassLost, PassEnds, NoImages
    <2>2. CASE step' \notin {"failing", "exited"}
      <3>1. stage = "idle" /\ UNCHANGED <<stage, images, sent>>
        BY <1>1, <2>2 DEF PassLost, passVars, PassTypes
      <3> QED
        BY <3>1 DEF PassOK, WorkOK, NoImages
    <2> QED
      BY <2>1, <2>2
  <1>4. SentOK'
    BY <1>3, NothingSent
  <1>5. ImagesOK' /\ WorkOK'
    BY <1>3 DEF ImagesOK, WorkOK, NoImages
  <1> QED
    BY <1>2, <1>4, <1>5 DEF PassOK

(* The steps of a pass, of which each leaves alone what it does not name. *)

LEMMA SameSent ==
  ASSUME SentOK, UNCHANGED <<sent, asked, mirror, startVars>>
  PROVE  SentOK'
  BY DEF SentOK, SentAsAsked, PlatformIsItsOwn, OnlyNamesDrift, RunAsDaemonSet, startVars

LEMMA SameImages == ImagesOK /\ UNCHANGED <<images, startVars>> => ImagesOK'
  BY DEF ImagesOK, Asks, startVars

\* One image is changed, and stays what an image must be.
LEMMA OtherImage ==
  ASSUME ImagesOK, UNCHANGED startVars, at \in DOMAIN images,
         NEW img, ImageOK(img, Asks), images' = [images EXCEPT ![at] = img]
  PROVE  ImagesOK' /\ images'[at] = img
  BY DEF ImagesOK, Asks, startVars

LEMMA PassOKReconcile ==
  ASSUME PassTypes, PassOK, UNCHANGED startVars, NEW p \in Pods, Reconcile(p)
  PROVE  PassOK'
  <1>1. Asks' => RunAsDaemonSet'
    BY DEF PassOK, Asks, RunAsDaemonSet, startVars
  <1>2. UNCHANGED <<images, at, asked, mirror, sent>> /\ stage = "idle" /\ stage' = "keychain"
    BY DEF Reconcile
  <1> QED
    BY <1>1, <1>2, SameSent, SameImages DEF PassOK, WorkOK

LEMMA PassOKKeychain ==
  ASSUME PassTypes, PassOK, UNCHANGED startVars, GetKeychain
  PROVE  PassOK'
  <1>1. Asks' => RunAsDaemonSet'
    BY DEF PassOK, Asks, RunAsDaemonSet, startVars
  <1>2. UNCHANGED <<stage, images, at, asked, mirror, sent>>
    BY DEF GetKeychain, passVars
  <1> QED
    BY <1>1, <1>2, SameSent, SameImages DEF PassOK, WorkOK

LEMMA PassOKList ==
  ASSUME PassTypes, PassOK, UNCHANGED startVars, ListImages
  PROVE  PassOK'
  <1>1. Asks' => RunAsDaemonSet'
    BY DEF PassOK, Asks, RunAsDaemonSet, startVars
  <1>2. pod \in Pods
    BY DEF PassTypes, ListImages
  <1>3. ImagesOK'
    <2> DEFINE tags == ListImageReferencesByContainer(pod.spec)
    <2>1. ASSUME NEW k \in DOMAIN images' PROVE ImageOK(images'[k], Asks')
      <3>1. k \in DOMAIN pod.statuses /\ images'[k] = GetPodImageFromStatus(pod.statuses[k], tags)
        BY <2>1 DEF ListImages, ListPodUsedImages, ListImagesFromContainerStatuses
      <3>2. LET img == GetPodImageFromStatus(pod.statuses[k], tags) IN
            ImageForm(img) /\ Named(img.ref) /\ OwnPlatform(img) /\ ByItsDigest(img)
        BY <1>2, <3>1, ListedOK
      <3> HIDE DEF tags
      <3> QED
        BY <3>1, <3>2 DEF ImageOK, Sought
    <2> QED
      BY <2>1 DEF ImagesOK
  <1>4. sent' = sent /\ sent = NotSent /\ stage' = "image"
    BY DEF ListImages, PassOK, WorkOK
  <1> QED
    BY <1>1, <1>3, <1>4, NothingSent DEF PassOK, WorkOK

LEMMA PassOKSkip ==
  ASSUME PassTypes, PassOK, UNCHANGED startVars, SkipStatus \/ SkipImage
  PROVE  PassOK'
  <1>1. Asks' => RunAsDaemonSet'
    BY DEF PassOK, Asks, RunAsDaemonSet, startVars
  <1>2. UNCHANGED images /\ stage' = "image"
    BY DEF SkipStatus, SkipImage, NextImage
  <1>3. SentOK'
    <2>1. CASE SkipStatus
      BY <2>1, SameSent DEF SkipStatus, PassOK
    <2>2. CASE SkipImage
      BY <2>2, NothingSent DEF SkipImage
    <2> QED
      BY <2>1, <2>2
  <1> QED
    BY <1>1, <1>2, <1>3, SameImages DEF PassOK, WorkOK

LEMMA PassOKStatus ==
  ASSUME PassTypes, PassOK, UNCHANGED startVars, GetImageStatus
  PROVE  PassOK'
  <1>1. Asks' => RunAsDaemonSet'
    BY DEF PassOK, Asks, RunAsDaemonSet, startVars
  <1>2. UNCHANGED images /\ sent' = NotSent /\ stage' \in {"resolve", "image"}
    BY DEF GetImageStatus, NextImage
  <1>3. stage' = "resolve" => /\ at' = at
                              /\ asked'.digest = images[at].ref.digest
                              /\ asked'.digest # ""
                              /\ asked'.name = ShorthandName(images[at].ref)
    BY DEF GetImageStatus, NextImage, LeftOut, Image
  <1>4. WorkOK'
    BY <1>2, <1>3 DEF WorkOK
  <1> QED
    BY <1>1, <1>2, <1>4, SameImages, NothingSent DEF PassOK

LEMMA PassOKResolve ==
  ASSUME PassTypes, PassOK, UNCHANGED startVars, ResolveContainerdImage
  PROVE  PassOK'
  <1>1. Asks' => RunAsDaemonSet'
    BY DEF PassOK, Asks, RunAsDaemonSet, startVars
  <1>2. /\ stage = "resolve" /\ stage' = "mirror" /\ UNCHANGED <<at, asked, mirror, sent>>
        /\ at \in DOMAIN images
    BY DEF ResolveContainerdImage, PassTypes
  <1>3. ImagesOK' /\ images'[at].ref = images[at].ref
    <2>1. CASE UNCHANGED images
      BY <2>1, SameImages DEF PassOK
    <2>2. CASE ~UNCHANGED images
      <3>1. PICK info \in Infos(images[at].containerID), exists \in {"yes", "no"} :
              images' = [images EXCEPT ![at] = Resolved(images[at], info, exists)]
        BY <2>2 DEF ResolveContainerdImage, Image
      <3>2. Asks
        BY <2>2 DEF ResolveContainerdImage, Asks
      <3> DEFINE res == Resolved(images[at], info, exists)
      <3>3. ImageOK(images[at], Asks)
        BY <1>2 DEF PassOK, ImagesOK
      <3>4. /\ ImageForm(res) /\ Named(res.ref) /\ OwnPlatform(res) /\ Sought(res)
            /\ res.ref = images[at].ref
        BY <3>3, ResolvedOK DEF ImageOK
      <3> HIDE DEF res
      <3>5. ImageOK(res, Asks)
        BY <3>2, <3>4 DEF ImageOK
      <3>6. images' = [images EXCEPT ![at] = res]
        BY <3>1 DEF res
      <3> QED
        BY <1>2, <3>4, <3>5, <3>6, OtherImage DEF PassOK
    <2> QED
      BY <2>1, <2>2
  <1>4. WorkOK'
    BY <1>2, <1>3 DEF PassOK, WorkOK
  <1>5. SentOK'
    BY <1>2, SameSent DEF PassOK
  <1> QED
    BY <1>1, <1>3, <1>4, <1>5 DEF PassOK

LEMMA PassOKMirror ==
  ASSUME PassTypes, PassOK, UNCHANGED startVars, UseMirror
  PROVE  PassOK'
  <1>1. Asks' => RunAsDaemonSet'
    BY DEF PassOK, Asks, RunAsDaemonSet, startVars
  <1>2. stage = "mirror" /\ UNCHANGED <<asked, mirror, sent>> /\ at \in DOMAIN images
    BY DEF UseMirror, PassTypes
  <1>3. SentOK'
    BY <1>2, SameSent DEF PassOK
  <1>4. ImagesOK' /\ WorkOK'
    <2>1. CASE mirror = NoText
      <3>1. stage' = "scan" /\ UNCHANGED <<images, at>>
        BY <2>1 DEF UseMirror
      <3> QED
        BY <1>2, <2>1, <3>1, SameImages DEF PassOK, WorkOK
    <2>2. CASE mirror # NoText /\ IsReference(mirror)
      <3> DEFINE img == images[at]
                 mir == Mirrored(img, mirror)
      <3>1. images' = [images EXCEPT ![at] = mir] /\ stage' = "scan" /\ at' = at
        BY <2>2 DEF UseMirror, Image
      <3>2. IsText(mirror)
        BY <2>2, CollectorAssumption DEF PassTypes, Texts
      <3>3. ImageOK(img, Asks)
        BY <1>2 DEF PassOK, ImagesOK
      <3>4. /\ ImageForm(mir) /\ Named(mir.ref) /\ OwnPlatform(mir) /\ ByItsDigest(mir)
            /\ mir.ref.digest = img.ref.digest
            /\ ShorthandName(mir.ref) = ShorthandName(ParseImageReference(mirror))
        BY <3>2, <3>3, MirroredOK DEF ImageOK
      <3> HIDE DEF mir
      <3>5. ImageOK(mir, Asks)
        BY <3>4 DEF ImageOK, Sought
      <3>6. ImagesOK' /\ images'[at] = mir
        BY <1>2, <3>1, <3>5, OtherImage DEF PassOK
      <3> QED
        BY <1>2, <2>2, <3>1, <3>4, <3>6 DEF PassOK, WorkOK
    <2>3. CASE mirror # NoText /\ ~IsReference(mirror)
      <3>1. stage' = "image" /\ UNCHANGED images
        BY <2>3 DEF UseMirror, NextImage
      <3> QED
        BY <3>1, SameImages DEF PassOK, WorkOK
    <2> QED
      BY <2>1, <2>2, <2>3
  <1> QED
    BY <1>1, <1>3, <1>4 DEF PassOK

\* What is sent is of the image and its name; only a name may stand for another.
LEMMA PassOKScan ==
  ASSUME PassTypes, PassOK, UNCHANGED startVars, GenerateAndSend \/ ScanFails
  PROVE  PassOK'
  <1>1. Asks' => RunAsDaemonSet'
    BY DEF PassOK, Asks, RunAsDaemonSet, startVars
  <1>2. /\ stage = "scan" /\ stage' = "image" /\ UNCHANGED <<images, asked, mirror>>
        /\ at \in DOMAIN images
    BY DEF GenerateAndSend, ScanFails, NextImage, PassTypes
  <1>3. SentOK'
    <2>1. CASE ScanFails
      BY <1>2, <2>1, SameSent DEF ScanFails, PassOK
    <2>2. CASE GenerateAndSend
      <3> DEFINE img == images[at]
      <3>1. PICK found \in Found(img.imageNameReference) :
              sent' = [name |-> ShorthandName(img.ref), digest |-> img.ref.digest,
                       reference |-> img.imageNameReference, platform |-> img.imagePlatform,
                       of |-> found]
        BY <2>2 DEF GenerateAndSend, Image
      <3>2. ImageOK(img, Asks)
        BY <1>2 DEF PassOK, ImagesOK
      <3>3. img.ref.digest = asked.digest /\ asked.digest # ""
        BY <1>2 DEF PassOK, WorkOK
      <3>4. /\ mirror = NoText => ShorthandName(img.ref) = asked.name
            /\ mirror # NoText => /\ ShorthandName(img.ref) = ShorthandName(ParseImageReference(mirror))
                                  /\ ByItsDigest(img)
        BY <1>2 DEF PassOK, WorkOK
      <3>5. /\ sent'.name = ShorthandName(img.ref) /\ sent'.digest = img.ref.digest
            /\ sent'.reference = img.imageNameReference /\ sent'.platform = img.imagePlatform
            /\ sent'.of = found
        BY <3>1
      <3>6. found # img.ref.digest => ~ByItsDigest(img)
        BY <3>1, <3>3 DEF Found, ByItsDigest
      <3> HIDE DEF img
      <3>7. SentAsAsked'
        BY <1>2, <3>3, <3>4, <3>5 DEF SentAsAsked
      <3>8. PlatformIsItsOwn'
        BY <3>2, <3>5 DEF ImageOK, OwnPlatform, PlatformIsItsOwn
      <3>9. OnlyNamesDrift'
        BY <1>1, <1>2, <3>2, <3>4, <3>5, <3>6
           DEF ImageOK, Sought, OnlyNamesDrift, Asks, PassOK, startVars
      <3> QED
        BY <3>7, <3>8, <3>9 DEF SentOK
    <2> QED
      BY <2>1, <2>2
  <1> QED
    BY <1>1, <1>2, <1>3, SameImages DEF PassOK, WorkOK

LEMMA PassOKPass == PassTypes /\ PassOK /\ PassNext => PassOK'
  <1> SUFFICES ASSUME PassTypes, PassOK, PassNext PROVE PassOK'
    OBVIOUS
  <1> UNCHANGED startVars
    BY DEF PassNext
  <1>1. CASE Return
    <2>1. Asks' => RunAsDaemonSet'
      BY DEF PassOK, Asks, RunAsDaemonSet, startVars
    <2>2. stage' = "idle" /\ images' = <<>> /\ sent' = NotSent
      BY <1>1 DEF Return, PassEnds, NoImages
    <2>3. ImagesOK' /\ WorkOK'
      BY <2>2 DEF ImagesOK, WorkOK, NoImages
    <2> QED
      BY <2>1, <2>2, <2>3, NothingSent DEF PassOK
  <1> QED
    BY <1>1, PassOKReconcile, PassOKKeychain, PassOKList, PassOKSkip, PassOKStatus, PassOKResolve,
       PassOKMirror, PassOKScan DEF PassNext

LEMMA PassOKNext == PassTypes /\ PassOK /\ [Next]_vars => PassOK'
  <1> SUFFICES ASSUME PassTypes, PassOK, UNCHANGED vars PROVE PassOK'
    BY PassOKStart, PassOKPass DEF Next
  <1>1. Asks' => RunAsDaemonSet'
    BY DEF PassOK, Asks, RunAsDaemonSet, vars, startVars
  <1> QED
    BY <1>1, SameSent, SameImages DEF PassOK, WorkOK, vars, passVars

LEMMA Always == Spec => [](PassTypes /\ PassOK)
  <1>1. Init => PassTypes /\ PassOK
    BY TypeInit, PassOKInit
  <1>2. PassTypes /\ [Next]_vars => PassTypes'
    <2> SUFFICES ASSUME PassTypes, UNCHANGED vars PROVE PassTypes'
      BY TypeStart, TypePass DEF Next
    <2> QED
      BY DEF PassTypes, vars, startVars, keyVars, passVars
  <1> QED
    BY <1>1, <1>2, PassOKNext, PTL DEF Spec

\* An SBOM is sent under the name and the digest the agent was asked about, or the
\* mirror's name, for every pod, and whatever containerd says meanwhile.
THEOREM WhatIsSentWasAsked == Spec => []SentAsAsked
  <1>1. PassTypes /\ PassOK => SentAsAsked
    BY DEF PassOK, SentOK
  <1> QED
    BY <1>1, Always, PTL

\* The platform of a scan is never that of another image of the same name.
THEOREM PlatformOfTheImage == Spec => []PlatformIsItsOwn
  <1>1. PassTypes /\ PassOK => PlatformIsItsOwn
    BY DEF PassOK, SentOK
  <1> QED
    BY <1>1, Always, PTL

\* An SBOM is of its digest's image unless the image was looked for on a node under
\* the name containerd has for it.
THEOREM DriftOnlyByName == Spec => []OnlyNamesDrift
  <1>1. PassTypes /\ PassOK => OnlyNamesDrift
    BY DEF PassOK, SentOK
  <1> QED
    BY <1>1, Always, PTL

-----------------------------------------------------------------------------
(***************************************************************************)
(* One name for one image. The shorthand names are a function of registry   *)
(* and repository, and the full name determines these two.                  *)
(***************************************************************************)

\* The first part of a name and the rest of it can be told apart.
LEMMA NameParts ==
  ASSUME NEW S, NEW a \in S, NEW b \in S, NEW u \in Seq(S), NEW v \in Seq(S),
         <<a>> \o u = <<b>> \o v
  PROVE  a = b /\ u = v
  <1>1. <<a>> \in Seq(S) /\ <<b>> \in Seq(S) /\ Len(<<a>>) = 1 /\ Len(<<b>>) = 1
    OBVIOUS
  <1>2. /\ Len(<<a>> \o u) = 1 + Len(u)
        /\ \A i \in 1..(1 + Len(u)) : (<<a>> \o u)[i] = IF i <= 1 THEN <<a>>[i] ELSE u[i - 1]
    BY <1>1, ConcatProperties
  <1>3. /\ Len(<<b>> \o v) = 1 + Len(v)
        /\ \A i \in 1..(1 + Len(v)) : (<<b>> \o v)[i] = IF i <= 1 THEN <<b>>[i] ELSE v[i - 1]
    BY <1>1, ConcatProperties
  <1>4. Len(u) \in Nat /\ Len(v) \in Nat /\ Len(u) = Len(v)
    BY <1>2, <1>3
  <1>5. a = b
    <2>1. 1 \in 1..(1 + Len(u)) /\ 1 \in 1..(1 + Len(v))
      BY <1>4
    <2>2. (<<a>> \o u)[1] = a /\ (<<b>> \o v)[1] = b
      BY <1>2, <1>3, <2>1
    <2> QED
      BY <2>2
  <1>6. ASSUME NEW j \in 1..Len(u) PROVE u[j] = v[j]
    <2>1. j + 1 \in 1..(1 + Len(u)) /\ j + 1 \in 1..(1 + Len(v)) /\ ~(j + 1 <= 1) /\ (j + 1) - 1 = j
      BY <1>4
    <2>2. (<<a>> \o u)[j + 1] = u[j] /\ (<<b>> \o v)[j + 1] = v[j]
      BY <1>2, <1>3, <2>1
    <2> QED
      BY <2>2
  <1>7. u = v
    BY <1>4, <1>6
  <1> QED
    BY <1>5, <1>7

Parts == STRING \cup {"library", "sha256"}

LEMMA RepositoryType == \A t : IsText(t) => RepositoryStr(t) \in Seq(Parts)
  <1> SUFFICES ASSUME NEW t, IsText(t) PROVE RepositoryStr(t) \in Seq(Parts)
    OBVIOUS
  <1> DEFINE path == IF t.path = <<>> THEN <<"sha256">> ELSE t.path
  <1>1. <<"library">> \in Seq(Parts) /\ <<"sha256">> \in Seq(Parts)
    BY DEF Parts
  <1>2. t.path \in Seq(Parts)
    BY SeqMonotonic DEF IsText, Parts
  <1>3. path \in Seq(Parts) /\ <<"library">> \o path \in Seq(Parts)
    BY <1>1, <1>2, ConcatProperties
  <1> QED
    BY <1>3 DEF RepositoryStr

LEMMA ShorthandOfText ==
  \A t : ShorthandName(ParseImageReference(t)) =
           normalizeRegistryName(parseImageRegistry(t))
             \o normalizeRepositoryName(RepositoryStr(t), parseImageRegistry(t))
  BY DEF ShorthandName, ParseImageReference

\* For Docker Hub, however it is written, there is no registry in short.
LEMMA HubShorthand ==
  ASSUME NEW t, RegistryStr(t) = DefaultRegistry
  PROVE  /\ normalizeRegistryName(parseImageRegistry(t)) = <<>>
         /\ ~IsArtifactRegistry(parseImageRegistry(t))
  <1>1. t.host \in {"", "docker.io", DefaultRegistry}
    BY DEF RegistryStr
  <1>2. t.host # "" => ~IsArtifactRegistry(<<t.host>>)
    BY <1>1, ReferenceAssumption DEF IsArtifactRegistry
  <1>3. parseImageRegistry(t) \in {<<>>, <<DefaultRegistry>>}
    BY <1>2 DEF parseImageRegistry
  <1>4. ~IsArtifactRegistry(<<DefaultRegistry>>) /\ ~IsArtifactRegistry(<<>>)
    BY ReferenceAssumption DEF IsArtifactRegistry
  <1> QED
    BY <1>3, <1>4 DEF normalizeRegistryName

LEMMA SameShorthand ==
  ASSUME NEW s, s.path = <<>> => s.host = "", NEW t, t.path = <<>> => t.host = "",
         RegistryStr(s) = RegistryStr(t), RepositoryStr(s) = RepositoryStr(t)
  PROVE  ShorthandName(ParseImageReference(s)) = ShorthandName(ParseImageReference(t))
  <1>1. CASE RegistryStr(t) = DefaultRegistry
    <2>1. /\ normalizeRegistryName(parseImageRegistry(s)) = normalizeRegistryName(parseImageRegistry(t))
          /\ IsArtifactRegistry(parseImageRegistry(s)) <=> IsArtifactRegistry(parseImageRegistry(t))
      BY <1>1, HubShorthand
    <2>2. normalizeRepositoryName(RepositoryStr(s), parseImageRegistry(s))
            = normalizeRepositoryName(RepositoryStr(t), parseImageRegistry(t))
      BY <2>1 DEF normalizeRepositoryName, stripGARProjectName
    <2> QED
      BY <2>1, <2>2, ShorthandOfText
  <1>2. CASE RegistryStr(t) # DefaultRegistry
    <2>1. s.host = t.host /\ s.host # ""
      BY <1>2 DEF RegistryStr
    <2>2. s.path # <<>> /\ t.path # <<>>
      BY <2>1
    <2>3. s.path = t.path
      BY <1>2, <2>2 DEF RepositoryStr
    <2>4. parseImageRegistry(s) = parseImageRegistry(t)
      BY <2>1, <2>3 DEF parseImageRegistry
    <2> QED
      BY <2>4, ShorthandOfText
  <1> QED
    BY <1>1, <1>2

LEMMA NamesDetermine ==
  ASSUME NEW q, NEW r, Named(q), Named(r), Name(q) = Name(r)
  PROVE  ShorthandName(q) = ShorthandName(r)
  <1>1. PICK s : IsText(s) /\ NamesOf(q, s)
    BY DEF Named
  <1>2. PICK t : IsText(t) /\ NamesOf(r, t)
    BY DEF Named
  <1>3. /\ q.registry = RegistryStr(s) /\ q.repository = RepositoryStr(s)
        /\ r.registry = RegistryStr(t) /\ r.repository = RepositoryStr(t)
    BY <1>1, <1>2 DEF NamesOf, ParseImageReference
  <1>4. RegistryStr(s) = RegistryStr(t) /\ RepositoryStr(s) = RepositoryStr(t)
    <2> DEFINE S == Parts \cup {RegistryStr(s), RegistryStr(t)}
    <2>1. RepositoryStr(s) \in Seq(Parts) /\ RepositoryStr(t) \in Seq(Parts)
      BY <1>1, <1>2, RepositoryType
    <2>2. RepositoryStr(s) \in Seq(S) /\ RepositoryStr(t) \in Seq(S)
      BY <2>1, SeqMonotonic
    <2>3. RegistryStr(s) \in S /\ RegistryStr(t) \in S
      OBVIOUS
    <2>4. <<RegistryStr(s)>> \o RepositoryStr(s) = <<RegistryStr(t)>> \o RepositoryStr(t)
      BY <1>3 DEF Name
    <2> HIDE DEF S
    <2> QED
      BY <2>2, <2>3, <2>4, NameParts
  <1>5. ShorthandName(q) = ShorthandName(ParseImageReference(s))
    BY <1>1 DEF NamesOf, ShorthandName
  <1>6. ShorthandName(r) = ShorthandName(ParseImageReference(t))
    BY <1>2 DEF NamesOf, ShorthandName
  <1>7. (s.path = <<>> => s.host = "") /\ (t.path = <<>> => t.host = "")
    BY <1>1, <1>2 DEF IsText
  <1> QED
    BY <1>4, <1>5, <1>6, <1>7, SameShorthand

\* The text of a full name, as the agent, the output and a pull are given it.
FullText(r) == [scheme |-> "", host |-> r.registry, path |-> r.repository, tag |-> "", digest |-> r.digest]

\* Whoever parses a full name finds the registry, repository, digest and shorthand
\* name it was made from, however the image was written first: the defaults are
\* filled in once, and the prefixes that are left out do not depend on it.
THEOREM FullNamesAreStable ==
  ASSUME NEW t, IsText(t)
  PROVE  LET r == ParseImageReference(t)
             again == ParseImageReference(FullText(r))
         IN /\ IsReference(FullText(r))
            /\ NameWithDigest(again) = NameWithDigest(r)
            /\ ShorthandName(again) = ShorthandName(r)
  <1> DEFINE r == ParseImageReference(t)
             u == FullText(r)
             path == IF t.path = <<>> THEN <<"sha256">> ELSE t.path
  <1>1. /\ u.scheme = "" /\ u.host = RegistryStr(t) /\ u.path = RepositoryStr(t) /\ u.digest = r.digest
        /\ r.registry = RegistryStr(t) /\ r.repository = RepositoryStr(t)
    BY DEF FullText, ParseImageReference
  <1>2. RepositoryStr(t) = IF RegistryStr(t) = DefaultRegistry /\ Len(path) = 1
                             THEN <<"library">> \o path ELSE path
    BY DEF RepositoryStr
  <1>3. path \in Seq(Parts) /\ path # <<>> /\ <<"library">> \in Seq(Parts)
    <2>1. t.path \in Seq(Parts)
      BY SeqMonotonic DEF IsText, Parts
    <2>2. <<"library">> \in Seq(Parts) /\ <<"sha256">> \in Seq(Parts)
      BY DEF Parts
    <2> QED
      BY <2>1, <2>2
  <1> HIDE DEF path, u, r
  <1>4. /\ RepositoryStr(t) # <<>>
        /\ RegistryStr(t) = DefaultRegistry => Len(RepositoryStr(t)) # 1
    BY <1>2, <1>3
  <1>5. RegistryStr(u) = RegistryStr(t)
    BY <1>1 DEF RegistryStr, DefaultRegistry
  <1>6. RepositoryStr(u) = RepositoryStr(t)
    <2>1. u.path # <<>> /\ ~(RegistryStr(u) = DefaultRegistry /\ Len(u.path) = 1)
      BY <1>1, <1>4, <1>5
    <2>2. RepositoryStr(u) = u.path
      BY <2>1 DEF RepositoryStr
    <2> QED
      BY <1>1, <2>2
  <1>7. ParseImageReference(u).digest = r.digest
    BY <1>1, <1>4 DEF ParseImageReference, IsDigestReference
  <1>8. NameWithDigest(ParseImageReference(u)) = NameWithDigest(r)
    <2>1. /\ ParseImageReference(u).registry = RegistryStr(u)
          /\ ParseImageReference(u).repository = RepositoryStr(u)
      BY DEF ParseImageReference
    <2> QED
      BY <1>1, <1>5, <1>6, <1>7, <2>1 DEF NameWithDigest, ByDigest, Name
  <1>9. ShorthandName(ParseImageReference(u)) = ShorthandName(ParseImageReference(t))
    <2>1. (u.path = <<>> => u.host = "") /\ (t.path = <<>> => t.host = "")
      BY <1>1, <1>4 DEF IsText
    <2> QED
      BY <1>5, <1>6, <2>1, SameShorthand
  <1>10. IsReference(u)
    BY <1>1, <1>4 DEF IsReference
  <1> QED
    BY <1>8, <1>9, <1>10 DEF u, r

\* An image goes by one name, whatever texts name it in specs, image IDs and mirrors.
THEOREM ImagesHaveOneIdentity == Spec => []OneIdentity
  <1>1. PassTypes /\ PassOK => OneIdentity
    BY NamesDetermine DEF PassOK, ImagesOK, ImageOK, OneIdentity
  <1> QED
    BY <1>1, Always, PTL

-----------------------------------------------------------------------------
(* The list: the images stay those of the statuses they were listed for. *)

Working == {"image", "resolve", "mirror", "scan"}

Tags == ListImageReferencesByContainer(pod.spec)

Listed ==
  stage \in Working =>
    /\ DOMAIN images = {j \in DOMAIN pod.statuses : Listable(pod.statuses[j], Tags)}
    /\ \A k \in DOMAIN images :
         /\ images[k].containerID = pod.statuses[k].containerID
         /\ images[k].ref.digest = pod.statuses[k].imageID.digest

LEMMA TrimmedDigest ==
  ASSUME NEW t, IsText(t)
  PROVE  /\ TrimImageIDPrefix(t).digest = t.digest
         /\ IsReference(TrimImageIDPrefix(t)) <=> t.path # <<>> \/ t.digest # ""
  BY DEF IsText, TrimImageIDPrefix, IsReference

LEMMA ListedList == PassTypes /\ ListImages => Listed'
  <1> SUFFICES ASSUME PassTypes, ListImages PROVE Listed'
    OBVIOUS
  <1>1. pod' = pod /\ pod \in Pods
    BY DEF PassTypes, ListImages
  <1>2. images' = [k \in {j \in DOMAIN pod.statuses : Listable(pod.statuses[j], Tags)} |->
                     GetPodImageFromStatus(pod.statuses[k], Tags)]
    BY DEF ListImages, ListPodUsedImages, ListImagesFromContainerStatuses, Tags
  <1>3. ASSUME NEW k \in DOMAIN images'
        PROVE  /\ images'[k].containerID = pod.statuses[k].containerID
               /\ images'[k].ref.digest = pod.statuses[k].imageID.digest
    <2> DEFINE s == pod.statuses[k]
               parsed == IF s.name \in DOMAIN Tags THEN Tags[s.name]
                         ELSE ParseImageReference(TrimImageIDPrefix(s.imageID))
               ref == [parsed EXCEPT !.digest = ParseImageDigest(s.imageID)]
    <2>1. k \in DOMAIN pod.statuses /\ images'[k] = GetPodImageFromStatus(s, Tags)
      BY <1>2
    <2>2. images'[k].containerID = s.containerID /\ images'[k].ref = ref
      BY <2>1 DEF GetPodImageFromStatus
    <2>3. RefForm(parsed)
      BY ParsedForm DEF Tags, ListImageReferencesByContainer
    <2>4. ref.digest = ParseImageDigest(s.imageID)
      <3> HIDE DEF parsed
      <3> QED BY <2>3, DigestForm
    <2>5. ParseImageDigest(s.imageID) = s.imageID.digest
      BY <1>1, <2>1, CollectorAssumption, TrimmedDigest DEF ParseImageDigest, IsImageID
    <2> HIDE DEF ref
    <2> QED
      BY <2>2, <2>4, <2>5
  <1>4. Tags' = Tags
    BY <1>1 DEF Tags
  <1> QED
    BY <1>1, <1>2, <1>3, <1>4 DEF Listed

\* What the rest of a pass may do to an image keeps its container and its digest.
LEMMA ListedChange ==
  ASSUME Listed, stage \in Working, pod' = pod, at \in DOMAIN images, NEW img,
         images' = [images EXCEPT ![at] = img],
         img.containerID = images[at].containerID, img.ref.digest = images[at].ref.digest
  PROVE  Listed'
  <1>1. DOMAIN images' = DOMAIN images
    OBVIOUS
  <1>2. \A k \in DOMAIN images : /\ images'[k].containerID = images[k].containerID
                                 /\ images'[k].ref.digest = images[k].ref.digest
    OBVIOUS
  <1>3. Tags' = Tags
    BY DEF Tags
  <1> QED
    BY <1>1, <1>2, <1>3 DEF Listed

LEMMA ListedSame ==
  ASSUME Listed, UNCHANGED <<pod, images>>, stage' \in Working => stage \in Working
  PROVE  Listed'
  BY DEF Listed, Tags

LEMMA ListedResolve == PassTypes /\ PassOK /\ Listed /\ ResolveContainerdImage => Listed'
  <1> SUFFICES ASSUME PassTypes, PassOK, Listed, ResolveContainerdImage PROVE Listed'
    OBVIOUS
  <1>1. stage \in Working /\ pod' = pod /\ at \in DOMAIN images
    BY DEF ResolveContainerdImage, PassTypes, Working
  <1>2. CASE UNCHANGED images
    BY <1>1, <1>2, ListedSame
  <1>3. CASE ~UNCHANGED images
    <2>1. PICK info \in Infos(images[at].containerID), exists \in {"yes", "no"} :
            images' = [images EXCEPT ![at] = Resolved(images[at], info, exists)]
      BY <1>3 DEF ResolveContainerdImage, Image
    <2> DEFINE res == Resolved(images[at], info, exists)
    <2>2. ImageOK(images[at], Asks)
      BY <1>1 DEF PassOK, ImagesOK
    <2>3. res.ref = images[at].ref /\ res.containerID = images[at].containerID
      BY <2>2, ResolvedOK DEF ImageOK
    <2>4. images' = [images EXCEPT ![at] = res]
      BY <2>1
    <2> HIDE DEF res
    <2> QED
      BY <1>1, <2>3, <2>4, ListedChange
  <1> QED
    BY <1>2, <1>3

LEMMA ListedMirror == PassTypes /\ PassOK /\ Listed /\ UseMirror => Listed'
  <1> SUFFICES ASSUME PassTypes, PassOK, Listed, UseMirror PROVE Listed'
    OBVIOUS
  <1>1. stage \in Working /\ pod' = pod /\ at \in DOMAIN images
    BY DEF UseMirror, PassTypes, Working
  <1>2. CASE UNCHANGED images
    BY <1>1, <1>2, ListedSame
  <1>3. CASE ~UNCHANGED images
    <2> DEFINE mir == Mirrored(images[at], mirror)
    <2>1. images' = [images EXCEPT ![at] = mir] /\ mirror # NoText
      BY <1>3 DEF UseMirror, Image
    <2>2. IsText(mirror)
      BY <2>1, CollectorAssumption DEF PassTypes, Texts
    <2>3. ImageOK(images[at], Asks)
      BY <1>1 DEF PassOK, ImagesOK
    <2>4. mir.ref.digest = images[at].ref.digest /\ mir.containerID = images[at].containerID
      BY <2>2, <2>3, MirroredOK DEF ImageOK
    <2> HIDE DEF mir
    <2> QED
      BY <1>1, <2>1, <2>4, ListedChange
  <1> QED
    BY <1>2, <1>3

LEMMA ListedNext == PassTypes /\ PassOK /\ Listed /\ [Next]_vars => Listed'
  <1> SUFFICES ASSUME PassTypes, PassOK, Listed, [Next]_vars PROVE Listed'
    OBVIOUS
  <1>1. CASE Start \/ Fail
    <2>1. PassLost /\ (step = "running" => step' \in {"failing", "exited"})
      BY <1>1, RunningEnds DEF Start, Fail
    <2> QED
      BY <2>1, ListedSame DEF PassLost, PassEnds, passVars, Listed, Working
  <1>2. ASSUME NEW p \in Pods, Reconcile(p) PROVE Listed'
    BY <1>2 DEF Reconcile, Listed, Working
  <1>3. CASE GetKeychain
    BY <1>3, ListedSame DEF GetKeychain, passVars
  <1>4. CASE SkipStatus \/ SkipImage \/ GetImageStatus
    BY <1>4, ListedSame DEF SkipStatus, SkipImage, GetImageStatus, AtImage, Working
  <1>5. CASE GenerateAndSend \/ ScanFails
    BY <1>5, ListedSame DEF GenerateAndSend, ScanFails, Working
  <1>6. CASE Return
    BY <1>6 DEF Return, PassEnds, Listed, Working
  <1>7. CASE UNCHANGED vars
    BY <1>7, ListedSame DEF vars, passVars
  <1> QED
    BY <1>1, <1>2, <1>3, <1>4, <1>5, <1>6, <1>7, ListedList, ListedResolve, ListedMirror
       DEF Next, PassNext

LEMMA ListedMeansReported == PassTypes /\ Listed => ListedAsReported
  <1> SUFFICES ASSUME PassTypes, Listed, stage \in Working PROVE ListedAsReported
    BY DEF ListedAsReported, Working
  <1>1. pod \in Pods
    BY DEF PassTypes, Working
  <1>2. ASSUME NEW j \in DOMAIN pod.statuses
        PROVE  Listable(pod.statuses[j], Tags) <=>
                 \/ /\ pod.statuses[j].name \in DOMAIN pod.spec
                    /\ IsReference(pod.spec[pod.statuses[j].name])
                 \/ pod.statuses[j].imageID.path # <<>>
                 \/ pod.statuses[j].imageID.digest # ""
    <2>1. IsText(pod.statuses[j].imageID)
      BY <1>1, CollectorAssumption DEF IsImageID
    <2> QED
      BY <2>1, TrimmedDigest DEF Listable, Tags, ListImageReferencesByContainer
  <1>3. ASSUME NEW j \in DOMAIN pod.statuses
        PROVE  {k \in DOMAIN images : images[k].containerID = pod.statuses[j].containerID}
                 = IF Listable(pod.statuses[j], Tags) THEN {j} ELSE {}
    <2>1. \A k \in DOMAIN images : images[k].containerID = pod.statuses[j].containerID <=> k = j
      BY <1>1, CollectorAssumption DEF Listed
    <2> QED
      BY <2>1 DEF Listed
  <1>4. \A j \in DOMAIN pod.statuses : Cardinality({j}) = 1
    BY FS_Singleton
  <1>5. \A k \in DOMAIN images : /\ k \in DOMAIN pod.statuses
                                 /\ images[k].containerID = pod.statuses[k].containerID
                                 /\ images[k].ref.digest = pod.statuses[k].imageID.digest
    BY DEF Listed
  <1>6. Statuses(pod) = {pod.statuses[j] : j \in DOMAIN pod.statuses}
    BY DEF Statuses, Range
  <1>7. ASSUME NEW s \in Statuses(pod)
        PROVE  LET mine == {k \in DOMAIN images : images[k].containerID = s.containerID} IN
               IF (s.name \in DOMAIN pod.spec /\ IsReference(pod.spec[s.name]))
                    \/ s.imageID.path # <<>> \/ s.imageID.digest # ""
                 THEN Cardinality(mine) = 1 /\ \A k \in mine : images[k].ref.digest = s.imageID.digest
                 ELSE mine = {}
    <2>1. PICK j \in DOMAIN pod.statuses : s = pod.statuses[j]
      BY <1>6
    <2> DEFINE mine == {k \in DOMAIN images : images[k].containerID = s.containerID}
    <2>2. mine = IF Listable(s, Tags) THEN {j} ELSE {}
      BY <1>3, <2>1
    <2>3. mine \subseteq DOMAIN images
      OBVIOUS
    <2> HIDE DEF mine
    <2>4. CASE Listable(s, Tags)
      <3>1. mine = {j} /\ j \in DOMAIN images
        BY <2>2, <2>3, <2>4
      <3>2. Cardinality(mine) = 1 /\ \A k \in mine : images[k].ref.digest = s.imageID.digest
        BY <1>4, <1>5, <2>1, <3>1
      <3> QED
        BY <1>2, <2>1, <2>4, <3>2 DEF mine
    <2>5. CASE ~Listable(s, Tags)
      <3>1. mine = {}
        BY <2>2, <2>5
      <3> QED
        BY <1>2, <2>1, <2>5, <3>1 DEF mine
    <2> QED
      BY <2>4, <2>5
  <1>8. \A k \in DOMAIN images : \E s \in Statuses(pod) : images[k].containerID = s.containerID
    BY <1>5, <1>6
  <1> QED
    BY <1>7, <1>8 DEF ListedAsReported

\* Each container status gives the one image it reports, through the whole pass,
\* whatever containerd and the mirrors do to the image's names.
THEOREM ImagesAreReported == Spec => []ListedAsReported
  <1>1. Init => Listed
    BY DEF Init, PassInit, Listed, Working
  <1>2. Spec => []Listed
    BY <1>1, ListedNext, Always, PTL DEF Spec
  <1> QED
    BY <1>2, ListedMeansReported, Always, PTL
(***************************************************************************)
(* Which pods a collector passes over, and its way to running.             *)
(***************************************************************************)

\* Whatever main has found out about its node, the selector, the transform and
\* the predicate draw the same line: a pod the selector lets through is neither
\* stripped nor refused, one it keeps out would be both.
THEOREM FiltersAgree == Spec => []ScopesAgree
  <1>1. ASSUME NEW on
        PROVE  /\ SelectsPod(on) <=> ~StripsPod(on)
               /\ SelectsPod(on) <=> ~RefusesPod(on)
    BY DEF SelectsPod, StripsPod, RefusesPod, IsFromCurrentNode
  <1>2. ScopesAgree
    BY <1>1 DEF ScopesAgree
  <1> QED
    BY <1>2, PTL

\* Past the lookup of its node main has the name, or the lookup has failed; and
\* the pod of a pass is one the selector let through.
Scoped ==
  /\ step \notin {"environment", "node", "exited", "failing"} => node = OwnNode \/ faults > 0
  /\ stage # "idle" => SelectsPod(pod.node)

\* A failure is counted.
LEMMA FaultCounted ==
  ASSUME StartTypes, StartFaults
  PROVE  faults \in Nat /\ faults' = faults + 1
  <1>1. MaxFaults \in Nat
    BY CollectorAssumption
  <1>2. faults \in 0..MaxFaults
    BY DEF StartTypes
  <1>3. faults' = faults + 1
    BY DEF StartFaults, NoKubeconfig, NodeNameUnknown, BadCollectorConfig, NoContainerdClient,
           SetupFails, Killed, Fault
  <1> QED
    BY <1>1, <1>2, <1>3

LEMMA ScopedStart == StartTypes /\ PassTypes /\ Scoped /\ (Start \/ Fail) => Scoped'
  <1> SUFFICES ASSUME StartTypes, PassTypes, Scoped, Start \/ Fail
               PROVE  Scoped'
    OBVIOUS
  <1>1. step' \notin {"environment", "node", "exited", "failing"} => node' = OwnNode \/ faults' > 0
    <2> USE DEF Scoped, From, To
    <2>1. CASE Start
      <3>1. CASE ParseEnvironment \/ GetNodeNameForPod \/ NewAgentClient \/ GetCollectorConfig
        BY <3>1 DEF ParseEnvironment, GetNodeNameForPod, NewAgentClient, GetCollectorConfig
      <3>2. CASE NewOutputClient \/ NewManager \/ CompileExcludedImageNames \/ NewContainerdClient
        BY <3>2 DEF NewOutputClient, NewManager, CompileExcludedImageNames, NewContainerdClient
      <3>3. CASE SetupWatcher \/ StartManager \/ ReportFailure \/ Restarted
        BY <3>3 DEF SetupWatcher, StartManager, ReportFailure, Restarted
      <3> QED
        BY <2>1, <3>1, <3>2, <3>3 DEF Start, StartWork
    <2>2. CASE Fail
      BY <2>2, FaultCounted DEF Fail
    <2> QED
      BY <2>1, <2>2
  <1>2. stage' # "idle" => SelectsPod(pod.node)'
    <2>1. step = "running" => step' \in {"failing", "exited"}
      BY RunningEnds DEF Start, Fail
    <2>2. stage' = "idle"
      BY <2>1 DEF Start, Fail, PassLost, PassEnds, PassTypes, passVars
    <2> QED
      BY <2>2
  <1> QED
    BY <1>1, <1>2 DEF Scoped

LEMMA ScopedPass == Scoped /\ PassTypes /\ PassNext => Scoped'
  <1> SUFFICES ASSUME Scoped, PassTypes, PassNext
               PROVE  Scoped'
    OBVIOUS
  <1>0. UNCHANGED <<env, step, node, faults>>
    BY DEF PassNext, startVars
  <1>1. ASSUME NEW on
        PROVE  SelectsPod(on)' <=> SelectsPod(on)
    BY <1>0 DEF SelectsPod, RunAsDaemonSet
  <1>2. \/ \E p \in Pods : Reconcile(p)
        \/ pod' = pod /\ stage # "idle"
        \/ stage' = "idle"
    BY DEF PassNext, GetKeychain, ListImages, SkipStatus, SkipImage, GetImageStatus,
           ResolveContainerdImage, UseMirror, GenerateAndSend, ScanFails, Return, AtImage,
           PassEnds, passVars
  <1>3. stage' # "idle" => SelectsPod(pod.node)'
    <2>1. ASSUME NEW p \in Pods, Reconcile(p)
          PROVE  SelectsPod(pod.node)'
      BY <1>0, <2>1 DEF Reconcile, SelectsPod, RunAsDaemonSet
    <2>2. CASE pod' = pod /\ stage # "idle"
      BY <1>0, <2>2 DEF Scoped, SelectsPod, RunAsDaemonSet
    <2> QED
      BY <1>2, <2>1, <2>2
  <1> QED
    BY <1>0, <1>3 DEF Scoped

\* No order of restarts, failed lookups and passes lets a collector that knows its
\* node pass over a pod of another one.
THEOREM OnlyUnnamedSeeOthers == Spec => []OthersOnlyUnnamed
  <1> DEFINE Inv == StartTypes /\ PassTypes /\ Scoped
  <1>1. Init => Inv
    BY TypeInit DEF Init, StartInit, PassInit, Scoped
  <1>2. TypeOK' => StartTypes' /\ PassTypes'
    BY DEF TypeOK, StartTypes, PassTypes
  <1>3. Inv /\ [Next]_vars => Scoped'
    <2> SUFFICES ASSUME Scoped, UNCHANGED vars
                 PROVE  Scoped'
      BY ScopedStart, ScopedPass DEF Next
    <2> QED
      BY DEF vars, startVars, passVars, Scoped, SelectsPod, RunAsDaemonSet
  <1>4. Inv => OthersOnlyUnnamed
    BY CollectorAssumption DEF PassTypes, StartTypes, Scoped, OthersOnlyUnnamed, SelectsPod
  <1> QED
    BY <1>1, <1>2, <1>3, <1>4, Types, TypeNext, PTL DEF Spec

\* One of main's own steps with a valid environment.
LEMMA StepsAhead ==
  ASSUME Valid, StartWork
  PROVE  Distance[step'] < Distance[step]
  <1> USE DEF From, To, Distance
  <1>1. CASE ParseEnvironment \/ GetNodeNameForPod \/ NewAgentClient \/ GetCollectorConfig
    BY <1>1 DEF ParseEnvironment, GetNodeNameForPod, NewAgentClient, GetCollectorConfig, Valid
  <1>2. CASE NewOutputClient \/ NewManager \/ CompileExcludedImageNames \/ NewContainerdClient
    BY <1>2 DEF NewOutputClient, NewManager, CompileExcludedImageNames, NewContainerdClient, Valid
  <1>3. CASE SetupWatcher \/ StartManager
    BY <1>3 DEF SetupWatcher, StartManager
  <1>4. CASE ReportFailure
    BY <1>4 DEF ReportFailure
  <1>5. CASE Restarted
    <2>1. step = "exited" /\ step' = "environment"
      BY <1>5 DEF Restarted
    <2> QED
      BY <2>1
  <1> QED
    BY <1>1, <1>2, <1>3, <1>4, <1>5 DEF StartWork

\* Each step of main, from any step of it and after any number of failures and
\* restarts, brings a valid collector nearer to running, unless something fails:
\* twelve steps at most lie between a failure and running.
THEOREM MainGoesOn == Spec => NearerToRunning
  <1>1. TypeOK /\ [Next]_vars =>
          [Valid /\ step' # step => Distance[step'] < Distance[step] \/ faults' > faults]_vars
    <2> SUFFICES ASSUME StartTypes, Next, Valid, step' # step
                 PROVE  Distance[step'] < Distance[step] \/ faults' > faults
      BY Types DEF vars, startVars
    <2>1. CASE Start
      BY <2>1, StepsAhead DEF Start
    <2>2. CASE Fail
      <3>1. faults \in Nat /\ faults' = faults + 1
        BY <2>2, FaultCounted DEF Fail
      <3> QED
        BY <3>1
    <2>3. CASE PassNext
      BY <2>3 DEF PassNext, startVars
    <2> QED
      BY <2>1, <2>2, <2>3 DEF Next
  <1> QED
    BY <1>1, TypeCorrect, PTL DEF Spec, NearerToRunning
=============================================================================
