--------------------------- MODULE ImageResolver ---------------------------
(***************************************************************************)
(* Which images a pod uses, and where containerd has them on its node      *)
(* (pkg/imageresolver).                                                    *)
(***************************************************************************)
EXTENDS ImageReference

CONSTANT NodePlatform   \* NodeInfo: what the collector was built for

NoPlatform == [of |-> "", os |-> ""]

-----------------------------------------------------------------------------
(* The pod's images. A status is of a container: its name, its image ID and *)
(* its container ID, which stands for the container at its runtime.         *)

\* Containers of all three lists, those left out whose image does not parse.
ListImageReferencesByContainer(spec) ==
  [c \in {d \in DOMAIN spec : IsReference(spec[d])} |-> ParseImageReference(spec[c])]

Listable(s, tags) == s.name \in DOMAIN tags \/ IsReference(TrimImageIDPrefix(s.imageID))

\* Mutated form: the digest written in the spec has precedence.
GetPodImageFromStatusBySpec(s, tags) ==
  LET parsed == IF s.name \in DOMAIN tags THEN tags[s.name]
                ELSE ParseImageReference(TrimImageIDPrefix(s.imageID))
      ref    == IF parsed.digest # "" THEN parsed
                ELSE [parsed EXCEPT !.digest = ParseImageDigest(s.imageID)]
  IN [ref |-> ref, containerID |-> s.containerID,
      imageNameReference |-> NameWithDigest(ref), imagePlatform |-> NoPlatform]

\* The container's reference in the spec if there is one, else its image ID; the
\* digest is the image ID's either way.
GetPodImageFromStatus(s, tags) ==
  LET parsed == IF s.name \in DOMAIN tags THEN tags[s.name]
                ELSE ParseImageReference(TrimImageIDPrefix(s.imageID))
      ref    == [parsed EXCEPT !.digest = ParseImageDigest(s.imageID)]
  IN [ref |-> ref, containerID |-> s.containerID,
      imageNameReference |-> NameWithDigest(ref), imagePlatform |-> NoPlatform]

\* A status in error is left out, and the others are listed; here each image keeps
\* the place of its status.
ListImagesFromContainerStatuses(statuses, tags) ==
  [k \in {j \in DOMAIN statuses : Listable(statuses[j], tags)} |->
     GetPodImageFromStatus(statuses[k], tags)]

\* The statuses are those of the containers, the init and the ephemeral containers,
\* one list after the other.
ListPodUsedImages(p, tags) == ListImagesFromContainerStatuses(p.statuses, tags)

-----------------------------------------------------------------------------
(* The image in the node's containerd. An image there has a name, a target  *)
(* digest and a content: a manifest with the platform of its configuration  *)
(* ("" if it has none, "unreadable" if a blob is), or an index of such.     *)

getImagePlatformFromManifest(m) == IF m.config \in {"", "unreadable"} THEN "" ELSE m.config

\* The first manifest for the node's platform.
getImagePlatformFromIndex(manifests) ==
  LET matching == SelectSeq(manifests, LAMBDA m : m.platform = NodePlatform)
  IN IF matching = <<>> THEN "" ELSE getImagePlatformFromManifest(matching[1])

GetImagePlatform(content) ==
  CASE content.media = "index"    -> getImagePlatformFromIndex(content.manifests)
    [] content.media = "manifest" -> getImagePlatformFromManifest(content.manifests[1])
    [] OTHER                      -> ""

IsContainerdContainer(id) == id.runtime = "containerd"

\* docker.io/... for Docker Hub's index.docker.io/...
Candidate(info) ==
  ByDigest(<<IF RegistryStr(info.name) = DefaultRegistry THEN "docker.io" ELSE RegistryStr(info.name)>>
             \o RepositoryStr(info.name), info.digest)

\* Mutated form: the platform is taken before the digests are compared.
ResolvedHastily(img, info, exists) ==
  LET platformed == IF GetImagePlatform(info.content) = "" THEN img
                    ELSE [img EXCEPT !.imagePlatform = [of |-> info.digest, os |-> GetImagePlatform(info.content)]]
  IN IF info.digest # img.ref.digest THEN platformed
     ELSE IF exists = "yes" THEN [platformed EXCEPT !.imageNameReference = Candidate(info)]
     ELSE [platformed EXCEPT !.imageNameReference = AsWritten(info.name)]

\* Mutated form: the digests are not compared.
ResolvedUnchecked(img, info, exists) ==
  IF exists = "yes" THEN [img EXCEPT !.imageNameReference = Candidate(info)]
  ELSE [img EXCEPT !.imageNameReference = AsWritten(info.name)]

\* What containerd says counts if it has the image under the status' digest:
\* the platform, and the name by digest if there is one, else the name it has.
Resolved(img, info, exists) ==
  IF info.digest # img.ref.digest THEN img
  ELSE [img EXCEPT
          !.imagePlatform = IF GetImagePlatform(info.content) = "" THEN NoPlatform
                            ELSE [of |-> info.digest, os |-> GetImagePlatform(info.content)],
          !.imageNameReference = IF IsReference(info.name) /\ exists = "yes" THEN Candidate(info)
                                 ELSE AsWritten(info.name)]
=============================================================================
