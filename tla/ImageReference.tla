--------------------------- MODULE ImageReference ---------------------------
(***************************************************************************)
(* How the text of an image reference becomes the names the collector uses *)
(* for the image (pkg/image, pkg/models/image_reference.go): the full name *)
(* is what is pulled and found on the node, the shorthand name is the      *)
(* image's identity at the agent and at the output.                        *)
(*                                                                         *)
(* A text is taken apart where the code takes it apart:                    *)
(*   scheme://host/path[1]/.../path[n]:tag@digest                          *)
(* with "" or <<>> for what is not written. A digest alone has no path. A  *)
(* name is a sequence: what is between its slashes.                        *)
(***************************************************************************)
EXTENDS Naturals, Sequences

CONSTANT ArtifactRegistries   \* hosts of Google Artifact Registry, *.pkg.dev

DefaultRegistry == "index.docker.io"

\* A digest alone has no host either.
IsText(t) ==
  /\ DOMAIN t = {"scheme", "host", "path", "tag", "digest"}
  /\ t.path \in Seq(STRING)
  /\ t.path = <<>> => t.host = ""

\* An image ID: a digest, behind a name or alone, or nothing yet.
IsImageID(t) == IsText(t) /\ (t.path # <<>> => t.digest # "")

ASSUME ReferenceAssumption == {"docker.io", DefaultRegistry} \cap ArtifactRegistries = {}

-----------------------------------------------------------------------------
(* The parser of go-containerregistry (external). A digest alone passes for *)
(* the tag of an image called sha256.                                       *)

IsReference(t) == t.scheme = "" /\ (t.path # <<>> \/ t.digest # "")

RegistryStr(t) == IF t.host \in {"", "docker.io"} THEN DefaultRegistry ELSE t.host

RepositoryStr(t) ==
  LET path == IF t.path = <<>> THEN <<"sha256">> ELSE t.path
  IN IF RegistryStr(t) = DefaultRegistry /\ Len(path) = 1 THEN <<"library">> \o path ELSE path

IsDigestReference(t) == t.path # <<>> /\ t.digest # ""

-----------------------------------------------------------------------------
(* Registry and repository, as they are and in short. *)

IsArtifactRegistry(registry) == registry # <<>> /\ registry[1] \in ArtifactRegistries

\* Nothing for Docker Hub unless it is named; with its project for Google's.
parseImageRegistry(t) ==
  IF t.host = "" THEN <<>>
  ELSE IF IsArtifactRegistry(<<t.host>>) /\ Len(t.path) > 1 THEN <<t.host, t.path[1]>>
  ELSE <<RegistryStr(t)>>

\* Mutated form: the host of Docker Hub is kept when it is written out.
normalizeRegistryNameAsWritten(registry) == registry

normalizeRegistryName(registry) ==
  IF registry \in {<<"docker">>, <<"library">>, <<DefaultRegistry>>, <<"docker.io">>}
    THEN <<>> ELSE registry

removePrefix(path, prefix) == IF Len(path) > 1 /\ path[1] = prefix THEN Tail(path) ELSE path

stripGARProjectName(path, registry) ==
  IF IsArtifactRegistry(registry) /\ Len(path) > 2 THEN Tail(path) ELSE path

\* Each prefix is removed once, in this order.
normalizeRepositoryName(path, registry) ==
  LET p1 == removePrefix(path, "docker")
      p2 == removePrefix(p1, "library")
      p3 == removePrefix(p2, DefaultRegistry)
      p4 == removePrefix(p3, "docker.io")
  IN stripGARProjectName(p4, registry)

\* What is to be looked for: an image by its digest, or as it is called.
ByDigest(name, digest) == [name |-> name, tag |-> "", digest |-> digest]
AsWritten(t) == [name |-> IF t.host = "" THEN t.path ELSE <<t.host>> \o t.path,
                 tag |-> t.tag, digest |-> t.digest]

ParseImageReference(t) ==
  [registry            |-> RegistryStr(t),
   repository          |-> RepositoryStr(t),
   shorthandRegistry   |-> normalizeRegistryName(parseImageRegistry(t)),
   shorthandRepository |-> normalizeRepositoryName(RepositoryStr(t), parseImageRegistry(t)),
   tag    |-> IF IsDigestReference(t) THEN t.tag
              ELSE IF t.path = <<>> THEN t.digest
              ELSE IF t.tag = "" THEN "latest" ELSE t.tag,
   digest |-> IF IsDigestReference(t) THEN t.digest ELSE ""]

Name(r) == <<r.registry>> \o r.repository
ShorthandName(r) == r.shorthandRegistry \o r.shorthandRepository

NameWithDigest(r) == ByDigest(Name(r), r.digest)

-----------------------------------------------------------------------------
(* Image IDs of container statuses. *)

TrimImageIDPrefix(t) == [t EXCEPT !.scheme = ""]

\* What is behind the "@"; all of an image ID without one, which is its digest or
\* nothing (IsImageID). Of a name without a digest it would be the name.
ParseImageDigest(t) == TrimImageIDPrefix(t).digest
=============================================================================
