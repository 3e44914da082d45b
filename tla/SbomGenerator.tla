---------------------------- MODULE SbomGenerator ----------------------------
(***************************************************************************)
(* GenerateImageSBOM (pkg/sbom/sbom.go): where the image is looked for, on *)
(* which platform, and what is tried again when the source library refuses *)
(* it. The library (syft, stereoscope) is external: an attempt ends with   *)
(* an image, or with an error whose text may contain any of the phrases    *)
(* the code looks for.                                                     *)
(***************************************************************************)
EXTENDS Naturals

CONSTANTS MaxRetries,           \* maxRetries
          IsRunningAsDaemonSet,
          ConfiguredSources     \* config.From, {} if there is none

ASSUME SbomAssumption == /\ MaxRetries \in Nat
                         /\ IsRunningAsDaemonSet \in BOOLEAN

\* A platform is asked for without a variant, with one, or not at all.
Platforms == {"none", "plain", "variant"}

\* The phrases looked for in the text of an error.
Phrases == {"RATE", "V8", "PLATFORM"}

VARIABLES pc,        \* "attempt", "scan", "cleanup" or "done"
          sources,   \* where the image is looked for
          platform,  \* the platform asked for
          retry,     \* how often the rate was exceeded
          attempts,  \* calls of GetSource, an observation
          delay,     \* the last pause, in units of five seconds
          sbom,      \* is there an encoded SBOM?
          err,       \* is there an error to return?
          refused    \* phrases met so far, and the platform first asked for:
                     \* observations, never read by the program

vars == <<pc, sources, platform, retry, attempts, delay, sbom, err, refused>>

-----------------------------------------------------------------------------

\* Registry only off a node; on it the node's own runtime comes first.
Sources(containerd) ==
  IF ConfiguredSources # {} THEN ConfiguredSources
  ELSE IF ~IsRunningAsDaemonSet THEN {"registry"}
  ELSE IF containerd THEN {"containerd", "registry"}
  ELSE {"docker", "containerd", "registry"}

\* The image's own platform, else the node's; only on a node.
Requested(imagePlatform, nodePlatform) ==
  IF ~IsRunningAsDaemonSet THEN "none"
  ELSE IF imagePlatform # "none" THEN imagePlatform ELSE nodePlatform

Init ==
  /\ pc = "attempt"
  /\ \E containerd \in BOOLEAN : sources = Sources(containerd)
  /\ \E imagePlatform \in Platforms, nodePlatform \in {"none", "plain"} :
       platform = Requested(imagePlatform, nodePlatform)
  /\ retry = 0
  /\ attempts = 0
  /\ delay = 0
  /\ sbom = FALSE
  /\ err = FALSE
  /\ refused = [first |-> platform, met |-> {}]

\* GetSource is called.
Attempt == pc = "attempt" /\ attempts' = attempts + 1

Meets(phrases) == refused' = [refused EXCEPT !.met = @ \cup phrases]

\* Mutated form: the limit on the retries is left out.
MayRetryForever == TRUE
MayRetry == ~(retry > MaxRetries)

\* The registry's rate is exceeded: a pause, and the same again.
RateExceeded(phrases) ==
  /\ Attempt
  /\ "RATE" \in phrases
  /\ MayRetry
  /\ retry' = retry + 1
  /\ delay' = retry + 1
  /\ Meets(phrases)
  /\ UNCHANGED <<pc, sources, platform, sbom, err>>

AsksNoVariant == platform = "plain"

\* An arm64 image that says v8: asked for again with the variant.
VariantRejected(phrases) ==
  /\ Attempt
  /\ "RATE" \notin phrases
  /\ "V8" \in phrases
  /\ AsksNoVariant
  /\ platform' = "variant"
  /\ Meets(phrases)
  /\ UNCHANGED <<pc, sources, retry, delay, sbom, err>>

\* Mutated form: the platform is given up after any error.
PlatformRejectedByAny(phrases) ==
  /\ Attempt
  /\ "RATE" \notin phrases
  /\ ~("V8" \in phrases /\ AsksNoVariant)
  /\ platform # "none"
  /\ platform' = "none"
  /\ Meets(phrases)
  /\ UNCHANGED <<pc, sources, retry, delay, sbom, err>>

\* No image for the platform: asked for again without one.
PlatformRejected(phrases) ==
  /\ Attempt
  /\ "RATE" \notin phrases
  /\ ~("V8" \in phrases /\ AsksNoVariant)
  /\ "PLATFORM" \in phrases
  /\ platform # "none"
  /\ platform' = "none"
  /\ Meets(phrases)
  /\ UNCHANGED <<pc, sources, retry, delay, sbom, err>>

\* Any other error, or the rate exceeded too often, is final.
Final(phrases) == IF "RATE" \in phrases THEN ~MayRetry
                  ELSE /\ ~("V8" \in phrases /\ AsksNoVariant)
                       /\ ~("PLATFORM" \in phrases /\ platform # "none")

\* Mutated form: after a final error the scan goes on.
SourceFailsUnnoticed(phrases) ==
  /\ Attempt
  /\ Final(phrases)
  /\ pc' = "scan"
  /\ err' = TRUE
  /\ Meets(phrases)
  /\ UNCHANGED <<sources, platform, retry, delay, sbom>>

SourceFails(phrases) ==
  /\ Attempt
  /\ Final(phrases)
  /\ pc' = "cleanup"
  /\ err' = TRUE
  /\ Meets(phrases)
  /\ UNCHANGED <<sources, platform, retry, delay, sbom>>

SourceFound ==
  /\ Attempt
  /\ pc' = "scan"
  /\ UNCHANGED <<sources, platform, retry, delay, sbom, err, refused>>

\* CreateSBOM and Encode.
ScanFails ==
  /\ pc = "scan"
  /\ pc' = "cleanup"
  /\ err' = TRUE
  /\ UNCHANGED <<sources, platform, retry, attempts, delay, sbom, refused>>

ScanSucceeds ==
  /\ pc = "scan"
  /\ pc' = "cleanup"
  /\ sbom' = TRUE
  /\ UNCHANGED <<sources, platform, retry, attempts, delay, err, refused>>

\* The deferred cleanup of the temporary directories adds its error, and
\* leaves the SBOM in place.
Cleanup ==
  /\ pc = "cleanup"
  /\ pc' = "done"
  /\ \/ UNCHANGED err
     \/ err' = TRUE
  /\ UNCHANGED <<sources, platform, retry, attempts, delay, sbom, refused>>

Next == \/ \E phrases \in SUBSET Phrases :
             \/ RateExceeded(phrases)
             \/ VariantRejected(phrases)
             \/ PlatformRejected(phrases)
             \/ SourceFails(phrases)
        \/ SourceFound
        \/ ScanFails
        \/ ScanSucceeds
        \/ Cleanup

Spec == Init /\ [][Next]_vars

-----------------------------------------------------------------------------
(* Properties. *)

\* Types, and: only an image that was found is scanned, and there is an SBOM
\* only after a scan.
TypeOK ==
  /\ pc \in {"attempt", "scan", "cleanup", "done"}
  /\ platform \in Platforms
  /\ retry \in Nat /\ attempts \in Nat /\ delay \in Nat
  /\ sbom \in BOOLEAN /\ err \in BOOLEAN
  /\ refused \in [first : Platforms, met : SUBSET Phrases]
  /\ pc \in {"attempt", "scan"} => ~err /\ ~sbom

\* However the registry's errors are mixed, an image is asked for at most
\* maxRetries + 4 times: the first time, maxRetries + 1 times more for the rate,
\* once for the variant and once without the platform.
AttemptsBounded == attempts <= MaxRetries + 4

\* An SBOM is made of another platform's image than the one asked for only
\* after the source library said that there is none for it.
PlatformKept ==
  (sbom /\ platform # refused.first) =>
     /\ platform = "none" => "PLATFORM" \in refused.met
     /\ platform = "variant" => "V8" \in refused.met /\ refused.first = "plain"

\* Each pause is at least twice the one before: "exponential backoff" (README.md
\* and the comment at the pause).
BackoffIsExponential == [][delay' # delay => delay' >= 2 * delay]_vars
=============================================================================
