----------------------------- MODULE SbomProofs -----------------------------
(* Theorems of SbomGenerator, for every number of retries. *)
EXTENDS SbomGenerator, TLAPS

\* How often the platform asked for can still be changed: a plain one to one
\* with the variant, and either to none.
Left(p) == CASE p = "plain" -> 2 [] p = "variant" -> 1 [] OTHER -> 0

\* Every attempt so far was followed by a retry for the rate or by a change of
\* the platform, except the last one once it is over.
Accounted ==
  /\ retry <= MaxRetries + 1
  /\ attempts + Left(platform) <= retry + 2 + (IF pc = "attempt" THEN 0 ELSE 1)

LEMMA LeftNat == \A p \in Platforms : Left(p) \in 0..2
  BY DEF Left, Platforms

LEMMA InitAccounted == Init => TypeOK /\ Accounted
  <1> SUFFICES ASSUME Init PROVE TypeOK /\ Accounted
    OBVIOUS
  <1>1. platform \in Platforms
    BY DEF Init, Requested, Platforms
  <1>2. TypeOK
    BY <1>1 DEF Init, TypeOK, Phrases
  <1>3. Accounted
    BY <1>1, LeftNat, SbomAssumption DEF Init, Accounted
  <1> QED
    BY <1>2, <1>3

\* An attempt keeps the record of what has been met.
LEMMA MeetsType ==
  ASSUME TypeOK, NEW phrases \in SUBSET Phrases, Meets(phrases)
  PROVE  refused' \in [first : Platforms, met : SUBSET Phrases]
  BY DEF TypeOK, Meets

\* The attempts that end with an error keep the types.
LEMMA TypeAttempt ==
  ASSUME TypeOK, NEW phrases \in SUBSET Phrases,
         \/ RateExceeded(phrases)
         \/ VariantRejected(phrases)
         \/ PlatformRejected(phrases)
         \/ SourceFails(phrases)
  PROVE  TypeOK'
  <1> USE MeetsType DEF TypeOK, Attempt
  <1>1. CASE RateExceeded(phrases)
    BY <1>1 DEF RateExceeded
  <1>2. CASE VariantRejected(phrases)
    BY <1>2 DEF VariantRejected, Platforms
  <1>3. CASE PlatformRejected(phrases)
    BY <1>3 DEF PlatformRejected, Platforms
  <1>4. CASE SourceFails(phrases)
    BY <1>4 DEF SourceFails
  <1> QED
    BY <1>1, <1>2, <1>3, <1>4

\* So does every step.
LEMMA TypeNext == TypeOK /\ [Next]_vars => TypeOK'
  <1> SUFFICES ASSUME TypeOK, [Next]_vars PROVE TypeOK'
    OBVIOUS
  <1>1. ASSUME NEW phrases \in SUBSET Phrases,
               RateExceeded(phrases) \/ VariantRejected(phrases) \/ PlatformRejected(phrases)
                 \/ SourceFails(phrases)
        PROVE  TypeOK'
    BY <1>1, TypeAttempt
  <1>2. CASE SourceFound
    BY <1>2 DEF TypeOK, SourceFound, Attempt
  <1>3. CASE ScanFails \/ ScanSucceeds \/ Cleanup
    BY <1>3 DEF TypeOK, ScanFails, ScanSucceeds, Cleanup
  <1>4. CASE UNCHANGED vars
    BY <1>4 DEF TypeOK, vars
  <1> QED
    BY <1>1, <1>2, <1>3, <1>4 DEF Next

LEMMA AccountedNext == TypeOK /\ Accounted /\ [Next]_vars => Accounted'
  <1> SUFFICES ASSUME TypeOK, Accounted, [Next]_vars PROVE Accounted'
    OBVIOUS
  <1> USE SbomAssumption
  <1>t. /\ attempts \in Nat /\ retry \in Nat
        /\ platform \in Platforms
    BY DEF TypeOK
  <1>l. Left(platform) \in 0..2
    BY <1>t, LeftNat
  <1>1. ASSUME NEW phrases \in SUBSET Phrases, RateExceeded(phrases)
        PROVE  Accounted'
    \* One attempt and one retry more.
    BY <1>1, <1>t, <1>l DEF Accounted, RateExceeded, Attempt, MayRetry
  <1>2. ASSUME NEW phrases \in SUBSET Phrases, VariantRejected(phrases)
        PROVE  Accounted'
    \* One attempt more, and one change of the platform less to come.
    <2>1. Left(platform) = 2 /\ Left(platform') = 1
      BY <1>2 DEF VariantRejected, AsksNoVariant, Left
    <2> QED
      BY <1>2, <1>t, <2>1 DEF Accounted, VariantRejected, Attempt
  <1>3. ASSUME NEW phrases \in SUBSET Phrases, PlatformRejected(phrases)
        PROVE  Accounted'
    <2>1. Left(platform) >= 1 /\ Left(platform') = 0
      BY <1>3, <1>t DEF PlatformRejected, Left, Platforms
    <2> QED
      BY <1>3, <1>t, <1>l, <2>1 DEF Accounted, PlatformRejected, Attempt
  <1>4. ASSUME NEW phrases \in SUBSET Phrases, SourceFails(phrases)
        PROVE  Accounted'
    BY <1>4, <1>t, <1>l DEF Accounted, SourceFails, Attempt
  <1>5. CASE SourceFound
    BY <1>5, <1>t, <1>l DEF Accounted, SourceFound, Attempt
  <1>6. CASE ScanFails \/ ScanSucceeds \/ Cleanup
    BY <1>6 DEF Accounted, ScanFails, ScanSucceeds, Cleanup
  <1>7. CASE UNCHANGED vars
    BY <1>7 DEF Accounted, vars
  <1> QED
    BY <1>1, <1>2, <1>3, <1>4, <1>5, <1>6, <1>7 DEF Next

\* GetSource is called at most maxRetries + 4 times, whatever the constant is and
\* however rate, variant and platform errors follow each other.
THEOREM AttemptsAreBounded == Spec => []AttemptsBounded
  <1>1. Init => TypeOK /\ Accounted
    BY InitAccounted
  <1>2. (TypeOK /\ Accounted) /\ [Next]_vars => (TypeOK /\ Accounted)'
    BY TypeNext, AccountedNext
  <1>3. TypeOK /\ Accounted => AttemptsBounded
    BY LeftNat, SbomAssumption DEF TypeOK, Accounted, AttemptsBounded
  <1> QED
    BY <1>1, <1>2, <1>3, PTL DEF Spec

\* The variables have their types, and only an image that was found is scanned,
\* whatever the constants are.
THEOREM TypeCorrect == Spec => []TypeOK
  BY InitAccounted, TypeNext, PTL DEF Spec

-----------------------------------------------------------------------------
(* The platform. *)

\* Where the platform is not the one first asked for, the phrase that changed it
\* has been met; it is never changed to one without a variant.
PlatformExplained ==
  /\ platform = "plain" => refused.first = "plain"
  /\ platform = "variant" => \/ refused.first = "variant"
                             \/ refused.first = "plain" /\ "V8" \in refused.met
  /\ platform = "none" => refused.first = "none" \/ "PLATFORM" \in refused.met

LEMMA PlatformNext ==
  TypeOK /\ PlatformExplained /\ [Next]_vars => PlatformExplained'
  <1> SUFFICES ASSUME TypeOK, PlatformExplained, [Next]_vars PROVE PlatformExplained'
    OBVIOUS
  <1> USE DEF PlatformExplained
  <1>t. refused \in [first : Platforms, met : SUBSET Phrases]
    BY DEF TypeOK
  \* What has been met stays met, and the platform first asked for is not touched.
  <1>m. ASSUME NEW phrases \in SUBSET Phrases, Meets(phrases)
        PROVE  refused'.first = refused.first /\ refused'.met = refused.met \cup phrases
    BY <1>m, <1>t DEF Meets
  <1>1. ASSUME NEW phrases \in SUBSET Phrases,
               RateExceeded(phrases) \/ SourceFails(phrases)
        PROVE  PlatformExplained'
    BY <1>1, <1>m DEF RateExceeded, SourceFails
  <1>2. ASSUME NEW phrases \in SUBSET Phrases, VariantRejected(phrases)
        PROVE  PlatformExplained'
    BY <1>2, <1>m DEF VariantRejected, AsksNoVariant
  <1>3. ASSUME NEW phrases \in SUBSET Phrases, PlatformRejected(phrases)
        PROVE  PlatformExplained'
    BY <1>3, <1>m DEF PlatformRejected
  <1>4. CASE SourceFound \/ ScanFails \/ ScanSucceeds \/ Cleanup
    BY <1>4 DEF SourceFound, ScanFails, ScanSucceeds, Cleanup
  <1>5. CASE UNCHANGED vars
    BY <1>5 DEF vars
  <1> QED
    BY <1>1, <1>2, <1>3, <1>4, <1>5 DEF Next

\* An SBOM of another platform's image than the one asked for is only made after
\* the source library said that there is none for it.
THEOREM PlatformIsKept == Spec => []PlatformKept
  <1>1. Init => TypeOK /\ PlatformExplained
    <2>1. Init => PlatformExplained
      BY DEF Init, PlatformExplained
    <2> QED
      BY <2>1, InitAccounted
  <1>2. (TypeOK /\ PlatformExplained) /\ [Next]_vars => (TypeOK /\ PlatformExplained)'
    BY TypeNext, PlatformNext
  <1>3. PlatformExplained => PlatformKept
    BY DEF PlatformExplained, PlatformKept
  <1> QED
    BY <1>1, <1>2, <1>3, PTL DEF Spec
=============================================================================
