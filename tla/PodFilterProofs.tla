-------------------------- MODULE PodFilterProofs --------------------------
(* Theorems of PodFilter: what the transform and the predicate let through. *)
EXTENDS PodFilter, FiniteSetTheorems, TLAPS

\* Comparing the sizes and looking up the new entries is comparing the maps.
LEMMA SameEntriesAreEqual ==
  ASSUME NEW old, NEW new, FiniteMap(old), FiniteMap(new)
  PROVE  SameSizeAndEntries(old, new) <=> old = new
  <1>1. ASSUME old = new PROVE SameSizeAndEntries(old, new)
    BY <1>1 DEF SameSizeAndEntries
  <1>2. ASSUME SameSizeAndEntries(old, new) PROVE old = new
    <2>1. DOMAIN new \subseteq DOMAIN old
      BY <1>2 DEF SameSizeAndEntries
    <2>2. DOMAIN new = DOMAIN old
      <3>1. IsFiniteSet(DOMAIN old) /\ Cardinality(DOMAIN old) = Cardinality(DOMAIN new)
        BY <1>2 DEF SameSizeAndEntries, FiniteMap
      <3>2. DOMAIN new # DOMAIN old => Cardinality(DOMAIN new) < Cardinality(DOMAIN old)
        BY <2>1, <3>1, FS_Subset
      <3>3. Cardinality(DOMAIN old) \in Nat
        BY <3>1, FS_CardinalityType
      <3> QED
        BY <3>1, <3>2, <3>3
    <2>3. \A x \in DOMAIN new : old[x] = new[x]
      BY <1>2 DEF SameSizeAndEntries
    <2> QED
      BY <2>2, <2>3 DEF FiniteMap
  <1> QED
    BY <1>1, <1>2

\* An update that the predicate refuses although it wants the object has brought
\* no new image: phase, conditions and all image IDs are those of the old object.
THEOREM RefusedUpdateIsNoNews ==
  ASSUME NEW old, NEW new, IsObject(old), IsObject(new), Wanted(new), ~UpdateFunc(old, new)
  PROVE  /\ old.phase = new.phase
         /\ old.conds = new.conds
         /\ \A k \in Kinds : old.ids[k] = new.ids[k]
  <1>1. ~PodContainerStatusChanged(old, new)
    BY DEF UpdateFunc
  <1>2. old.phase = new.phase /\ SameSizeAndEntries(old.conds, new.conds)
    BY <1>1 DEF PodContainerStatusChanged, ConditionsChanged
  <1>3. \A k \in Kinds : SameSizeAndEntries(old.ids[k], new.ids[k])
    BY <1>1 DEF PodContainerStatusChanged, ContainerImageIDChanged
  <1> QED
    BY <1>2, <1>3, SameEntriesAreEqual DEF IsObject

\* A stub has no phase, so the first wanted object after it is always a change:
\* stripping a pod until its images are resolved hides no update.
THEOREM StubNeverHidesUpdate ==
  ASSUME NEW o, NEW new, Wanted(new)
  PROVE  UpdateFunc(Strip(o), new)
  BY DEF Wanted, UpdateFunc, PodContainerStatusChanged, Strip

\* The two filters agree: what the predicate wants, the transform has kept,
\* unless it was over before the collector's start.
THEOREM WantedIsKept ==
  ASSUME NEW o, Wanted(o)
  PROVE  Transform(o) = o \/ CompletedEarly(o)
  BY DEF Wanted, Transform, Elsewhere, IsFromCurrentNode

\* The informer may hand the transform an object it has stripped before: it leaves it
\* as it is, and never strips what it has once kept.
THEOREM TransformIsIdempotent ==
  ASSUME NEW o
  PROVE  Transform(Transform(o)) = Transform(o)
  <1>1. Strip(Strip(o)) = Strip(o)
    BY DEF Strip
  <1>2. Transform(Strip(o)) \in {Strip(Strip(o)), Strip(o)}
    BY DEF Transform
  <1>3. Transform(o) = o \/ Transform(o) = Strip(o)
    BY DEF Transform
  <1> QED
    BY <1>1, <1>2, <1>3

\* What the transform has kept of a pod that has started, its images resolved, is
\* wanted: nothing that is cached in full is refused for what it is.
THEOREM KeptIsWanted ==
  ASSUME NEW o, o.form = "full", Transform(o) = o, ArePodImagesResolved(o),
         o.phase \in {"Running", "Succeeded", "Failed"}
  PROVE  Wanted(o)
  <1>1. Strip(o).form = "stub"
    BY DEF Strip
  <1>2. ~IsExcluded(o.ns) /\ ~Elsewhere(o)
    BY <1>1 DEF Transform
  <1> QED
    BY <1>2 DEF Wanted, IsStripped, Elsewhere, IsFromCurrentNode
=============================================================================
