------------------------------ MODULE PodFilter ------------------------------
(***************************************************************************)
(* What the collector does with a Pod object before a reconcile is         *)
(* enqueued: the cache's transform (cmd/main.go) strips it or keeps it,    *)
(* the predicate (internal/predicates) lets its events through or not.     *)
(***************************************************************************)
EXTENDS FiniteSets

CONSTANTS RunAsDaemon,      \* RUN_COLLECTOR_AS_DAEMONSET
          NodeName,         \* the collector's own node, "" if its lookup failed
          IncludePatterns,  \* includedNamespaces, as they were configured
          ExcludePatterns,  \* excludedNamespaces
          Unparsable,       \* the patterns glob.Compile rejects
          Matches           \* Matches[pattern]: the namespaces it matches

(***************************************************************************)
(* An object: form is "full" or "stub"; ids[kind] maps the name of each    *)
(* container status to its image ID, "" while it is not resolved; ends     *)
(* maps each of the regular ones to "running", or to "early" or "late"     *)
(* when it terminated before or after the collector's start; early says    *)
(* that the pod was created before it; conds maps condition types to their *)
(* status.                                                                 *)
(***************************************************************************)
Kinds == {"regular", "init", "ephemeral"}
Nothing == [x \in {} |-> ""]
NoStatuses == [k \in Kinds |-> Nothing]

\* Mutated form: the annotation that marks a stub is not set.
StripUnmarked(o) == [form |-> "full", ns |-> o.ns, node |-> "", phase |-> "", conds |-> Nothing,
                     ids |-> NoStatuses, ends |-> Nothing, early |-> FALSE]

\* podcache.Strip keeps the identity, which includes the namespace.
Strip(o) == [form |-> "stub", ns |-> o.ns, node |-> "", phase |-> "", conds |-> Nothing,
             ids |-> NoStatuses, ends |-> Nothing, early |-> FALSE]

IsStripped(o) == o.form = "stub"

\* What the API server has: conditions and statuses are finitely many.
FiniteMap(f) == IsFiniteSet(DOMAIN f) /\ f = [x \in DOMAIN f |-> f[x]]

IsObject(o) == /\ o.form = "full"
               /\ FiniteMap(o.conds)
               /\ o.ids = [k \in Kinds |-> o.ids[k]]
               /\ \A k \in Kinds : FiniteMap(o.ids[k])

-----------------------------------------------------------------------------
(* Namespaces. *)

Compiled(patterns) == patterns \ Unparsable

\* Inclusion, if any pattern of it compiles, takes precedence over exclusion.
IsExcluded(ns) ==
  IF Compiled(IncludePatterns) # {}
    THEN \A p \in Compiled(IncludePatterns) : ns \notin Matches[p]
    ELSE \E p \in Compiled(ExcludePatterns) : ns \in Matches[p]

-----------------------------------------------------------------------------
(* The transform of the cache. *)

Completed(o) == o.phase \in {"Succeeded", "Failed"}

Elsewhere(o) == RunAsDaemon /\ NodeName # "" /\ o.node # NodeName

\* Every regular container has terminated, and the last before the start.
CompletedEarly(o) == /\ Completed(o)
                     /\ o.early
                     /\ DOMAIN o.ends # {}
                     /\ \A n \in DOMAIN o.ends : o.ends[n] = "early"

AreContainersImagesResolved(statuses) == \A n \in DOMAIN statuses : statuses[n] # ""
ArePodImagesResolved(o) == \A k \in Kinds : AreContainersImagesResolved(o.ids[k])

Transform(o) ==
  IF \/ IsExcluded(o.ns)
     \/ Elsewhere(o)
     \/ CompletedEarly(o)
     \/ o.phase = "Pending" /\ ~ArePodImagesResolved(o)
    THEN Strip(o) ELSE o

-----------------------------------------------------------------------------
(* The predicate. *)

IsFromCurrentNode(o) == NodeName = "" \/ o.node = NodeName

\* Mutated form: pods that have completed are refused.
WantedRunning(o) == /\ ~IsStripped(o)
                    /\ ~IsExcluded(o.ns)
                    /\ RunAsDaemon => IsFromCurrentNode(o)
                    /\ o.phase = "Running"
                    /\ ArePodImagesResolved(o)

\* What CreateFunc and UpdateFunc both ask of the object.
Wanted(o) == /\ ~IsStripped(o)
             /\ ~IsExcluded(o.ns)
             /\ RunAsDaemon => IsFromCurrentNode(o)
             /\ o.phase \in {"Running", "Succeeded", "Failed"}
             /\ ArePodImagesResolved(o)

CreateFunc(o, isInInitialList) == isInInitialList /\ Wanted(o)

\* Both compare the sizes, and then look up every new entry among the old ones.
SameSizeAndEntries(old, new) ==
  /\ Cardinality(DOMAIN old) = Cardinality(DOMAIN new)
  /\ \A n \in DOMAIN new : n \in DOMAIN old /\ old[n] = new[n]

ConditionsChanged(old, new) == ~SameSizeAndEntries(old, new)
ContainerImageIDChanged(old, new) == ~SameSizeAndEntries(old, new)

\* Mutated form: image IDs are not compared.
PodContainerStatusChangedNoIDs(old, new) ==
  old.phase # new.phase \/ ConditionsChanged(old.conds, new.conds)

PodContainerStatusChanged(old, new) ==
  \/ old.phase # new.phase
  \/ ConditionsChanged(old.conds, new.conds)
  \/ \E k \in Kinds : ContainerImageIDChanged(old.ids[k], new.ids[k])

UpdateFunc(old, new) == Wanted(new) /\ PodContainerStatusChanged(old, new)
=============================================================================
