----------------------------- MODULE MCPodFeed -----------------------------
(* Small instances of PodFeed for TLC. *)
EXTENDS PodFeed

CONSTANT p1

Object(ns, node, phase, ready, id, end, early) ==
  [form |-> "full", ns |-> ns, node |-> node, phase |-> phase,
   conds |-> [c \in {"Ready"} |-> ready],
   ids |-> [k \in Kinds |-> IF k = "regular" THEN [n \in {"main"} |-> id] ELSE Nothing],
   ends |-> [n \in {"main"} |-> end], early |-> early]

\* A pod on its way to a node, with no container status yet.
Unbound(early) == [Object("app", "", "Pending", "False", "", "running", early)
                     EXCEPT !.ids = NoStatuses, !.ends = Nothing]

Bound(node, early) == Object("app", node, "Pending", "False", "", "running", early)

\* On the collector's node, in phase Running: image IDs resolved or not, ready or not.
RunningHere(early) ==
  {Object("app", "here", "Running", "True", id, "running", early) : id \in {"", "id1", "id2"}} \cup
  {Object("app", "here", "Running", "False", "id1", "running", early)}

CompletedHere(early) ==
  {Object("app", "here", "Succeeded", "False", "id1", end, early) : end \in {"early", "late"}}

NotMine(early) == {Bound("there", early), Object("system", "here", "Running", "True", "id1", "running", early)}

AllShapes == UNION {{Unbound(early), Bound("here", early)} \cup RunningHere(early) \cup
                    CompletedHere(early) \cup NotMine(early) : early \in BOOLEAN}
AllNewborn == {Unbound(FALSE), [Unbound(FALSE) EXCEPT !.ns = "system"]} \cap AllShapes

FewShapes == UNION {{Unbound(early), Bound("here", early)} \cup
                    {Object("app", "here", "Running", "True", "id1", "running", early)} : early \in BOOLEAN}

FewNewborn == {Unbound(FALSE)}

NamespaceMatches == [p \in {"s*"} |-> {"system"}]
=============================================================================
