----------------------------- MODULE MCDelivery -----------------------------
(* Small instances of Delivery for TLC. An image is named for its class,    *)
(* "scan2" is a second image to be scanned.                                 *)
EXTENDS Delivery, TLC

CONSTANTS c1, c2, p1, p2

\* A DaemonSet: each collector watches the pods of its own node.
OwnPods == (c1 :> {p1}) @@ (c2 :> {p2})
\* Collectors and their pods may change places together: the symmetry of OwnPods.
Swapping == {f \in Permutations({c1, c2, p1, p2}) :
               \A c \in {c1, c2} : f[c] \in {c1, c2} /\ OwnPods[f[c]] = {f[p] : p \in OwnPods[c]}}
\* Replicas that watch the same pods.
SharedPods == [c \in Collectors |-> Pods]

\* What pods look like.
Stub == [state |-> "stub", whole |-> FALSE, shows |-> 0, images |-> <<>>]
PodOf(shows, images) == [state |-> "live", whole |-> TRUE, shows |-> shows, images |-> images]
AksOf(pod) == [pod EXCEPT !.state = "aks"]
\* Running, with some image IDs still to come.
Partial(shows, images) == [PodOf(shows, images) EXCEPT !.whole = FALSE]

OneImage  == {PodOf(1, <<"scan">>)}
TwoImages == {PodOf(1, <<"scan", "scan2">>), PodOf(2, <<"scan">>)}
First     == PodOf(1, <<"unlisted", "noDigest", "scan">>)
Changing  == {First, AksOf(First), Partial(2, <<"excluded", "noPull", "scan">>), Stub}
LiveKinds == {PodOf(1, <<"scan", "badMirror">>), PodOf(2, <<"scan2">>)}

\* No image has a mirror.
Unmirrored == [i \in Images |-> {i}]
\* The agent names a mirror of "scan", or of "scan2".
ScanMirrored == [i \in Images |-> IF i = "scan" THEN {"mirror"} ELSE {i}]
Scan2Mirrored == [i \in Images |-> IF i = "scan2" THEN {"mirror"} ELSE {i}]

\* The agent files every reference by itself, or a mirror's by the image's own.
Literal == [i \in Images |-> i]
Own == [i \in Images |-> IF i = "mirror" THEN "scan2" ELSE i]

ByName == [i \in Images |-> IF i \in {"scan2", "mirror"} THEN "scan" ELSE i]
=============================================================================
