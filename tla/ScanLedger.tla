----------------------------- MODULE ScanLedger -----------------------------
(***************************************************************************)
(* What the collectors, the agent and the output promise together about    *)
(* every image: at most one collector scans it at a time, it is marked     *)
(* processed only once its SBOM has been received, and an SBOM is received *)
(* only from a scan, or from a request a scan left behind on the network.  *)
(***************************************************************************)
CONSTANTS Collectors,  \* the collector processes
          Images,      \* canonical image references (name and digest)
          Nobody       \* not a collector

VARIABLES scanner,   \* scanner[i]: the collector that scans i, or Nobody
          astray,    \* images a request for which outlived its scan
          received,  \* images whose SBOM the output has
          done       \* images the agent lists as processed

lvars == <<scanner, astray, received, done>>

LInit == /\ scanner = [i \in Images |-> Nobody]
         /\ astray = {}
         /\ received = {}
         /\ done = {}

\* A collector takes an image nobody scans and nobody has finished.
Claim(c, i) == /\ scanner[i] = Nobody
               /\ i \notin done
               /\ scanner' = [scanner EXCEPT ![i] = c]
               /\ UNCHANGED <<astray, received, done>>

\* The SBOM arrives, from the scan in progress or from the network.
Receive(i) == /\ \/ scanner[i] # Nobody
                 \/ i \in astray
              /\ received' = received \cup {i}
              /\ UNCHANGED <<scanner, astray, done>>

\* The image is marked; the scan may end in the same step.
Finish(i) == /\ i \in received
             /\ \/ scanner[i] # Nobody
                \/ i \in astray
             /\ done' = done \cup {i}
             /\ \/ UNCHANGED scanner
                \/ scanner' = [scanner EXCEPT ![i] = Nobody]
             /\ UNCHANGED <<astray, received>>

\* The scan ends unfinished; a request of it may stay behind.
Release(i) == /\ scanner[i] # Nobody
              /\ scanner' = [scanner EXCEPT ![i] = Nobody]
              /\ \/ UNCHANGED astray
                 \/ astray' = astray \cup {i}
              /\ UNCHANGED <<received, done>>

\* A request is repeated while its first copy is still on the network.
Stray(i) == /\ scanner[i] # Nobody
            /\ astray' = astray \cup {i}
            /\ UNCHANGED <<scanner, received, done>>

LNext == \E i \in Images : \/ \E c \in Collectors : Claim(c, i)
                           \/ Receive(i)
                           \/ Finish(i)
                           \/ Release(i)
                           \/ Stray(i)

LSpec == LInit /\ [][LNext]_lvars
=============================================================================
