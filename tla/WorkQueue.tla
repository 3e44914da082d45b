------------------------------ MODULE WorkQueue ------------------------------
(***************************************************************************)
(* What Reconcile and the work queue of its controller promise together    *)
(* about the pods of a worker: a request that is taken is dropped at once  *)
(* or held until it comes back, ready if it was asked for meanwhile and    *)
(* after a delay otherwise; a ready one stays ready until it is taken.     *)
(***************************************************************************)
CONSTANTS Workers,  \* each the one worker of a collector
          Pods

VARIABLES held,  \* held[w]: the pods w is reconciling, one at most
          due    \* due[w][p]: the entry of p in the queue of w

qvars == <<held, due>>

Put(w, p, d) == due' = [due EXCEPT ![w][p] = d]

QInit == /\ held = [w \in Workers |-> {}]
         /\ due \in [Workers -> [Pods -> {"none", "ready"}]]

\* An event of the pod, or the end of its delay.
Wake(w, p) == /\ Put(w, p, "ready")
              /\ UNCHANGED held

\* The worker takes a pod when it has none; it need not do anything about it.
Take(w, p) == /\ held[w] = {}
              /\ due[w][p] = "ready"
              /\ Put(w, p, "none")
              /\ \/ UNCHANGED held
                 \/ held' = [held EXCEPT ![w] = {p}]

\* A pass ends: the pod has been asked for meanwhile, or is put off.
Return(w, p) == /\ held[w] = {p}
                /\ held' = [held EXCEPT ![w] = {}]
                /\ \/ due[w][p] = "ready" /\ UNCHANGED due
                   \/ due[w][p] = "none" /\ Put(w, p, "delayed")

\* The process is started again, and forgets what it held and put off.
Restart(w) == /\ held' = [held EXCEPT ![w] = {}]
              /\ \E d \in [Pods -> {"none", "ready"}] : due' = [due EXCEPT ![w] = d]

QNext == \E w \in Workers : \/ \E p \in Pods : Wake(w, p) \/ Take(w, p) \/ Return(w, p)
                            \/ Restart(w)

QSpec == QInit /\ [][QNext]_qvars
=============================================================================
