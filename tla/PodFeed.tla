------------------------------- MODULE PodFeed -------------------------------
(***************************************************************************)
(* How a pod gets from the API server to Reconcile: the watch and its      *)
(* relists, the informer's cache behind the transform, the notifications   *)
(* behind the predicate, and the work queue. The informer and the queue    *)
(* are client-go's and controller-runtime's (external); what Reconcile     *)
(* does once it has the pod's images is Delivery's.                        *)
(***************************************************************************)
EXTENDS PodFilter, Naturals, Sequences, SequencesExt

CONSTANTS Pods,        \* names of pods
          Shapes,      \* the objects the API server may hold
          Newborn,     \* those a pod is created as
          MaxChanges,  \* bound: changes of the pods in the API server
          MaxGaps,     \* bound: times the watch is too old and is listed again
          MaxRestarts  \* bound: restarts of the collector

ASSUME FeedAssumption ==
  /\ Newborn \subseteq Shapes
  /\ \A o \in Newborn : o.phase = "Pending"
  /\ RunAsDaemon \in BOOLEAN
  /\ MaxChanges \in Nat /\ MaxGaps \in Nat /\ MaxRestarts \in Nat

Absent == [form |-> "absent"]

VARIABLES api,        \* api[p]: the API server's object
          connected,  \* is the watch delivering?
          stream,     \* changes received and not yet applied, oldest first
          index,      \* index[p]: the informer's object
          notes,      \* notifications the handler has not seen
          entry,      \* entry[p]: the work queue's entry
          busy,       \* the pods being reconciled: the worker's, if it has one
          examined,   \* examined[p]: the image IDs p's last reconcile has read
          unheard,    \* pods whose only notification so far was a dropped create
                      \* (an observation, never read by the program)
          changes, gaps, restarts

vars == <<api, connected, stream, index, notes, entry, busy, examined, unheard, changes, gaps, restarts>>

-----------------------------------------------------------------------------
(* The API server. *)

\* With a field selector the watch shows the node's pods only.
Selected(o) == o # Absent /\ (RunAsDaemon /\ NodeName # "" => o.node = NodeName)

Seen(o) == IF Selected(o) THEN o ELSE Absent

\* A watch reports what changes for those it shows.
Watch(p, old, new) ==
  stream' = IF connected /\ (Selected(old) \/ Selected(new))
              THEN Append(stream, [pod |-> p, object |-> Seen(new)]) ELSE stream

Change(p, new) ==
  /\ changes < MaxChanges
  /\ changes' = changes + 1
  /\ api' = [api EXCEPT ![p] = new]
  /\ Watch(p, api[p], new)
  /\ UNCHANGED <<connected, index, notes, entry, busy, examined, unheard, gaps, restarts>>

Created(p) == /\ api[p] = Absent
              /\ \E o \in Newborn : Change(p, o)

Deleted(p) == api[p] # Absent /\ Change(p, Absent)

\* The scheduler or the kubelet updates the pod: it is bound to a node once and
\* while it is pending, and a phase it has left does not come back.
Rank(o) == CASE o.phase = "Pending" -> 0 [] o.phase = "Running" -> 1 [] OTHER -> 2

EndedEarly(o) == {n \in DOMAIN o.ends : o.ends[n] = "early"}

Updated(p) ==
  /\ api[p] # Absent
  /\ \E o \in Shapes \ {api[p]} :
       /\ o.ns = api[p].ns
       /\ o.early = api[p].early
       /\ o.node = api[p].node \/ (api[p].node = "" /\ o.phase = "Pending")
       /\ Rank(api[p]) < Rank(o) \/ api[p].phase = o.phase
       /\ EndedEarly(o) \subseteq EndedEarly(api[p])
       /\ Change(p, o)

-----------------------------------------------------------------------------
(* The informer. *)

\* The watch breaks, and cannot go on from where it was.
Gap ==
  /\ connected
  /\ gaps < MaxGaps
  /\ gaps' = gaps + 1
  /\ connected' = FALSE
  /\ UNCHANGED <<api, stream, index, notes, entry, busy, examined, unheard, changes, restarts>>

\* Has the informer an object of p, once it has applied the whole stream?
Known(p) == LET S == {k \in 1..Len(stream) : stream[k].pod = p} IN
            IF S = {} THEN index[p] # Absent
            ELSE stream[CHOOSE k \in S : \A j \in S : j <= k].object # Absent

\* The pods are listed again: each is replaced, the missing ones are deleted.
Relist ==
  /\ ~connected
  /\ connected' = TRUE
  /\ LET listed == SetToSeq({p \in Pods : Selected(api[p]) \/ Known(p)}) IN
     stream' = stream \o [k \in DOMAIN listed |-> [pod |-> listed[k], object |-> Seen(api[listed[k]])]]
  /\ UNCHANGED <<api, index, notes, entry, busy, examined, unheard, changes, gaps, restarts>>

\* Mutated form: the cache leaves out what the transform would strip.
TransformedAway(o) == IF o = Absent \/ IsStripped(Transform(o)) THEN Absent ELSE o

Transformed(o) == IF o = Absent THEN Absent ELSE Transform(o)

\* What the collector is for: a pod of its own node and of a namespace that is
\* not excluded, whose image IDs are known, that has not ended before the start.
ShouldScan(o) ==
  /\ o # Absent
  /\ ~IsExcluded(o.ns)
  /\ RunAsDaemon /\ NodeName # "" => o.node = NodeName
  /\ o.phase \in {"Running", "Succeeded", "Failed"}
  /\ ArePodImagesResolved(o)
  /\ ~CompletedEarly(o)

\* The next change goes into the cache, and a notification to the handler.
Apply ==
  /\ stream # <<>>
  /\ LET p == Head(stream).pod
         new == Transformed(Head(stream).object)
     IN /\ index' = [index EXCEPT ![p] = new]
        /\ notes' = IF index[p] = Absent /\ new = Absent THEN notes
                    ELSE Append(notes, [pod |-> p, old |-> index[p], new |-> new, initial |-> FALSE])
  /\ stream' = Tail(stream)
  /\ UNCHANGED <<api, connected, entry, busy, examined, unheard, changes, gaps, restarts>>

\* The predicate's verdict on a notification; DeleteFunc says no.
Passes(note) == /\ note.new # Absent
                /\ IF note.old = Absent THEN CreateFunc(note.new, note.initial)
                                        ELSE UpdateFunc(note.old, note.new)

\* A pod that is all there is created after the initial list.
Dropped(note) == note.old = Absent /\ ~note.initial /\ ShouldScan(note.new)

Handle ==
  /\ notes # <<>>
  /\ LET note == Head(notes) IN
     /\ entry' = IF Passes(note) THEN [entry EXCEPT ![note.pod] = "ready"] ELSE entry
     /\ unheard' = IF Dropped(note) THEN unheard \cup {note.pod}
                   ELSE IF Passes(note) \/ note.new = Absent THEN unheard \ {note.pod}
                   ELSE unheard
  /\ notes' = Tail(notes)
  /\ UNCHANGED <<api, connected, stream, index, busy, examined, changes, gaps, restarts>>

-----------------------------------------------------------------------------
(* Reconcile, and the collector's start. *)

\* Mutated form: whether the pod has been stripped is not looked at.
ScannableStub(o) == o # Absent
Scannable(o) == o # Absent /\ ~IsStripped(o)

\* The one worker takes a pod and reads the cache. A pod that is gone or stripped
\* is done with; the pass over another is of the images it has been read with.
Reconcile(p) ==
  /\ entry[p] = "ready"
  /\ busy = {}
  /\ entry' = [entry EXCEPT ![p] = "none"]
  /\ IF Scannable(index[p])
       THEN /\ examined' = [examined EXCEPT ![p] = index[p].ids]
            /\ busy' = {p}
       ELSE UNCHANGED <<examined, busy>>
  /\ UNCHANGED <<api, connected, stream, index, notes, unheard, changes, gaps, restarts>>

\* Mutated form: the delay replaces what has come during the pass.
FinishDelayed(p) ==
  /\ p \in busy
  /\ busy' = {}
  /\ entry' = [entry EXCEPT ![p] = "delayed"]
  /\ UNCHANGED <<api, connected, stream, index, notes, examined, unheard, changes, gaps, restarts>>

\* The pod comes back after a delay, or at once if it was notified meanwhile.
Finish(p) ==
  /\ p \in busy
  /\ busy' = {}
  /\ entry' = [entry EXCEPT ![p] = IF entry[p] = "ready" THEN "ready" ELSE "delayed"]
  /\ UNCHANGED <<api, connected, stream, index, notes, examined, unheard, changes, gaps, restarts>>

Due(p) ==
  /\ entry[p] = "delayed"
  /\ entry' = [entry EXCEPT ![p] = "ready"]
  /\ UNCHANGED <<api, connected, stream, index, notes, busy, examined, unheard, changes, gaps, restarts>>

\* The initial list is cached, and then notified as such.
ListedIndex(objects) == [p \in Pods |-> Transformed(Seen(objects[p]))]

ListedNotes(objects) ==
  LET listed == SetToSeq({p \in Pods : Selected(objects[p])}) IN
  [k \in DOMAIN listed |-> [pod |-> listed[k], old |-> Absent,
                            new |-> Transform(objects[listed[k]]), initial |-> TRUE]]

\* What there is when a collector starts, is early for it.
Aged(o) == IF o = Absent THEN o
           ELSE [o EXCEPT !.early = TRUE,
                          !.ends = [n \in DOMAIN o.ends |->
                                      IF o.ends[n] = "running" THEN "running" ELSE "early"]]

ASSUME ShapesAssumption ==
  /\ IsFiniteSet(Pods)
  /\ \A o \in Shapes : IsObject(o) /\ Aged(o) \in Shapes

Restart ==
  /\ restarts < MaxRestarts
  /\ restarts' = restarts + 1
  /\ api' = [p \in Pods |-> Aged(api[p])]
  /\ connected' = TRUE
  /\ stream' = <<>>
  /\ index' = ListedIndex(api')
  /\ notes' = ListedNotes(api')
  /\ unheard' = {}
  /\ entry' = [p \in Pods |-> "none"]
  /\ busy' = {}
  /\ examined' = [p \in Pods |-> NoStatuses]
  /\ UNCHANGED <<changes, gaps>>

\* The collector starts in a cluster that is already running.
Init ==
  /\ api \in [Pods -> Shapes \cup {Absent}]
  /\ \A p \in Pods : api[p] = Aged(api[p])
  /\ connected = TRUE
  /\ stream = <<>>
  /\ index = ListedIndex(api)
  /\ notes = ListedNotes(api)
  /\ unheard = {}
  /\ entry = [p \in Pods |-> "none"]
  /\ busy = {}
  /\ examined = [p \in Pods |-> NoStatuses]
  /\ changes = 0 /\ gaps = 0 /\ restarts = 0

Next == \/ \E p \in Pods : Created(p) \/ Updated(p) \/ Deleted(p) \/ Reconcile(p) \/ Finish(p) \/ Due(p)
        \/ Gap \/ Relist \/ Apply \/ Handle \/ Restart

Spec == Init /\ [][Next]_vars

\* The watch comes back, the informer and its handler go on, a pass ends (which is
\* Delivery's), and no request starves, though the worker is taken by others.
Fairness == /\ WF_vars(Relist) /\ WF_vars(Apply) /\ WF_vars(Handle)
            /\ \A p \in Pods : SF_vars(Reconcile(p)) /\ WF_vars(Finish(p)) /\ WF_vars(Due(p))

FairSpec == Spec /\ Fairness

-----------------------------------------------------------------------------
(* Properties. *)

\* Types, and: what the cache has is an object of the API server or a stub, and
\* a notification is about a pod that is or was cached.
TypeOK ==
  /\ api \in [Pods -> Shapes \cup {Absent}]
  /\ connected \in BOOLEAN
  /\ \A k \in 1..Len(stream) : stream[k] \in [pod : Pods, object : Shapes \cup {Absent}]
  /\ \A p \in Pods : index[p] # Absent => IsStripped(index[p]) \/ index[p] \in Shapes
  /\ \A k \in 1..Len(notes) : notes[k].new = Absent => notes[k].old # Absent
  /\ entry \in [Pods -> {"none", "ready", "delayed"}]
  /\ busy = {} \/ \E p \in Pods : busy = {p} /\ entry[p] # "delayed"

Settled == connected /\ stream = <<>> /\ notes = <<>>

\* Once everything has been delivered, a pod that is to be scanned waits for its
\* reconcile or has had one with its present image IDs: the transform's stubs,
\* the predicate's refusals and a pass that was under way when the cache moved on
\* lose no pod, whatever order its updates take.
\* The one exception is a create that comes with a relist, already complete.
NoLostWakeup ==
  Settled => \A p \in Pods \ unheard :
               ShouldScan(api[p]) => \/ entry[p] = "ready"
                                     \/ /\ entry[p] = "delayed" \/ p \in busy
                                        /\ examined[p] = api[p].ids

\* Only a relist can make the predicate drop the create of a pod that is all there:
\* on an unbroken watch, also across restarts, each pod enters the cache before its
\* images are resolved, as a stub if need be, and is let through by an update.
OnlyRelistsHide == unheard # {} => gaps > 0

\* The collector's work queue, as Delivery uses it: what the informer notifies
\* during a pass is not undone by the pass's delay, and no other pod is taken.
Queue == INSTANCE WorkQueue WITH Workers <- {"collector"},
                                 held <- [w \in {"collector"} |-> busy],
                                 due <- [w \in {"collector"} |-> entry]
ImplementsQueue == Queue!QSpec

\* Reconcile never lists the images of a pod that is another node's, in an
\* excluded namespace or over before the start, even if its request was queued
\* when the pod of that name was another one.
OnlyOwnExamined ==
  [][\A p \in Pods : p \in busy' \ busy =>
       /\ index[p].form = "full"
       /\ ~IsExcluded(index[p].ns)
       /\ RunAsDaemon => IsFromCurrentNode(index[p])
       /\ ~CompletedEarly(index[p])]_vars

\* A pod that is to be scanned is reconciled with the image IDs it has.
EventuallyExamined ==
  \A p \in Pods : ShouldScan(api[p]) ~> \/ ~ShouldScan(api[p])
                                        \/ examined[p] = api[p].ids
                                        \/ p \in unheard

\* Pods that were not part of the initial list are in a transient state and may
\* not have all fields populated yet (comment in pod.go, CreateFunc).
CreatesAreTransient ==
  \A k \in 1..Len(notes) :
    (notes[k].old = Absent /\ ~notes[k].initial) => ~ShouldScan(notes[k].new)
=============================================================================
