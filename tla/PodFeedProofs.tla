--------------------------- MODULE PodFeedProofs ---------------------------
(***************************************************************************)
(* Theorems of PodFeed: no pod that is to be scanned is lost between the   *)
(* API server and its reconcile, for any pods, objects, numbers of changes,*)
(* broken watches and restarts.                                            *)
(***************************************************************************)
EXTENDS PodFeed, PodFilterProofs, SequenceTheorems

(* What the cache may hold, and what the predicate makes of it. *)

Objects == Shapes \cup {Absent}
Cached == {Transformed(o) : o \in Objects}
WantedObject(o) == o # Absent /\ Wanted(o)

LEMMA ShapeIsObject == \A o \in Shapes : IsObject(o) /\ o # Absent /\ ~IsStripped(o)
  BY ShapesAssumption DEF IsObject, Absent, IsStripped

LEMMA StubForm == \A o : IsStripped(Strip(o)) /\ Strip(o) # Absent /\ ~Wanted(Strip(o))
  BY DEF Strip, IsStripped, Absent, Wanted

\* Absent, a stub, or an object the transform has kept.
LEMMA CachedForm ==
  ASSUME NEW c \in Cached
  PROVE  \/ c = Absent
         \/ \E o : c = Strip(o)
         \/ c \in Shapes /\ Transform(c) = c /\ ~IsExcluded(c.ns) /\ ~Elsewhere(c) /\ ~CompletedEarly(c)
  <1>1. PICK o \in Objects : c = Transformed(o)
    BY DEF Cached
  <1>2. CASE o = Absent
    BY <1>1, <1>2 DEF Transformed
  <1>3. CASE o # Absent
    <2>1. o \in Shapes /\ c = Transform(o)
      BY <1>1, <1>3 DEF Objects, Transformed
    <2> QED
      BY <2>1 DEF Transform
  <1> QED
    BY <1>2, <1>3

LEMMA AbsentCached == Absent \in Cached
  BY DEF Cached, Objects, Transformed

\* What is wanted of the cache is an object as it is, and one to be scanned.
LEMMA WantedCached ==
  ASSUME NEW c \in Cached, WantedObject(c)
  PROVE  c \in Shapes /\ ShouldScan(c)
  <1>1. c \in Shapes /\ ~CompletedEarly(c)
    BY CachedForm, StubForm DEF WantedObject
  <1> QED
    BY <1>1 DEF WantedObject, Wanted, ShouldScan, IsFromCurrentNode

\* An object to be scanned is kept by the transform, and wanted by the predicate.
LEMMA ToScanIsWanted ==
  ASSUME NEW o \in Shapes, ShouldScan(o)
  PROVE  Selected(o) /\ Transformed(o) = o /\ WantedObject(o)
  BY ShapeIsObject DEF ShouldScan, Selected, Transformed, Transform, Elsewhere, WantedObject, Wanted,
                       IsFromCurrentNode

\* The first wanted object after one that was not wanted is always let through.
LEMMA FirstWantedPasses ==
  ASSUME NEW old \in Cached, NEW new \in Cached, old # Absent, ~Wanted(old), WantedObject(new)
  PROVE  UpdateFunc(old, new)
  <1>1. CASE \E o : old = Strip(o)
    BY <1>1, StubNeverHidesUpdate DEF WantedObject
  <1>2. CASE ~\E o : old = Strip(o)
    <2>1. /\ old \in Shapes /\ ~IsExcluded(old.ns) /\ ~Elsewhere(old)
          /\ new \in Shapes
      BY <1>2, CachedForm, StubForm DEF WantedObject
    <2>2. IsObject(old) /\ IsObject(new) /\ ~IsStripped(old)
      BY <2>1, ShapeIsObject
    <2> SUFFICES ASSUME ~UpdateFunc(old, new) PROVE FALSE
      OBVIOUS
    <2>3. old.phase = new.phase /\ \A k \in Kinds : old.ids[k] = new.ids[k]
      BY <2>2, RefusedUpdateIsNoNews DEF WantedObject
    <2>4. ArePodImagesResolved(old)
      BY <2>3 DEF WantedObject, Wanted, ArePodImagesResolved
    <2> QED
      BY <2>1, <2>2, <2>3, <2>4 DEF WantedObject, Wanted, Elsewhere, IsFromCurrentNode
  <1> QED
    BY <1>1, <1>2

\* A refused update between two wanted objects brings no image.
LEMMA RefusedKeepsImages ==
  ASSUME NEW old \in Cached, NEW new \in Cached, WantedObject(old), WantedObject(new),
         ~UpdateFunc(old, new)
  PROVE  old.ids = new.ids
  <1>1. IsObject(old) /\ IsObject(new)
    BY WantedCached, ShapeIsObject
  <1>2. \A k \in Kinds : old.ids[k] = new.ids[k]
    BY <1>1, RefusedUpdateIsNoNews DEF WantedObject
  <1> QED
    BY <1>1, <1>2 DEF IsObject

-----------------------------------------------------------------------------
(* A list of pods names each once. *)

LEMMA Listing ==
  ASSUME NEW S \in SUBSET Pods
  PROVE  LET s == SetToSeq(S) IN
         /\ Cardinality(S) \in Nat
         /\ s \in [1..Cardinality(S) -> S]
         /\ \A j, k \in 1..Cardinality(S) : s[j] = s[k] => j = k
         /\ \A p \in S : \E k \in 1..Cardinality(S) : s[k] = p
  <1> DEFINE n == Cardinality(S)
             s == SetToSeq(S)
  <1>1. IsFiniteSet(S)
    BY ShapesAssumption, FS_Subset
  <1>2. n \in Nat /\ ExistsBijection(1..n, S)
    BY <1>1, FS_CardinalityType
  <1>3. PICK f : f \in Bijection(1..n, S)
    BY <1>2 DEF ExistsBijection
  <1>4. f \in [1..n -> S] /\ IsInjective(f)
    BY <1>3 DEF Bijection, Injection
  <1>5. s \in [1..n -> S] /\ IsInjective(s)
    BY <1>4 DEF SetToSeq
  <1>6. s \in Injection(1..n, S)
    BY <1>5 DEF Injection
  <1>7. Cardinality(1..n) = n
    <2>1. 1 \in Int /\ n \in Int
      BY <1>2
    <2>2. Cardinality(1..n) = IF 1 > n THEN 0 ELSE n - 1 + 1
      BY <2>1, FS_Interval
    <2> HIDE DEF n
    <2> QED
      BY <1>2, <2>2
  <1>8. s \in Surjection(1..n, S)
    <2> HIDE DEF n, s
    <2> QED
      BY <1>1, <1>6, <1>7, FS_Injection DEF n
  <1> HIDE DEF n
  <1>9. \A p \in S : \E k \in 1..n : s[k] = p
    BY <1>8 DEF Surjection
  <1>10. \A j, k \in 1..n : s[j] = s[k] => j = k
    BY <1>5 DEF IsInjective
  <1> QED
    BY <1>2, <1>5, <1>9, <1>10 DEF n

-----------------------------------------------------------------------------
(* What a queue of changes or of notifications says of one pod. *)

Silent(s, p) == \A k \in 1..Len(s) : s[k].pod # p
FirstOf(s, p, k) == /\ k \in 1..Len(s) /\ s[k].pod = p
                    /\ \A j \in 1..Len(s) : s[j].pod = p => k <= j
LastOf(s, p, k) == /\ k \in 1..Len(s) /\ s[k].pod = p
                   /\ \A j \in 1..Len(s) : s[j].pod = p => j <= k

LEMMA AppendOwn ==
  ASSUME NEW R, NEW s \in Seq(R), NEW x \in R
  PROVE  LastOf(Append(s, x), x.pod, Len(s) + 1) /\ Append(s, x)[Len(s) + 1] = x
  BY DEF LastOf

LEMMA AppendOther ==
  ASSUME NEW R, NEW s \in Seq(R), NEW x \in R, NEW p, x.pod # p
  PROVE  /\ Silent(Append(s, x), p) <=> Silent(s, p)
         /\ \A k : LastOf(s, p, k) <=> LastOf(Append(s, x), p, k)
         /\ \A k : LastOf(s, p, k) => Append(s, x)[k] = s[k]
         /\ \A k : FirstOf(Append(s, x), p, k) => FirstOf(s, p, k) /\ Append(s, x)[k] = s[k]
  <1> DEFINE t == Append(s, x)
  <1>1. /\ Len(s) \in Nat /\ Len(t) = Len(s) + 1
        /\ \A k \in 1..Len(s) : t[k] = s[k]
        /\ t[Len(s) + 1].pod # p
    OBVIOUS
  <1>2. \A k \in 1..Len(t) : k \in 1..Len(s) \/ k = Len(s) + 1
    BY <1>1
  <1>3. \A k \in 1..Len(s) : k \in 1..Len(t)
    BY <1>1
  <1> HIDE DEF t
  <1>4. Silent(t, p) <=> Silent(s, p)
    BY <1>1, <1>2, <1>3 DEF Silent
  <1>5. \A k : LastOf(s, p, k) <=> LastOf(t, p, k)
    BY <1>1, <1>2, <1>3 DEF LastOf
  <1>6. \A k : LastOf(s, p, k) => t[k] = s[k]
    BY <1>1 DEF LastOf
  <1>7. \A k : FirstOf(t, p, k) => FirstOf(s, p, k) /\ t[k] = s[k]
    BY <1>1, <1>2, <1>3 DEF FirstOf
  <1> QED
    BY <1>4, <1>5, <1>6, <1>7 DEF t

\* The first of an appended queue is what it was, or the first ever.
LEMMA AppendFirst ==
  ASSUME NEW R, NEW s \in Seq(R), NEW x \in R, NEW k, FirstOf(Append(s, x), x.pod, k)
  PROVE  \/ FirstOf(s, x.pod, k) /\ Append(s, x)[k] = s[k]
         \/ Silent(s, x.pod) /\ k = Len(s) + 1
  <1>1. CASE k \in 1..Len(s)
    BY <1>1 DEF FirstOf
  <1>2. CASE k = Len(s) + 1
    BY <1>2 DEF FirstOf, Silent
  <1> QED
    BY <1>1, <1>2 DEF FirstOf

LEMMA TailShift ==
  ASSUME NEW R, NEW s \in Seq(R), s # <<>>
  PROVE  /\ Len(s) \in Nat \ {0} /\ Len(Tail(s)) = Len(s) - 1 /\ Head(s) = s[1] /\ 1 \in 1..Len(s)
         /\ Tail(s) \in Seq(R)
         /\ \A k \in 1..Len(Tail(s)) : k + 1 \in 1..Len(s) /\ Tail(s)[k] = s[k + 1]
         /\ \A k \in 1..Len(s) : k = 1 \/ (k - 1 \in 1..Len(Tail(s)) /\ Tail(s)[k - 1] = s[k])
  OBVIOUS

LEMMA TailLast ==
  ASSUME NEW R, NEW s \in Seq(R), s # <<>>, NEW p
  PROVE  /\ Silent(s, p) => Silent(Tail(s), p)
         /\ Silent(Tail(s), p) => Silent(s, p) \/ LastOf(s, p, 1)
         /\ \A k : LastOf(Tail(s), p, k) => LastOf(s, p, k + 1)
         /\ \A k : LastOf(s, p, k) => IF k = 1 THEN Silent(Tail(s), p)
                                               ELSE LastOf(Tail(s), p, k - 1) /\ Tail(s)[k - 1] = s[k]
  <1> DEFINE t == Tail(s)
  <1>1. /\ Len(s) \in Nat \ {0} /\ Len(t) = Len(s) - 1 /\ 1 \in 1..Len(s)
        /\ \A k \in 1..Len(t) : k + 1 \in 1..Len(s) /\ t[k] = s[k + 1]
        /\ \A k \in 1..Len(s) : k = 1 \/ (k - 1 \in 1..Len(t) /\ t[k - 1] = s[k])
    BY TailShift
  <1> HIDE DEF t
  <1>2. Silent(s, p) => Silent(t, p)
    BY <1>1 DEF Silent
  <1>3. Silent(t, p) => Silent(s, p) \/ LastOf(s, p, 1)
    BY <1>1 DEF Silent, LastOf
  <1>4. ASSUME NEW k, LastOf(t, p, k) PROVE LastOf(s, p, k + 1)
    <2>1. k \in 1..Len(t) /\ k + 1 \in 1..Len(s) /\ s[k + 1].pod = p
      BY <1>1, <1>4 DEF LastOf
    <2>2. ASSUME NEW j \in 1..Len(s), s[j].pod = p PROVE j <= k + 1
      <3>1. j = 1 \/ j - 1 <= k
        BY <1>1, <1>4, <2>2 DEF LastOf
      <3> QED
        BY <1>1, <2>1, <3>1
    <2> QED
      BY <2>1, <2>2 DEF LastOf
  <1>5. \A k : LastOf(s, p, k) /\ k = 1 => Silent(t, p)
    BY <1>1 DEF LastOf, Silent
  <1>6. \A k : LastOf(s, p, k) /\ k # 1 => LastOf(t, p, k - 1) /\ t[k - 1] = s[k]
    BY <1>1 DEF LastOf
  <1> QED
    BY <1>2, <1>3, <1>4, <1>5, <1>6 DEF t

LEMMA TailFirst ==
  ASSUME NEW R, NEW s \in Seq(R), s # <<>>, NEW p, Head(s).pod # p
  PROVE  /\ Silent(Tail(s), p) => Silent(s, p)
         /\ \A k : FirstOf(Tail(s), p, k) => FirstOf(s, p, k + 1) /\ s[k + 1] = Tail(s)[k]
  <1> DEFINE t == Tail(s)
  <1>1. /\ Len(s) \in Nat \ {0} /\ Len(t) = Len(s) - 1 /\ 1 \in 1..Len(s) /\ s[1].pod # p
        /\ \A k \in 1..Len(t) : k + 1 \in 1..Len(s) /\ t[k] = s[k + 1]
        /\ \A k \in 1..Len(s) : k = 1 \/ (k - 1 \in 1..Len(t) /\ t[k - 1] = s[k])
    BY TailShift
  <1> HIDE DEF t
  <1>2. Silent(t, p) => Silent(s, p)
    BY <1>1 DEF Silent
  <1>3. ASSUME NEW k, FirstOf(t, p, k) PROVE FirstOf(s, p, k + 1) /\ s[k + 1] = t[k]
    <2>1. k \in 1..Len(t) /\ k + 1 \in 1..Len(s) /\ s[k + 1].pod = p /\ s[k + 1] = t[k]
      BY <1>1, <1>3 DEF FirstOf
    <2>2. ASSUME NEW j \in 1..Len(s), s[j].pod = p PROVE k + 1 <= j
      <3>1. j # 1 /\ k <= j - 1
        BY <1>1, <1>3, <2>2 DEF FirstOf
      <3> QED
        BY <1>1, <2>1, <3>1
    <2> QED
      BY <2>1, <2>2 DEF FirstOf
  <1> QED
    BY <1>2, <1>3 DEF t

-----------------------------------------------------------------------------
(* The inductive invariant: types, and what the queues of changes and of   *)
(* notifications say of the cache.                                         *)

Items == [pod : Pods, object : Objects]
Notes == [pod : Pods, old : Cached, new : Cached, initial : BOOLEAN]
Images == {o.ids : o \in Shapes} \cup {NoStatuses}

FeedTypes ==
  /\ api \in [Pods -> Objects]
  /\ connected \in BOOLEAN
  /\ stream \in Seq(Items)
  /\ index \in [Pods -> Cached]
  /\ notes \in Seq(Notes)
  /\ entry \in [Pods -> {"none", "ready", "delayed"}]
  /\ examined \in [Pods -> Images]

\* A notification is about a pod that is or was cached.
NotesSaySomething == \A k \in 1..Len(notes) : notes[k].new = Absent => notes[k].old # Absent

\* There is one worker, and no pod it has is delayed.
OneBusy == busy = {} \/ \E p \in Pods : busy = {p} /\ entry[p] # "delayed"

\* Once the stream has been applied, the cache has what the API server has.
InStep(p) == \/ Silent(stream, p) /\ index[p] = Transformed(Seen(api[p]))
             \/ \E k : LastOf(stream, p, k) /\ stream[k].object = Seen(api[p])

StreamEnds == \A p \in Pods : Silent(stream, p) \/ \E k : LastOf(stream, p, k)
StreamInStep == connected => \A p \in Pods : InStep(p)

\* The notifications of a pod are a chain that ends with what is cached of it.
NotesEnd == \A p \in Pods : Silent(notes, p) \/ \E k : LastOf(notes, p, k)
NotesReachIndex == \A p \in Pods : \A k : LastOf(notes, p, k) => notes[k].new = index[p]

Follows(s, k, l) == /\ k < l /\ s[k].pod = s[l].pod
                    /\ \A j \in 1..Len(s) : k < j /\ j < l => s[j].pod # s[k].pod
NotesChained == \A k, l \in 1..Len(notes) : Follows(notes, k, l) => notes[l].old = notes[k].new

\* The object of p that the handler has seen last.
Handled(p, o) == \/ Silent(notes, p) /\ o = index[p]
                 \/ \E k : FirstOf(notes, p, k) /\ o = notes[k].old

\* A reconcile of p is to come, or there has been one and what it has read is
\* what was handled, or a notification that brings it is still pending.
Pending(p, k) == k \in 1..Len(notes) /\ notes[k].pod = p
Awake(p, o) ==
  \/ entry[p] = "ready"
  \/ /\ entry[p] = "delayed" \/ p \in busy
     /\ \/ examined[p] = o.ids
        \/ \E k : Pending(p, k) /\ examined[p] = notes[k].new.ids
  \/ \E k : Pending(p, k) /\ ~WantedObject(notes[k].new)

NoneAsleep == \A p \in Pods \ unheard : \A o : Handled(p, o) /\ WantedObject(o) => Awake(p, o)

FeedInv == /\ FeedTypes /\ NotesSaySomething /\ OneBusy
           /\ StreamEnds /\ StreamInStep
           /\ NotesEnd /\ NotesReachIndex /\ NotesChained
           /\ NoneAsleep

-----------------------------------------------------------------------------
(* The list a collector starts from. *)

LEMMA SeenObjects == \A o \in Objects : Seen(o) \in Objects /\ Transformed(Seen(o)) \in Cached
  BY DEF Seen, Objects, Cached

LEMMA AgedObjects == \A o \in Objects : Aged(o) \in Objects
  BY ShapesAssumption DEF Objects, Aged

LEMMA ListedStart ==
  ASSUME NEW objects \in [Pods -> Objects]
  PROVE  /\ ListedIndex(objects) \in [Pods -> Cached]
         /\ ListedNotes(objects) \in Seq(Notes)
         /\ \A k \in 1..Len(ListedNotes(objects)) :
              LET note == ListedNotes(objects)[k] IN
              note.old = Absent /\ note.new # Absent /\ note.new = ListedIndex(objects)[note.pod]
         /\ \A j, k \in 1..Len(ListedNotes(objects)) :
              ListedNotes(objects)[j].pod = ListedNotes(objects)[k].pod => j = k
         /\ \A p \in Pods : Silent(ListedNotes(objects), p) => ListedIndex(objects)[p] = Absent
  <1> DEFINE S == {p \in Pods : Selected(objects[p])}
             s == SetToSeq(S)
             n == Cardinality(S)
             I == ListedIndex(objects)
             N == ListedNotes(objects)
  <1>1. /\ n \in Nat /\ s \in [1..n -> S]
        /\ \A j, k \in 1..n : s[j] = s[k] => j = k
        /\ \A p \in S : \E k \in 1..n : s[k] = p
    <2>1. S \in SUBSET Pods
      OBVIOUS
    <2> HIDE DEF S
    <2> QED
      BY <2>1, Listing
  <1>2. I \in [Pods -> Cached] /\ \A p \in Pods : I[p] = Transformed(Seen(objects[p]))
    BY SeenObjects DEF ListedIndex
  <1>3. N = [k \in 1..n |-> [pod |-> s[k], old |-> Absent, new |-> Transform(objects[s[k]]), initial |-> TRUE]]
    <2>1. DOMAIN s = 1..n
      BY <1>1
    <2> QED
      BY <2>1 DEF ListedNotes
  <1>4. \A p \in S : /\ p \in Pods /\ Selected(objects[p])
                     /\ I[p] = Transform(objects[p]) /\ I[p] # Absent /\ I[p] \in Cached
    <2> SUFFICES ASSUME NEW p \in S
                 PROVE  /\ p \in Pods /\ Selected(objects[p])
                        /\ I[p] = Transform(objects[p]) /\ I[p] # Absent /\ I[p] \in Cached
      OBVIOUS
    <2>1. p \in Pods /\ Selected(objects[p]) /\ objects[p] # Absent /\ I[p] \in Cached
      BY <1>2 DEF Selected
    <2>2. I[p] = Transform(objects[p])
      BY <1>2, <2>1 DEF Seen, Transformed
    <2>3. Transform(objects[p]) # Absent
      BY <2>1, StubForm DEF Transform
    <2> QED
      BY <2>1, <2>2, <2>3
  <1>5. \A p \in Pods : p \notin S => I[p] = Absent
    BY <1>2 DEF Seen, Transformed
  <1> HIDE DEF S, s, n, I, N
  <1>6. Len(N) = n /\ \A k \in 1..n : /\ s[k] \in S
                                      /\ N[k] \in Notes
                                      /\ N[k].pod = s[k] /\ N[k].old = Absent
                                      /\ N[k].new = I[s[k]]
    BY <1>1, <1>3, <1>4, AbsentCached DEF Notes
  <1>7. N \in Seq(Notes)
    BY <1>1, <1>3, <1>6
  <1>8. \A k \in 1..Len(N) : N[k].old = Absent /\ N[k].new # Absent /\ N[k].new = I[N[k].pod]
    BY <1>4, <1>6
  <1>9. \A j, k \in 1..Len(N) : N[j].pod = N[k].pod => j = k
    BY <1>1, <1>6
  <1>10. \A p \in Pods : Silent(N, p) => I[p] = Absent
    BY <1>1, <1>5, <1>6 DEF Silent
  <1> QED
    BY <1>2, <1>7, <1>8, <1>9, <1>10 DEF I, N

-----------------------------------------------------------------------------
(* A start: everything but types and the API server is what the list says. *)

Started ==
  /\ api \in [Pods -> Objects]
  /\ connected = TRUE /\ stream = <<>>
  /\ index = ListedIndex(api) /\ notes = ListedNotes(api)
  /\ entry = [p \in Pods |-> "none"] /\ busy = {}
  /\ examined = [p \in Pods |-> NoStatuses]

LEMMA StartedInv == Started => FeedInv
  <1> SUFFICES ASSUME Started PROVE FeedInv
    OBVIOUS
  <1>1. FeedTypes
    <2>1. index \in [Pods -> Cached] /\ notes \in Seq(Notes)
      BY ListedStart DEF Started
    <2> QED
      BY <2>1 DEF Started, FeedTypes, Images
  <1>2. /\ \A k \in 1..Len(notes) : /\ notes[k].old = Absent /\ notes[k].new # Absent
                                    /\ notes[k].new = index[notes[k].pod]
        /\ \A j, k \in 1..Len(notes) : notes[j].pod = notes[k].pod => j = k
        /\ \A p \in Pods : Silent(notes, p) => index[p] = Absent
    BY ListedStart DEF Started
  <1>3. NotesSaySomething
    BY <1>2 DEF NotesSaySomething
  <1>4. OneBusy
    BY DEF OneBusy, Started
  <1>5. StreamEnds /\ StreamInStep
    BY DEF Started, StreamEnds, StreamInStep, InStep, Silent, ListedIndex
  <1>6. Len(notes) \in Nat
    BY <1>1 DEF FeedTypes
  <1>7. NotesEnd
    <2> SUFFICES ASSUME NEW p \in Pods, NEW k \in 1..Len(notes), notes[k].pod = p
                 PROVE  LastOf(notes, p, k)
      BY DEF NotesEnd, Silent
    <2> QED
      BY <1>2, <1>6 DEF LastOf
  <1>8. NotesReachIndex
    BY <1>2 DEF NotesReachIndex, LastOf
  <1>9. NotesChained
    BY <1>2, <1>6 DEF NotesChained, Follows
  <1>10. NoneAsleep
    BY <1>2 DEF NoneAsleep, Handled, FirstOf, WantedObject
  <1> QED
    BY <1>1, <1>3, <1>4, <1>5, <1>7, <1>8, <1>9, <1>10 DEF FeedInv

-----------------------------------------------------------------------------
(* Each action preserves it. *)

\* What is said of the notifications stays as long as what it is about does.
LEMMA NotesUnchanged ==
  ASSUME FeedInv, UNCHANGED <<index, notes>>
  PROVE  NotesSaySomething' /\ NotesEnd' /\ NotesReachIndex' /\ NotesChained'
  <1>1. NotesSaySomething'
    BY DEF FeedInv, NotesSaySomething
  <1>2. NotesEnd'
    BY DEF FeedInv, NotesEnd
  <1>3. NotesReachIndex'
    BY DEF FeedInv, NotesReachIndex
  <1>4. NotesChained'
    BY DEF FeedInv, NotesChained
  <1> QED
    BY <1>1, <1>2, <1>3, <1>4

LEMMA AwakeUnchanged ==
  ASSUME FeedInv, UNCHANGED <<index, notes, entry, busy, examined, unheard>>
  PROVE  NoneAsleep'
  BY DEF FeedInv, NoneAsleep, Handled, Awake, Pending

LEMMA StreamUnchanged ==
  ASSUME FeedInv, UNCHANGED <<api, connected, stream, index>>
  PROVE  StreamEnds' /\ StreamInStep'
  <1>1. StreamEnds'
    BY DEF FeedInv, StreamEnds
  <1>2. StreamInStep'
    BY DEF FeedInv, StreamInStep, InStep
  <1> QED
    BY <1>1, <1>2

LEMMA ChangeStep ==
  ASSUME FeedInv, NEW p \in Pods, NEW new \in Objects, Change(p, new)
  PROVE  FeedInv'
  <1> DEFINE item == [pod |-> p, object |-> Seen(new)]
             told == connected /\ (Selected(api[p]) \/ Selected(new))
  <1>1. /\ FeedTypes /\ StreamEnds /\ StreamInStep
        /\ stream \in Seq(Items) /\ api \in [Pods -> Objects]
    BY DEF FeedInv, FeedTypes
  <1>2. /\ api' = [api EXCEPT ![p] = new]
        /\ stream' = IF told THEN Append(stream, item) ELSE stream
        /\ UNCHANGED <<connected, index, notes, entry, busy, examined, unheard>>
    BY DEF Change, Watch
  <1>3. item \in Items /\ item.pod = p /\ item.object = Seen(new)
    BY SeenObjects DEF Items
  <1> HIDE DEF item
  <1>4. api'[p] = new /\ \A q \in Pods : q # p => api'[q] = api[q]
    BY <1>1, <1>2
  <1>5. FeedTypes'
    BY <1>1, <1>2, <1>3 DEF FeedTypes
  <1>6. NotesSaySomething' /\ NotesEnd' /\ NotesReachIndex' /\ NotesChained'
    BY <1>2, NotesUnchanged
  <1>7. NoneAsleep'
    BY <1>2, AwakeUnchanged
  <1>8. OneBusy'
    BY <1>2 DEF FeedInv, OneBusy
  <1>9. CASE told
    <2>1. stream' = Append(stream, item)
      BY <1>2, <1>9
    <2>2. LastOf(stream', p, Len(stream) + 1) /\ stream'[Len(stream) + 1] = item
      BY <1>1, <1>3, <2>1, AppendOwn
    <2>3. \A q \in Pods : q # p => /\ Silent(stream', q) <=> Silent(stream, q)
                                   /\ \A k : LastOf(stream, q, k) => LastOf(stream', q, k) /\ stream'[k] = stream[k]
      <3> SUFFICES ASSUME NEW q \in Pods, q # p
                   PROVE  /\ Silent(stream', q) <=> Silent(stream, q)
                          /\ \A k : LastOf(stream, q, k) => LastOf(stream', q, k) /\ stream'[k] = stream[k]
        OBVIOUS
      <3>1. item.pod # q
        BY <1>3
      <3>2. /\ Silent(Append(stream, item), q) <=> Silent(stream, q)
            /\ \A k : LastOf(stream, q, k) <=> LastOf(Append(stream, item), q, k)
            /\ \A k : LastOf(stream, q, k) => Append(stream, item)[k] = stream[k]
        BY <1>1, <1>3, <3>1, AppendOther
      <3> QED
        BY <2>1, <3>2
    <2>4. StreamEnds'
      BY <1>1, <2>2, <2>3 DEF StreamEnds
    <2>5. InStep(p)'
      BY <1>3, <1>4, <2>2 DEF InStep
    <2>6. StreamInStep'
      <3> SUFFICES ASSUME connected, NEW q \in Pods PROVE InStep(q)'
        BY <1>2 DEF StreamInStep
      <3>1. CASE q = p
        BY <2>5, <3>1
      <3>2. CASE q # p
        <4>1. InStep(q)
          BY <1>1 DEF StreamInStep
        <4>2. api'[q] = api[q] /\ index' = index
          BY <1>2, <1>4, <3>2
        <4> QED
          BY <2>3, <3>2, <4>1, <4>2 DEF InStep
      <3> QED
        BY <3>1, <3>2
    <2> QED
      BY <1>5, <1>6, <1>7, <1>8, <2>4, <2>6 DEF FeedInv
  <1>10. CASE ~told
    <2>1. stream' = stream
      BY <1>2, <1>10
    <2>2. StreamEnds'
      BY <1>1, <2>1 DEF StreamEnds
    <2>3. connected => Seen(api'[p]) = Seen(api[p])
      BY <1>4, <1>10 DEF Seen
    <2>4. StreamInStep'
      BY <1>1, <1>2, <1>4, <2>1, <2>3 DEF StreamInStep, InStep
    <2> QED
      BY <1>5, <1>6, <1>7, <1>8, <2>2, <2>4 DEF FeedInv
  <1> QED
    BY <1>9, <1>10

LEMMA GapStep ==
  ASSUME FeedInv, Gap
  PROVE  FeedInv'
  <1>1. connected' = FALSE /\ UNCHANGED <<api, stream, index, notes, entry, busy, examined, unheard>>
    BY DEF Gap
  <1>2. FeedTypes'
    BY <1>1 DEF FeedInv, FeedTypes
  <1>3. NotesSaySomething' /\ NotesEnd' /\ NotesReachIndex' /\ NotesChained'
    BY <1>1, NotesUnchanged
  <1>4. NoneAsleep'
    BY <1>1, AwakeUnchanged
  <1>5. OneBusy' /\ StreamEnds' /\ StreamInStep'
    BY <1>1 DEF FeedInv, OneBusy, StreamEnds, StreamInStep
  <1> QED
    BY <1>2, <1>3, <1>4, <1>5 DEF FeedInv

\* After a list, the last that is known of a pod is what the API server has.
LEMMA RelistStep ==
  ASSUME FeedInv, Relist
  PROVE  FeedInv'
  <1>1. /\ FeedTypes /\ StreamEnds
        /\ stream \in Seq(Items) /\ api \in [Pods -> Objects] /\ index \in [Pods -> Cached]
    BY DEF FeedInv, FeedTypes
  <1> DEFINE S == {p \in Pods : Selected(api[p]) \/ Known(p)}
             s == SetToSeq(S)
             n == Cardinality(S)
             items == [k \in DOMAIN s |-> [pod |-> s[k], object |-> Seen(api[s[k]])]]
  <1>2. /\ connected' = TRUE /\ stream' = stream \o items
        /\ UNCHANGED <<api, index, notes, entry, busy, examined, unheard>>
    BY DEF Relist
  <1>3. PICK m \in Nat : m = n
    <2>1. S \in SUBSET Pods
      OBVIOUS
    <2> HIDE DEF S
    <2>2. n \in Nat
      BY <2>1, Listing
    <2> QED
      BY <2>2
  <1>4. /\ s \in [1..m -> S]
        /\ \A j, k \in 1..m : s[j] = s[k] => j = k
        /\ \A p \in S : \E k \in 1..m : s[k] = p
    <2>1. S \in SUBSET Pods
      OBVIOUS
    <2> HIDE DEF S
    <2> QED
      BY <1>3, <2>1, Listing
  <1>5. PICK its : its = items
    OBVIOUS
  <1>6. its = [k \in 1..m |-> [pod |-> s[k], object |-> Seen(api[s[k]])]]
    <2>1. DOMAIN s = 1..m
      BY <1>4
    <2> QED
      BY <1>5, <2>1
  <1>7. \A p \in S : p \in Pods
    OBVIOUS
  <1>8. PICK all : all = S
    OBVIOUS
  <1>9. PICK names : names = s
    OBVIOUS
  <1> HIDE DEF S, s, n, items
  <1>10. /\ its \in Seq(Items) /\ Len(its) = m
         /\ \A k \in 1..m : its[k].pod = names[k] /\ names[k] \in all /\ its[k].object = Seen(api[its[k].pod])
    <2>1. \A k \in 1..m : s[k] \in Pods /\ api[s[k]] \in Objects /\ s[k] \in S
      BY <1>1, <1>4, <1>7
    <2>2. its \in [1..m -> Items]
      BY <1>6, <2>1, SeenObjects DEF Items
    <2> QED
      BY <1>6, <1>8, <1>9, <2>1, <2>2
  <1>11. stream' = stream \o its
    BY <1>2, <1>5
  <1>12. PICK l \in Nat : l = Len(stream)
    BY <1>1
  <1>13. /\ stream' \in Seq(Items)
         /\ Len(stream') = l + m
         /\ \A k \in 1..l : k \in 1..Len(stream') /\ stream'[k] = stream[k]
         /\ \A k \in 1..m : l + k \in 1..Len(stream') /\ stream'[l + k] = its[k]
         /\ \A k \in 1..Len(stream') : k \in 1..l \/ (k - l \in 1..m /\ k = l + (k - l))
    <2>1. Len(stream \o its) = l + m /\ stream \o its \in Seq(Items)
      BY <1>1, <1>10, <1>12, ConcatProperties
    <2>2. \A k \in 1..l + m : (stream \o its)[k] = IF k <= l THEN stream[k] ELSE its[k - l]
      BY <1>1, <1>10, <1>12, ConcatProperties
    <2>3. \A k \in 1..l : k \in 1..l + m /\ k <= l
      OBVIOUS
    <2>4. \A k \in 1..m : l + k \in 1..l + m /\ ~(l + k <= l) /\ (l + k) - l = k
      OBVIOUS
    <2>5. \A k \in 1..l + m : k \in 1..l \/ (k - l \in 1..m /\ k = l + (k - l))
      OBVIOUS
    <2> QED
      BY <1>11, <2>1, <2>2, <2>3, <2>4, <2>5
  <1>14. FeedTypes'
    BY <1>1, <1>2, <1>13 DEF FeedTypes
  <1>15. NotesSaySomething' /\ NotesEnd' /\ NotesReachIndex' /\ NotesChained'
    BY <1>2, NotesUnchanged
  <1>16. NoneAsleep'
    BY <1>2, AwakeUnchanged
  <1>17. OneBusy'
    BY <1>2 DEF FeedInv, OneBusy
  <1>18. ASSUME NEW p \in all
         PROVE  \E k : LastOf(stream', p, k) /\ stream'[k].object = Seen(api[p])
    <2>1. PICK k \in 1..m : names[k] = p
      BY <1>4, <1>8, <1>9, <1>18
    <2>2. l + k \in 1..Len(stream') /\ stream'[l + k].pod = p /\ stream'[l + k].object = Seen(api[p])
      BY <1>10, <1>13, <2>1
    <2>3. ASSUME NEW j \in 1..Len(stream'), stream'[j].pod = p PROVE j <= l + k
      <3>1. CASE j \in 1..l
        BY <3>1
      <3>2. CASE j - l \in 1..m /\ j = l + (j - l)
        <4>1. its[j - l].pod = p
          BY <1>13, <2>3, <3>2
        <4>2. j - l = k
          BY <1>4, <1>9, <1>10, <2>1, <3>2, <4>1
        <4> QED
          BY <3>2, <4>2
      <3> QED
        BY <1>13, <3>1, <3>2
    <2> QED
      BY <2>2, <2>3 DEF LastOf
  <1>19. ASSUME NEW p \in Pods, p \notin all
         PROVE  /\ Silent(stream', p) <=> Silent(stream, p)
                /\ \A k : LastOf(stream, p, k) => LastOf(stream', p, k) /\ stream'[k] = stream[k]
    <2>1. \A k \in 1..Len(stream') : stream'[k].pod = p => k \in 1..l /\ stream'[k] = stream[k]
      <3> SUFFICES ASSUME NEW k \in 1..Len(stream'), stream'[k].pod = p, k \notin 1..l PROVE FALSE
        BY <1>13
      <3>1. k - l \in 1..m /\ k = l + (k - l)
        BY <1>13
      <3>2. stream'[k] = its[k - l]
        BY <1>13, <3>1
      <3>3. its[k - l].pod \in all
        BY <1>10, <3>1
      <3> QED
        BY <1>19, <3>2, <3>3
    <2>2. Silent(stream', p) <=> Silent(stream, p)
      BY <1>12, <1>13, <2>1 DEF Silent
    <2>3. \A k : LastOf(stream, p, k) => LastOf(stream', p, k) /\ stream'[k] = stream[k]
      BY <1>12, <1>13, <2>1 DEF LastOf
    <2> QED
      BY <2>2, <2>3
  <1>20. StreamEnds'
    BY <1>1, <1>18, <1>19 DEF StreamEnds
  <1>21. ASSUME NEW p \in Pods, p \notin all PROVE InStep(p)'
    <2>1. Seen(api[p]) = Absent /\ ~Known(p)
      BY <1>8, <1>21 DEF S, Seen
    <2>2. Seen(api'[p]) = Absent /\ index'[p] = index[p]
      BY <1>2, <2>1
    <2>3. /\ Silent(stream', p) <=> Silent(stream, p)
          /\ \A k : LastOf(stream, p, k) => LastOf(stream', p, k) /\ stream'[k] = stream[k]
      BY <1>19, <1>21
    <2>4. CASE Silent(stream, p)
      <3>1. {k \in 1..Len(stream) : stream[k].pod = p} = {}
        BY <2>4 DEF Silent
      <3>2. index[p] = Absent
        BY <2>1, <3>1 DEF Known
      <3> QED
        BY <2>4, <2>2, <2>3, <3>2 DEF InStep, Transformed
    <2>5. ASSUME NEW k, LastOf(stream, p, k) PROVE InStep(p)'
      <3> DEFINE M == {i \in 1..Len(stream) : stream[i].pod = p}
      <3>1. k \in M /\ \A j \in M : j <= k
        BY <2>5 DEF LastOf
      <3>2. \A i \in M : (\A j \in M : j <= i) => i = k
        BY <1>12, <3>1
      <3>3. (CHOOSE i \in M : \A j \in M : j <= i) = k
        <4> HIDE DEF M
        <4> QED
          BY <3>1, <3>2
      <3>4. stream[k].object = Absent
        BY <2>1, <3>1, <3>3 DEF Known
      <3> QED
        BY <2>5, <2>2, <2>3, <3>4 DEF InStep
    <2> QED
      BY <1>1, <2>4, <2>5 DEF StreamEnds
  <1>22. StreamInStep'
    BY <1>2, <1>18, <1>21 DEF StreamInStep, InStep
  <1> QED
    BY <1>14, <1>15, <1>16, <1>17, <1>20, <1>22 DEF FeedInv

LEMMA OneLast ==
  ASSUME NEW R, NEW s \in Seq(R), NEW p, NEW j, NEW k, LastOf(s, p, j), LastOf(s, p, k)
  PROVE  j = k
  BY DEF LastOf

\* What is applied extends the chain; nothing but the cache moves.
LEMMA ApplyStep ==
  ASSUME FeedInv, Apply
  PROVE  FeedInv'
  <1>1. /\ FeedTypes /\ OneBusy /\ StreamEnds /\ StreamInStep
        /\ NotesSaySomething /\ NotesEnd /\ NotesReachIndex /\ NotesChained /\ NoneAsleep
        /\ stream \in Seq(Items) /\ stream # <<>> /\ notes \in Seq(Notes) /\ index \in [Pods -> Cached]
    BY DEF FeedInv, FeedTypes, Apply
  <1>2. PICK item \in Items : item = stream[1] /\ item = Head(stream)
    <2>1. stream[1] \in Items
      BY <1>1
    <2> QED
      BY <1>1, <2>1
  <1>3. PICK q \in Pods, c \in Cached, b \in Cached :
          q = item.pod /\ c = Transformed(item.object) /\ b = index[q]
    BY <1>1 DEF Items, Cached
  <1>4. /\ index' = [index EXCEPT ![q] = c]
        /\ notes' = IF b = Absent /\ c = Absent THEN notes
                    ELSE Append(notes, [pod |-> q, old |-> b, new |-> c, initial |-> FALSE])
        /\ stream' = Tail(stream)
        /\ UNCHANGED <<api, connected, entry, busy, examined, unheard>>
    BY <1>2, <1>3 DEF Apply
  <1>5. index'[q] = c /\ \A r \in Pods : r # q => index'[r] = index[r]
    BY <1>1, <1>4
  <1>6. stream[1].pod = q /\ 1 \in 1..Len(stream)
    BY <1>1, <1>2, <1>3, TailShift
  <1>7. StreamEnds'
    <2> SUFFICES ASSUME NEW r \in Pods PROVE Silent(stream', r) \/ \E k : LastOf(stream', r, k)
      BY DEF StreamEnds
    <2>1. CASE Silent(stream, r)
      BY <1>1, <1>4, <2>1, TailLast
    <2>2. ASSUME NEW k, LastOf(stream, r, k)
          PROVE  Silent(stream', r) \/ LastOf(stream', r, k - 1)
      BY <1>1, <1>4, <2>2, TailLast
    <2> QED
      BY <1>1, <2>1, <2>2 DEF StreamEnds
  <1>8. StreamInStep'
    <2> SUFFICES ASSUME connected, NEW r \in Pods PROVE InStep(r)'
      BY <1>4 DEF StreamInStep
    <2>1. InStep(r)
      BY <1>1 DEF StreamInStep
    <2>2. api' = api
      BY <1>4
    <2>3. CASE Silent(stream, r) /\ index[r] = Transformed(Seen(api[r]))
      <3>1. r # q
        BY <1>6, <2>3 DEF Silent
      <3>2. Silent(stream', r)
        BY <1>1, <1>4, <2>3, TailLast
      <3> QED
        BY <1>5, <2>2, <2>3, <3>1, <3>2 DEF InStep
    <2>4. ASSUME NEW k, LastOf(stream, r, k), stream[k].object = Seen(api[r])
          PROVE  InStep(r)'
      <3>1. CASE k = 1
        <4>1. r = q /\ item.object = Seen(api[r])
          BY <1>2, <1>6, <2>4, <3>1 DEF LastOf
        <4>2. Silent(stream', r)
          BY <1>1, <1>4, <2>4, <3>1, TailLast
        <4>3. index'[r] = Transformed(Seen(api[r]))
          BY <1>3, <1>5, <4>1
        <4> QED
          BY <2>2, <4>2, <4>3 DEF InStep
      <3>2. CASE k # 1
        <4>1. LastOf(stream', r, k - 1) /\ stream'[k - 1] = stream[k]
          <5>1. LastOf(Tail(stream), r, k - 1) /\ Tail(stream)[k - 1] = stream[k]
            <6>1. stream \in Seq(Items) /\ stream # <<>>
              BY <1>1
            <6>2. LastOf(stream, r, k) => IF k = 1 THEN Silent(Tail(stream), r)
                                          ELSE LastOf(Tail(stream), r, k - 1) /\ Tail(stream)[k - 1] = stream[k]
              BY <6>1, TailLast
            <6> QED
              BY <2>4, <3>2, <6>2
          <5> QED
            BY <1>4, <5>1
        <4>2. stream'[k - 1].object = Seen(api'[r])
          BY <2>2, <2>4, <4>1
        <4> QED
          BY <4>1, <4>2 DEF InStep
      <3> QED
        BY <3>1, <3>2
    <2> QED
      BY <2>1, <2>3, <2>4 DEF InStep
  <1>9. stream' \in Seq(Items) /\ index' \in [Pods -> Cached]
    BY <1>1, <1>4
  <1>10. OneBusy'
    BY <1>1, <1>4 DEF OneBusy
  <1>11. CASE b = Absent /\ c = Absent
    <2>1. notes' = notes /\ index' = index
      <3>1. index' = index
        BY <1>1, <1>3, <1>4, <1>11
      <3> QED
        BY <1>4, <1>11, <3>1
    <2>2. FeedTypes'
      BY <1>1, <1>4, <1>9, <2>1 DEF FeedTypes
    <2>3. NotesSaySomething' /\ NotesEnd' /\ NotesReachIndex' /\ NotesChained'
      BY <2>1, NotesUnchanged
    <2>4. NoneAsleep'
      BY <1>4, <2>1, AwakeUnchanged
    <2> QED
      BY <1>7, <1>8, <1>10, <2>2, <2>3, <2>4 DEF FeedInv
  <1>12. CASE ~(b = Absent /\ c = Absent)
    <2>1. PICK note \in Notes : note = [pod |-> q, old |-> b, new |-> c, initial |-> FALSE]
      BY DEF Notes
    <2>2. note.pod = q /\ note.old = b /\ note.new = c
      BY <2>1
    <2>3. notes' = Append(notes, note)
      BY <1>4, <1>12, <2>1
    <2>4. /\ notes' \in Seq(Notes) /\ Len(notes) \in Nat /\ Len(notes') = Len(notes) + 1
          /\ notes'[Len(notes) + 1] = note
          /\ \A k \in 1..Len(notes) : k \in 1..Len(notes') /\ notes'[k] = notes[k]
          /\ \A k \in 1..Len(notes') : k \in 1..Len(notes) \/ k = Len(notes) + 1
      BY <1>1, <2>3
    <2>5. LastOf(notes', q, Len(notes) + 1)
      BY <1>1, <2>2, <2>3, AppendOwn
    <2>6. ASSUME NEW r \in Pods, r # q
          PROVE  /\ Silent(notes', r) <=> Silent(notes, r)
                 /\ \A k : LastOf(notes, r, k) <=> LastOf(notes', r, k)
                 /\ \A k : LastOf(notes, r, k) => notes'[k] = notes[k]
                 /\ \A k : FirstOf(notes', r, k) => FirstOf(notes, r, k) /\ notes'[k] = notes[k]
      <3>1. note.pod # r
        BY <2>2, <2>6
      <3>2. /\ Silent(Append(notes, note), r) <=> Silent(notes, r)
            /\ \A k : LastOf(notes, r, k) <=> LastOf(Append(notes, note), r, k)
            /\ \A k : LastOf(notes, r, k) => Append(notes, note)[k] = notes[k]
            /\ \A k : FirstOf(Append(notes, note), r, k) => FirstOf(notes, r, k) /\ Append(notes, note)[k] = notes[k]
        <4>1. notes \in Seq(Notes) /\ note \in Notes
          BY <1>1
        <4> QED
          BY <3>1, <4>1, AppendOther
      <3> QED
        BY <2>3, <3>2
    <2>7. FeedTypes'
      BY <1>1, <1>4, <1>9, <2>4 DEF FeedTypes
    <2>8. NotesSaySomething'
      BY <1>1, <1>12, <2>2, <2>4 DEF NotesSaySomething
    <2>9. NotesEnd'
      BY <1>1, <2>5, <2>6 DEF NotesEnd
    <2>10. NotesReachIndex'
      <3> SUFFICES ASSUME NEW r \in Pods, NEW k, LastOf(notes', r, k) PROVE notes'[k].new = index'[r]
        BY DEF NotesReachIndex
      <3>1. CASE r = q
        <4>1. k = Len(notes) + 1
          BY <2>4, <2>5, <3>1, OneLast
        <4> QED
          BY <1>5, <2>2, <2>4, <3>1, <4>1
      <3>2. CASE r # q
        BY <1>1, <1>5, <2>6, <3>2 DEF NotesReachIndex
      <3> QED
        BY <3>1, <3>2
    <2>11. NotesChained'
      <3> SUFFICES ASSUME NEW k \in 1..Len(notes'), NEW l \in 1..Len(notes'), Follows(notes', k, l)
                   PROVE  notes'[l].old = notes'[k].new
        BY DEF NotesChained
      <3>1. k \in 1..Len(notes) /\ k < l
        BY <2>4 DEF Follows
      <3>2. CASE l \in 1..Len(notes)
        <4>1. Follows(notes, k, l)
          BY <2>4, <3>1, <3>2 DEF Follows
        <4> QED
          BY <1>1, <2>4, <3>1, <3>2, <4>1 DEF NotesChained
      <3>3. CASE l = Len(notes) + 1
        <4>1. notes[k].pod = q
          BY <2>2, <2>4, <3>1, <3>3 DEF Follows
        <4>2. LastOf(notes, q, k)
          BY <2>4, <3>1, <3>3, <4>1 DEF Follows, LastOf
        <4>3. notes[k].new = b
          BY <1>1, <1>3, <4>2 DEF NotesReachIndex
        <4> QED
          BY <2>2, <2>4, <3>1, <3>3, <4>3
      <3> QED
        BY <2>4, <3>2, <3>3
    <2>12. NoneAsleep'
      <3> SUFFICES ASSUME NEW r \in Pods \ unheard, NEW o, Handled(r, o)', WantedObject(o)
                   PROVE  Awake(r, o)'
        BY <1>4 DEF NoneAsleep
      <3>1. Handled(r, o)
        <4>1. CASE r # q
          BY <1>5, <2>6, <4>1 DEF Handled
        <4>2. CASE r = q
          <5>1. PICK k : FirstOf(notes', q, k) /\ o = notes'[k].old
            <6>1. ~Silent(notes', q)
              BY <2>5 DEF LastOf, Silent
            <6> QED
              BY <4>2, <6>1 DEF Handled
          <5>2. \/ FirstOf(notes, q, k) /\ notes'[k] = notes[k]
                \/ Silent(notes, q) /\ k = Len(notes) + 1
            BY <1>1, <2>2, <2>3, <5>1, AppendFirst
          <5> QED
            BY <1>3, <2>2, <2>4, <4>2, <5>1, <5>2 DEF Handled
        <4> QED
          BY <4>1, <4>2
      <3>2. Awake(r, o)
        BY <1>1, <3>1 DEF NoneAsleep
      <3>3. \A k : Pending(r, k) => Pending(r, k)' /\ notes'[k] = notes[k]
        BY <2>4 DEF Pending
      <3> QED
        BY <1>4, <3>2, <3>3 DEF Awake
    <2> QED
      BY <1>7, <1>8, <1>10, <2>7, <2>8, <2>9, <2>10, <2>11, <2>12 DEF FeedInv
  <1> QED
    BY <1>11, <1>12

\* What a notification is refused for, no later one of the pod misses.
LEMMA HandleStep ==
  ASSUME FeedInv, Handle
  PROVE  FeedInv'
  <1>1. /\ FeedTypes /\ OneBusy /\ StreamEnds /\ StreamInStep
        /\ NotesSaySomething /\ NotesEnd /\ NotesReachIndex /\ NotesChained /\ NoneAsleep
    BY DEF FeedInv
  <1>2. notes \in Seq(Notes) /\ notes # <<>> /\ entry \in [Pods -> {"none", "ready", "delayed"}]
    BY <1>1 DEF FeedTypes, Handle
  <1>3. PICK note \in Notes : note = notes[1] /\ note = Head(notes)
    <2>1. notes[1] \in Notes
      BY <1>2
    <2> QED
      BY <1>2, <2>1
  <1>4. PICK q \in Pods, old \in Cached, new \in Cached :
          q = note.pod /\ old = note.old /\ new = note.new
    BY DEF Notes
  <1>5. /\ entry' = IF Passes(note) THEN [entry EXCEPT ![q] = "ready"] ELSE entry
        /\ unheard' = IF Dropped(note) THEN unheard \cup {q}
                      ELSE IF Passes(note) \/ new = Absent THEN unheard \ {q} ELSE unheard
        /\ notes' = Tail(notes)
        /\ UNCHANGED <<api, connected, stream, index, busy, examined>>
    BY <1>3, <1>4 DEF Handle
  <1>6. \A r \in Pods : entry'[r] = IF r = q /\ Passes(note) THEN "ready" ELSE entry[r]
    BY <1>2, <1>5
  <1>7. /\ Len(notes) \in Nat \ {0} /\ Len(notes') = Len(notes) - 1 /\ 1 \in 1..Len(notes)
        /\ notes' \in Seq(Notes)
        /\ \A k \in 1..Len(notes') : k + 1 \in 1..Len(notes) /\ notes'[k] = notes[k + 1]
        /\ \A k \in 1..Len(notes) : k = 1 \/ (k - 1 \in 1..Len(notes') /\ notes'[k - 1] = notes[k])
    BY <1>2, <1>5, TailShift
  <1>8. ASSUME NEW r
        PROVE  /\ Silent(notes, r) => Silent(notes', r)
               /\ Silent(notes', r) => Silent(notes, r) \/ LastOf(notes, r, 1)
               /\ \A k : LastOf(notes', r, k) => LastOf(notes, r, k + 1)
               /\ \A k : LastOf(notes, r, k) => Silent(notes', r) \/ LastOf(notes', r, k - 1)
    <2>1. /\ Silent(notes, r) => Silent(Tail(notes), r)
          /\ Silent(Tail(notes), r) => Silent(notes, r) \/ LastOf(notes, r, 1)
          /\ \A k : LastOf(Tail(notes), r, k) => LastOf(notes, r, k + 1)
          /\ \A k : LastOf(notes, r, k) => IF k = 1 THEN Silent(Tail(notes), r)
                                           ELSE LastOf(Tail(notes), r, k - 1) /\ Tail(notes)[k - 1] = notes[k]
      BY <1>2, TailLast
    <2> QED
      BY <1>5, <2>1
  <1>9. FeedTypes'
    <2>1. entry' \in [Pods -> {"none", "ready", "delayed"}]
      BY <1>2, <1>5
    <2> QED
      BY <1>1, <1>5, <1>7, <2>1 DEF FeedTypes
  <1>10. OneBusy'
    BY <1>1, <1>5, <1>6 DEF OneBusy
  <1>11. StreamEnds' /\ StreamInStep'
    BY <1>5, StreamUnchanged
  <1>12. NotesSaySomething'
    BY <1>1, <1>7 DEF NotesSaySomething
  <1>13. NotesEnd'
    BY <1>1, <1>8 DEF NotesEnd
  <1>14. NotesReachIndex'
    <2> SUFFICES ASSUME NEW r \in Pods, NEW k, LastOf(notes', r, k) PROVE notes'[k].new = index'[r]
      BY DEF NotesReachIndex
    <2>1. LastOf(notes, r, k + 1)
      BY <1>8
    <2>2. notes[k + 1].new = index[r]
      BY <1>1, <2>1 DEF NotesReachIndex
    <2>3. notes'[k] = notes[k + 1]
      BY <1>7 DEF LastOf
    <2> QED
      BY <1>5, <2>2, <2>3
  <1>15. NotesChained'
    <2> SUFFICES ASSUME NEW k \in 1..Len(notes'), NEW l \in 1..Len(notes'), Follows(notes', k, l)
                 PROVE  notes'[l].old = notes'[k].new
      BY DEF NotesChained
    <2>1. /\ k + 1 \in 1..Len(notes) /\ l + 1 \in 1..Len(notes)
          /\ notes'[k] = notes[k + 1] /\ notes'[l] = notes[l + 1]
      BY <1>7
    <2>2. k + 1 < l + 1 /\ notes[k + 1].pod = notes[l + 1].pod
      BY <1>7, <2>1 DEF Follows
    <2>3. ASSUME NEW j \in 1..Len(notes), k + 1 < j, j < l + 1 PROVE notes[j].pod # notes[k + 1].pod
      <3>1. j - 1 \in 1..Len(notes') /\ notes'[j - 1] = notes[j]
        BY <1>7, <2>1, <2>3
      <3>2. k < j - 1 /\ j - 1 < l
        BY <1>7, <2>3
      <3> QED
        BY <2>1, <3>1, <3>2 DEF Follows
    <2>4. Follows(notes, k + 1, l + 1)
      BY <2>2, <2>3 DEF Follows
    <2> QED
      BY <1>1, <2>1, <2>4 DEF NotesChained
  <1>16. NoneAsleep'
    <2> SUFFICES ASSUME NEW r \in Pods, r \notin unheard', NEW o, Handled(r, o)', WantedObject(o)
                 PROVE  Awake(r, o)'
      BY DEF NoneAsleep
    <2>1. \A k : Pending(r, k) => (r = q /\ k = 1) \/ (Pending(r, k - 1)' /\ notes'[k - 1] = notes[k])
      <3> SUFFICES ASSUME NEW k, Pending(r, k), ~(r = q /\ k = 1)
                   PROVE  Pending(r, k - 1)' /\ notes'[k - 1] = notes[k]
        OBVIOUS
      <3>1. k \in 1..Len(notes) /\ notes[k].pod = r
        BY DEF Pending
      <3>2. k # 1
        BY <1>3, <1>4, <3>1
      <3>3. k - 1 \in 1..Len(notes') /\ notes'[k - 1] = notes[k]
        BY <1>7, <3>1, <3>2
      <3> QED
        BY <3>1, <3>3 DEF Pending
    <2>2. CASE r # q
      <3>1. Handled(r, o)
        <4>1. Head(notes).pod # r
          BY <1>3, <1>4, <2>2
        <4>2. /\ Silent(Tail(notes), r) => Silent(notes, r)
              /\ \A k : FirstOf(Tail(notes), r, k) => FirstOf(notes, r, k + 1) /\ notes[k + 1] = Tail(notes)[k]
          BY <1>2, <4>1, TailFirst
        <4> QED
          BY <1>5, <4>2 DEF Handled
      <3>2. r \notin unheard
        BY <1>5, <2>2
      <3>3. Awake(r, o)
        BY <1>1, <3>1, <3>2 DEF NoneAsleep
      <3>4. entry'[r] = entry[r] /\ busy' = busy /\ examined' = examined
        BY <1>5, <1>6, <2>2
      <3>5. ASSUME NEW k, Pending(r, k) PROVE Pending(r, k - 1)' /\ notes'[k - 1] = notes[k]
        BY <2>1, <2>2, <3>5
      <3> QED
        BY <3>3, <3>4, <3>5 DEF Awake
    <2>3. CASE r = q /\ ~Passes(note)
      <3>1. o = new
        <4>1. CASE Silent(notes', r) /\ o = index'[r]
          <5>1. LastOf(notes, r, 1)
            <6>1. ~Silent(notes, r)
              BY <1>3, <1>4, <1>7, <2>3 DEF Silent
            <6> QED
              BY <1>8, <4>1, <6>1
          <5> QED
            BY <1>1, <1>3, <1>4, <1>5, <4>1, <5>1 DEF NotesReachIndex
        <4>2. ASSUME NEW k, FirstOf(notes', r, k), o = notes'[k].old PROVE o = new
          <5>1. k \in 1..Len(notes') /\ k + 1 \in 1..Len(notes) /\ notes'[k] = notes[k + 1] /\ notes[k + 1].pod = r
            BY <1>7, <4>2 DEF FirstOf
          <5>2. ASSUME NEW j \in 1..Len(notes), 1 < j, j < k + 1 PROVE notes[j].pod # r
            <6>1. j - 1 \in 1..Len(notes') /\ notes'[j - 1] = notes[j] /\ ~(k <= j - 1)
              BY <1>7, <5>1, <5>2
            <6> QED
              BY <4>2, <6>1 DEF FirstOf
          <5>3. Follows(notes, 1, k + 1)
            BY <1>3, <1>4, <1>7, <2>3, <5>1, <5>2 DEF Follows
          <5>4. notes[k + 1].old = notes[1].new
            BY <1>1, <1>7, <5>1, <5>3 DEF NotesChained
          <5> QED
            BY <1>3, <1>4, <4>2, <5>1, <5>4
        <4> QED
          BY <4>1, <4>2 DEF Handled
      <3>2. WantedObject(new) /\ new # Absent
        BY <3>1 DEF WantedObject
      <3>3. old # Absent /\ r \notin unheard
        <4>1. ~Dropped(note)
          BY <1>5, <2>3
        <4>2. ShouldScan(new)
          BY <3>2, WantedCached
        <4>3. old # Absent
          BY <1>4, <2>3, <3>2, <4>1, <4>2 DEF Dropped, Passes, CreateFunc, WantedObject
        <4> QED
          BY <1>5, <2>3, <3>2, <4>1, <4>3
      <3>4. ~UpdateFunc(old, new)
        BY <1>4, <2>3, <3>2, <3>3 DEF Passes
      <3>5. WantedObject(old)
        BY <3>2, <3>3, <3>4, FirstWantedPasses DEF WantedObject
      <3>6. old.ids = new.ids
        BY <3>2, <3>4, <3>5, RefusedKeepsImages
      <3>7. Handled(r, old)
        <4>1. FirstOf(notes, r, 1)
          BY <1>3, <1>4, <1>7, <2>3 DEF FirstOf
        <4> QED
          BY <1>3, <1>4, <4>1 DEF Handled
      <3>8. Awake(r, old)
        BY <1>1, <3>3, <3>5, <3>7 DEF NoneAsleep
      <3>9. entry'[r] = entry[r] /\ busy' = busy /\ examined' = examined
        BY <1>5, <1>6, <2>3
      <3>10. ASSUME NEW k, Pending(r, k), k # 1 PROVE Pending(r, k - 1)' /\ notes'[k - 1] = notes[k]
        BY <2>1, <3>10
      <3>11. notes[1].new = new
        BY <1>3, <1>4
      <3> QED
        BY <3>1, <3>2, <3>6, <3>8, <3>9, <3>10, <3>11 DEF Awake
    <2>4. CASE r = q /\ Passes(note)
      BY <1>6, <2>4 DEF Awake
    <2> QED
      BY <2>2, <2>3, <2>4
  <1> QED
    BY <1>9, <1>10, <1>11, <1>12, <1>13, <1>14, <1>15, <1>16 DEF FeedInv

\* A pass reads what is cached: what the last pending notification brings.
LEMMA ReconcileStep ==
  ASSUME FeedInv, NEW p \in Pods, Reconcile(p)
  PROVE  FeedInv'
  <1>1. /\ FeedTypes /\ NotesEnd /\ NotesReachIndex /\ NoneAsleep
        /\ index[p] \in Cached
        /\ entry \in [Pods -> {"none", "ready", "delayed"}] /\ examined \in [Pods -> Images]
    BY DEF FeedInv, FeedTypes
  <1>2. /\ busy = {}
        /\ entry' = [entry EXCEPT ![p] = "none"]
        /\ IF Scannable(index[p])
             THEN examined' = [examined EXCEPT ![p] = index[p].ids] /\ busy' = {p}
             ELSE examined' = examined /\ busy' = busy
        /\ UNCHANGED <<api, connected, stream, index, notes, unheard>>
    BY DEF Reconcile
  <1>3. /\ entry'[p] = "none" /\ \A q \in Pods : q # p => entry'[q] = entry[q]
        /\ entry' \in [Pods -> {"none", "ready", "delayed"}]
    BY <1>1, <1>2
  <1>4. Scannable(index[p]) => /\ index[p].ids \in Images
                               /\ examined'[p] = index[p].ids
                               /\ examined' \in [Pods -> Images]
    <2> SUFFICES ASSUME Scannable(index[p])
                 PROVE  /\ index[p].ids \in Images
                        /\ examined'[p] = index[p].ids
                        /\ examined' \in [Pods -> Images]
      OBVIOUS
    <2>1. index[p] \in Shapes
      BY <1>1, CachedForm, StubForm DEF Scannable
    <2>2. index[p].ids \in Images
      BY <2>1 DEF Images
    <2> QED
      BY <1>1, <1>2, <2>2
  <1>5. \A q \in Pods : q # p => examined'[q] = examined[q]
    BY <1>1, <1>2
  <1>6. FeedTypes'
    BY <1>1, <1>2, <1>3, <1>4 DEF FeedTypes
  <1>7. OneBusy'
    BY <1>2, <1>3 DEF OneBusy
  <1>8. StreamEnds' /\ StreamInStep'
    BY <1>2, StreamUnchanged
  <1>9. NotesSaySomething' /\ NotesEnd' /\ NotesReachIndex' /\ NotesChained'
    BY <1>2, NotesUnchanged
  <1>10. NoneAsleep'
    <2> SUFFICES ASSUME NEW q \in Pods, q \notin unheard, NEW o, Handled(q, o), WantedObject(o)
                 PROVE  Awake(q, o)'
      BY <1>2 DEF NoneAsleep, Handled
    <2>1. CASE q # p
      <3>1. Awake(q, o)
        BY <1>1 DEF NoneAsleep
      <3> QED
        BY <1>2, <1>3, <1>5, <2>1, <3>1 DEF Awake, Pending
    <2>2. CASE q = p /\ Silent(notes, p)
      <3>1. o = index[p]
        BY <2>2 DEF Handled, FirstOf, Silent
      <3>2. Scannable(index[p])
        BY <3>1 DEF WantedObject, Wanted, Scannable
      <3>3. p \in busy' /\ examined'[p] = o.ids
        BY <1>2, <1>4, <3>1, <3>2
      <3> QED
        BY <2>2, <3>3 DEF Awake
    <2>3. CASE q = p /\ ~Silent(notes, p)
      <3>1. PICK k : LastOf(notes, p, k)
        BY <1>1, <2>3 DEF NotesEnd
      <3>2. Pending(p, k)' /\ notes'[k].new = index[p]
        BY <1>1, <1>2, <3>1 DEF NotesReachIndex, LastOf, Pending
      <3>3. CASE Scannable(index[p])
        BY <1>2, <1>4, <2>3, <3>2, <3>3 DEF Awake
      <3>4. CASE ~Scannable(index[p])
        <4>1. ~WantedObject(index[p])
          BY <3>4 DEF WantedObject, Wanted, Scannable
        <4> QED
          BY <2>3, <3>2, <4>1 DEF Awake
      <3> QED
        BY <3>3, <3>4
    <2> QED
      BY <2>1, <2>2, <2>3
  <1> QED
    BY <1>6, <1>7, <1>8, <1>9, <1>10 DEF FeedInv

\* Neither the end of a pass nor the end of its delay loses the request.
LEMMA EntryStep ==
  ASSUME FeedInv, NEW p \in Pods, Finish(p) \/ Due(p)
  PROVE  FeedInv'
  <1>1. /\ FeedTypes /\ OneBusy /\ NoneAsleep
        /\ entry \in [Pods -> {"none", "ready", "delayed"}]
    BY DEF FeedInv, FeedTypes
  <1>2. /\ UNCHANGED <<api, connected, stream, index, notes, examined, unheard>>
        /\ entry' \in [Pods -> {"none", "ready", "delayed"}]
        /\ \A q \in Pods : q # p => entry'[q] = entry[q]
    BY <1>1 DEF Finish, Due
  <1>3. \/ p \in busy /\ busy' = {} /\ entry'[p] = IF entry[p] = "ready" THEN "ready" ELSE "delayed"
        \/ busy' = busy /\ entry[p] = "delayed" /\ entry'[p] = "ready"
    BY <1>1 DEF Finish, Due
  <1>4. FeedTypes'
    BY <1>1, <1>2 DEF FeedTypes
  <1>5. OneBusy'
    BY <1>1, <1>2, <1>3 DEF OneBusy
  <1>6. StreamEnds' /\ StreamInStep'
    BY <1>2, StreamUnchanged
  <1>7. NotesSaySomething' /\ NotesEnd' /\ NotesReachIndex' /\ NotesChained'
    BY <1>2, NotesUnchanged
  <1>8. NoneAsleep'
    <2> SUFFICES ASSUME NEW q \in Pods, q \notin unheard, NEW o, Handled(q, o), WantedObject(o)
                 PROVE  Awake(q, o)'
      BY <1>2 DEF NoneAsleep, Handled
    <2>1. Awake(q, o)
      BY <1>1 DEF NoneAsleep
    <2>2. \A k : Pending(q, k)' <=> Pending(q, k)
      BY <1>2 DEF Pending
    <2>3. CASE q = p
      <3>1. CASE entry[p] = "ready"
        BY <1>3, <2>3, <3>1 DEF Awake
      <3>2. CASE entry[p] # "ready"
        <4>1. entry'[p] = "ready" \/ entry'[p] = "delayed"
          BY <1>3
        <4> QED
          BY <1>2, <2>1, <2>2, <2>3, <3>2, <4>1 DEF Awake
      <3> QED
        BY <3>1, <3>2
    <2>4. CASE q # p
      <3>1. entry'[q] = entry[q] /\ (q \in busy => q \in busy')
        BY <1>1, <1>2, <1>3, <2>4 DEF OneBusy
      <3> QED
        BY <1>2, <2>1, <2>2, <3>1 DEF Awake
    <2> QED
      BY <2>3, <2>4
  <1> QED
    BY <1>4, <1>5, <1>6, <1>7, <1>8 DEF FeedInv

LEMMA RestartStep ==
  ASSUME FeedInv, Restart
  PROVE  FeedInv'
  <1>1. api \in [Pods -> Objects]
    BY DEF FeedInv, FeedTypes
  <1>2. api' \in [Pods -> Objects]
    BY <1>1, AgedObjects DEF Restart
  <1>3. Started'
    BY <1>2 DEF Restart, Started
  <1>4. Started' => FeedInv'
    BY StartedInv, PTL
  <1> QED
    BY <1>3, <1>4

LEMMA InitInv == Init => FeedInv
  BY StartedInv DEF Init, Started, Objects

LEMMA NextInv == FeedInv /\ [Next]_vars => FeedInv'
  <1> SUFFICES ASSUME FeedInv, [Next]_vars PROVE FeedInv'
    OBVIOUS
  <1>1. ASSUME NEW p \in Pods, Created(p) PROVE FeedInv'
    <2>1. PICK o \in Newborn : Change(p, o)
      BY <1>1 DEF Created
    <2>2. o \in Objects
      BY FeedAssumption DEF Objects
    <2> QED
      BY <2>1, <2>2, ChangeStep
  <1>2. ASSUME NEW p \in Pods, Updated(p) PROVE FeedInv'
    <2>1. PICK o \in Shapes \ {api[p]} : Change(p, o)
      BY <1>2 DEF Updated
    <2>2. o \in Objects
      BY DEF Objects
    <2> QED
      BY <2>1, <2>2, ChangeStep
  <1>3. ASSUME NEW p \in Pods, Deleted(p) PROVE FeedInv'
    <2>1. Change(p, Absent) /\ Absent \in Objects
      BY <1>3 DEF Deleted, Objects
    <2> QED
      BY <2>1, ChangeStep
  <1>4. ASSUME NEW p \in Pods, Reconcile(p) PROVE FeedInv'
    BY <1>4, ReconcileStep
  <1>5. ASSUME NEW p \in Pods, Finish(p) \/ Due(p) PROVE FeedInv'
    BY <1>5, EntryStep
  <1>6. CASE Gap
    BY <1>6, GapStep
  <1>7. CASE Relist
    BY <1>7, RelistStep
  <1>8. CASE Apply
    BY <1>8, ApplyStep
  <1>9. CASE Handle
    BY <1>9, HandleStep
  <1>10. CASE Restart
    BY <1>10, RestartStep
  <1>11. CASE UNCHANGED vars
    <2>1. UNCHANGED <<api, connected, stream, index, notes, entry, busy, examined, unheard>>
      BY <1>11 DEF vars
    <2>2. FeedTypes' /\ OneBusy'
      BY <2>1 DEF FeedInv, FeedTypes, OneBusy
    <2> QED
      BY <2>1, <2>2, NotesUnchanged, AwakeUnchanged, StreamUnchanged DEF FeedInv
  <1> QED
    BY <1>1, <1>2, <1>3, <1>4, <1>5, <1>6, <1>7, <1>8, <1>9, <1>10, <1>11 DEF Next

LEMMA FeedInvariant == Spec => []FeedInv
  BY InitInv, NextInv, PTL DEF Spec

-----------------------------------------------------------------------------
(* What it implies. *)

\* The cache holds objects of the API server and stubs of them, a notification is
\* about a pod that is or was cached, and the one worker's pod is never delayed.
THEOREM TypeCorrect == Spec => []TypeOK
  <1>1. FeedInv => TypeOK
    <2> SUFFICES ASSUME FeedInv PROVE TypeOK
      OBVIOUS
    <2>1. FeedTypes /\ NotesSaySomething /\ OneBusy
      BY DEF FeedInv
    <2>2. \A p \in Pods : index[p] # Absent => IsStripped(index[p]) \/ index[p] \in Shapes
      BY <2>1, CachedForm, StubForm DEF FeedTypes
    <2>3. \A k \in 1..Len(stream) : stream[k] \in [pod : Pods, object : Shapes \cup {Absent}]
      <3>1. stream \in Seq(Items)
        BY <2>1 DEF FeedTypes
      <3>2. \A k \in 1..Len(stream) : stream[k] \in Items
        BY <3>1
      <3> QED
        BY <3>2 DEF Items, Objects
    <2> QED
      BY <2>1, <2>2, <2>3 DEF TypeOK, FeedTypes, Objects, NotesSaySomething, OneBusy
  <1> QED
    BY <1>1, FeedInvariant, PTL

\* No wakeup is lost: once all changes have been delivered, a pod that is to be
\* scanned waits for its reconcile or has had one with its present image IDs. Along
\* the chain of a pod's notifications, each is refused only if it brings no image.
THEOREM NoWakeupIsLost == Spec => []NoLostWakeup
  <1>1. FeedInv => NoLostWakeup
    <2> SUFFICES ASSUME FeedInv, Settled, NEW p \in Pods \ unheard, ShouldScan(api[p])
                 PROVE  \/ entry[p] = "ready"
                        \/ /\ entry[p] = "delayed" \/ p \in busy
                           /\ examined[p] = api[p].ids
      BY DEF NoLostWakeup
    <2>1. api[p] \in Shapes /\ NoneAsleep /\ InStep(p)
      BY DEF FeedInv, FeedTypes, Objects, ShouldScan, Settled, StreamInStep
    <2>2. Selected(api[p]) /\ Transformed(api[p]) = api[p] /\ WantedObject(api[p])
      BY <2>1, ToScanIsWanted
    <2>3. index[p] = api[p]
      BY <2>1, <2>2 DEF Settled, InStep, LastOf, Seen
    <2>4. Handled(p, api[p])
      BY <2>3 DEF Settled, Handled, Silent
    <2>5. Awake(p, api[p])
      BY <2>1, <2>2, <2>4 DEF NoneAsleep
    <2>6. \A k : ~Pending(p, k)
      BY DEF Settled, Pending
    <2> QED
      BY <2>5, <2>6 DEF Awake
  <1> QED
    BY <1>1, FeedInvariant, PTL

\* A reconcile lists the images of an object the transform has kept: one of the
\* collector's node and namespaces, that was not over before its start.
THEOREM OthersAreNotExamined == Spec => OnlyOwnExamined
  <1> DEFINE A == \A p \in Pods : p \in busy' \ busy =>
                    /\ index[p].form = "full"
                    /\ ~IsExcluded(index[p].ns)
                    /\ RunAsDaemon => IsFromCurrentNode(index[p])
                    /\ ~CompletedEarly(index[p])
  <1>1. FeedInv /\ [Next]_vars => A
    <2> SUFFICES ASSUME FeedInv, [Next]_vars, NEW p \in Pods, p \in busy', p \notin busy
                 PROVE  /\ index[p].form = "full"
                        /\ ~IsExcluded(index[p].ns)
                        /\ RunAsDaemon => IsFromCurrentNode(index[p])
                        /\ ~CompletedEarly(index[p])
      OBVIOUS
    <2>1. Reconcile(p) /\ Scannable(index[p])
      <3>1. PICK q \in Pods : Reconcile(q)
        BY DEF Next, vars, Created, Updated, Deleted, Change, Finish, Due, Gap, Relist, Apply, Handle, Restart
      <3> QED
        BY <3>1 DEF Reconcile
    <2>2. index[p] \in Cached
      BY DEF FeedInv, FeedTypes
    <2>3. index[p] \in Shapes /\ ~IsExcluded(index[p].ns) /\ ~Elsewhere(index[p]) /\ ~CompletedEarly(index[p])
      BY <2>1, <2>2, CachedForm, StubForm DEF Scannable
    <2> QED
      BY <2>3, ShapeIsObject DEF IsObject, Elsewhere, IsFromCurrentNode
  <1> QED
    BY <1>1, FeedInvariant, PTL DEF Spec, OnlyOwnExamined
-----------------------------------------------------------------------------
(* An unbroken watch: pods enter the cache young.                           *)

\* The first change to come of a pod that is not cached brings none to be scanned,
\* nor does the one after its deletion, nor a create.
EntersYoung == \A p \in Pods : \A k :
                 FirstOf(stream, p, k) /\ index[p] = Absent => ~ShouldScan(stream[k].object)
ReturnsYoung == \A k, l \in 1..Len(stream) :
                  Follows(stream, k, l) /\ stream[k].object = Absent => ~ShouldScan(stream[l].object)
CreatesYoung == \A k \in 1..Len(notes) :
                  notes[k].old = Absent /\ ~notes[k].initial => ~ShouldScan(notes[k].new)

Young == connected /\ EntersYoung /\ ReturnsYoung /\ CreatesYoung /\ unheard = {}

Unbroken == gaps \in Nat /\ (gaps = 0 => Young)

StartedHeard == Started /\ unheard = {}

LEMMA StartedYoung ==
  ASSUME StartedHeard
  PROVE  Young
  <1>1. Started /\ unheard = {} /\ connected /\ Len(stream) = 0
    BY DEF StartedHeard, Started
  <1>2. EntersYoung /\ ReturnsYoung
    BY <1>1 DEF EntersYoung, ReturnsYoung, FirstOf
  <1>3. CreatesYoung
    <2>1. \A k \in 1..Len(notes) : notes[k].old = Absent
      BY <1>1, ListedStart DEF Started
    <2> DEFINE s == SetToSeq({p \in Pods : Selected(api[p])})
    <2>2. notes = [k \in DOMAIN s |-> [pod |-> s[k], old |-> Absent, new |-> Transform(api[s[k]]),
                                       initial |-> TRUE]]
      BY <1>1 DEF Started, ListedNotes
    <2>3. notes \in Seq(Notes)
      BY <1>1, ListedStart DEF Started
    <2> HIDE DEF s
    <2>4. 1..Len(notes) = DOMAIN s
      BY <2>2, <2>3
    <2>5. \A k \in 1..Len(notes) : notes[k].initial
      BY <2>2, <2>4
    <2> QED
      BY <2>5 DEF CreatesYoung
  <1> QED
    BY <1>1, <1>2, <1>3 DEF Young

\* What the watch shows of a pod that it did not show before.
LEMMA ShownYoung ==
  ASSUME NEW p \in Pods, api \in [Pods -> Objects], Seen(api[p]) = Absent, NEW new \in Objects,
         \/ api[p] = Absent /\ new \in Newborn
         \/ Updated(p) /\ api' = [api EXCEPT ![p] = new]
         \/ new = Absent
  PROVE  ~ShouldScan(Seen(new))
  <1>1. CASE api[p] = Absent /\ new \in Newborn
    BY <1>1, FeedAssumption DEF Seen, ShouldScan
  <1>2. CASE Updated(p) /\ api' = [api EXCEPT ![p] = new]
    <2>1. PICK o \in Shapes : /\ o.node = api[p].node \/ (api[p].node = "" /\ o.phase = "Pending")
                              /\ api' = [api EXCEPT ![p] = o]
      BY <1>2 DEF Updated, Change
    <2>2. o = new
      BY <1>2, <2>1
    <2>3. api[p] # Absent
      BY <1>2 DEF Updated
    <2>4. ~Selected(api[p])
      BY <2>3 DEF Seen
    <2>5. CASE o.node = api[p].node
      BY <2>2, <2>3, <2>4, <2>5 DEF Selected, Seen, ShouldScan
    <2>6. CASE o.phase = "Pending"
      BY <2>2, <2>6 DEF Seen, ShouldScan
    <2> QED
      BY <2>1, <2>5, <2>6
  <1>3. CASE new = Absent
    BY <1>3 DEF Seen, Selected, ShouldScan
  <1> QED
    BY <1>1, <1>2, <1>3

LEMMA ChangeYoung ==
  ASSUME FeedInv, Young, NEW p \in Pods, NEW new \in Objects, Change(p, new),
         Seen(api[p]) = Absent => ~ShouldScan(Seen(new))
  PROVE  Young'
  <1> DEFINE item == [pod |-> p, object |-> Seen(new)]
  <1>1. /\ stream \in Seq(Items) /\ StreamEnds /\ StreamInStep /\ EntersYoung /\ ReturnsYoung
        /\ CreatesYoung /\ unheard = {} /\ connected
    BY DEF FeedInv, FeedTypes, Young
  <1>2. UNCHANGED <<connected, index, notes, unheard>>
    BY DEF Change
  <1>3. item \in Items /\ item.pod = p /\ item.object = Seen(new)
    BY SeenObjects DEF Items
  <1>4. stream' = Append(stream, item) \/ stream' = stream
    BY DEF Change, Watch
  <1> HIDE DEF item
  <1>5. InStep(p)
    BY <1>1 DEF StreamInStep
  <1>6. CreatesYoung'
    BY <1>1, <1>2 DEF CreatesYoung
  <1>7. CASE stream' = stream
    <2>1. EntersYoung' /\ ReturnsYoung'
      BY <1>1, <1>2, <1>7 DEF EntersYoung, ReturnsYoung
    <2> QED
      BY <1>1, <1>2, <1>6, <2>1 DEF Young
  <1>8. CASE stream' = Append(stream, item)
    <2>1. PICK n \in Nat : n = Len(stream)
      BY <1>1
    <2>2. /\ Len(stream') = n + 1 /\ stream'[n + 1] = item
          /\ \A k \in 1..n : stream'[k] = stream[k]
          /\ \A k \in 1..Len(stream') : k \in 1..n \/ k = n + 1
          /\ \A k \in 1..n : k \in 1..Len(stream')
      BY <1>1, <1>3, <1>8, <2>1
    <2>3. EntersYoung'
      <3> SUFFICES ASSUME NEW q \in Pods, NEW k, FirstOf(stream', q, k), index[q] = Absent
                   PROVE  ~ShouldScan(stream'[k].object)
        BY <1>2 DEF EntersYoung
      <3>1. CASE FirstOf(stream, q, k) /\ stream'[k] = stream[k]
        BY <1>1, <3>1 DEF EntersYoung
      <3>2. CASE q = p /\ Silent(stream, p) /\ k = n + 1
        <4>1. Transformed(Seen(api[p])) = Absent
          BY <1>5, <3>2 DEF InStep, LastOf, Silent
        <4>2. Seen(api[p]) = Absent
          BY <4>1, StubForm DEF Transformed, Transform
        <4> QED
          BY <1>3, <2>2, <3>2, <4>2
      <3>0. stream \in Seq(Items) /\ item \in Items /\ FirstOf(Append(stream, item), q, k)
        BY <1>1, <1>3, <1>8
      <3>3. CASE q # p
        <4>1. item.pod # q
          BY <1>3, <3>3
        <4>2. \A j : FirstOf(Append(stream, item), q, j)
                      => FirstOf(stream, q, j) /\ Append(stream, item)[j] = stream[j]
          BY <3>0, <4>1, AppendOther
        <4>3. FirstOf(stream, q, k) /\ Append(stream, item)[k] = stream[k]
          BY <3>0, <4>2
        <4> QED
          BY <1>8, <3>1, <4>3
      <3>4. CASE q = p
        <4>1. q = item.pod
          BY <1>3, <3>4
        <4>2. \/ FirstOf(stream, q, k) /\ Append(stream, item)[k] = stream[k]
              \/ Silent(stream, q) /\ k = Len(stream) + 1
          BY <3>0, <4>1, AppendFirst
        <4> QED
          BY <1>8, <2>1, <3>1, <3>2, <3>4, <4>2
      <3> QED
        BY <3>1, <3>2, <3>3, <3>4
    <2>4. ReturnsYoung'
      <3> SUFFICES ASSUME NEW k \in 1..Len(stream'), NEW l \in 1..Len(stream'),
                          Follows(stream', k, l), stream'[k].object = Absent
                   PROVE  ~ShouldScan(stream'[l].object)
        BY DEF ReturnsYoung
      <3>1. k \in 1..n
        BY <2>1, <2>2 DEF Follows
      <3>2. CASE l \in 1..n
        <4>1. Follows(stream, k, l)
          BY <2>1, <2>2, <3>1, <3>2 DEF Follows
        <4> QED
          BY <1>1, <2>1, <2>2, <3>1, <3>2, <4>1 DEF ReturnsYoung
      <3>3. CASE l = n + 1
        <4>1. stream[k].pod = p /\ \A j \in 1..n : stream[j].pod = p => j <= k
          BY <1>3, <2>1, <2>2, <3>1, <3>3 DEF Follows
        <4>2. LastOf(stream, p, k)
          BY <2>1, <3>1, <4>1 DEF LastOf
        <4>3. stream[k].object = Seen(api[p])
          <5>1. ~Silent(stream, p)
            BY <4>2 DEF LastOf, Silent
          <5>2. PICK j : LastOf(stream, p, j) /\ stream[j].object = Seen(api[p])
            BY <1>5, <5>1 DEF InStep
          <5>3. j = k
            BY <1>1, <4>2, <5>2, OneLast
          <5> QED
            BY <5>2, <5>3
        <4> QED
          BY <1>3, <2>2, <3>1, <3>3, <4>3
      <3> QED
        BY <2>2, <3>2, <3>3
    <2> QED
      BY <1>1, <1>2, <1>6, <2>3, <2>4 DEF Young
  <1> QED
    BY <1>4, <1>7, <1>8

LEMMA ApplyYoung ==
  ASSUME FeedInv, Young, Apply
  PROVE  Young'
  <1>1. /\ stream \in Seq(Items) /\ stream # <<>> /\ notes \in Seq(Notes) /\ index \in [Pods -> Cached]
        /\ EntersYoung /\ ReturnsYoung /\ CreatesYoung /\ unheard = {} /\ connected
    BY DEF FeedInv, FeedTypes, Young, Apply
  <1>2. PICK n \in Nat : n = Len(stream)
    BY <1>1
  <1>3. /\ Len(Tail(stream)) = n - 1 /\ Head(stream) = stream[1] /\ 1 \in 1..n
        /\ \A k \in 1..n - 1 : k + 1 \in 1..n /\ Tail(stream)[k] = stream[k + 1]
        /\ \A k \in 1..n : k = 1 \/ (k - 1 \in 1..n - 1 /\ Tail(stream)[k - 1] = stream[k])
    BY <1>1, <1>2, TailShift
  <1>4. PICK q \in Pods, o \in Objects, c \in Cached, b \in Cached :
          q = stream[1].pod /\ o = stream[1].object /\ c = Transformed(o) /\ b = index[q]
    <2>1. stream[1] \in Items
      BY <1>1
    <2> QED
      BY <1>1, <2>1 DEF Items, Cached
  <1>5. /\ index' = [index EXCEPT ![q] = c]
        /\ notes' = IF b = Absent /\ c = Absent THEN notes
                    ELSE Append(notes, [pod |-> q, old |-> b, new |-> c, initial |-> FALSE])
        /\ stream' = Tail(stream)
        /\ UNCHANGED <<connected, unheard>>
    BY <1>3, <1>4 DEF Apply
  <1>6. FirstOf(stream, q, 1)
    BY <1>2, <1>3, <1>4 DEF FirstOf
  <1>7. b = Absent => ~ShouldScan(c)
    <2>1. b = Absent => ~ShouldScan(o)
      BY <1>1, <1>4, <1>6 DEF EntersYoung
    <2>2. c = o \/ c = Strip(o)
      BY <1>4 DEF Transformed, Transform
    <2>3. ~ShouldScan(Strip(o))
      BY DEF ShouldScan, Strip
    <2> QED
      BY <2>1, <2>2, <2>3
  <1>8. CreatesYoung'
    <2>1. CASE notes' = notes
      BY <1>1, <2>1 DEF CreatesYoung
    <2>2. CASE notes' = Append(notes, [pod |-> q, old |-> b, new |-> c, initial |-> FALSE])
      <3>1. PICK note : note = [pod |-> q, old |-> b, new |-> c, initial |-> FALSE]
        OBVIOUS
      <3>2. notes' = Append(notes, note) /\ note.old = b /\ note.new = c
        BY <2>2, <3>1
      <3>3. \A k \in 1..Len(notes') : \/ k \in 1..Len(notes) /\ notes'[k] = notes[k]
                                      \/ notes'[k] = note
        BY <1>1, <3>2
      <3> QED
        BY <1>1, <1>7, <3>2, <3>3 DEF CreatesYoung
    <2> QED
      BY <1>5, <2>1, <2>2
  <1>9. EntersYoung'
    <2> SUFFICES ASSUME NEW r \in Pods, NEW k, FirstOf(stream', r, k), index'[r] = Absent
                 PROVE  ~ShouldScan(stream'[k].object)
      BY DEF EntersYoung
    <2>1. CASE r = q
      <3>1. c = Absent
        BY <1>1, <1>5, <2>1
      <3>2. o = Absent
        BY <1>4, <3>1, StubForm DEF Transformed, Transform
      <3>3. k \in 1..n - 1 /\ stream'[k].pod = q /\ \A j \in 1..n - 1 : stream'[j].pod = q => k <= j
        BY <1>3, <1>5, <2>1 DEF FirstOf
      <3>4. k + 1 \in 1..n /\ stream[k + 1] = stream'[k] /\ 1 < k + 1
        BY <1>3, <1>5, <3>3
      <3>5. ASSUME NEW j \in 1..n, 1 < j, j < k + 1 PROVE stream[j].pod # q
        <4>1. j - 1 \in 1..n - 1 /\ stream'[j - 1] = stream[j] /\ ~(k <= j - 1)
          BY <1>3, <1>5, <3>3, <3>5
        <4> QED
          BY <3>3, <4>1
      <3>6. Follows(stream, 1, k + 1)
        BY <1>2, <1>4, <3>3, <3>4, <3>5 DEF Follows
      <3> QED
        BY <1>1, <1>2, <1>3, <1>4, <3>2, <3>4, <3>6 DEF ReturnsYoung
    <2>2. CASE r # q
      <3>1. index[r] = Absent
        BY <1>1, <1>5, <2>2
      <3>2. Head(stream).pod # r
        BY <1>3, <1>4, <2>2
      <3>3. FirstOf(Tail(stream), r, k) => FirstOf(stream, r, k + 1) /\ stream[k + 1] = Tail(stream)[k]
        BY <1>1, <3>2, TailFirst
      <3> QED
        BY <1>1, <1>5, <3>1, <3>3 DEF EntersYoung
    <2> QED
      BY <2>1, <2>2
  <1>10. ReturnsYoung'
    <2> SUFFICES ASSUME NEW k \in 1..n - 1, NEW l \in 1..n - 1,
                        Follows(stream', k, l), stream'[k].object = Absent
                 PROVE  ~ShouldScan(stream'[l].object)
      BY <1>3, <1>5 DEF ReturnsYoung
    <2>1. /\ k + 1 \in 1..n /\ l + 1 \in 1..n
          /\ stream'[k] = stream[k + 1] /\ stream'[l] = stream[l + 1]
      BY <1>3, <1>5
    <2>2. ASSUME NEW j \in 1..n, k + 1 < j, j < l + 1 PROVE stream[j].pod # stream[k + 1].pod
      <3>1. j - 1 \in 1..n - 1 /\ stream'[j - 1] = stream[j] /\ k < j - 1 /\ j - 1 < l
        BY <1>3, <1>5, <2>2
      <3>2. stream'[j - 1].pod # stream'[k].pod
        BY <1>3, <1>5, <3>1 DEF Follows
      <3> QED
        BY <2>1, <3>1, <3>2
    <2>3. k + 1 < l + 1 /\ stream[k + 1].pod = stream[l + 1].pod
      BY <2>1 DEF Follows
    <2>4. Follows(stream, k + 1, l + 1)
      BY <1>2, <2>2, <2>3 DEF Follows
    <2> QED
      BY <1>1, <1>2, <2>1, <2>4 DEF ReturnsYoung
  <1> QED
    BY <1>1, <1>5, <1>8, <1>9, <1>10 DEF Young

LEMMA HandleYoung ==
  ASSUME FeedInv, Young, Handle
  PROVE  Young'
  <1>1. /\ notes \in Seq(Notes) /\ notes # <<>>
        /\ EntersYoung /\ ReturnsYoung /\ CreatesYoung /\ unheard = {} /\ connected
    BY DEF FeedInv, FeedTypes, Young, Handle
  <1>2. UNCHANGED <<connected, stream, index>> /\ notes' = Tail(notes)
    BY DEF Handle
  <1>3. /\ Head(notes) = notes[1] /\ 1 \in 1..Len(notes)
        /\ \A k \in 1..Len(notes') : k + 1 \in 1..Len(notes) /\ notes'[k] = notes[k + 1]
    BY <1>1, <1>2, TailShift
  <1>4. ~Dropped(Head(notes))
    BY <1>1, <1>3 DEF CreatesYoung, Dropped
  <1>5. unheard' = {}
    BY <1>1, <1>4 DEF Handle
  <1>6. CreatesYoung'
    BY <1>1, <1>3 DEF CreatesYoung
  <1>7. EntersYoung' /\ ReturnsYoung'
    BY <1>1, <1>2 DEF EntersYoung, ReturnsYoung
  <1> QED
    BY <1>1, <1>2, <1>5, <1>6, <1>7 DEF Young

LEMMA YoungUnchanged ==
  ASSUME Young, UNCHANGED <<connected, stream, index, notes, unheard>>
  PROVE  Young'
  BY DEF Young, EntersYoung, ReturnsYoung, CreatesYoung

LEMMA UnbrokenStep ==
  ASSUME FeedInv, Unbroken, [Next]_vars
  PROVE  Unbroken'
  <1>1. gaps' = gaps \/ (Gap /\ gaps' = gaps + 1)
    BY DEF Next, vars, Created, Updated, Deleted, Change, Reconcile, Finish, Due, Gap, Relist, Apply,
           Handle, Restart
  <1>2. CASE Gap /\ gaps' = gaps + 1
    BY <1>2 DEF Unbroken
  <1>3. CASE gaps' = gaps
    <2>a. ~Gap /\ gaps \in Nat
      BY <1>3 DEF Unbroken, Gap
    <2> SUFFICES ASSUME Young
                 PROVE  Young'
      <3>1. gaps = 0 => Young
        BY DEF Unbroken
      <3>2. CASE gaps = 0
        BY <1>3, <2>a, <3>1, <3>2 DEF Unbroken
      <3>3. CASE gaps # 0
        BY <1>3, <2>a, <3>3 DEF Unbroken
      <3> QED
        BY <3>2, <3>3
    <2>0. api \in [Pods -> Objects]
      BY DEF FeedInv, FeedTypes
    <2>1. ASSUME NEW p \in Pods, Created(p) PROVE Young'
      <3>1. PICK o \in Newborn : Change(p, o)
        BY <2>1 DEF Created
      <3>2. o \in Objects /\ api[p] = Absent
        BY <2>1, FeedAssumption DEF Objects, Created
      <3> QED
        BY <2>0, <3>1, <3>2, ShownYoung, ChangeYoung
    <2>2. ASSUME NEW p \in Pods, Updated(p) PROVE Young'
      <3>1. PICK o \in Shapes \ {api[p]} : Change(p, o)
        BY <2>2 DEF Updated
      <3>2. o \in Objects /\ api' = [api EXCEPT ![p] = o]
        BY <3>1 DEF Objects, Change
      <3>3. Seen(api[p]) = Absent => ~ShouldScan(Seen(o))
        BY <2>0, <2>2, <3>2, ShownYoung
      <3> QED
        BY <3>1, <3>2, <3>3, ChangeYoung
    <2>3. ASSUME NEW p \in Pods, Deleted(p) PROVE Young'
      <3>1. Change(p, Absent) /\ Absent \in Objects
        BY <2>3 DEF Deleted, Objects
      <3> QED
        BY <2>0, <3>1, ShownYoung, ChangeYoung
    <2>4. CASE \E p \in Pods : Reconcile(p) \/ Finish(p) \/ Due(p)
      BY <2>4, YoungUnchanged DEF Reconcile, Finish, Due
    <2>5. CASE Relist
      BY <2>5 DEF Relist, Young
    <2>6. CASE Apply
      BY <2>6, ApplyYoung
    <2>7. CASE Handle
      BY <2>7, HandleYoung
    <2>8. CASE Restart
      <3>1. api' \in [Pods -> Objects]
        BY <2>0, <2>8, AgedObjects DEF Restart
      <3>2. StartedHeard'
        BY <2>8, <3>1 DEF Restart, Started, StartedHeard
      <3>3. StartedHeard' => Young'
        BY StartedYoung, PTL
      <3> QED
        BY <3>2, <3>3
    <2>9. CASE UNCHANGED vars
      BY <2>9, YoungUnchanged DEF vars
    <2> QED
      BY <2>a, <2>1, <2>2, <2>3, <2>4, <2>5, <2>6, <2>7, <2>8, <2>9 DEF Next
  <1> QED
    BY <1>1, <1>2, <1>3

\* As long as the watch does not have to be listed again, the predicate drops no
\* create of a pod that is all there, whatever pods are created, bound, changed,
\* deleted and created anew, and however often the collector is restarted.
THEOREM CreatesAreYoung == Spec => []OnlyRelistsHide
  <1>1. Init => Unbroken
    <2>1. Init => StartedHeard /\ gaps = 0
      BY DEF Init, Started, StartedHeard, Objects
    <2> QED
      BY <2>1, StartedYoung DEF Unbroken
  <1>2. Unbroken => OnlyRelistsHide
    BY DEF Unbroken, Young, OnlyRelistsHide
  <1> QED
    BY <1>1, <1>2, FeedInvariant, UnbrokenStep, PTL DEF Spec
-----------------------------------------------------------------------------
(* The work queue.                                                          *)

LEMMA QueueFits ==
  /\ \A p \in Pods : \A d : entry' = [entry EXCEPT ![p] = d] => Queue!Put("collector", p, d)
  /\ \A s : busy' = s => [w \in {"collector"} |-> busy]'
                           = [[w \in {"collector"} |-> busy] EXCEPT !["collector"] = s]
  <1>1. ASSUME NEW p \in Pods, NEW d, entry' = [entry EXCEPT ![p] = d]
        PROVE  Queue!Put("collector", p, d)
    BY <1>1 DEF Queue!Put
  <1>2. ASSUME NEW s, busy' = s
        PROVE  [w \in {"collector"} |-> busy]'
                 = [[w \in {"collector"} |-> busy] EXCEPT !["collector"] = s]
    BY <1>2
  <1> QED
    BY <1>1, <1>2

QueueStep == [Queue!QNext]_(Queue!qvars)

LEMMA QueueNext ==
  ASSUME FeedInv, [Next]_vars
  PROVE  QueueStep
  <1> DEFINE c == "collector"
  <1>1. /\ entry \in [Pods -> {"none", "ready", "delayed"}]
        /\ busy = {} \/ \E p \in Pods : busy = {p} /\ entry[p] # "delayed"
    BY DEF FeedInv, FeedTypes, OneBusy
  <1>2. CASE UNCHANGED <<busy, entry>>
    BY <1>2 DEF QueueStep, Queue!qvars
  <1>3. ASSUME NEW p \in Pods, entry' = [entry EXCEPT ![p] = "ready"], busy' = busy
        PROVE  QueueStep
    <2>1. Queue!Wake(c, p)
      BY <1>3, QueueFits DEF Queue!Wake
    <2> QED
      BY <2>1 DEF QueueStep, Queue!QNext
  <1>4. ASSUME NEW p \in Pods, Reconcile(p)
        PROVE  QueueStep
    <2>1. entry[p] = "ready" /\ busy = {} /\ entry' = [entry EXCEPT ![p] = "none"]
      BY <1>4 DEF Reconcile
    <2>2. busy' = busy \/ busy' = {p}
      BY <1>4 DEF Reconcile
    <2>3. Queue!Take(c, p)
      BY <2>1, <2>2, QueueFits DEF Queue!Take
    <2> QED
      BY <2>3 DEF QueueStep, Queue!QNext
  <1>5. ASSUME NEW p \in Pods, Finish(p)
        PROVE  QueueStep
    <2>1. busy = {p} /\ busy' = {} /\ entry[p] \in {"none", "ready"}
      BY <1>1, <1>5 DEF Finish
    <2>2. \/ entry[p] = "ready" /\ entry' = entry
          \/ entry[p] = "none" /\ entry' = [entry EXCEPT ![p] = "delayed"]
      BY <1>1, <1>5, <2>1 DEF Finish
    <2>3. Queue!Return(c, p)
      BY <2>1, <2>2, QueueFits DEF Queue!Return
    <2> QED
      BY <2>3 DEF QueueStep, Queue!QNext
  <1>6. ASSUME Restart
        PROVE  QueueStep
    <2>1. busy' = {} /\ entry' = [p \in Pods |-> "none"]
      BY <1>6 DEF Restart
    <2>2. entry' \in [Pods -> {"none", "ready"}]
      BY <2>1
    <2>3. [w \in {c} |-> entry]' = [[w \in {c} |-> entry] EXCEPT ![c] = entry']
      OBVIOUS
    <2>4. Queue!Restart(c)
      BY <2>1, <2>2, <2>3, QueueFits DEF Queue!Restart
    <2> QED
      BY <2>4 DEF QueueStep, Queue!QNext
  <1>7. ASSUME Handle
        PROVE  QueueStep
    <2>1. notes \in Seq(Notes) /\ notes # <<>> /\ busy' = busy
      BY <1>7 DEF Handle, FeedInv, FeedTypes
    <2>2. Head(notes).pod \in Pods
      <3>1. Head(notes) \in Notes
        BY <2>1
      <3> QED
        BY <3>1 DEF Notes
    <2>3. entry' = entry \/ entry' = [entry EXCEPT ![Head(notes).pod] = "ready"]
      BY <1>7 DEF Handle
    <2> QED
      BY <1>2, <1>3, <2>1, <2>2, <2>3
  <1>8. CASE UNCHANGED vars
    BY <1>2, <1>8 DEF vars
  <1>9. ASSUME NEW p \in Pods, Created(p) \/ Updated(p) \/ Deleted(p)
        PROVE  QueueStep
    BY <1>2, <1>9 DEF Created, Updated, Deleted, Change
  <1>10. ASSUME NEW p \in Pods, Due(p)
         PROVE  QueueStep
    BY <1>3, <1>10 DEF Due
  <1>11. CASE Gap \/ Relist \/ Apply
    BY <1>2, <1>11 DEF Gap, Relist, Apply
  <1> QED
    BY <1>4, <1>5, <1>6, <1>7, <1>8, <1>9, <1>10, <1>11 DEF Next

\* The informer's notifications, the passes, the delays and the restarts use the work
\* queue as WorkQueue says, which is how Delivery uses it: no notification that
\* comes during a pass is undone by the delay the pass ends with.
THEOREM FeedUsesQueue == Spec => ImplementsQueue
  <1>1. Init => Queue!QInit
    BY DEF Init, Queue!QInit
  <1>2. FeedInv /\ [Next]_vars => QueueStep
    BY QueueNext
  <1> QED
    BY <1>1, <1>2, FeedInvariant, PTL DEF Spec, ImplementsQueue, Queue!QSpec, QueueStep
=============================================================================
