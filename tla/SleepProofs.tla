---------------------------- MODULE SleepProofs ----------------------------
(* A pod that Delivery puts off for the default delay has nothing left to do; *)
(* and what brings a pass to its end and an image to its scanner.              *)
EXTENDS DeliveryProofs

\* A pass owes only images that the agent is asked about.
OwesCandidates ==
  \A c \in Collectors, p \in Pods : \A i \in owed[c][p] : Candidate(i)

\* What a pass without an error and without an image reserved by another has not
\* done is still before it.
PassOwes ==
  \A c \in Collectors, p \in Pods :
    (cur[c] = p /\ ~failed[c] /\ ~waiting[c]) =>
      \A i \in owed[c][p] : Done(i) \/ InSeq(i, todo[c])

OwesOK == OwesCandidates /\ PassOwes /\ SleepMeansDone

LEMMA OwesInit == Init => OwesOK
  BY DEF Init, OwesOK, OwesCandidates, PassOwes, SleepMeansDone

\* What is done stays done.
LEMMA DoneKept ==
  ASSUME NEW i, processed \subseteq processed', Done(i)
  PROVE  Done(i)'
  BY DEF Done

\* A step in which no pass owes more, and none is put off.
LEMMA SleepKept ==
  ASSUME OwesCandidates, SleepMeansDone, processed \subseteq processed',
         \A d \in Collectors, q \in Pods : /\ owed'[d][q] \subseteq owed[d][q]
                                           /\ entry'[d][q] = "later" => entry[d][q] = "later"
  PROVE  OwesCandidates' /\ SleepMeansDone'
  <1>1. ASSUME NEW d \in Collectors, NEW q \in Pods, NEW i \in owed'[d][q]
        PROVE  i \in owed[d][q]
    <2>1. owed'[d][q] \subseteq owed[d][q]
      OBVIOUS
    <2> QED
      BY <1>1, <2>1
  <1>2. ASSUME NEW d \in Collectors, NEW q \in Pods, NEW i \in owed'[d][q]
        PROVE  Candidate(i)
    BY <1>1, <1>2 DEF OwesCandidates
  <1>3. ASSUME NEW d \in Collectors, NEW q \in Pods, entry'[d][q] = "later", NEW i \in owed'[d][q]
        PROVE  Done(i)'
    <2>1. entry[d][q] = "later" /\ i \in owed[d][q]
      BY <1>1, <1>3
    <2>2. Done(i)
      BY <2>1 DEF SleepMeansDone
    <2> QED
      BY <2>2, DoneKept
  <1> QED
    BY <1>2, <1>3 DEF SleepMeansDone, OwesCandidates, Candidate

\* A step in which a worker that holds a pod afterwards held it before, with the same
\* images before it, and came upon no reason to come back that it forgot.
LEMMA PassKept ==
  ASSUME PassOwes, processed \subseteq processed', NEW d \in Collectors, NEW p \in Pods,
         owed'[d][p] \subseteq owed[d][p], todo'[d] = todo[d],
         cur'[d] = p => cur[d] = p, failed[d] => failed'[d], waiting[d] => waiting'[d],
         cur'[d] = p, ~failed'[d], ~waiting'[d],
         NEW i \in owed'[d][p]
  PROVE  Done(i)' \/ InSeq(i, todo'[d])
  <1>1. Done(i) \/ InSeq(i, todo[d])
    BY DEF PassOwes
  <1> QED
    BY <1>1, DoneKept

\* Collector c's worker stays where it is, has met a reason to come back, or has
\* gone on to its next image, the current one not being owed any more.
Advances(c) ==
  \/ failed'[c] \/ waiting'[c]
  \/ /\ failed'[c] = failed[c] /\ waiting'[c] = waiting[c]
     /\ \/ todo'[c] = todo[c]
        \/ /\ todo[c] # <<>>
           /\ todo'[c] = Tail(todo[c])
           /\ \A i : i = Image(c) => Done(i)' \/ i \notin owed'[c][cur[c]]

\* What a worker's step does besides.
Orderly(c) ==
  /\ UNCHANGED <<cur, queueVars>>
  /\ processed \subseteq processed'
  /\ \A d \in Collectors, q \in Pods : owed'[d][q] \subseteq owed[d][q]
  /\ \A d \in Collectors \ {c} : /\ todo'[d] = todo[d]
                                 /\ failed'[d] = failed[d]
                                 /\ waiting'[d] = waiting[d]

LEMMA AdvanceOwes ==
  ASSUME TypeOK, OwesOK, NEW c \in Collectors, Orderly(c), Advances(c)
  PROVE  OwesOK'
  <1>1. OwesCandidates' /\ SleepMeansDone'
    BY SleepKept DEF OwesOK, Orderly, queueVars
  <1>2. ASSUME NEW d \in Collectors, NEW p \in Pods,
               cur'[d] = p, ~failed'[d], ~waiting'[d], NEW i \in owed'[d][p]
        PROVE  Done(i)' \/ InSeq(i, todo'[d])
    <2>1. CASE d # c
      BY <1>2, <2>1, PassKept DEF OwesOK, Orderly
    <2>2. CASE d = c
      <3>1. cur[c] = p /\ ~failed[c] /\ ~waiting[c] /\ i \in owed[c][p]
        BY <1>2, <2>2 DEF Orderly, Advances
      <3>2. Done(i) \/ InSeq(i, todo[c])
        BY <3>1 DEF OwesOK, PassOwes
      <3>3. CASE Done(i)
        BY <3>3, DoneKept DEF Orderly
      <3>4. CASE InSeq(i, todo[c]) /\ todo'[c] = todo[c]
        BY <2>2, <3>4
      <3>5. CASE InSeq(i, todo[c]) /\ todo'[c] # todo[c]
        <4>1. /\ todo[c] # <<>> /\ todo'[c] = Tail(todo[c])
              /\ \A j : j = Image(c) => Done(j)' \/ j \notin owed'[c][p]
          BY <1>2, <2>2, <3>1, <3>5 DEF Advances
        <4>2. CASE i = Image(c)
          BY <1>2, <2>2, <4>1, <4>2
        <4>3. CASE i # Head(todo[c])
          <5>1. todo[c] \in Seq(Images)
            BY DEF TypeOK, WorkerTypeOK
          <5> QED
            BY <2>2, <3>5, <4>1, <4>3, <5>1, InSeqHeadTail
        <4> QED
          BY <4>2, <4>3 DEF Image
      <3> QED
        BY <3>2, <3>3, <3>4, <3>5
    <2> QED
      BY <2>1, <2>2
  <1> QED
    BY <1>1, <1>2 DEF OwesOK, PassOwes

-----------------------------------------------------------------------------
(* The steps of a pass. *)

\* Giving up an image makes a pass owe less.
LEMMA GivenUp ==
  ASSUME TypeOK, NEW c \in Collectors, pc[c] # "idle", GiveUp(c)
  PROVE  /\ \A d \in Collectors, q \in Pods : owed'[d][q] \subseteq owed[d][q]
         /\ \A i : i = Image(c) => i \notin owed'[c][cur[c]]
  <1>1. cur[c] \in Pods
    BY PodHeld
  <1>2. owed \in [Collectors -> [Pods -> SUBSET Images]]
    BY DEF TypeOK, ObservedTypeOK
  <1>3. owed' = [owed EXCEPT ![c][cur[c]] = @ \ {Image(c)}]
    BY DEF GiveUp
  <1> QED
    BY <1>1, <1>2, <1>3

\* Every step of a worker but the end of its pass advances.
LEMMA WorkAdvances ==
  ASSUME TypeOK, OwesOK, NEW c \in Collectors,
         Work(c) \/ GenerateUntidy(c) \/ GenerateFails(c) \/ CallFails(c) \/ AnswerNotOK(c),
         ~Finish(c)
  PROVE  Orderly(c) /\ Advances(c)
  <1> USE DEF Orderly, Advances, workerVars, queueVars, agentVars, ghostVars, Goto, NextImage
  <1> /\ todo \in [Collectors -> Seq(Images)]
      /\ failed \in [Collectors -> BOOLEAN]
      /\ waiting \in [Collectors -> BOOLEAN]
    BY DEF TypeOK, WorkerTypeOK
  <1>1. CASE Reported(c) \/ Generate(c) \/ GetToken(c) \/ Send(c) \/ GenerateUntidy(c) \/ AnswerNotOK(c)
    BY <1>1 DEF Reported, Generate, GetToken, Send, GenerateUntidy, AnswerNotOK
  <1>2. CASE SkipImage(c) \/ ReportNoDigest(c)
    <2>1. ~Candidate(Image(c)) /\ todo[c] # <<>> /\ pc[c] # "idle"
      BY <1>2 DEF SkipImage, ReportNoDigest, AtImage, Candidate
    <2>2. cur[c] \in Pods /\ UNCHANGED owed
      BY <1>2, <2>1, PodHeld DEF SkipImage, ReportNoDigest
    <2>3. \A i : i = Image(c) => i \notin owed'[c][cur[c]]
      BY <2>1, <2>2 DEF OwesOK, OwesCandidates
    <2> QED
      BY <1>2, <2>1, <2>2, <2>3 DEF SkipImage, ReportNoDigest, ReportAndSkip
  <1>3. CASE StatusProcessed(c)
    <2>1. Filed[Image(c)] \in processed /\ UNCHANGED processed
      BY <1>3 DEF StatusProcessed, SaysProcessed
    <2>2. \A i : i = Image(c) => Done(i)'
      BY <2>1 DEF Done
    <2> QED
      BY <1>3, <2>2 DEF StatusProcessed, AtImage
  <1>4. CASE StatusReserved(c)
    BY <1>4 DEF StatusReserved
  <1>5. CASE StatusGranted(c)
    <2>1. CASE Class[Image(c)] = "badMirror"
      <3>1. pc[c] # "idle" /\ GiveUp(c)
        BY <1>5, <2>1 DEF StatusGranted, AtImage
      <3> QED
        BY <1>5, <2>1, <3>1, GivenUp DEF StatusGranted, ReportAndSkip, AtImage
    <2>2. CASE Class[Image(c)] # "badMirror"
      BY <1>5, <2>2 DEF StatusGranted, TakeUp
    <2> QED
      BY <2>1, <2>2
  <1>6. CASE GenerateFails(c)
    <2>1. pc[c] # "idle" /\ GiveUp(c) /\ todo[c] # <<>>
      BY <1>6, ImageHeld DEF GenerateFails, Working
    <2> QED
      BY <1>6, <2>1, GivenUp DEF GenerateFails, ReportAndSkip
  <1>7. CASE Mark(c)
    <2>1. todo[c] # <<>> /\ name[c] \in Mirrors[Image(c)]
      BY <1>7, ImageHeld, NameHeld DEF Mark, Working
    <2>2. Filed[name[c]] \in processed'
      BY <1>7 DEF Mark
    <2>3. \A i : i = Image(c) => Done(i)'
      BY <1>7, <2>1, <2>2 DEF Mark, Done
    <2> QED
      BY <1>7, <2>1, <2>3 DEF Mark
  <1>8. CASE CallFails(c)
    BY <1>8 DEF CallFails, AppendError, ReportAndSkip
  <1> QED
    BY <1>1, <1>2, <1>3, <1>4, <1>5, <1>6, <1>7, <1>8 DEF Work

\* A pass that ends without a reason to come back soon owes nothing.
LEMMA FinishOwes ==
  ASSUME TypeOK, OwesOK, NEW c \in Collectors, Finish(c)
  PROVE  OwesOK'
  <1>1. /\ todo[c] = <<>>
        /\ entry' = [entry EXCEPT ![c][cur[c]] = IF @ = "none" THEN Result(c) ELSE @]
        /\ cur' = [cur EXCEPT ![c] = NoPod]
        /\ failed' = [failed EXCEPT ![c] = FALSE]
        /\ waiting' = [waiting EXCEPT ![c] = FALSE]
        /\ UNCHANGED <<todo, processed, owed>>
    BY DEF Finish, agentVars, ghostVars
  <1>2. /\ cur \in [Collectors -> Pods \cup {NoPod}]
        /\ entry \in [Collectors -> [Pods -> {"none", "ready", "backoff", "soon", "later"}]]
        /\ failed \in [Collectors -> BOOLEAN]
        /\ waiting \in [Collectors -> BOOLEAN]
    BY DEF TypeOK, WorkerTypeOK, QueueTypeOK
  <1>3. cur[c] \in Pods
    BY PodHeld DEF Finish
  <1>4. \A i : Done(i)' <=> Done(i)
    BY <1>1 DEF Done
  <1>5. OwesCandidates'
    BY <1>1 DEF OwesOK, OwesCandidates, Candidate
  <1>6. ASSUME NEW d \in Collectors, NEW q \in Pods,
               cur'[d] = q, ~failed'[d], ~waiting'[d], NEW i \in owed'[d][q]
        PROVE  Done(i)' \/ InSeq(i, todo'[d])
    <2>1. d # c
      BY <1>1, <1>2, <1>6, DeliveryAssumption
    <2>2. cur[d] = q /\ ~failed[d] /\ ~waiting[d] /\ i \in owed[d][q]
      BY <1>1, <1>2, <1>6, <2>1
    <2> QED
      BY <1>1, <1>4, <2>2 DEF OwesOK, PassOwes
  <1>7. ASSUME NEW d \in Collectors, NEW q \in Pods, entry'[d][q] = "later", NEW i \in owed'[d][q]
        PROVE  Done(i)'
    <2>1. CASE entry[d][q] = "later"
      BY <1>1, <1>4, <1>7, <2>1 DEF OwesOK, SleepMeansDone
    <2>2. CASE entry[d][q] # "later"
      <3>1. d = c /\ q = cur[c]
        BY <1>1, <1>2, <1>7, <2>2
      <3>2. Result(c) = "later"
        BY <1>1, <1>2, <1>3, <1>7, <2>2, <3>1
      <3>3. ~failed[c] /\ ~waiting[c]
        BY <3>2 DEF Result
      <3>4. Done(i) \/ InSeq(i, todo[c])
        BY <1>1, <1>7, <3>1, <3>3 DEF OwesOK, PassOwes
      <3>5. ~InSeq(i, todo[c])
        BY <1>1 DEF InSeq
      <3> QED
        BY <1>4, <3>4, <3>5
    <2> QED
      BY <2>1, <2>2
  <1> QED
    BY <1>5, <1>6, <1>7 DEF OwesOK, PassOwes, SleepMeansDone

-----------------------------------------------------------------------------
(* The other steps. *)

\* A request is taken off the queue. A new pass has all its images before it.
LEMMA TakeOwes ==
  ASSUME TypeOK, OwesOK, NEW c \in Collectors, NEW p \in Pods,
         SkipPod(c, p) \/ Begin(c, p) \/ GetFails(c, p)
  PROVE  OwesOK'
  <1> USE DEF workerVars, agentVars, ghostVars
  <1>1. /\ cur \in [Collectors -> Pods \cup {NoPod}]
        /\ todo \in [Collectors -> Seq(Images)]
        /\ failed \in [Collectors -> BOOLEAN]
        /\ entry \in [Collectors -> [Pods -> {"none", "ready", "backoff", "soon", "later"}]]
        /\ owed \in [Collectors -> [Pods -> SUBSET Images]]
    BY DEF TypeOK, WorkerTypeOK, QueueTypeOK, ObservedTypeOK
  <1>2. entry' = [entry EXCEPT ![c][p] = "none"] /\ UNCHANGED <<processed, waiting>>
    BY DEF SkipPod, Begin, GetFails
  <1>3. \A d \in Collectors, q \in Pods : entry'[d][q] = "later" => entry[d][q] = "later"
    BY <1>1, <1>2
  <1>4. CASE SkipPod(c, p)
    <2>1. UNCHANGED <<cur, todo, failed, owed>>
      BY <1>4 DEF SkipPod
    <2>2. OwesCandidates' /\ SleepMeansDone'
      BY <1>2, <1>3, <2>1, SleepKept DEF OwesOK
    <2>3. PassOwes'
      BY <1>2, <2>1 DEF OwesOK, PassOwes, Done
    <2> QED
      BY <2>2, <2>3 DEF OwesOK
  <1>5. CASE Begin(c, p)
    <2> DEFINE X == {i \in Images : InSeq(i, cache[c][p].images) /\ Candidate(i)}
    <2>1. /\ cur' = [cur EXCEPT ![c] = p]
          /\ todo' = [todo EXCEPT ![c] = cache[c][p].images]
          /\ owed' = [owed EXCEPT ![c][p] = X]
          /\ UNCHANGED failed
      BY <1>5 DEF Begin
    <2>2. owed'[c][p] = X /\ todo'[c] = cache[c][p].images
      BY <1>1, <2>1
    <2>3. \A d \in Collectors, q \in Pods : (d # c \/ q # p) => owed'[d][q] = owed[d][q]
      BY <1>1, <2>1
    <2>4. ASSUME NEW d \in Collectors, NEW q \in Pods, NEW i \in owed'[d][q]
          PROVE  Candidate(i)
      <3>1. CASE d = c /\ q = p
        BY <2>2, <2>4, <3>1
      <3>2. CASE d # c \/ q # p
        BY <2>3, <2>4, <3>2 DEF OwesOK, OwesCandidates
      <3> QED
        BY <3>1, <3>2
    <2>5. ASSUME NEW d \in Collectors, NEW q \in Pods,
                 cur'[d] = q, ~failed'[d], ~waiting'[d], NEW i \in owed'[d][q]
          PROVE  Done(i)' \/ InSeq(i, todo'[d])
      <3>1. CASE d = c
        <4>1. q = p
          BY <1>1, <2>1, <2>5, <3>1
        <4> QED
          BY <2>2, <2>5, <3>1, <4>1
      <3>2. CASE d # c
        <4>1. cur'[d] = cur[d] /\ todo'[d] = todo[d] /\ owed'[d][q] = owed[d][q]
          BY <1>1, <2>1, <2>3, <3>2
        <4> QED
          BY <1>2, <2>1, <2>5, <4>1, PassKept DEF OwesOK
      <3> QED
        BY <3>1, <3>2
    <2>6. ASSUME NEW d \in Collectors, NEW q \in Pods, entry'[d][q] = "later",
                 NEW i \in owed'[d][q]
          PROVE  Done(i)'
      <3>1. entry[d][q] = "later" /\ (d # c \/ q # p)
        BY <1>1, <1>2, <2>6
      <3>2. Done(i)
        BY <2>3, <2>6, <3>1 DEF OwesOK, SleepMeansDone
      <3> QED
        BY <1>2, <3>2, DoneKept
    <2> QED
      BY <2>4, <2>5, <2>6 DEF OwesOK, OwesCandidates, PassOwes, SleepMeansDone, Candidate
  <1>6. CASE GetFails(c, p)
    <2>1. /\ cur' = [cur EXCEPT ![c] = p]
          /\ failed' = [failed EXCEPT ![c] = TRUE]
          /\ UNCHANGED <<todo, owed>>
      BY <1>6 DEF GetFails
    <2>2. OwesCandidates' /\ SleepMeansDone'
      BY <1>2, <1>3, <2>1, SleepKept DEF OwesOK
    <2>3. ASSUME NEW d \in Collectors, NEW q \in Pods,
                 cur'[d] = q, ~failed'[d], ~waiting'[d], NEW i \in owed'[d][q]
          PROVE  Done(i)' \/ InSeq(i, todo'[d])
      <3>1. d # c
        BY <1>1, <2>1, <2>3
      <3>2. cur'[d] = cur[d] /\ failed'[d] = failed[d]
        BY <1>1, <2>1, <3>1
      <3> QED
        BY <1>2, <2>1, <2>3, <3>2, PassKept DEF OwesOK
    <2> QED
      BY <2>2, <2>3 DEF OwesOK, PassOwes
  <1> QED
    BY <1>4, <1>5, <1>6

\* A delay ends, or the pod changes: an entry is left as it is, or made ready.
LEMMA EventOwes ==
  ASSUME TypeOK, OwesOK, NEW c \in Collectors, NEW p \in Pods,
         Due(c, p) \/ PodEvent(c, p)
  PROVE  OwesOK'
  <1>1. entry \in [Collectors -> [Pods -> {"none", "ready", "backoff", "soon", "later"}]]
    BY DEF TypeOK, QueueTypeOK
  <1>2. /\ UNCHANGED <<cur, todo, failed, waiting, processed, owed>>
        /\ entry' \in {entry, [entry EXCEPT ![c][p] = "ready"]}
    BY DEF Due, PodEvent, workerVars, agentVars, ghostVars
  <1>3. \A d \in Collectors, q \in Pods : entry'[d][q] = "later" => entry[d][q] = "later"
    BY <1>1, <1>2
  <1>4. OwesCandidates' /\ SleepMeansDone'
    BY <1>2, <1>3, SleepKept DEF OwesOK
  <1>5. PassOwes'
    BY <1>2 DEF OwesOK, PassOwes, Done
  <1> QED
    BY <1>4, <1>5 DEF OwesOK

\* A restart empties the worker, and every entry is ready or none.
LEMMA CrashOwes ==
  ASSUME TypeOK, OwesOK, NEW c \in Collectors, Crash(c)
  PROVE  OwesOK'
  <1>1. /\ cur' = [cur EXCEPT ![c] = NoPod]
        /\ todo' = [todo EXCEPT ![c] = <<>>]
        /\ failed' = [failed EXCEPT ![c] = FALSE]
        /\ waiting' = [waiting EXCEPT ![c] = FALSE]
        /\ entry' = [entry EXCEPT ![c] = InitialEntries[c]]
        /\ UNCHANGED <<processed, owed>>
    BY DEF Crash, agentVars
  <1>2. /\ cur \in [Collectors -> Pods \cup {NoPod}]
        /\ todo \in [Collectors -> Seq(Images)]
        /\ failed \in [Collectors -> BOOLEAN] /\ waiting \in [Collectors -> BOOLEAN]
        /\ entry \in [Collectors -> [Pods -> {"none", "ready", "backoff", "soon", "later"}]]
    BY DEF TypeOK, WorkerTypeOK, QueueTypeOK
  <1>3. \A d \in Collectors, q \in Pods : entry'[d][q] = "later" => entry[d][q] = "later"
    BY <1>1, <1>2 DEF InitialEntries
  <1>4. OwesCandidates' /\ SleepMeansDone'
    BY <1>1, <1>3, SleepKept DEF OwesOK
  <1>5. ASSUME NEW d \in Collectors, NEW q \in Pods,
               cur'[d] = q, ~failed'[d], ~waiting'[d], NEW i \in owed'[d][q]
        PROVE  Done(i)' \/ InSeq(i, todo'[d])
    <2>1. d # c
      BY <1>1, <1>2, <1>5, DeliveryAssumption
    <2>2. /\ cur'[d] = cur[d] /\ todo'[d] = todo[d]
          /\ failed'[d] = failed[d] /\ waiting'[d] = waiting[d]
      BY <1>1, <1>2, <2>1
    <2> QED
      BY <1>1, <1>5, <2>2, PassKept DEF OwesOK
  <1> QED
    BY <1>4, <1>5 DEF OwesOK, PassOwes

LEMMA OwesStep ==
  ASSUME TypeOK, OwesOK, [Next]_vars
  PROVE  OwesOK'
  <1>1. ASSUME NEW c \in Collectors, Work(c) \/ Mishap(c)
        PROVE  OwesOK'
    <2>1. CASE Finish(c)
      BY <2>1, FinishOwes
    <2>2. CASE Crash(c)
      BY <2>2, CrashOwes
    <2>3. CASE ~Finish(c) /\ ~Crash(c)
      <3>1. Work(c) \/ GenerateUntidy(c) \/ GenerateFails(c) \/ CallFails(c) \/ AnswerNotOK(c)
        BY <1>1, <2>3 DEF Mishap
      <3> QED
        BY <2>3, <3>1, WorkAdvances, AdvanceOwes
    <2> QED
      BY <2>1, <2>2, <2>3
  <1>2. ASSUME NEW c \in Collectors, NEW p \in Pods,
               Take(c, p) \/ GetFails(c, p) \/ Due(c, p) \/ PodEvent(c, p)
        PROVE  OwesOK'
    BY <1>2, TakeOwes, EventOwes DEF Take
  <1>3. ASSUME \/ \E r \in late : Arrive(r)
               \/ \E k \in Images : Lapse(k)
               \/ Rotate
               \/ UNCHANGED vars
        PROVE  OwesOK'
    <2>1. /\ UNCHANGED <<workerVars, queueVars, owed>>
          /\ processed \subseteq processed'
      BY <1>3 DEF Arrive, ArriveStatus, ArriveSend, ArriveMark, Lapse, Rotate, agentVars,
                  ghostVars, vars
    <2>2. OwesCandidates' /\ SleepMeansDone'
      BY <2>1, SleepKept DEF OwesOK, queueVars
    <2>3. PassOwes'
      BY <2>1 DEF OwesOK, PassOwes, Done, workerVars
    <2> QED
      BY <2>2, <2>3 DEF OwesOK
  <1> QED
    BY <1>1, <1>2, <1>3 DEF Next

\* A pod is put off for twelve hours only when the agent has each image that its last
\* pass listed as processed, under the image's reference or that of a mirror it gave,
\* or the pass gave the image up for a mirror that does not parse or a failed scan: an
\* error, or an image reserved by another collector, always brings the pod back earlier.
THEOREM SleepIsEarned == Spec => []SleepMeansDone
  <1> DEFINE IInv == TypeOK /\ OwesOK
  <1>1. Init => IInv
    BY InitType, OwesInit
  <1>2. IInv /\ [Next]_vars => IInv'
    BY TypeStep, OwesStep
  <1>3. IInv => SleepMeansDone
    BY DEF OwesOK
  <1> QED
    BY <1>1, <1>2, <1>3, PTL DEF Spec
-----------------------------------------------------------------------------
(* Every step of a pass leads to its end.                                    *)

Stages == 0..7

LEMMA StageType == \A c \in Collectors : Stage(c) \in Stages /\ Stage(c)' \in Stages
  BY DEF Stage, Stages

\* The lengths that ToGo adds up.
LEMMA TodoShrinks ==
  ASSUME TypeOK, NEW c \in Collectors
  PROVE  /\ Len(todo[c]) \in Nat
         /\ todo[c] # <<>> => Len(Tail(todo[c])) = Len(todo[c]) - 1
  <1>1. todo[c] \in Seq(Images)
    BY DEF TypeOK, WorkerTypeOK
  <1> QED
    BY <1>1, HeadTail

Nearer(c) == ToGo(c)' < ToGo(c)

\* A step down within the work on an image, and the end of that work.
LEMMA StepDown ==
  ASSUME TypeOK, NEW c \in Collectors, todo'[c] = todo[c], Stage(c)' < Stage(c)
  PROVE  Nearer(c)
  BY TodoShrinks, StageType DEF Nearer, ToGo, Stages

LEMMA ImageDown ==
  ASSUME TypeOK, NEW c \in Collectors, todo[c] # <<>>, todo'[c] = Tail(todo[c]),
         Stage(c)' - Stage(c) < 8
  PROVE  Nearer(c)
  BY TodoShrinks, StageType DEF Nearer, ToGo, Stages

LEMMA WorkNearer ==
  ASSUME TypeOK, NEW c \in Collectors, Work(c) \/ Mishap(c), pc[c] # "idle",
         ~AnswerNotOK(c)
  PROVE  Nearer(c)
  <1> USE DEF Goto, NextImage, workerVars
  <1>0. /\ pc \in [Collectors -> {"idle", "report", "next", "generate", "token", "send", "mark"}]
        /\ todo \in [Collectors -> Seq(Images)]
        /\ resume \in [Collectors -> {"next", "token"}]
        /\ Working(c) => todo[c] # <<>>
    BY DEF TypeOK, WorkerTypeOK, PassOK
  <1>1. ASSUME pc'[c] = "report", resume'[c] = "next", todo[c] # <<>>, todo'[c] = Tail(todo[c]),
               pc[c] # "idle"
        PROVE  Nearer(c)
    <2>1. Stage(c)' = 7 /\ Stage(c) # 0
      BY <1>0, <1>1 DEF Stage
    <2> QED
      BY <1>1, <2>1, ImageDown, StageType DEF Stages
  <1>2. ASSUME pc[c] = "next", pc'[c] = "next", todo[c] # <<>>, todo'[c] = Tail(todo[c])
        PROVE  Nearer(c)
    <2>1. Stage(c)' = 6 /\ Stage(c) = 6
      BY <1>2 DEF Stage
    <2> QED
      BY <1>2, <2>1, ImageDown
  <1>3. CASE Reported(c)
    <2>1. pc[c] = "report" /\ pc'[c] = resume[c] /\ todo'[c] = todo[c]
      BY <1>0, <1>3 DEF Reported
    <2>2. CASE resume[c] = "next"
      <3>1. Stage(c) = 7 /\ Stage(c)' = 6
        BY <2>1, <2>2 DEF Stage
      <3> QED
        BY <2>1, <3>1, StepDown
    <2>3. CASE resume[c] = "token"
      <3>1. Stage(c) = 4 /\ Stage(c)' = 3
        BY <2>1, <2>3 DEF Stage
      <3> QED
        BY <2>1, <3>1, StepDown
    <2> QED
      BY <1>0, <2>2, <2>3
  <1>4. CASE SkipImage(c) \/ StatusProcessed(c) \/ StatusReserved(c)
    BY <1>0, <1>2, <1>4 DEF SkipImage, StatusProcessed, StatusReserved, AtImage
  <1>5. CASE ReportNoDigest(c)
    BY <1>0, <1>1, <1>5 DEF ReportNoDigest, ReportAndSkip, AtImage
  <1>6. CASE StatusGranted(c)
    <2>1. pc[c] = "next" /\ todo[c] # <<>>
      BY <1>6 DEF StatusGranted, AtImage
    <2>2. CASE ReportAndSkip(c)
      BY <1>0, <1>1, <2>1, <2>2 DEF ReportAndSkip
    <2>3. CASE TakeUp(c) /\ UNCHANGED <<todo, resume>>
      <3>1. Stage(c) = 6 /\ Stage(c)' = 5 /\ todo'[c] = todo[c]
        BY <1>0, <2>1, <2>3 DEF Stage, TakeUp
      <3> QED
        BY <3>1, StepDown
    <2> QED
      BY <1>6, <2>2, <2>3 DEF StatusGranted
  <1>7. CASE Generate(c)
    <2>1. Stage(c) = 5 /\ Stage(c)' = 3 /\ todo'[c] = todo[c]
      BY <1>0, <1>7 DEF Generate, Stage
    <2> QED
      BY <2>1, StepDown
  <1>8. CASE GenerateUntidy(c)
    <2>1. Stage(c) = 5 /\ Stage(c)' = 4 /\ todo'[c] = todo[c]
      BY <1>0, <1>8 DEF GenerateUntidy, Stage
    <2> QED
      BY <2>1, StepDown
  <1>9. CASE GenerateFails(c)
    BY <1>0, <1>1, <1>9 DEF GenerateFails, ReportAndSkip, Working
  <1>10. CASE GetToken(c)
    <2>1. Stage(c) = 3 /\ Stage(c)' = 2 /\ todo'[c] = todo[c]
      BY <1>0, <1>10 DEF GetToken, Stage
    <2> QED
      BY <2>1, StepDown
  <1>11. CASE Send(c)
    <2>1. Stage(c) = 2 /\ Stage(c)' = 1 /\ todo'[c] = todo[c]
      BY <1>0, <1>11 DEF Send, Stage
    <2> QED
      BY <2>1, StepDown
  <1>12. CASE Mark(c)
    <2>1. /\ pc[c] = "mark" /\ pc'[c] = "next"
          /\ todo[c] # <<>> /\ todo'[c] = Tail(todo[c])
      BY <1>0, <1>12 DEF Mark, Working
    <2>2. Stage(c) = 1 /\ Stage(c)' = 6
      BY <2>1 DEF Stage
    <2> QED
      BY <2>1, <2>2, ImageDown
  <1>13. CASE Finish(c)
    <2>1. Stage(c) = 6 /\ Stage(c)' = 0 /\ todo'[c] = todo[c]
      BY <1>0, <1>13 DEF Finish, Stage
    <2> QED
      BY <2>1, StepDown
  <1>14. CASE CallFails(c)
    <2>1. todo[c] # <<>>
      BY <1>0, <1>14 DEF CallFails, InFlight, Working
    <2> QED
      BY <1>0, <1>1, <1>14, <2>1 DEF CallFails, ReportAndSkip
  <1>15. CASE Crash(c)
    <2>1. pc'[c] = "idle" /\ todo'[c] = <<>>
      BY <1>0, <1>15 DEF Crash
    <2>2. Stage(c)' = 0 /\ Stage(c) > 0
      BY <1>0, <2>1 DEF Stage
    <2>3. Len(todo'[c]) = 0 /\ Len(todo[c]) \in Nat
      BY <2>1, TodoShrinks
    <2> QED
      BY <2>2, <2>3, StageType DEF Nearer, ToGo, Stages
  <1> QED
    BY <1>3, <1>4, <1>5, <1>6, <1>7, <1>8, <1>9, <1>10, <1>11, <1>12, <1>13, <1>14, <1>15
       DEF Work, Mishap

\* No path through Reconcile, no answer, failure or restart makes a pass longer than
\* its list of images: a pass of n images is over after 8 n + 7 steps of its worker
\* at most, besides the requests that are repeated until they are answered.
THEOREM PassesComeToAnEnd == Spec => NearerToIdle
  <1> DEFINE Moves(c) == pc[c] # "idle" /\ (pc'[c] # pc[c] \/ todo'[c] # todo[c])
  <1>1. ASSUME TypeOK, [Next]_vars, NEW c \in Collectors, Moves(c)
        PROVE  ToGo(c)' < ToGo(c)
    <2>0. /\ pc \in [Collectors -> {"idle", "report", "next", "generate", "token", "send", "mark"}]
          /\ todo \in [Collectors -> Seq(Images)]
      BY <1>1 DEF TypeOK, WorkerTypeOK
    <2>1. ASSUME NEW d \in Collectors, d # c, Work(d) \/ Mishap(d) PROVE FALSE
      BY <1>1, <2>0, <2>1 DEF Work, Mishap, Reported, SkipImage, ReportNoDigest, StatusProcessed,
         StatusReserved, StatusGranted, Generate, GenerateUntidy, GenerateFails, GetToken, Send, Mark,
         Finish, CallFails, AnswerNotOK, Crash, ReportAndSkip, NextImage, TakeUp, Goto, workerVars
    <2>2. ASSUME NEW d \in Collectors, NEW p \in Pods,
                 Take(d, p) \/ GetFails(d, p) \/ Due(d, p) \/ PodEvent(d, p)
          PROVE  FALSE
      BY <1>1, <2>0, <2>2 DEF Take, SkipPod, Begin, GetFails, Due, PodEvent, Goto, workerVars
    <2>3. CASE \/ \E r \in late : Arrive(r)
               \/ \E i \in Images : Lapse(i)
               \/ Rotate
               \/ UNCHANGED vars
      BY <1>1, <2>3 DEF Arrive, Lapse, Rotate, vars, workerVars
    <2>4. ASSUME Work(c) \/ Mishap(c) PROVE ToGo(c)' < ToGo(c)
      <3>1. ~AnswerNotOK(c)
        BY <1>1 DEF AnswerNotOK, workerVars
      <3> QED
        BY <1>1, <2>4, <3>1, WorkNearer DEF Nearer
    <2> QED
      BY <1>1, <2>1, <2>2, <2>3, <2>4 DEF Next
  <1>2. TypeOK /\ [Next]_vars => \A c \in Collectors : Moves(c) => ToGo(c)' < ToGo(c)
    BY <1>1
  <1> QED
    BY <1>2, TypeCorrect, PTL DEF Spec, NearerToIdle
-----------------------------------------------------------------------------
(* What is reserved is worked on, until something fails.                     *)

\* Nothing is left on the wire before the first fault.
Quiet == faults = 0 => late = {} /\ ReservationsAreUsed

\* References of which nothing is said: not traced, or of an image that cannot be scanned.
Exempt(k) == ~Traced(k) \/ \E i \in Images : Filed[i] = k /\ ~Scannable(i)

Used(k) == \/ holder[k] = Nobody
           \/ k \in processed
           \/ WorksOn(holder[k], k)
           \/ Exempt(k)

LEMMA UsedMeans == faults = 0 => (ReservationsAreUsed <=> \A k \in Images : Used(k))
  BY DEF ReservationsAreUsed, Used, Exempt

LEMMA UsedMeansNext == (faults = 0 => (ReservationsAreUsed <=> \A k \in Images : Used(k)))'
  BY UsedMeans, PTL

\* A step that reserves nothing, and in which no reference loses its worker but for
\* being marked.
LEMMA UsedKept ==
  ASSUME NEW k \in Images, Used(k), holder[k] \in Collectors \cup {Nobody},
         holder'[k] \in {holder[k], Nobody}, processed \subseteq processed',
         \A c \in Collectors : WorksOn(c, k) => WorksOn(c, k)' \/ k \in processed' \/ Exempt(k)
  PROVE  Used(k)'
  <1>0. Exempt(k)' <=> Exempt(k)
    BY DEF Exempt, Traced, Scannable, Candidate
  <1>1. CASE holder'[k] = Nobody \/ k \in processed \/ Exempt(k)
    BY <1>0, <1>1 DEF Used
  <1>2. CASE holder'[k] = holder[k] /\ holder[k] # Nobody /\ WorksOn(holder[k], k)
    <2>1. PICK c \in Collectors : c = holder[k]
      BY <1>2
    <2>2. WorksOn(c, k)' \/ k \in processed' \/ Exempt(k)
      BY <1>2, <2>1
    <2>3. holder'[k] = c
      BY <1>2, <2>1
    <2> QED
      BY <1>0, <2>2, <2>3 DEF Used, WorksOn, Working, Image
  <1> QED
    BY <1>1, <1>2 DEF Used

LEMMA UsedWork ==
  ASSUME TypeOK, NEW c \in Collectors, Work(c) \/ Mishap(c), faults' = 0, faults \in Nat,
         NEW k \in Images, Used(k)
  PROVE  Used(k)'
  <1> USE DEF Goto, NextImage, workerVars, queueVars, agentVars, outputVars, ghostVars
  <1>0. /\ pc \in [Collectors -> {"idle", "report", "next", "generate", "token", "send", "mark"}]
        /\ todo \in [Collectors -> Seq(Images)]
        /\ resume \in [Collectors -> {"next", "token"}]
        /\ holder \in [Images -> Collectors \cup {Nobody}]
        /\ Working(c) => todo[c] # <<>>
    BY DEF TypeOK, WorkerTypeOK, PartiesTypeOK, PassOK
  <1>f. ~Fault
    BY DEF Fault
  <1>1. ASSUME \A d \in Collectors : WorksOn(d, k) => WorksOn(d, k)', holder' = holder, processed' = processed
        PROVE  Used(k)'
    BY <1>0, <1>1, UsedKept
  <1>2. CASE \/ Reported(c) \/ SkipImage(c) \/ ReportNoDigest(c) \/ StatusProcessed(c)
             \/ StatusReserved(c) \/ Generate(c) \/ GetToken(c) \/ Send(c) \/ Finish(c)
    <2>1. holder' = holder /\ processed' = processed
      BY <1>2 DEF Reported, SkipImage, ReportNoDigest, StatusProcessed, StatusReserved, Generate,
         GetToken, Send, Finish
    <2>2. ASSUME NEW d \in Collectors, WorksOn(d, k) PROVE WorksOn(d, k)'
      BY <1>0, <1>2, <2>2 DEF WorksOn, Working, Image, Reported, SkipImage, ReportNoDigest,
         StatusProcessed, StatusReserved, Generate, GetToken, Send, Finish, AtImage, ReportAndSkip
    <2> QED
      BY <1>1, <2>1, <2>2
  <1>3. CASE StatusGranted(c)
    <2>1. /\ pc[c] = "next" /\ holder' = [holder EXCEPT ![Filed[Image(c)]] = c]
          /\ processed' = processed /\ Image(c) \in Images
      BY <1>3, ImageHeld DEF StatusGranted, AtImage
    <2>2. ASSUME NEW d \in Collectors, WorksOn(d, k) PROVE WorksOn(d, k)'
      BY <1>0, <1>3, <2>1, <2>2 DEF WorksOn, Working, Image, StatusGranted, ReportAndSkip, TakeUp
    <2>3. CASE k # Filed[Image(c)]
      <3>1. holder'[k] = holder[k]
        BY <1>0, <2>1, <2>3
      <3> QED
        BY <1>0, <2>1, <2>2, <3>1, UsedKept
    <2>4. CASE k = Filed[Image(c)] /\ Class[Image(c)] # "badMirror"
      <3>1. pc'[c] = "generate" /\ todo'[c] = todo[c]
        BY <1>0, <1>3, <2>4 DEF StatusGranted, TakeUp
      <3>2. holder'[k] = c /\ k = Filed[Head(todo[c])]
        BY <1>0, <2>1, <2>4 DEF Image
      <3> QED
        BY <3>1, <3>2 DEF Used, WorksOn, Working, Image
    <2>5. CASE k = Filed[Image(c)] /\ Class[Image(c)] = "badMirror"
      <3>1. PICK i \in Images : i = Image(c)
        BY <2>1
      <3>2. Filed[i] = k /\ Class[i] = "badMirror"
        BY <2>5, <3>1
      <3>3. Exempt(k)'
        BY <3>2 DEF Exempt, Scannable
      <3> QED
        BY <3>3 DEF Used
    <2> QED
      BY <2>3, <2>4, <2>5
  <1>4. CASE GenerateFails(c)
    <2>1. /\ Class[name[c]] = "noPull" /\ holder' = holder /\ processed' = processed
          /\ pc[c] = "generate"
      BY <1>4, <1>f DEF GenerateFails
    <2>2. ~Scannable(Image(c)) /\ Image(c) \in Images
      BY <2>1, ImageHeld, NameHeld DEF Scannable, Working
    <2>3. ASSUME NEW d \in Collectors, WorksOn(d, k) PROVE WorksOn(d, k)' \/ Exempt(k)
      <3>1. CASE d = c
        BY <2>2, <2>3, <3>1 DEF WorksOn, Exempt
      <3>2. CASE d # c
        BY <1>0, <1>4, <2>1, <2>3, <3>2 DEF WorksOn, Working, Image, GenerateFails, ReportAndSkip
      <3> QED
        BY <3>1, <3>2
    <2> QED
      BY <1>0, <2>1, <2>3, UsedKept
  <1>5. CASE Mark(c)
    <2>1. processed' = processed \cup {Filed[name[c]]} /\ holder' = holder /\ pc[c] = "mark"
      BY <1>5 DEF Mark
    <2>2. ASSUME NEW d \in Collectors, WorksOn(d, k)
          PROVE  WorksOn(d, k)' \/ k \in processed' \/ Exempt(k)
      <3>1. CASE d = c
        <4>1. Image(c) \in Images /\ name[c] \in Mirrors[Image(c)] /\ Filed[Image(c)] = k
          BY <2>2, <3>1, ImageHeld, NameHeld DEF WorksOn
        <4>2. Traced(k) => Filed[name[c]] = k
          BY <4>1 DEF Traced
        <4> QED
          BY <2>1, <4>2 DEF Exempt
      <3>2. CASE d # c
        BY <1>0, <1>5, <2>1, <2>2, <3>2 DEF WorksOn, Working, Image, Mark
      <3> QED
        BY <3>1, <3>2
    <2> QED
      BY <1>0, <2>1, <2>2, UsedKept
  <1>6. CASE GenerateUntidy(c) \/ CallFails(c) \/ AnswerNotOK(c) \/ Crash(c)
    BY <1>6, <1>f DEF GenerateUntidy, CallFails, AnswerNotOK, Crash
  <1> QED
    BY <1>2, <1>3, <1>4, <1>5, <1>6 DEF Work, Mishap

LEMMA QuietStep ==
  ASSUME TypeOK, Quiet, [Next]_vars
  PROVE  Quiet'
  <1> USE DEF workerVars, queueVars, agentVars, outputVars, ghostVars
  <1>0. faults \in Nat
    BY DEF TypeOK, ObservedTypeOK
  <1>a. faults' = faults \/ faults' = faults + 1
    BY DEF Next, vars, Work, Mishap, Reported, SkipImage, ReportNoDigest, StatusProcessed,
       StatusReserved, StatusGranted, Generate, GenerateUntidy, GenerateFails, GetToken, Send, Mark,
       Finish, CallFails, AnswerNotOK, Crash, Take, SkipPod, Begin, GetFails, Due, PodEvent, Arrive,
       Lapse, Rotate, Fault
  <1> SUFFICES ASSUME faults' = 0 PROVE late' = {} /\ ReservationsAreUsed'
    BY DEF Quiet
  <1>b. faults = 0 /\ late = {} /\ ~Fault /\ \A i \in Images : Used(i)
    BY <1>0, <1>a, UsedMeans DEF Quiet, Fault
  <1>1. late' = {}
    BY <1>b DEF Next, vars, Work, Mishap, Reported, SkipImage, ReportNoDigest, StatusProcessed,
       StatusReserved, StatusGranted, Generate, GenerateUntidy, GenerateFails, GetToken, Send, Mark,
       Finish, CallFails, AnswerNotOK, Crash, Take, SkipPod, Begin, GetFails, Due, PodEvent, Lapse,
       Rotate
  <1>2. ASSUME NEW i \in Images
        PROVE  Used(i)'
    <2>0. Used(i) /\ holder \in [Images -> Collectors \cup {Nobody}]
      BY <1>b DEF TypeOK, PartiesTypeOK
    <2>1. ASSUME NEW c \in Collectors, Work(c) \/ Mishap(c) PROVE Used(i)'
      BY <1>0, <2>0, <2>1, UsedWork
    <2>2. ASSUME \/ \E c \in Collectors, p \in Pods :
                      Take(c, p) \/ GetFails(c, p) \/ Due(c, p) \/ PodEvent(c, p)
                 \/ Rotate
                 \/ UNCHANGED vars
          PROVE  Used(i)'
      <3>1. holder' = holder /\ processed' = processed
        BY <2>2 DEF Take, SkipPod, Begin, GetFails, Due, PodEvent, Rotate, vars
      <3>2. ASSUME NEW d \in Collectors, WorksOn(d, i) PROVE WorksOn(d, i)'
        <4>1. pc \in [Collectors -> {"idle", "report", "next", "generate", "token", "send", "mark"}]
          BY DEF TypeOK, WorkerTypeOK
        <4>2. /\ todo \in [Collectors -> Seq(Images)]
              /\ resume \in [Collectors -> {"next", "token"}]
          BY DEF TypeOK, WorkerTypeOK
        <4>3. pc'[d] = pc[d] /\ todo'[d] = todo[d] /\ resume'[d] = resume[d]
          BY <1>b, <2>2, <3>2, <4>1, <4>2 DEF Take, SkipPod, Begin, GetFails, Due, PodEvent, Rotate,
             vars, Goto, WorksOn, Working
        <4> QED
          BY <3>2, <4>3 DEF WorksOn, Working, Image
      <3> QED
        BY <2>0, <3>1, <3>2, UsedKept
    <2>3. ASSUME NEW j \in Images, Lapse(j) PROVE Used(i)'
      <3>1. /\ holder' = [holder EXCEPT ![j] = Nobody]
            /\ UNCHANGED <<pc, todo, resume, processed>>
        BY <2>3 DEF Lapse
      <3>2. holder'[i] \in {holder[i], Nobody}
        BY <2>0, <3>1
      <3>3. \A d \in Collectors : WorksOn(d, i) => WorksOn(d, i)'
        BY <3>1 DEF WorksOn, Working, Image
      <3> QED
        BY <2>0, <3>1, <3>2, <3>3, UsedKept
    <2> QED
      BY <1>b, <2>1, <2>2, <2>3 DEF Next
  <1> QED
    BY <1>1, <1>2, UsedMeansNext

\* Before the first failure an image that is reserved and not yet marked is being
\* scanned by the one who reserved it, even if reservations expire at any time: waiting
\* for another collector is not waiting for nobody, unless the image cannot be scanned
\* or the agent does not know it by the mirror it gave for it.
THEOREM ReservedIsInWork == Spec => []ReservationsAreUsed
  <1>1. Init => Quiet
    BY DEF Init, Quiet, ReservationsAreUsed
  <1>2. (TypeOK /\ Quiet) /\ [Next]_vars => (TypeOK /\ Quiet)'
    BY TypeStep, QuietStep
  <1>3. Quiet => ReservationsAreUsed
    BY DEF Quiet, ReservationsAreUsed
  <1> QED
    BY <1>1, <1>2, <1>3, InitType, PTL DEF Spec
=============================================================================
