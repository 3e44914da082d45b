--------------------------- MODULE DeliveryProofs ---------------------------
(* Theorems of Delivery, for every value of its constants. *)
EXTENDS Delivery, FiniteSetTheorems, TLAPS

-----------------------------------------------------------------------------
(* Facts about sequences and the helpers. *)

\* A non-empty sequence has a head of its type and a shorter rest.
LEMMA HeadTail ==
  ASSUME NEW S, NEW s \in Seq(S), s # <<>>
  PROVE  /\ Head(s) \in S
         /\ Tail(s) \in Seq(S)
  OBVIOUS

\* Counting one more.
LEMMA CountOne ==
  ASSUME NEW S, NEW f \in [S -> Nat], NEW i
  PROVE  [f EXCEPT ![i] = @ + 1] \in [S -> Nat]
  <1>1. \A j \in S : [f EXCEPT ![i] = @ + 1][j] \in Nat
    OBVIOUS
  <1> QED
    BY <1>1

\* What a pass still owes may become any set of images.
LEMMA OwedType ==
  ASSUME ObservedTypeOK, NEW c \in Collectors, NEW p \in Pods, NEW X \in SUBSET Images
  PROVE  [owed EXCEPT ![c][p] = X] \in [Collectors -> [Pods -> SUBSET Images]]
  <1>1. owed \in [Collectors -> [Pods -> SUBSET Images]]
    BY DEF ObservedTypeOK
  <1>2. [owed[c] EXCEPT ![p] = X] \in [Pods -> SUBSET Images]
    BY <1>1
  <1> QED
    BY <1>1, <1>2

\* What the loop has not dealt with is its current image or behind it.
LEMMA InSeqHeadTail ==
  ASSUME NEW S, NEW s \in Seq(S), s # <<>>, NEW i, InSeq(i, s)
  PROVE  i = Head(s) \/ InSeq(i, Tail(s))
  <1>1. PICK k \in 1..Len(s) : s[k] = i
    BY DEF InSeq
  <1>2. CASE k = 1
    BY <1>1, <1>2
  <1>3. CASE k # 1
    <2>1. k - 1 \in 1..Len(Tail(s))
      BY <1>3
    <2>2. Tail(s)[k - 1] = i
      BY <1>1, <1>3, <2>1
    <2> QED
      BY <2>1, <2>2 DEF InSeq
  <1> QED
    BY <1>2, <1>3

\* A worker that is not idle holds a pod.
LEMMA PodHeld ==
  ASSUME TypeOK, NEW c \in Collectors, pc[c] # "idle"
  PROVE  cur[c] \in Pods
  <1>1. cur[c] # NoPod
    <2>1. (pc[c] = "idle") <=> (cur[c] = NoPod)
      BY DEF TypeOK, PassOK
    <2> QED
      BY <2>1
  <1>2. cur[c] \in Pods \cup {NoPod}
    BY DEF TypeOK, WorkerTypeOK
  <1> QED
    BY <1>1, <1>2

\* A worker that works on an image, or has any left, has a current one.
LEMMA ImageHeld ==
  ASSUME TypeOK, NEW c \in Collectors, todo[c] # <<>> \/ Working(c)
  PROVE  /\ todo[c] # <<>>
         /\ Image(c) \in Images /\ Filed[Image(c)] \in Images
         /\ Tail(todo[c]) \in Seq(Images)
  <1>1. todo[c] # <<>>
    BY DEF TypeOK, PassOK, Working
  <1>2. todo[c] \in Seq(Images)
    BY DEF TypeOK, WorkerTypeOK
  <1>3. Image(c) \in Images /\ Tail(todo[c]) \in Seq(Images)
    BY <1>1, <1>2, HeadTail DEF Image
  <1> QED
    BY <1>1, <1>3, DeliveryAssumption

\* It works on it under a name that a grant of it may give.
LEMMA NameHeld ==
  ASSUME TypeOK, NEW c \in Collectors, Working(c)
  PROVE  /\ name[c] \in Images /\ Filed[name[c]] \in Images
         /\ name[c] \in Mirrors[Image(c)]
  <1>1. name[c] \in Mirrors[Image(c)] /\ Image(c) \in Images
    BY ImageHeld DEF TypeOK, PassOK
  <1>2. Mirrors[Image(c)] \in SUBSET Images
    BY <1>1, DeliveryAssumption
  <1> QED
    BY <1>1, <1>2, DeliveryAssumption

\* A request on the wire is a well-formed one, for the image being dealt with.
LEMMA InFlightType ==
  ASSUME TypeOK, NEW c \in Collectors
  PROVE  /\ InFlight(c) \in SUBSET Requests
         /\ InFlight(c) # {} => todo[c] # <<>>
         /\ \A r \in InFlight(c) : r.kind # "status" => r.img = name[c] /\ r.kind = pc[c]
         /\ \A r \in InFlight(c) : r.by = c /\ r.no = faults
         /\ \A q, r \in InFlight(c) : q = r
  <1>1. pc[c] \in {"send", "mark"} => todo[c] # <<>> /\ name[c] \in Images
    BY NameHeld DEF TypeOK, PassOK, Working
  <1>2. todo[c] # <<>> => Image(c) \in Images
    BY ImageHeld
  <1>3. token[c] \in Nat /\ faults \in Nat
    BY DEF TypeOK, WorkerTypeOK, ObservedTypeOK
  <1>4. ASSUME NEW r \in InFlight(c)
        PROVE  /\ r = [kind |-> r.kind, by |-> c, img |-> r.img, tok |-> token[c], no |-> faults]
               /\ \/ r.kind = "status" /\ todo[c] # <<>> /\ r.img = Image(c)
                  \/ r.kind \in {"send", "mark"} /\ r.kind = pc[c] /\ r.img = name[c]
    <2>1. CASE pc[c] = "next" /\ todo[c] # <<>> /\ Candidate(Image(c))
      BY <1>4, <2>1 DEF InFlight
    <2>2. CASE ~(pc[c] = "next" /\ todo[c] # <<>> /\ Candidate(Image(c)))
      BY <1>4, <2>2 DEF InFlight
    <2> QED
      BY <2>1, <2>2
  <1>5. ASSUME NEW r \in InFlight(c)
        PROVE  r \in Requests /\ todo[c] # <<>>
    <2>1. CASE r.kind = "status"
      BY <1>2, <1>3, <1>4, <2>1 DEF Requests
    <2>2. CASE r.kind # "status"
      BY <1>1, <1>3, <1>4, <2>2 DEF Requests
    <2> QED
      BY <2>1, <2>2
  <1>6. ASSUME NEW q \in InFlight(c), NEW r \in InFlight(c)
        PROVE  q = r
    <2>1. q.kind = r.kind
      BY <1>6 DEF InFlight
    <2> QED
      BY <1>4, <2>1
  <1>7. \A r \in InFlight(c) : r.by = c /\ r.no = faults
    BY DEF InFlight
  <1> QED
    BY <1>4, <1>5, <1>6, <1>7

-----------------------------------------------------------------------------
(* Type correctness. *)

LEMMA InitType == Init => TypeOK
  <1> SUFFICES ASSUME Init PROVE TypeOK
    OBVIOUS
  <1> USE DeliveryAssumption DEF Init
  <1>1. WorkerTypeOK
    BY DEF WorkerTypeOK
  <1>2. QueueTypeOK
    <2>1. Gone \in PodContents
      BY DEF Gone, PodContents, PodStates
    <2>2. cache \in [Collectors -> [Pods -> PodContents]]
      BY <2>1
    <2>3. entry \in [Collectors -> [Pods -> {"none", "ready", "backoff", "soon", "later"}]]
      BY DEF InitialEntries
    <2> QED
      BY <2>2, <2>3 DEF QueueTypeOK
  <1>3. PartiesTypeOK
    BY DEF PartiesTypeOK
  <1>4. ObservedTypeOK
    BY DEF ObservedTypeOK
  <1>5. PassOK
    BY DEF PassOK, Working
  <1> QED
    BY <1>1, <1>2, <1>3, <1>4, <1>5 DEF TypeOK

LEMMA TypeReported ==
  ASSUME TypeOK, NEW c \in Collectors, Reported(c)
  PROVE  TypeOK'
  <1> USE DeliveryAssumption, HeadTail DEF TypeOK, Reported
  <1> QED
    BY DEF WorkerTypeOK, QueueTypeOK, PartiesTypeOK, ObservedTypeOK, PassOK, AtImage, Goto, NextImage, ReportAndSkip, Working, Image, Fault, Candidate, AppendError, Receive, workerVars, queueVars, agentVars, outputVars, ghostVars

LEMMA TypeSkipImage ==
  ASSUME TypeOK, NEW c \in Collectors, SkipImage(c)
  PROVE  TypeOK'
  <1> USE DeliveryAssumption, HeadTail DEF TypeOK, SkipImage
  <1> QED
    BY DEF WorkerTypeOK, QueueTypeOK, PartiesTypeOK, ObservedTypeOK, PassOK, AtImage, Goto, NextImage, ReportAndSkip, Working, Image, Fault, Candidate, AppendError, Receive, workerVars, queueVars, agentVars, outputVars, ghostVars

LEMMA TypeReportNoDigest ==
  ASSUME TypeOK, NEW c \in Collectors, ReportNoDigest(c)
  PROVE  TypeOK'
  <1> USE DeliveryAssumption, HeadTail DEF TypeOK, ReportNoDigest
  <1> QED
    BY DEF WorkerTypeOK, QueueTypeOK, PartiesTypeOK, ObservedTypeOK, PassOK, AtImage, Goto, NextImage, ReportAndSkip, Working, Image, Fault, Candidate, AppendError, Receive, workerVars, queueVars, agentVars, outputVars, ghostVars

LEMMA TypeStatusProcessed ==
  ASSUME TypeOK, NEW c \in Collectors, StatusProcessed(c)
  PROVE  TypeOK'
  <1> USE DeliveryAssumption, HeadTail DEF TypeOK, StatusProcessed
  <1> QED
    BY DEF WorkerTypeOK, QueueTypeOK, PartiesTypeOK, ObservedTypeOK, PassOK, AtImage, Goto, NextImage, ReportAndSkip, Working, Image, Fault, Candidate, AppendError, Receive, workerVars, queueVars, agentVars, outputVars, ghostVars

LEMMA TypeStatusReserved ==
  ASSUME TypeOK, NEW c \in Collectors, StatusReserved(c)
  PROVE  TypeOK'
  <1> USE DeliveryAssumption, HeadTail DEF TypeOK, StatusReserved
  <1> QED
    BY DEF WorkerTypeOK, QueueTypeOK, PartiesTypeOK, ObservedTypeOK, PassOK, AtImage, Goto, NextImage, ReportAndSkip, Working, Image, Fault, Candidate, AppendError, Receive, workerVars, queueVars, agentVars, outputVars, ghostVars

LEMMA TypeStatusGranted ==
  ASSUME TypeOK, NEW c \in Collectors, StatusGranted(c)
  PROVE  TypeOK'
  <1> USE DEF TypeOK
  <1>1. /\ todo[c] # <<>> /\ pc[c] = "next"
        /\ Image(c) \in Images /\ Filed[Image(c)] \in Images
        /\ Tail(todo[c]) \in Seq(Images)
        /\ Mirrors[Image(c)] \in SUBSET Images
    BY ImageHeld, DeliveryAssumption DEF StatusGranted, AtImage
  <1>2. cur[c] \in Pods
    BY <1>1, PodHeld
  <1>3. QueueTypeOK' /\ PartiesTypeOK'
    BY <1>1 DEF QueueTypeOK, PartiesTypeOK, StatusGranted, queueVars, outputVars
  <1>4. CASE Class[Image(c)] = "badMirror"
    <2>0. /\ pc' = [pc EXCEPT ![c] = "report"]
          /\ todo' = [todo EXCEPT ![c] = Tail(@)]
          /\ name' = [name EXCEPT ![c] = NoName]
          /\ resume' = [resume EXCEPT ![c] = "next"]
          /\ owed' = [owed EXCEPT ![c][cur[c]] = @ \ {Image(c)}]
          /\ UNCHANGED <<cur, failed, waiting, token, faults, events, extra, unanswered>>
      BY <1>4 DEF StatusGranted, ReportAndSkip, NextImage, Goto, GiveUp
    <2>1. WorkerTypeOK'
      BY <1>1, <2>0 DEF WorkerTypeOK
    <2>2. ObservedTypeOK'
      <3>1. owed[c][cur[c]] \ {Image(c)} \in SUBSET Images
        BY <1>2 DEF ObservedTypeOK
      <3>2. owed' \in [Collectors -> [Pods -> SUBSET Images]]
        BY <1>2, <2>0, <3>1, OwedType
      <3> QED
        BY <2>0, <3>2 DEF ObservedTypeOK
    <2>3. PassOK'
      BY <1>1, <1>4 DEF PassOK, WorkerTypeOK, StatusGranted, ReportAndSkip, NextImage, Goto,
                        Working, Image
    <2> QED
      BY <1>3, <2>1, <2>2, <2>3
  <1>5. CASE Class[Image(c)] # "badMirror"
    <2>1. PICK m \in Mirrors[Image(c)] : name' = [name EXCEPT ![c] = m]
      BY <1>5 DEF StatusGranted, TakeUp
    <2>2. m \in Images
      BY <1>1, <2>1
    <2>3. WorkerTypeOK'
      BY <1>5, <2>1, <2>2 DEF WorkerTypeOK, StatusGranted, TakeUp, Goto
    <2>4. ObservedTypeOK'
      BY <1>5 DEF ObservedTypeOK, StatusGranted
    <2>5. PassOK'
      BY <1>1, <1>5, <2>1 DEF PassOK, WorkerTypeOK, StatusGranted, TakeUp, Goto, Working, Image
    <2> QED
      BY <1>3, <2>3, <2>4, <2>5
  <1> QED
    BY <1>4, <1>5

LEMMA TypeGenerate ==
  ASSUME TypeOK, NEW c \in Collectors, Generate(c)
  PROVE  TypeOK'
  <1> USE DeliveryAssumption, HeadTail DEF TypeOK, Generate
  <1> QED
    BY DEF WorkerTypeOK, QueueTypeOK, PartiesTypeOK, ObservedTypeOK, PassOK, AtImage, Goto, NextImage, ReportAndSkip, Working, Image, Fault, Candidate, AppendError, Receive, workerVars, queueVars, agentVars, outputVars, ghostVars

LEMMA TypeGetToken ==
  ASSUME TypeOK, NEW c \in Collectors, GetToken(c)
  PROVE  TypeOK'
  <1> USE DeliveryAssumption, HeadTail DEF TypeOK, GetToken
  <1> QED
    BY DEF WorkerTypeOK, QueueTypeOK, PartiesTypeOK, ObservedTypeOK, PassOK, AtImage, Goto, NextImage, ReportAndSkip, Working, Image, Fault, Candidate, AppendError, Receive, workerVars, queueVars, agentVars, outputVars, ghostVars

LEMMA TypeSend ==
  ASSUME TypeOK, NEW c \in Collectors, Send(c)
  PROVE  TypeOK'
  <1> USE DEF TypeOK, Send
  <1>1. WorkerTypeOK'
    BY DEF WorkerTypeOK, Goto
  <1>2. QueueTypeOK'
    BY DEF QueueTypeOK, queueVars
  <1>3. PartiesTypeOK'
    BY NameHeld DEF PartiesTypeOK, Working, Receive, agentVars
  <1>4. ObservedTypeOK'
    <2>1. [extra EXCEPT ![Filed[name[c]]] = @ + 1] \in [Images -> Nat]
      BY CountOne DEF ObservedTypeOK
    <2> QED
      BY <2>1 DEF ObservedTypeOK, Receive
  <1>5. PassOK'
    BY DEF PassOK, WorkerTypeOK, Goto, Working, Image
  <1> QED
    BY <1>1, <1>2, <1>3, <1>4, <1>5

LEMMA TypeMark ==
  ASSUME TypeOK, NEW c \in Collectors, Mark(c)
  PROVE  TypeOK'
  <1> USE DEF TypeOK, Mark
  <1>1. Tail(todo[c]) \in Seq(Images) /\ Filed[name[c]] \in Images
    BY ImageHeld, NameHeld DEF Working
  <1>2. WorkerTypeOK'
    BY <1>1 DEF WorkerTypeOK, Goto, NextImage
  <1>3. QueueTypeOK' /\ PartiesTypeOK' /\ ObservedTypeOK'
    BY <1>1 DEF QueueTypeOK, PartiesTypeOK, ObservedTypeOK, queueVars, outputVars, ghostVars
  <1>4. PassOK'
    BY DEF PassOK, WorkerTypeOK, Goto, NextImage, Working, Image
  <1> QED
    BY <1>2, <1>3, <1>4

LEMMA TypeFinish ==
  ASSUME TypeOK, NEW c \in Collectors, Finish(c)
  PROVE  TypeOK'
  <1> USE DeliveryAssumption, HeadTail DEF TypeOK
  <1>1. WorkerTypeOK'
    BY DEF WorkerTypeOK, Finish, Goto, Working, workerVars, queueVars, agentVars, outputVars, ghostVars
  <1>2. QueueTypeOK'
    <2>1. cur[c] \in Pods
      BY PodHeld DEF Finish
    <2>2. Result(c) \in {"none", "ready", "backoff", "soon", "later"}
      BY DEF Result
    <2> QED
      BY <2>1, <2>2 DEF QueueTypeOK, Finish
  <1>3. PartiesTypeOK'
    BY DEF PartiesTypeOK, Finish, Goto, Working, workerVars, queueVars, agentVars, outputVars, ghostVars
  <1>4. ObservedTypeOK'
    BY DEF ObservedTypeOK, Finish, Goto, Working, workerVars, queueVars, agentVars, outputVars, ghostVars
  <1>5. PassOK'
    BY DEF PassOK, WorkerTypeOK, Finish, Goto, Working, workerVars, queueVars, agentVars, outputVars, ghostVars, Image
  <1> QED
    BY <1>1, <1>2, <1>3, <1>4, <1>5

LEMMA TypeGenerateUntidy ==
  ASSUME TypeOK, NEW c \in Collectors, GenerateUntidy(c)
  PROVE  TypeOK'
  <1> USE DEF TypeOK, GenerateUntidy
  <1>1. WorkerTypeOK'
    BY DEF WorkerTypeOK, Goto
  <1>2. QueueTypeOK' /\ PartiesTypeOK' /\ ObservedTypeOK'
    BY DEF QueueTypeOK, PartiesTypeOK, ObservedTypeOK, Fault, queueVars, agentVars, outputVars,
           ghostVars
  <1>3. PassOK'
    BY DEF PassOK, WorkerTypeOK, Goto, Working, Image
  <1> QED
    BY <1>1, <1>2, <1>3

LEMMA TypeGenerateFails ==
  ASSUME TypeOK, NEW c \in Collectors, GenerateFails(c)
  PROVE  TypeOK'
  <1> USE DeliveryAssumption, HeadTail DEF TypeOK
  <1>1. WorkerTypeOK'
    <2>1. Tail(todo[c]) \in Seq(Images)
      BY ImageHeld DEF GenerateFails, Working
    <2> QED
      BY <2>1 DEF WorkerTypeOK, GenerateFails, Goto, ReportAndSkip, NextImage
  <1>2. QueueTypeOK'
    BY DEF QueueTypeOK, GenerateFails, Goto, ReportAndSkip, NextImage, Working, Fault, workerVars, queueVars, agentVars, outputVars, ghostVars
  <1>3. PartiesTypeOK'
    BY DEF PartiesTypeOK, GenerateFails, Goto, ReportAndSkip, NextImage, Working, Fault, workerVars, queueVars, agentVars, outputVars, ghostVars
  <1>4. ObservedTypeOK'
    <2>1. Image(c) \in Images /\ cur[c] \in Pods
      BY PodHeld, ImageHeld DEF GenerateFails, Working
    <2>2. owed[c][cur[c]] \ {Image(c)} \in SUBSET Images
      BY <2>1 DEF ObservedTypeOK
    <2>3. owed' \in [Collectors -> [Pods -> SUBSET Images]]
      BY <2>1, <2>2, OwedType DEF GenerateFails, GiveUp
    <2> QED
      BY <2>3 DEF ObservedTypeOK, GenerateFails, Fault
  <1>5. PassOK'
    BY DEF PassOK, WorkerTypeOK, GenerateFails, Goto, ReportAndSkip, NextImage, Working, Image
  <1> QED
    BY <1>1, <1>2, <1>3, <1>4, <1>5

LEMMA TypeCallFails ==
  ASSUME TypeOK, NEW c \in Collectors, CallFails(c)
  PROVE  TypeOK'
  <1> USE DeliveryAssumption, HeadTail DEF TypeOK
  <1>0. /\ late' \subseteq late \cup InFlight(c)
        /\ unanswered' \in [Images -> Nat]
    <2>1. [unanswered EXCEPT ![Filed[name[c]]] = @ + 1] \in [Images -> Nat]
      BY CountOne DEF ObservedTypeOK
    <2> QED
      BY <2>1 DEF ObservedTypeOK, CallFails, Loosened
  <1>t. todo[c] # <<>>
    BY InFlightType DEF CallFails, PassOK, Working
  <1>1. WorkerTypeOK'
    BY <1>t DEF WorkerTypeOK, CallFails, AppendError, Goto, ReportAndSkip, NextImage, Working, workerVars, queueVars, agentVars, outputVars, ghostVars
  <1>2. QueueTypeOK'
    BY DEF QueueTypeOK, CallFails, AppendError, Goto, ReportAndSkip, NextImage, Working, workerVars, queueVars, agentVars, outputVars, ghostVars
  <1>3. PartiesTypeOK'
    <2>1. late' \subseteq Requests
      BY <1>0, InFlightType DEF PartiesTypeOK
    <2> QED
      BY <2>1 DEF PartiesTypeOK, CallFails, agentVars, outputVars
  <1>4. ObservedTypeOK'
    BY <1>0 DEF ObservedTypeOK, CallFails, Fault
  <1>5. PassOK'
    BY <1>t DEF PassOK, WorkerTypeOK, CallFails, Goto, ReportAndSkip, NextImage, Working, Image
  <1> QED
    BY <1>1, <1>2, <1>3, <1>4, <1>5

LEMMA TypeAnswerNotOK ==
  ASSUME TypeOK, NEW c \in Collectors, AnswerNotOK(c)
  PROVE  TypeOK'
  <1> USE DeliveryAssumption, HeadTail DEF TypeOK
  <1>0. /\ late' \subseteq late \cup InFlight(c)
        /\ unanswered' \in [Images -> Nat]
    <2>1. [unanswered EXCEPT ![Filed[name[c]]] = @ + 1] \in [Images -> Nat]
      BY CountOne DEF ObservedTypeOK
    <2> QED
      BY <2>1 DEF ObservedTypeOK, AnswerNotOK, Loosened
  <1>1. WorkerTypeOK'
    BY DEF WorkerTypeOK, AnswerNotOK, Working, workerVars, queueVars, agentVars, outputVars, ghostVars
  <1>2. QueueTypeOK'
    BY DEF QueueTypeOK, AnswerNotOK, Working, workerVars, queueVars, agentVars, outputVars, ghostVars
  <1>3. PartiesTypeOK'
    <2>1. late' \subseteq Requests
      BY <1>0, InFlightType DEF PartiesTypeOK
    <2> QED
      BY <2>1 DEF PartiesTypeOK, AnswerNotOK, agentVars, outputVars
  <1>4. ObservedTypeOK'
    BY <1>0 DEF ObservedTypeOK, AnswerNotOK, Fault
  <1>5. PassOK'
    BY DEF PassOK, WorkerTypeOK, AnswerNotOK, Working, workerVars, queueVars, agentVars, outputVars, ghostVars, Image
  <1> QED
    BY <1>1, <1>2, <1>3, <1>4, <1>5

LEMMA TypeCrash ==
  ASSUME TypeOK, NEW c \in Collectors, Crash(c)
  PROVE  TypeOK'
  <1> USE DeliveryAssumption, HeadTail DEF TypeOK
  <1>0. /\ late' \subseteq late \cup InFlight(c)
        /\ unanswered' \in [Images -> Nat]
    <2>1. [unanswered EXCEPT ![Filed[name[c]]] = @ + 1] \in [Images -> Nat]
      BY CountOne DEF ObservedTypeOK
    <2> QED
      BY <2>1 DEF ObservedTypeOK, Crash, Loosened
  <1>1. WorkerTypeOK'
    BY DEF WorkerTypeOK, Crash, Goto, Working, workerVars, queueVars, agentVars, outputVars, ghostVars
  <1>2. QueueTypeOK'
    BY DEF QueueTypeOK, Crash, InitialEntries
  <1>3. PartiesTypeOK'
    <2>1. late' \subseteq Requests
      BY <1>0, InFlightType DEF PartiesTypeOK
    <2> QED
      BY <2>1 DEF PartiesTypeOK, Crash, agentVars, outputVars
  <1>4. ObservedTypeOK'
    BY <1>0 DEF ObservedTypeOK, Crash, Fault
  <1>5. PassOK'
    BY DEF PassOK, WorkerTypeOK, Crash, Goto, Working, workerVars, queueVars, agentVars, outputVars, ghostVars, Image
  <1> QED
    BY <1>1, <1>2, <1>3, <1>4, <1>5

LEMMA TypeSkipPod ==
  ASSUME TypeOK, NEW c \in Collectors, NEW p \in Pods, SkipPod(c, p)
  PROVE  TypeOK'
  <1> USE DeliveryAssumption DEF TypeOK, SkipPod
  <1>1. WorkerTypeOK'
    BY DEF WorkerTypeOK, Goto, Fault, workerVars, queueVars, agentVars, outputVars, ghostVars
  <1>2. QueueTypeOK'
    BY DEF QueueTypeOK, Goto, Fault, workerVars, queueVars, agentVars, outputVars, ghostVars
  <1>3. PartiesTypeOK'
    BY DEF PartiesTypeOK, Goto, Fault, workerVars, queueVars, agentVars, outputVars, ghostVars
  <1>4. ObservedTypeOK'
    BY DEF ObservedTypeOK, Goto, Fault, workerVars, queueVars, agentVars, outputVars, ghostVars
  <1>5. PassOK'
    BY DEF PassOK, WorkerTypeOK, QueueTypeOK, Working, Goto, Fault, workerVars, queueVars, agentVars, outputVars, ghostVars, Image
  <1> QED
    BY <1>1, <1>2, <1>3, <1>4, <1>5

LEMMA TypeBegin ==
  ASSUME TypeOK, NEW c \in Collectors, NEW p \in Pods, Begin(c, p)
  PROVE  TypeOK'
  <1> USE DeliveryAssumption DEF TypeOK, Begin
  <1>1. WorkerTypeOK'
    <2>1. cache[c][p].images \in Seq(Images)
      BY DEF QueueTypeOK, PodContents
    <2>2. /\ todo' = [todo EXCEPT ![c] = cache[c][p].images]
          /\ \/ pc' = [pc EXCEPT ![c] = "next"]
             \/ pc' = [pc EXCEPT ![c] = "report"]
      BY DEF Goto
    <2> QED
      BY <2>1, <2>2 DEF WorkerTypeOK
  <1>2. QueueTypeOK'
    BY DEF QueueTypeOK, Goto, Fault, workerVars, queueVars, agentVars, outputVars, ghostVars
  <1>3. PartiesTypeOK'
    BY DEF PartiesTypeOK, Goto, Fault, workerVars, queueVars, agentVars, outputVars, ghostVars
  <1>4. ObservedTypeOK'
    <2>1. {i \in Images : InSeq(i, cache[c][p].images) /\ Candidate(i)} \in SUBSET Images
      OBVIOUS
    <2>2. owed' \in [Collectors -> [Pods -> SUBSET Images]]
      BY <2>1, OwedType
    <2> QED
      BY <2>2 DEF ObservedTypeOK
  <1>5. PassOK'
    BY DEF PassOK, WorkerTypeOK, QueueTypeOK, Working, Goto, Fault, workerVars, queueVars, agentVars, outputVars, ghostVars, Image
  <1> QED
    BY <1>1, <1>2, <1>3, <1>4, <1>5

LEMMA TypeGetFails ==
  ASSUME TypeOK, NEW c \in Collectors, NEW p \in Pods, GetFails(c, p)
  PROVE  TypeOK'
  <1> USE DeliveryAssumption DEF TypeOK, GetFails
  <1>1. WorkerTypeOK'
    BY DEF WorkerTypeOK, Goto, Fault, workerVars, queueVars, agentVars, outputVars, ghostVars
  <1>2. QueueTypeOK'
    BY DEF QueueTypeOK, Goto, Fault, workerVars, queueVars, agentVars, outputVars, ghostVars
  <1>3. PartiesTypeOK'
    BY DEF PartiesTypeOK, Goto, Fault, workerVars, queueVars, agentVars, outputVars, ghostVars
  <1>4. ObservedTypeOK'
    BY DEF ObservedTypeOK, Goto, Fault, workerVars, queueVars, agentVars, outputVars, ghostVars
  <1>5. PassOK'
    BY DEF PassOK, WorkerTypeOK, QueueTypeOK, Working, Goto, Fault, workerVars, queueVars, agentVars, outputVars, ghostVars, Image
  <1> QED
    BY <1>1, <1>2, <1>3, <1>4, <1>5

LEMMA TypeDue ==
  ASSUME TypeOK, NEW c \in Collectors, NEW p \in Pods, Due(c, p)
  PROVE  TypeOK'
  <1> USE DeliveryAssumption DEF TypeOK, Due
  <1>1. WorkerTypeOK'
    BY DEF WorkerTypeOK, Goto, Fault, workerVars, queueVars, agentVars, outputVars, ghostVars
  <1>2. QueueTypeOK'
    BY DEF QueueTypeOK, Goto, Fault, workerVars, queueVars, agentVars, outputVars, ghostVars
  <1>3. PartiesTypeOK'
    BY DEF PartiesTypeOK, Goto, Fault, workerVars, queueVars, agentVars, outputVars, ghostVars
  <1>4. ObservedTypeOK'
    BY DEF ObservedTypeOK, Goto, Fault, workerVars, queueVars, agentVars, outputVars, ghostVars
  <1>5. PassOK'
    BY DEF PassOK, WorkerTypeOK, QueueTypeOK, Working, Goto, Fault, workerVars, queueVars, agentVars, outputVars, ghostVars, Image
  <1> QED
    BY <1>1, <1>2, <1>3, <1>4, <1>5

LEMMA TypePodEvent ==
  ASSUME TypeOK, NEW c \in Collectors, NEW p \in Pods, PodEvent(c, p)
  PROVE  TypeOK'
  <1> USE DeliveryAssumption DEF TypeOK, PodEvent
  <1>1. WorkerTypeOK'
    BY DEF WorkerTypeOK, Goto, Fault, workerVars, queueVars, agentVars, outputVars, ghostVars
  <1>2. QueueTypeOK'
    BY DEF QueueTypeOK, Goto, Fault, workerVars, queueVars, agentVars, outputVars, ghostVars
  <1>3. PartiesTypeOK'
    BY DEF PartiesTypeOK, Goto, Fault, workerVars, queueVars, agentVars, outputVars, ghostVars
  <1>4. ObservedTypeOK'
    BY DEF ObservedTypeOK, Goto, Fault, workerVars, queueVars, agentVars, outputVars, ghostVars
  <1>5. PassOK'
    BY DEF PassOK, WorkerTypeOK, QueueTypeOK, Working, Goto, Fault, workerVars, queueVars, agentVars, outputVars, ghostVars, Image
  <1> QED
    BY <1>1, <1>2, <1>3, <1>4, <1>5

LEMMA TypeArrive ==
  ASSUME TypeOK, NEW r \in late, Arrive(r)
  PROVE  TypeOK'
  <1> USE DeliveryAssumption DEF TypeOK, Arrive
  <1>1. WorkerTypeOK'
    BY DEF WorkerTypeOK, workerVars
  <1>2. QueueTypeOK'
    BY DEF QueueTypeOK, queueVars
  <1>3. r.img \in Images /\ r.by \in Collectors
    BY DEF PartiesTypeOK, Requests
  <1>4. PartiesTypeOK'
    BY <1>3 DEF PartiesTypeOK, ArriveStatus, ArriveSend, ArriveMark, Receive, agentVars
  <1>5. ObservedTypeOK'
    BY <1>3 DEF ObservedTypeOK, ArriveStatus, ArriveSend, ArriveMark, Receive
  <1>6. PassOK'
    BY DEF PassOK, Working, workerVars, Image
  <1> QED
    BY <1>1, <1>2, <1>4, <1>5, <1>6

LEMMA TypeRest ==
  ASSUME TypeOK,
         (\E i \in Images : Lapse(i)) \/ Rotate \/ UNCHANGED vars
  PROVE  TypeOK'
  <1> USE DEF TypeOK, WorkerTypeOK, QueueTypeOK, PartiesTypeOK, ObservedTypeOK, PassOK, Working,
              Image, workerVars, queueVars, agentVars, outputVars, ghostVars
  <1>1. CASE \E i \in Images : Lapse(i)
    BY <1>1 DEF Lapse
  <1>2. CASE Rotate
    BY <1>2, DeliveryAssumption DEF Rotate
  <1>3. CASE UNCHANGED vars
    BY <1>3 DEF vars
  <1> QED
    BY <1>1, <1>2, <1>3

LEMMA TypeStep ==
  ASSUME TypeOK, [Next]_vars
  PROVE  TypeOK'
  <1>1. ASSUME NEW c \in Collectors, Work(c)
        PROVE  TypeOK'
    BY <1>1, TypeReported, TypeSkipImage, TypeReportNoDigest, TypeStatusProcessed,
       TypeStatusReserved, TypeStatusGranted, TypeGenerate, TypeGenerateFails, TypeGetToken,
       TypeSend, TypeMark, TypeFinish DEF Work
  <1>2. ASSUME NEW c \in Collectors, Mishap(c)
        PROVE  TypeOK'
    BY <1>2, TypeGenerateUntidy, TypeGenerateFails, TypeCallFails, TypeAnswerNotOK, TypeCrash
       DEF Mishap
  <1>3. ASSUME NEW c \in Collectors, NEW p \in Pods,
               Take(c, p) \/ GetFails(c, p) \/ Due(c, p) \/ PodEvent(c, p)
        PROVE  TypeOK'
    BY <1>3, TypeSkipPod, TypeBegin, TypeGetFails, TypeDue, TypePodEvent DEF Take
  <1>4. ASSUME NEW r \in late, Arrive(r)
        PROVE  TypeOK'
    BY <1>4, TypeArrive
  <1> QED
    BY <1>1, <1>2, <1>3, <1>4, TypeRest DEF Next

\* The state of every collector, of the agent, the output and the network stays
\* well formed, whatever the interleaving of the collectors' steps.
THEOREM TypeCorrect == Spec => []TypeOK
  <1> QED
    BY InitType, TypeStep, PTL DEF Spec

-----------------------------------------------------------------------------
(* An image is marked only after its SBOM has been received.                 *)
(*                                                                           *)
(* The mark follows the send in the program, but it may arrive long after:   *)
(* from a worker that gave up waiting, or from a process that has died.      *)

MarkBacked ==
  /\ processed \subseteq delivered
  /\ \A c \in Collectors : pc[c] = "mark" => Filed[name[c]] \in delivered
  /\ \A r \in late : r.kind = "mark" => Filed[r.img] \in delivered

LEMMA MarkBackedInit == Init => MarkBacked
  BY DEF Init, MarkBacked

\* Steps of a worker before the send, and after the mark.
LEMMA MarkBackedWork ==
  ASSUME TypeOK, MarkBacked, NEW c \in Collectors, Work(c)
  PROVE  MarkBacked'
  <1> USE DEF MarkBacked, Goto, queueVars, agentVars, outputVars, ghostVars
  <1> pc \in [Collectors -> {"idle", "report", "next", "generate", "token", "send", "mark"}]
    BY DEF TypeOK, WorkerTypeOK
  <1> name \in [Collectors -> Images \cup {NoName}] /\ resume \in [Collectors -> {"next", "token"}]
    BY DEF TypeOK, WorkerTypeOK
  <1>1. CASE Reported(c)
    BY <1>1 DEF Reported
  <1>2. CASE SkipImage(c)
    BY <1>2 DEF SkipImage, AtImage, NextImage
  <1>3. CASE ReportNoDigest(c)
    BY <1>3 DEF ReportNoDigest, ReportAndSkip, NextImage
  <1>4. CASE StatusProcessed(c)
    BY <1>4 DEF StatusProcessed, AtImage, NextImage
  <1>5. CASE StatusReserved(c)
    BY <1>5 DEF StatusReserved, AtImage, NextImage
  <1>6. CASE StatusGranted(c)
    BY <1>6 DEF StatusGranted, ReportAndSkip, NextImage, TakeUp, AtImage
  <1>7. CASE Generate(c)
    BY <1>7 DEF Generate
  <1>8. CASE GenerateFails(c)
    BY <1>8 DEF GenerateFails, ReportAndSkip, NextImage
  <1>9. CASE GetToken(c)
    BY <1>9 DEF GetToken
  <1>10. CASE Send(c)
    BY <1>10 DEF Send, Receive
  <1>11. CASE Mark(c)
    BY <1>11 DEF Mark, NextImage
  <1>12. CASE Finish(c)
    BY <1>12 DEF Finish
  <1> QED
    BY <1>1, <1>2, <1>3, <1>4, <1>5, <1>6, <1>7, <1>8, <1>9, <1>10, <1>11, <1>12 DEF Work

LEMMA MarkBackedMishap ==
  ASSUME TypeOK, MarkBacked, NEW c \in Collectors, Mishap(c)
  PROVE  MarkBacked'
  <1> USE DEF MarkBacked, Goto, workerVars, queueVars, agentVars, outputVars, ghostVars
  <1> pc \in [Collectors -> {"idle", "report", "next", "generate", "token", "send", "mark"}]
    BY DEF TypeOK, WorkerTypeOK
  <1> name \in [Collectors -> Images \cup {NoName}]
    BY DEF TypeOK, WorkerTypeOK
  <1>0. \A r \in InFlight(c) : r.kind = "mark" => Filed[r.img] \in delivered
    BY InFlightType
  <1>1. CASE GenerateUntidy(c)
    BY <1>1 DEF GenerateUntidy
  <1>2. CASE GenerateFails(c)
    BY <1>2 DEF GenerateFails, ReportAndSkip, NextImage
  <1>3. CASE CallFails(c)
    BY <1>0, <1>3 DEF CallFails, ReportAndSkip, NextImage
  <1>4. CASE AnswerNotOK(c)
    BY <1>0, <1>4 DEF AnswerNotOK
  <1>5. CASE Crash(c)
    BY <1>0, <1>5 DEF Crash
  <1> QED
    BY <1>1, <1>2, <1>3, <1>4, <1>5 DEF Mishap

LEMMA MarkBackedStep ==
  ASSUME TypeOK, MarkBacked, [Next]_vars
  PROVE  MarkBacked'
  <1> USE DEF MarkBacked, Goto, workerVars, queueVars, agentVars, outputVars, ghostVars
  <1> pc \in [Collectors -> {"idle", "report", "next", "generate", "token", "send", "mark"}]
    BY DEF TypeOK, WorkerTypeOK
  <1>1. ASSUME NEW c \in Collectors, Work(c) \/ Mishap(c)
        PROVE  MarkBacked'
    BY <1>1, MarkBackedWork, MarkBackedMishap
  <1>2. ASSUME NEW c \in Collectors, NEW p \in Pods,
               Take(c, p) \/ GetFails(c, p) \/ Due(c, p) \/ PodEvent(c, p)
        PROVE  MarkBacked'
    <2>1. CASE SkipPod(c, p)
      BY <2>1 DEF SkipPod
    <2>2. CASE Begin(c, p)
      <3>1. \A d \in Collectors : pc'[d] = "mark" => pc[d] = "mark" /\ name'[d] = name[d]
        BY <2>2 DEF Begin
      <3> QED
        BY <2>2, <3>1 DEF Begin
    <2>3. CASE GetFails(c, p)
      BY <2>3 DEF GetFails
    <2>4. CASE Due(c, p) \/ PodEvent(c, p)
      BY <2>4 DEF Due, PodEvent
    <2> QED
      BY <1>2, <2>1, <2>2, <2>3, <2>4 DEF Take
  <1>3. ASSUME NEW r \in late, Arrive(r)
        PROVE  MarkBacked'
    BY <1>3 DEF Arrive, ArriveStatus, ArriveSend, ArriveMark, Receive
  <1>4. ASSUME (\E i \in Images : Lapse(i)) \/ Rotate \/ UNCHANGED vars
        PROVE  MarkBacked'
    BY <1>4 DEF Lapse, Rotate, vars
  <1> QED
    BY <1>1, <1>2, <1>3, <1>4 DEF Next

\* Every image the agent lists as processed is one whose SBOM the output has:
\* no lost answer, late request, crash or lapse makes the cluster skip an image
\* that was never submitted.
THEOREM ProcessedAreDelivered == Spec => []ProcessedWasDelivered
  <1>1. Init => TypeOK /\ MarkBacked
    BY InitType, MarkBackedInit
  <1>2. (TypeOK /\ MarkBacked) /\ [Next]_vars => (TypeOK /\ MarkBacked)'
    BY TypeStep, MarkBackedStep
  <1>3. MarkBacked => ProcessedWasDelivered
    BY DEF MarkBacked, ProcessedWasDelivered
  <1> QED
    BY <1>1, <1>2, <1>3, PTL DEF Spec

-----------------------------------------------------------------------------
(* One collector at a time works on an image.                                *)
(*                                                                           *)
(* A worker holds the reservation of its image from the agent's grant to the *)
(* end of its work on it, so a second worker would have to hold it as well.  *)

HoldsItsImage == \A c \in Collectors : Working(c) => holder[Filed[Image(c)]] = c

LEMMA HoldsInit == Init => HoldsItsImage
  BY DEF Init, HoldsItsImage, Working

\* A step that leaves the reservations alone, and in which every worker that
\* works afterwards worked on the same image before.
LEMMA HoldsKept ==
  ASSUME HoldsItsImage, UNCHANGED holder,
         \A d \in Collectors : Working(d)' => Working(d) /\ Image(d)' = Image(d)
  PROVE  HoldsItsImage'
  BY DEF HoldsItsImage

LEMMA HoldsWork ==
  ASSUME TypeOK, HoldsItsImage, NEW c \in Collectors, Work(c) \/ Mishap(c)
  PROVE  HoldsItsImage'
  <1> USE DEF Image, Working, Goto, workerVars, queueVars, agentVars, outputVars, ghostVars
  <1> /\ pc \in [Collectors -> {"idle", "report", "next", "generate", "token", "send", "mark"}]
      /\ todo \in [Collectors -> Seq(Images)]
      /\ resume \in [Collectors -> {"next", "token"}]
    BY DEF TypeOK, WorkerTypeOK
  <1>1. CASE StatusGranted(c)
    <2>1. holder \in [Images -> Collectors \cup {Nobody}] /\ Filed[Image(c)] \in Images
      BY <1>1, ImageHeld DEF StatusGranted, AtImage, TypeOK, PartiesTypeOK
    <2>2. \A d \in Collectors \ {c} : Working(d)' => Working(d) /\ Image(d)' = Image(d)
      BY <1>1 DEF StatusGranted, ReportAndSkip, NextImage, TakeUp
    <2>3. \A d \in Collectors \ {c} : Working(d) => Filed[Image(d)] # Filed[Image(c)]
      <3> SUFFICES ASSUME NEW d \in Collectors \ {c}, Working(d), Filed[Image(d)] = Filed[Image(c)]
                   PROVE  FALSE
        OBVIOUS
      <3>1. holder[Filed[Image(c)]] = d
        BY DEF HoldsItsImage
      <3>2. holder[Filed[Image(c)]] = Nobody \/ holder[Filed[Image(c)]] = c
        BY <1>1 DEF StatusGranted, Grantable
      <3> QED
        BY <3>1, <3>2, DeliveryAssumption
    <2>4. Working(c)' => Image(c)' = Image(c)
      BY <1>1 DEF StatusGranted, ReportAndSkip, NextImage, TakeUp
    <2>5. holder' = [holder EXCEPT ![Filed[Image(c)]] = c]
      BY <1>1 DEF StatusGranted
    <2>6. ASSUME NEW d \in Collectors, Working(d)'
          PROVE  holder'[Filed[Image(d)']] = d
      <3>1. CASE d = c
        BY <2>1, <2>4, <2>5, <2>6, <3>1
      <3>2. CASE d # c
        <4>1. Working(d) /\ Image(d)' = Image(d) /\ Filed[Image(d)] # Filed[Image(c)]
          BY <2>2, <2>3, <2>6, <3>2
        <4>2. holder[Filed[Image(d)]] = d
          BY <4>1 DEF HoldsItsImage
        <4>3. Filed[Image(d)] \in Images
          BY <4>1, ImageHeld
        <4> QED
          BY <2>1, <2>5, <4>1, <4>2, <4>3
      <3> QED
        BY <3>1, <3>2
    <2> QED
      BY <2>6 DEF HoldsItsImage
  <1>2. CASE \/ Reported(c) \/ SkipImage(c) \/ ReportNoDigest(c) \/ StatusProcessed(c)
             \/ StatusReserved(c) \/ Generate(c) \/ GenerateFails(c) \/ GetToken(c)
             \/ Send(c) \/ Mark(c) \/ Finish(c)
    <2>1. UNCHANGED holder
      BY <1>2 DEF Reported, SkipImage, ReportNoDigest, StatusProcessed, StatusReserved, Generate,
                  GenerateFails, GetToken, Send, Mark, Finish
    <2>2. ASSUME NEW d \in Collectors, Working(d)'
          PROVE  Working(d) /\ Image(d)' = Image(d)
      BY <1>2, <2>2 DEF Reported, SkipImage, ReportNoDigest, StatusProcessed, StatusReserved,
                  Generate, GenerateFails, GetToken, Send, Mark, Finish, ReportAndSkip, NextImage,
                  AtImage
    <2> QED
      BY <2>1, <2>2, HoldsKept
  <1>3. CASE GenerateUntidy(c) \/ CallFails(c) \/ AnswerNotOK(c) \/ Crash(c)
    <2>1. UNCHANGED holder
      BY <1>3 DEF GenerateUntidy, CallFails, AnswerNotOK, Crash
    <2>2. ASSUME NEW d \in Collectors, Working(d)'
          PROVE  Working(d) /\ Image(d)' = Image(d)
      BY <1>3, <2>2 DEF GenerateUntidy, CallFails, AnswerNotOK, Crash, ReportAndSkip, NextImage
    <2> QED
      BY <2>1, <2>2, HoldsKept
  <1> QED
    BY <1>1, <1>2, <1>3 DEF Work, Mishap

LEMMA HoldsStep ==
  ASSUME TypeOK, HoldsItsImage, [Next]_vars, LapseMode # "anytime"
  PROVE  HoldsItsImage'
  <1> USE DEF Image, Working, Goto, workerVars, queueVars, agentVars, outputVars, ghostVars
  <1> /\ pc \in [Collectors -> {"idle", "report", "next", "generate", "token", "send", "mark"}]
      /\ todo \in [Collectors -> Seq(Images)]
      /\ resume \in [Collectors -> {"next", "token"}]
      /\ holder \in [Images -> Collectors \cup {Nobody}]
    BY DEF TypeOK, WorkerTypeOK, PartiesTypeOK
  <1>1. ASSUME NEW c \in Collectors, Work(c) \/ Mishap(c)
        PROVE  HoldsItsImage'
    BY <1>1, HoldsWork
  <1>2. ASSUME NEW c \in Collectors, NEW p \in Pods,
               Take(c, p) \/ GetFails(c, p) \/ Due(c, p) \/ PodEvent(c, p)
        PROVE  HoldsItsImage'
    <2>1. UNCHANGED holder
      BY <1>2 DEF Take, SkipPod, Begin, GetFails, Due, PodEvent
    <2>2. ASSUME NEW d \in Collectors, Working(d)'
          PROVE  Working(d) /\ Image(d)' = Image(d)
      BY <1>2, <2>2 DEF Take, SkipPod, Begin, GetFails, Due, PodEvent
    <2> QED
      BY <2>1, <2>2, HoldsKept
  <1>3. ASSUME NEW r \in late, Arrive(r)
        PROVE  HoldsItsImage'
    <2>1. \A d \in Collectors : Working(d)' => Working(d) /\ Image(d)' = Image(d)
      BY <1>3 DEF Arrive
    <2>2. CASE UNCHANGED holder
      BY <2>1, <2>2, HoldsKept
    <2>3. CASE /\ Grantable(r.by, r.img)
               /\ holder' = [holder EXCEPT ![Filed[r.img]] = r.by]
      <3>1. Filed[r.img] \in Images
        BY DeliveryAssumption DEF TypeOK, PartiesTypeOK, Requests
      <3>2. ASSUME NEW d \in Collectors, Working(d)'
            PROVE  holder'[Filed[Image(d)']] = d
        <4>1. Working(d) /\ Image(d)' = Image(d) /\ holder[Filed[Image(d)]] = d
          BY <2>1, <3>2 DEF HoldsItsImage
        <4>2. Filed[Image(d)] \in Images
          BY <4>1, ImageHeld
        <4>3. Filed[Image(d)] = Filed[r.img] => r.by = d
          BY <2>3, <4>1, DeliveryAssumption DEF Grantable
        <4> QED
          BY <2>3, <3>1, <4>1, <4>2, <4>3
      <3> QED
        BY <3>2 DEF HoldsItsImage
    <2> QED
      BY <1>3, <2>2, <2>3 DEF Arrive, ArriveStatus, ArriveSend, ArriveMark
  <1>4. ASSUME NEW i \in Images, Lapse(i)
        PROVE  HoldsItsImage'
    <2>1. holder' = [holder EXCEPT ![i] = Nobody] /\ ~WorksOn(holder[i], i)
      BY <1>4, DeliveryAssumption DEF Lapse
    <2>2. ASSUME NEW d \in Collectors, Working(d)'
          PROVE  holder'[Filed[Image(d)']] = d
      <3>1. Working(d) /\ Image(d)' = Image(d)
        BY <1>4, <2>2 DEF Lapse
      <3>2. holder[Filed[Image(d)]] = d /\ Filed[Image(d)] \in Images
        BY <3>1, ImageHeld DEF HoldsItsImage
      <3>3. Filed[Image(d)] # i
        BY <2>1, <3>1, <3>2 DEF WorksOn
      <3> QED
        BY <2>1, <3>1, <3>2, <3>3
    <2> QED
      BY <2>2 DEF HoldsItsImage
  <1>5. ASSUME Rotate \/ UNCHANGED vars
        PROVE  HoldsItsImage'
    <2>1. UNCHANGED <<pc, todo, resume, holder>>
      BY <1>5 DEF Rotate, vars
    <2> QED
      BY <2>1, HoldsKept
  <1> QED
    BY <1>1, <1>2, <1>3, <1>4, <1>5 DEF Next

\* Two collectors, of whatever number, never scan or send the same image at the
\* same time, provided the agent lets no reservation in use expire.
THEOREM ScansAreExclusive ==
  ASSUME LapseMode # "anytime"
  PROVE  Spec => []OneWorkerPerImage
  <1>1. Init => TypeOK /\ HoldsItsImage
    BY InitType, HoldsInit
  <1>2. (TypeOK /\ HoldsItsImage) /\ [Next]_vars => (TypeOK /\ HoldsItsImage)'
    BY TypeStep, HoldsStep
  <1>3. HoldsItsImage => OneWorkerPerImage
    BY DEF HoldsItsImage, OneWorkerPerImage
  <1> QED
    BY <1>1, <1>2, <1>3, PTL DEF Spec

-----------------------------------------------------------------------------
(* No pod is dropped.                                                        *)

\* A worker's step, a failure of it or a restart.
LEMMA DroppedByNoWork ==
  ASSUME TypeOK, NEW c \in Collectors, Work(c) \/ Mishap(c),
         NEW d \in Collectors, NEW p \in Pods,
         InHand(d, p), Live(cache[d][p]), Wanted(cache[d][p])
  PROVE  InHand(d, p)'
  <1> USE DEF InHand, Goto, queueVars
  <1> /\ cur \in [Collectors -> Pods \cup {NoPod}]
      /\ entry \in [Collectors -> [Pods -> {"none", "ready", "backoff", "soon", "later"}]]
    BY DEF TypeOK, WorkerTypeOK, QueueTypeOK
  <1>1. CASE Finish(c)
    <2>1. cur[c] \in Pods
      BY <1>1, PodHeld DEF Finish
    <2>2. Result(c) # "none"
      BY DEF Result
    <2>3. CASE d = c /\ p = cur[c]
      BY <1>1, <2>1, <2>2, <2>3 DEF Finish
    <2>4. CASE d = c /\ p # cur[c]
      BY <1>1, <2>1, <2>4 DEF Finish
    <2>5. CASE d # c
      BY <1>1, <2>5 DEF Finish
    <2> QED
      BY <2>3, <2>4, <2>5
  <1>2. CASE Crash(c)
    <2>1. entry' = [entry EXCEPT ![c] = InitialEntries[c]]
      BY <1>2 DEF Crash
    <2>2. CASE d = c
      <3>1. entry'[d][p] = "ready"
        BY <2>1, <2>2 DEF InitialEntries, CreateFunc
      <3> QED
        BY <3>1
    <2>3. CASE d # c
      BY <1>2, <2>1, <2>3 DEF Crash
    <2> QED
      BY <2>2, <2>3
  <1>3. CASE ~Finish(c) /\ ~Crash(c)
    BY <1>3 DEF Work, Mishap, Reported, SkipImage, ReportNoDigest, StatusProcessed, StatusReserved,
       StatusGranted, Generate, GenerateFails, GetToken, Send, Mark, GenerateUntidy, CallFails,
       AnswerNotOK, workerVars
  <1> QED
    BY <1>1, <1>2, <1>3

\* The request of a pod is taken off the queue.
LEMMA DroppedByNoTake ==
  ASSUME TypeOK, NEW c \in Collectors, NEW q \in Pods, Take(c, q) \/ GetFails(c, q),
         NEW d \in Collectors, NEW p \in Pods, InHand(d, p), Live(cache[d][p])
  PROVE  InHand(d, p)'
  <1> USE DEF InHand
  <1> /\ cur \in [Collectors -> Pods \cup {NoPod}]
      /\ entry \in [Collectors -> [Pods -> {"none", "ready", "backoff", "soon", "later"}]]
    BY DEF TypeOK, WorkerTypeOK, QueueTypeOK
  <1>1. entry' = [entry EXCEPT ![c][q] = "none"] /\ cur[c] = NoPod
    BY DEF TypeOK, PassOK, Take, SkipPod, Begin, GetFails
  <1>2. CASE SkipPod(c, q)
    <2>1. UNCHANGED cur /\ ~(d = c /\ p = q)
      BY <1>2 DEF SkipPod, workerVars
    <2> QED
      BY <1>1, <2>1
  <1>3. CASE Begin(c, q) \/ GetFails(c, q)
    <2>1. cur' = [cur EXCEPT ![c] = q]
      BY <1>3 DEF Begin, GetFails
    <2>2. CASE d = c /\ p = q
      BY <2>1, <2>2
    <2>3. CASE d = c /\ p # q
      <3>1. cur[d] # p
        BY <1>1, <2>3, DeliveryAssumption
      <3> QED
        BY <1>1, <2>3, <3>1
    <2>4. CASE d # c
      BY <1>1, <2>1, <2>4
    <2> QED
      BY <2>2, <2>3, <2>4
  <1> QED
    BY <1>2, <1>3 DEF Take

\* A delay ends, or the informer has news.
LEMMA DroppedByNoEvent ==
  ASSUME TypeOK, NEW c \in Collectors, NEW q \in Pods, Due(c, q) \/ PodEvent(c, q),
         NEW d \in Collectors, NEW p \in Pods, InHand(d, p)
  PROVE  InHand(d, p)'
  <1>1. entry \in [Collectors -> [Pods -> {"none", "ready", "backoff", "soon", "later"}]]
    BY DEF TypeOK, QueueTypeOK
  <1>2. UNCHANGED cur /\ entry' \in {entry, [entry EXCEPT ![c][q] = "ready"]}
    BY DEF Due, PodEvent, workerVars
  <1> QED
    BY <1>1, <1>2 DEF InHand

\* Whatever fails or changes, a pod in a collector's hands that has started and is
\* to be looked after stays there, in the worker or in its work queue: no return of
\* Reconcile, no event that the predicate drops, no restart lets go of it.
THEOREM PodsAreKept == Spec => NoPodDropped
  <1>1. ASSUME TypeOK, [Next]_vars, NEW d \in Collectors, NEW p \in Pods,
               InHand(d, p), Live(cache[d][p]), Wanted(cache[d][p])
        PROVE  InHand(d, p)'
    <2>1. ASSUME NEW c \in Collectors, Work(c) \/ Mishap(c)
          PROVE  InHand(d, p)'
      BY <1>1, <2>1, DroppedByNoWork
    <2>2. ASSUME NEW c \in Collectors, NEW q \in Pods, Take(c, q) \/ GetFails(c, q)
          PROVE  InHand(d, p)'
      BY <1>1, <2>2, DroppedByNoTake
    <2>3. ASSUME NEW c \in Collectors, NEW q \in Pods, Due(c, q) \/ PodEvent(c, q)
          PROVE  InHand(d, p)'
      BY <1>1, <2>3, DroppedByNoEvent
    <2>4. ASSUME \/ \E r \in late : Arrive(r)
                 \/ \E k \in Images : Lapse(k)
                 \/ Rotate
                 \/ UNCHANGED vars
          PROVE  InHand(d, p)'
      BY <1>1, <2>4 DEF Arrive, Lapse, Rotate, vars, workerVars, queueVars, InHand
    <2> QED
      BY <1>1, <2>1, <2>2, <2>3, <2>4 DEF Next
  <1>2. TypeOK /\ [Next]_vars =>
          [\A c \in Collectors : \A p \in Pods :
             (InHand(c, p) /\ Live(cache[c][p]) /\ Wanted(cache[c][p])) => InHand(c, p)']_vars
    BY <1>1
  <1> QED
    BY <1>2, InitType, TypeStep, PTL DEF Spec, NoPodDropped

-----------------------------------------------------------------------------
(* Every superfluous SBOM is paid for with an answer that was lost.          *)
(*                                                                           *)
(* The unanswered sends and marks of an image pay for the SBOMs of it that   *)
(* were too many, for the sends of it that are still late, and for one more  *)
(* if it may be sent again: because a worker is on the way to, or because    *)
(* it has been received and nobody is about to mark it.                      *)

LateSends(k) == {r \in late : r.kind = "send" /\ Filed[r.img] = k}

Resending(c, k) == Working(c) /\ pc[c] # "mark" /\ Filed[name[c]] = k
Marking(c, k) == pc[c] = "mark" /\ Filed[name[c]] = k

Again(k) == /\ k \in delivered
            /\ \/ \E c \in Collectors : Resending(c, k)
               \/ k \notin processed /\ \A c \in Collectors : ~Marking(c, k)

Debt(k) == extra[k] + Cardinality(LateSends(k)) + (IF Again(k) THEN 1 ELSE 0)

ExtrasPaid ==
  /\ IsFiniteSet(late)
  /\ \A r \in late : r.no < faults
  /\ \A r \in late : r.kind = "mark" => unanswered[Filed[r.img]] > 0
  /\ \A k \in Images : Traced(k) => Debt(k) <= unanswered[k]

\* A worker that sends or marks as k has reserved k, if k is traced.
LEMMA TracedKey ==
  ASSUME TypeOK, NEW c \in Collectors, NEW k, Traced(k), Resending(c, k) \/ Marking(c, k)
  PROVE  Working(c) /\ Filed[Image(c)] = k
  <1>1. Working(c) /\ Filed[name[c]] = k
    BY DEF Resending, Marking, Working
  <1>2. Image(c) \in Images /\ name[c] \in Mirrors[Image(c)]
    BY <1>1, ImageHeld, NameHeld
  <1> QED
    BY <1>1, <1>2 DEF Traced

LEMMA PaidInit == Init => ExtrasPaid
  <1> SUFFICES ASSUME Init PROVE ExtrasPaid
    OBVIOUS
  <1>1. late = {} /\ IsFiniteSet({}) /\ Cardinality({}) = 0
    BY FS_EmptySet DEF Init
  <1>2. ASSUME NEW i \in Images, Traced(i)
        PROVE  Debt(i) <= unanswered[i]
    <2>1. LateSends(i) = {} /\ ~Again(i)
      BY <1>1 DEF LateSends, Again, Init
    <2> QED
      BY <1>1, <2>1 DEF Debt, Init
  <1> QED
    BY <1>1, <1>2 DEF ExtrasPaid

\* The terms of a debt are numbers.
LEMMA DebtType ==
  ASSUME TypeOK, IsFiniteSet(late), NEW i \in Images
  PROVE  /\ IsFiniteSet(LateSends(i))
         /\ Cardinality(LateSends(i)) \in Nat
         /\ extra[i] \in Nat
         /\ unanswered[i] \in Nat
  <1>1. IsFiniteSet(LateSends(i))
    BY FS_Subset DEF LateSends
  <1> QED
    BY <1>1, FS_CardinalityType DEF TypeOK, ObservedTypeOK

\* A step that makes no image more likely to be sent again.
LEMMA PaidKept ==
  ASSUME TypeOK, TypeOK', ExtrasPaid,
         UNCHANGED <<extra, unanswered, late>>, faults' >= faults,
         \A i \in Images : Traced(i) /\ Again(i)' => Again(i)
  PROVE  ExtrasPaid'
  <1>1. \A r \in late' : r.no < faults'
    <2>1. \A r \in late : r.no \in Nat /\ faults \in Nat /\ faults' \in Nat
      BY DEF TypeOK, PartiesTypeOK, ObservedTypeOK, Requests
    <2> QED
      BY <2>1 DEF ExtrasPaid
  <1>2. ASSUME NEW i \in Images, Traced(i)
        PROVE  Debt(i)' <= unanswered'[i]
    <2>1. LateSends(i)' = LateSends(i) /\ extra'[i] = extra[i] /\ unanswered'[i] = unanswered[i]
      BY DEF LateSends
    <2>2. /\ Cardinality(LateSends(i)) \in Nat /\ extra[i] \in Nat /\ unanswered[i] \in Nat
          /\ Debt(i) <= unanswered[i]
      BY <1>2, DebtType DEF ExtrasPaid
    <2> QED
      BY <1>2, <2>1, <2>2 DEF Debt
  <1> QED
    BY <1>1, <1>2 DEF ExtrasPaid

\* What a worker's step does to the others.
Alone(c) == \A d \in Collectors \ {c} : /\ pc'[d] = pc[d]
                                        /\ name'[d] = name[d]
                                        /\ resume'[d] = resume[d]

LEMMA AloneKeeps ==
  ASSUME NEW c \in Collectors, Alone(c), NEW d \in Collectors \ {c}, NEW i
  PROVE  /\ Resending(d, i)' <=> Resending(d, i)
         /\ Marking(d, i)' <=> Marking(d, i)
  BY DEF Alone, Resending, Marking, Working

\* No other worker sends or marks under a reference that one has reserved.
LEMMA HolderAlone ==
  ASSUME TypeOK, HoldsItsImage, NEW k, Traced(k),
         NEW c \in Collectors, holder[k] \in {Nobody, c},
         NEW d \in Collectors \ {c}
  PROVE  ~Resending(d, k) /\ ~Marking(d, k)
  <1> SUFFICES ASSUME Resending(d, k) \/ Marking(d, k)
               PROVE  FALSE
    OBVIOUS
  <1>1. Working(d) /\ Filed[Image(d)] = k
    BY TracedKey
  <1>2. holder[k] = d
    BY <1>1 DEF HoldsItsImage
  <1> QED
    BY <1>2, DeliveryAssumption

LEMMA PaidWork ==
  ASSUME TypeOK, TypeOK', HoldsItsImage, ExtrasPaid, NEW c \in Collectors, Work(c)
  PROVE  ExtrasPaid'
  <1> USE DEF Working, Goto, workerVars, queueVars, agentVars, outputVars, ghostVars
  <1> /\ pc \in [Collectors -> {"idle", "report", "next", "generate", "token", "send", "mark"}]
      /\ name \in [Collectors -> Images \cup {NoName}]
      /\ resume \in [Collectors -> {"next", "token"}]
      /\ faults \in Nat
    BY DEF TypeOK, WorkerTypeOK, ObservedTypeOK
  <1>1. CASE StatusGranted(c)
    <2>1. /\ UNCHANGED <<processed, delivered, extra, unanswered, late, faults>>
          /\ pc[c] = "next"
          /\ Image(c) \in Images
          /\ Filed[Image(c)] \notin processed
          /\ holder[Filed[Image(c)]] \in {Nobody, c}
      BY <1>1, ImageHeld DEF StatusGranted, AtImage, Grantable, SaysProcessed
    <2>2. Alone(c)
      BY <1>1 DEF StatusGranted, ReportAndSkip, NextImage, TakeUp, Alone
    <2>3. \A k : ~Marking(c, k)
      BY <2>1 DEF Marking
    <2>4. ASSUME NEW k, Resending(c, k)', Traced(k)
          PROVE  Filed[Image(c)] = k
      <3>1. CASE Class[Image(c)] = "badMirror"
        BY <1>1, <2>4, <3>1 DEF StatusGranted, ReportAndSkip, Resending
      <3>2. CASE Class[Image(c)] # "badMirror"
        <4>1. PICK m \in Mirrors[Image(c)] : name' = [name EXCEPT ![c] = m]
          BY <1>1, <3>2 DEF StatusGranted, TakeUp
        <4>2. Filed[m] = k
          BY <2>4, <4>1 DEF Resending
        <4> QED
          BY <2>1, <2>4, <4>2 DEF Traced
      <3> QED
        BY <3>1, <3>2
    <2>5. ASSUME NEW i \in Images, Traced(i), Again(i)'
          PROVE  Again(i)
      <3>1. CASE i = Filed[Image(c)]
        <4>1. \A d \in Collectors : ~Marking(d, i)
          BY <2>1, <2>3, <2>5, <3>1, HolderAlone
        <4> QED
          BY <2>1, <2>5, <3>1, <4>1 DEF Again
      <3>2. CASE i # Filed[Image(c)]
        <4>1. ~Resending(c, i)'
          BY <2>4, <2>5, <3>2
        <4> QED
          BY <2>1, <2>2, <2>3, <2>5, <4>1, AloneKeeps DEF Again
      <3> QED
        BY <3>1, <3>2
    <2> QED
      BY <2>1, <2>5, PaidKept
  <1>2. CASE Send(c)
    <2>0. Working(c)
      BY <1>2 DEF Send
    <2>3. PICK k \in Images : k = Filed[name[c]]
      BY <2>0, NameHeld
    <2>1. /\ Working(c) /\ pc[c] = "send" /\ pc'[c] = "mark"
          /\ \/ extra' = extra
             \/ k \in delivered /\ extra' = [extra EXCEPT ![k] = @ + 1]
          /\ delivered' = delivered \cup {k}
          /\ UNCHANGED <<name, resume, processed, unanswered, late, faults>>
      BY <1>2, <2>3 DEF Send, Receive
    <2>2. Alone(c)
      BY <1>2 DEF Send, Alone
    <2>4. Traced(k) => ~Again(k)'
      <3> SUFFICES ASSUME Traced(k) PROVE ~Again(k)'
        OBVIOUS
      <3>1. ~Resending(c, k)' /\ Marking(c, k)'
        BY <2>1, <2>3 DEF Resending, Marking
      <3>2. Resending(c, k)
        BY <2>1, <2>3 DEF Resending
      <3>3. holder[k] = c
        BY <3>2, TracedKey DEF HoldsItsImage
      <3>4. \A d \in Collectors \ {c} : ~Resending(d, k)'
        BY <2>2, <3>3, HolderAlone, AloneKeeps
      <3>5. \A d \in Collectors : ~Resending(d, k)'
        BY <3>1, <3>4
      <3>6. \E d \in Collectors : Marking(d, k)'
        BY <3>1
      <3> QED
        BY <3>5, <3>6 DEF Again
    <2>5. k \in delivered => Again(k)
      BY <2>1, <2>3 DEF Again, Resending
    <2>6. ASSUME NEW i \in Images, Traced(i)
          PROVE  Debt(i)' <= unanswered'[i]
      <3>1. /\ Cardinality(LateSends(i)) \in Nat /\ extra[i] \in Nat /\ unanswered[i] \in Nat
            /\ Debt(i) <= unanswered[i]
        BY <2>6, DebtType DEF ExtrasPaid
      <3>2. LateSends(i)' = LateSends(i)
        BY <2>1 DEF LateSends
      <3>3. CASE i = k
        <4>0. extra \in [Images -> Nat]
          BY DEF TypeOK, ObservedTypeOK
        <4>1. \/ extra'[i] = extra[i]
              \/ i \in delivered /\ extra'[i] = extra[i] + 1
          <5>1. CASE extra' = extra
            BY <5>1
          <5>2. CASE k \in delivered /\ extra' = [extra EXCEPT ![k] = @ + 1]
            BY <3>3, <4>0, <5>2
          <5> QED
            BY <2>1, <5>1, <5>2
        <4>2. ~Again(i)'
          BY <2>4, <2>6, <3>3
        <4> QED
          BY <2>1, <2>5, <3>1, <3>2, <3>3, <4>1, <4>2 DEF Debt
      <3>4. CASE i # k
        <4>1. extra'[i] = extra[i] /\ (i \in delivered' <=> i \in delivered)
          BY <2>1, <3>4 DEF TypeOK, ObservedTypeOK
        <4>2. ~Resending(c, i)' /\ ~Marking(c, i)
          BY <2>1, <2>3, <3>4 DEF Resending, Marking
        <4>3. Again(i)' => Again(i)
          BY <2>1, <2>2, <4>1, <4>2, AloneKeeps DEF Again
        <4> QED
          BY <2>1, <3>1, <3>2, <4>1, <4>3 DEF Debt
      <3> QED
        BY <3>3, <3>4
    <2> QED
      BY <2>1, <2>6 DEF ExtrasPaid, Traced
  <1>3. CASE Mark(c)
    <2>0. Working(c)
      BY <1>3 DEF Mark
    <2>5. PICK k \in Images : k = Filed[name[c]]
      BY <2>0, NameHeld
    <2>1. /\ Working(c) /\ pc[c] = "mark" /\ pc'[c] = "next"
          /\ processed' = processed \cup {k}
          /\ UNCHANGED <<delivered, extra, unanswered, late, faults>>
      BY <1>3, <2>5 DEF Mark
    <2>2. Alone(c)
      BY <1>3 DEF Mark, NextImage, Alone
    <2>3. \A i : ~Resending(c, i)'
      BY <2>1 DEF Resending
    <2>4. ASSUME NEW i \in Images, Traced(i), Again(i)'
          PROVE  Again(i)
      <3>1. CASE i = k
        <4>1. Marking(c, i)
          BY <2>1, <2>5, <3>1 DEF Marking
        <4>2. holder[i] = c
          BY <2>4, <4>1, TracedKey DEF HoldsItsImage
        <4>3. \A d \in Collectors : ~Resending(d, i)'
          BY <2>2, <2>3, <2>4, <4>2, HolderAlone, AloneKeeps
        <4> QED
          BY <2>1, <2>4, <3>1, <4>3 DEF Again
      <3>2. CASE i # k
        <4>1. ~Marking(c, i)
          BY <2>5, <3>2 DEF Marking
        <4>2. i \in processed' <=> i \in processed
          BY <2>1, <3>2
        <4>3. i \in delivered
          BY <2>1, <2>4 DEF Again
        <4>4. CASE \E d \in Collectors : Resending(d, i)'
          <5>1. PICK d \in Collectors : Resending(d, i)'
            BY <4>4
          <5>2. d # c
            BY <2>3, <5>1
          <5>3. Resending(d, i)
            BY <2>2, <5>1, <5>2, AloneKeeps
          <5> QED
            BY <4>3, <5>3 DEF Again
        <4>5. CASE i \notin processed' /\ \A d \in Collectors : ~Marking(d, i)'
          <5>1. \A d \in Collectors : ~Marking(d, i)
            BY <2>2, <4>1, <4>5, AloneKeeps
          <5> QED
            BY <4>2, <4>3, <4>5, <5>1 DEF Again
        <4> QED
          BY <2>4, <4>4, <4>5 DEF Again
      <3> QED
        BY <3>1, <3>2
    <2> QED
      BY <2>1, <2>4, PaidKept
  <1>4. CASE \/ Reported(c) \/ SkipImage(c) \/ ReportNoDigest(c) \/ StatusProcessed(c)
             \/ StatusReserved(c) \/ Generate(c) \/ GenerateFails(c) \/ GetToken(c) \/ Finish(c)
    <2>1. UNCHANGED <<processed, delivered, extra, unanswered, late>> /\ faults' >= faults
      BY <1>4 DEF Reported, SkipImage, ReportNoDigest, StatusProcessed, StatusReserved, Generate,
                  GenerateFails, GetToken, Finish, Fault
    <2>2. ASSUME NEW d \in Collectors
          PROVE  /\ pc'[d] = "mark" <=> pc[d] = "mark"
                 /\ Working(d)' => Working(d) /\ name'[d] = name[d]
                 /\ pc[d] = "mark" => name'[d] = name[d]
      BY <1>4 DEF Reported, SkipImage, ReportNoDigest, StatusProcessed, StatusReserved, Generate,
                  GenerateFails, GetToken, Finish, AtImage, ReportAndSkip, NextImage
    <2>3. ASSUME NEW i \in Images, Traced(i), Again(i)'
          PROVE  Again(i)
      BY <2>1, <2>2, <2>3 DEF Again, Resending, Marking
    <2> QED
      BY <2>1, <2>3, PaidKept
  <1> QED
    BY <1>1, <1>2, <1>3, <1>4 DEF Work

\* The request that stays behind is a new one.
LEMMA PaidEscape ==
  ASSUME TypeOK, TypeOK', ExtrasPaid, NEW c \in Collectors,
         NEW escaped \in SUBSET InFlight(c), late' = late \cup escaped, Loosened(c, escaped), Fault,
         Alone(c), ~Working(c)' \/ UNCHANGED <<pc, name, resume>>,
         UNCHANGED <<processed, delivered, extra>>
  PROVE  ExtrasPaid'
  <1> /\ pc \in [Collectors -> {"idle", "report", "next", "generate", "token", "send", "mark"}]
      /\ faults \in Nat
      /\ unanswered \in [Images -> Nat]
    BY DEF TypeOK, WorkerTypeOK, ObservedTypeOK
  <1>1. /\ \A r \in escaped : r.no = faults
        /\ \A r \in escaped : r.kind # "status" => r.kind = pc[c] /\ r.img = name[c]
        /\ \A q, r \in escaped : q = r
    BY InFlightType
  <1>2. faults' = faults + 1
    BY DEF Fault
  <1>3. IsFiniteSet(late')
    <2>1. CASE escaped = {}
      BY <2>1 DEF ExtrasPaid
    <2>2. ASSUME NEW r \in escaped
          PROVE  IsFiniteSet(late')
      <3>1. escaped = {r}
        BY <1>1
      <3> QED
        BY <3>1, FS_AddElement DEF ExtrasPaid
    <2> QED
      BY <2>1, <2>2
  <1>4. \A r \in late' : r.no < faults'
    <2>1. \A r \in late : r.no \in Nat
      BY DEF TypeOK, PartiesTypeOK, Requests
    <2> QED
      BY <1>1, <1>2, <2>1 DEF ExtrasPaid
  <1>5. Working(c) => Filed[name[c]] \in Images
    BY NameHeld
  <1>6. \A i \in Images : unanswered'[i] >= unanswered[i]
    BY DEF Loosened
  <1>7. ASSUME NEW r \in late', r.kind = "mark"
        PROVE  unanswered'[Filed[r.img]] > 0
    <2>1. CASE r \in late
      <3>1. Filed[r.img] \in Images /\ unanswered[Filed[r.img]] > 0
        BY <1>7, <2>1, DeliveryAssumption DEF ExtrasPaid, TypeOK, PartiesTypeOK, Requests
      <3> QED
        BY <1>6, <3>1 DEF TypeOK, ObservedTypeOK
    <2>2. CASE r \in escaped
      <3>1. pc[c] = "mark" /\ r.img = name[c]
        BY <1>1, <1>7, <2>2
      <3>2. Filed[name[c]] \in Images
        BY <1>5, <3>1 DEF Working
      <3> QED
        BY <3>1, <3>2 DEF Loosened
    <2> QED
      BY <2>1, <2>2
  <1>8. ASSUME NEW i \in Images, Traced(i)
        PROVE  Debt(i)' <= unanswered'[i]
    <2>1. /\ IsFiniteSet(LateSends(i))
          /\ Cardinality(LateSends(i)) \in Nat /\ extra[i] \in Nat /\ unanswered[i] \in Nat
          /\ Debt(i) <= unanswered[i]
      BY <1>8, DebtType DEF ExtrasPaid
    <2>2. Resending(c, i)' => Resending(c, i)
      BY DEF Resending, Working
    <2>3. CASE pc[c] = "mark" /\ Filed[name[c]] = i
      <3>1. unanswered'[i] = unanswered[i] + 1
        BY <2>3 DEF Loosened
      <3>2. LateSends(i)' = LateSends(i)
        BY <1>1, <2>3 DEF LateSends
      <3> QED
        BY <2>1, <3>1, <3>2 DEF Debt
    <2>4. CASE ~(pc[c] = "mark" /\ Filed[name[c]] = i)
      <3>1. Again(i)' => Again(i)
        <4>1. ~Marking(c, i)
          BY <2>4 DEF Marking
        <4> QED
          BY <2>2, <4>1, AloneKeeps DEF Again
      <3>2. CASE \E r \in escaped : r.kind = "send" /\ Filed[r.img] = i
        <4>1. PICK r \in escaped : r.kind = "send" /\ Filed[r.img] = i
          BY <3>2
        <4>2. escaped = {r} /\ r.no = faults /\ pc[c] = "send" /\ Filed[name[c]] = i
          BY <1>1, <4>1
        <4>3. r \notin LateSends(i)
          BY <4>2 DEF ExtrasPaid, LateSends
        <4>4. LateSends(i)' = LateSends(i) \cup {r}
          BY <4>1, <4>2 DEF LateSends
        <4>5. Cardinality(LateSends(i)') = Cardinality(LateSends(i)) + 1
          BY <2>1, <4>3, <4>4, FS_AddElement
        <4>6. unanswered'[i] = unanswered[i] + 1
          BY <4>2 DEF Loosened
        <4>7. Cardinality(LateSends(i))' = Cardinality(LateSends(i)) + 1 /\ extra'[i] = extra[i]
          BY <4>5
        <4> QED
          BY <2>1, <3>1, <4>6, <4>7 DEF Debt
      <3>3. CASE ~\E r \in escaped : r.kind = "send" /\ Filed[r.img] = i
        <4>1. LateSends(i)' = LateSends(i)
          BY <3>3 DEF LateSends
        <4>2. unanswered'[i] >= unanswered[i] /\ unanswered'[i] \in Nat /\ extra'[i] = extra[i]
          BY <1>6 DEF TypeOK, ObservedTypeOK
        <4> QED
          BY <2>1, <3>1, <4>1, <4>2 DEF Debt
      <3> QED
        BY <3>2, <3>3
    <2> QED
      BY <2>3, <2>4
  <1> QED
    BY <1>3, <1>4, <1>7, <1>8 DEF ExtrasPaid

LEMMA PaidMishap ==
  ASSUME TypeOK, TypeOK', ExtrasPaid, NEW c \in Collectors, Mishap(c)
  PROVE  ExtrasPaid'
  <1> USE DEF Goto, workerVars, queueVars, agentVars, outputVars, ghostVars
  <1> /\ pc \in [Collectors -> {"idle", "report", "next", "generate", "token", "send", "mark"}]
      /\ name \in [Collectors -> Images \cup {NoName}]
      /\ resume \in [Collectors -> {"next", "token"}]
      /\ faults \in Nat
    BY DEF TypeOK, WorkerTypeOK, ObservedTypeOK
  <1>1. CASE GenerateUntidy(c) \/ GenerateFails(c)
    <2>1. UNCHANGED <<processed, delivered, extra, unanswered, late>> /\ faults' >= faults
      BY <1>1 DEF GenerateUntidy, GenerateFails, Fault
    <2>2. ASSUME NEW d \in Collectors
          PROVE  /\ pc'[d] = "mark" <=> pc[d] = "mark"
                 /\ Working(d)' => Working(d) /\ name'[d] = name[d]
                 /\ pc[d] = "mark" => name'[d] = name[d]
      BY <1>1 DEF GenerateUntidy, GenerateFails, ReportAndSkip, NextImage, Working
    <2>3. ASSUME NEW i \in Images, Traced(i), Again(i)'
          PROVE  Again(i)
      BY <2>1, <2>2, <2>3 DEF Again, Resending, Marking
    <2> QED
      BY <2>1, <2>3, PaidKept
  <1>2. CASE CallFails(c) \/ Crash(c)
    <2>1. PICK escaped \in SUBSET InFlight(c) : late' = late \cup escaped /\ Loosened(c, escaped)
      BY <1>2 DEF CallFails, Crash
    <2>2. Fault /\ UNCHANGED <<processed, delivered, extra>>
      BY <1>2 DEF CallFails, Crash
    <2>3. Alone(c) /\ ~Working(c)'
      BY <1>2 DEF CallFails, Crash, ReportAndSkip, NextImage, Alone, Working
    <2> QED
      BY <2>1, <2>2, <2>3, PaidEscape
  <1>3. CASE AnswerNotOK(c)
    <2>1. /\ late' = late \cup InFlight(c)
          /\ Loosened(c, InFlight(c))
          /\ Fault
          /\ UNCHANGED <<pc, name, resume, processed, delivered, extra>>
      BY <1>3 DEF AnswerNotOK
    <2>2. Alone(c)
      BY <2>1 DEF Alone
    <2> QED
      BY <2>1, <2>2, PaidEscape
  <1> QED
    BY <1>1, <1>2, <1>3 DEF Mishap

\* A late request that arrives is late no more.
LEMMA PaidArrive ==
  ASSUME TypeOK, TypeOK', ExtrasPaid, NEW r \in late, Arrive(r)
  PROVE  ExtrasPaid'
  <1>1. late' = late \ {r} /\ UNCHANGED <<pc, name, resume, unanswered, faults>>
    BY DEF Arrive, workerVars
  <1>2. IsFiniteSet(late')
    BY <1>1, FS_RemoveElement DEF ExtrasPaid
  <1>3. ASSUME NEW i \in Images, Traced(i)
        PROVE  Debt(i)' <= unanswered'[i]
    <2>1. /\ IsFiniteSet(LateSends(i))
          /\ Cardinality(LateSends(i)) \in Nat /\ extra[i] \in Nat /\ unanswered[i] \in Nat
          /\ Debt(i) <= unanswered[i]
      BY <1>3, DebtType DEF ExtrasPaid
    <2>2. CASE r.kind = "send" /\ Filed[r.img] = i
      <3>1. LateSends(i)' = LateSends(i) \ {r} /\ r \in LateSends(i)
        BY <1>1, <2>2 DEF LateSends
      <3>2. Cardinality(LateSends(i)') = Cardinality(LateSends(i)) - 1
        BY <2>1, <3>1, FS_RemoveElement
      <3>3. Cardinality(LateSends(i))' = Cardinality(LateSends(i)) - 1
        BY <3>2
      <3>4. CASE r.tok # valid
        <4>1. UNCHANGED <<delivered, extra, processed>>
          BY <2>2, <3>4 DEF Arrive, ArriveStatus, ArriveSend, ArriveMark, agentVars
        <4>2. Again(i)' <=> Again(i)
          BY <1>1, <4>1 DEF Again, Resending, Marking, Working
        <4> QED
          BY <1>1, <2>1, <3>3, <4>1, <4>2 DEF Debt
      <3>5. CASE r.tok = valid
        <4>1. /\ UNCHANGED processed
              /\ delivered' = delivered \cup {i}
              /\ \/ extra' = extra
                 \/ i \in delivered /\ extra' = [extra EXCEPT ![i] = @ + 1]
          BY <2>2, <3>5 DEF Arrive, ArriveStatus, ArriveSend, ArriveMark, Receive, agentVars
        <4>2. CASE i \in delivered
          <5>1. extra'[i] \in {extra[i], extra[i] + 1}
            BY <4>1, <4>2 DEF TypeOK, ObservedTypeOK
          <5>2. Again(i)' <=> Again(i)
            BY <1>1, <4>1, <4>2 DEF Again, Resending, Marking, Working
          <5> QED
            BY <1>1, <2>1, <3>3, <5>1, <5>2 DEF Debt
        <4>3. CASE i \notin delivered
          <5>1. ~Again(i) /\ extra'[i] = extra[i]
            BY <4>1, <4>3 DEF Again
          <5> QED
            BY <1>1, <2>1, <3>3, <5>1 DEF Debt
        <4> QED
          BY <4>2, <4>3
      <3> QED
        BY <3>4, <3>5
    <2>3. CASE ~(r.kind = "send" /\ Filed[r.img] = i)
      <3>1. LateSends(i)' = LateSends(i)
        BY <1>1, <2>3 DEF LateSends
      <3>2. extra'[i] = extra[i] /\ (i \in delivered' <=> i \in delivered) /\ processed \subseteq processed'
        BY <2>3 DEF Arrive, ArriveStatus, ArriveSend, ArriveMark, Receive, agentVars, TypeOK, ObservedTypeOK
      <3>3. Again(i)' => Again(i)
        BY <1>1, <3>2 DEF Again, Resending, Marking, Working
      <3> QED
        BY <1>1, <2>1, <3>1, <3>2, <3>3 DEF Debt
    <2> QED
      BY <2>2, <2>3
  <1> QED
    BY <1>1, <1>2, <1>3 DEF ExtrasPaid

LEMMA PaidStep ==
  ASSUME TypeOK, TypeOK', HoldsItsImage, ExtrasPaid, [Next]_vars
  PROVE  ExtrasPaid'
  <1> USE DEF Goto, workerVars, queueVars, agentVars, outputVars, ghostVars
  <1> /\ pc \in [Collectors -> {"idle", "report", "next", "generate", "token", "send", "mark"}]
      /\ resume \in [Collectors -> {"next", "token"}]
      /\ faults \in Nat
    BY DEF TypeOK, WorkerTypeOK, ObservedTypeOK
  <1>1. ASSUME NEW c \in Collectors, Work(c) \/ Mishap(c)
        PROVE  ExtrasPaid'
    BY <1>1, PaidWork, PaidMishap
  <1>2. ASSUME \/ \E c \in Collectors, p \in Pods :
                    Take(c, p) \/ GetFails(c, p) \/ Due(c, p) \/ PodEvent(c, p)
               \/ \E i \in Images : Lapse(i)
               \/ Rotate
               \/ UNCHANGED vars
        PROVE  ExtrasPaid'
    <2>1. UNCHANGED <<processed, delivered, extra, unanswered, late>> /\ faults' >= faults
      BY <1>2 DEF Take, SkipPod, Begin, GetFails, Due, PodEvent, Lapse, Rotate, Fault, vars
    <2>2. ASSUME NEW d \in Collectors
          PROVE  /\ pc'[d] = "mark" <=> pc[d] = "mark"
                 /\ Working(d)' => Working(d) /\ name'[d] = name[d]
                 /\ pc[d] = "mark" => name'[d] = name[d]
      <3>1. CASE \E c \in Collectors, p \in Pods : Begin(c, p) \/ GetFails(c, p)
        <4>1. PICK c \in Collectors, p \in Pods : Begin(c, p) \/ GetFails(c, p)
          BY <3>1
        <4>2. pc[c] = "idle" /\ pc'[c] \in {"next", "report"} /\ resume'[c] = "next"
          BY <4>1 DEF Begin, GetFails
        <4>3. name' = name /\ (d # c => pc'[d] = pc[d] /\ resume'[d] = resume[d])
          BY <4>1, <4>2 DEF Begin, GetFails, TypeOK, WorkerTypeOK
        <4> QED
          BY <4>2, <4>3 DEF Working
      <3>2. CASE UNCHANGED <<pc, name, resume>>
        BY <3>2 DEF Working
      <3> QED
        BY <1>2, <3>1, <3>2 DEF Take, SkipPod, Due, PodEvent, Lapse, Rotate, vars
    <2>3. ASSUME NEW i \in Images, Traced(i), Again(i)'
          PROVE  Again(i)
      BY <2>1, <2>2, <2>3 DEF Again, Resending, Marking
    <2> QED
      BY <2>1, <2>3, PaidKept
  <1>3. ASSUME NEW r \in late, Arrive(r)
        PROVE  ExtrasPaid'
    BY <1>3, PaidArrive
  <1> QED
    BY <1>1, <1>2, <1>3 DEF Next

\* However many collectors, crashes, late requests and expired reservations there
\* are, and whatever mirrors the agent names, the output gets at most one SBOM too
\* many of an image for each send or mark of it that was left without its answer, and
\* none if there was no such, provided that what the agent files under that
\* reference is what is reserved under it.
THEOREM DuplicatesAreExplained ==
  ASSUME LapseMode # "anytime"
  PROVE  Spec => []OneExtraPerLostAnswer
  <1> DEFINE IInv == TypeOK /\ HoldsItsImage /\ ExtrasPaid
  <1>1. Init => IInv
    BY InitType, HoldsInit, PaidInit
  <1>2. IInv /\ [Next]_vars => IInv'
    BY TypeStep, HoldsStep, PaidStep
  <1>3. IInv => OneExtraPerLostAnswer
    <2> SUFFICES ASSUME TypeOK, ExtrasPaid, NEW i \in Images, Traced(i)
                 PROVE  extra[i] <= unanswered[i]
      BY DEF OneExtraPerLostAnswer
    <2> QED
      BY DebtType DEF ExtrasPaid, Debt
  <1> QED
    BY <1>1, <1>2, <1>3, PTL DEF Spec

\* An answer that was lost is a fault.
LossesAreFaults == faults \in 0..MaxFaults /\ \A i \in Images : unanswered[i] <= faults

LEMMA LossesStep ==
  ASSUME TypeOK, LossesAreFaults, [Next]_vars
  PROVE  LossesAreFaults'
  <1>1. unanswered \in [Images -> Nat] /\ faults \in Nat /\ MaxFaults \in Nat
    BY DeliveryAssumption DEF TypeOK, ObservedTypeOK
  <1>2. CASE UNCHANGED unanswered /\ (faults' = faults \/ Fault)
    BY <1>1, <1>2 DEF LossesAreFaults, Fault
  <1>3. ASSUME NEW c \in Collectors, NEW escaped, Loosened(c, escaped), Fault
        PROVE  LossesAreFaults'
    <2>1. \A i \in Images : unanswered'[i] <= unanswered[i] + 1
      BY <1>1, <1>3 DEF Loosened
    <2> QED
      BY <1>1, <1>3, <2>1 DEF LossesAreFaults, Fault, Loosened
  <1>4. ASSUME NEW c \in Collectors, Work(c)
        PROVE  LossesAreFaults'
    BY <1>2, <1>4 DEF Work, Reported, SkipImage, ReportNoDigest, StatusProcessed, ghostVars,
       StatusReserved, StatusGranted, Generate, GenerateFails, GetToken, Send, Mark, Finish
  <1>5. ASSUME NEW c \in Collectors, Mishap(c)
        PROVE  LossesAreFaults'
    <2>1. CASE GenerateUntidy(c) \/ GenerateFails(c)
      BY <1>2, <2>1 DEF GenerateUntidy, GenerateFails, ghostVars
    <2>2. CASE CallFails(c) \/ AnswerNotOK(c) \/ Crash(c)
      BY <1>3, <2>2 DEF CallFails, AnswerNotOK, Crash
    <2> QED
      BY <1>5, <2>1, <2>2 DEF Mishap
  <1>6. CASE \/ \E c \in Collectors, p \in Pods :
                  Take(c, p) \/ GetFails(c, p) \/ Due(c, p) \/ PodEvent(c, p)
             \/ \E r \in late : Arrive(r)
             \/ \E i \in Images : Lapse(i)
             \/ Rotate
             \/ UNCHANGED vars
    BY <1>2, <1>6 DEF Take, SkipPod, Begin, GetFails, Due, PodEvent, Arrive, Lapse, Rotate, vars,
       ghostVars
  <1> QED
    BY <1>4, <1>5, <1>6 DEF Next

\* README.md's "each image is processed only once across the cluster", as far as it
\* goes: as long as no call, scan or process has failed, however pods change, tokens are
\* rotated and unused reservations expire, the output gets no image a second time that
\* the agent files apart from those reserved under another reference.
THEOREM OnceWithoutFaults ==
  ASSUME LapseMode # "anytime"
  PROVE  Spec => [](faults = 0 => \A k \in Images : Traced(k) => extra[k] = 0)
  <1> DEFINE IInv == TypeOK /\ LossesAreFaults
  <1> DEFINE Once == faults = 0 => \A k \in Images : Traced(k) => extra[k] = 0
  <1>1. Init => IInv
    <2>1. Init => LossesAreFaults
      BY DeliveryAssumption DEF Init, LossesAreFaults
    <2> QED
      BY <2>1, InitType
  <1>2. IInv /\ [Next]_vars => IInv'
    BY TypeStep, LossesStep
  <1>3. IInv /\ OneExtraPerLostAnswer => Once
    BY DEF LossesAreFaults, OneExtraPerLostAnswer, TypeOK, ObservedTypeOK
  <1>4. Spec => []OneExtraPerLostAnswer
    BY DuplicatesAreExplained
  <1> QED
    BY <1>1, <1>2, <1>3, <1>4, PTL DEF Spec
=============================================================================
