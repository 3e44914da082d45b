------------------------------ MODULE Delivery ------------------------------
(***************************************************************************)
(* The path of an SBOM: the collectors' reconcile workers                  *)
(* (internal/controllers/watcher.go), the service that sends an SBOM and   *)
(* marks its image (internal/service/service.go), the clients' retry loops *)
(* (internal/clients), the blocking error report (pkg/logger), and, as     *)
(* external parties, the agent's image cache, the output, the network and  *)
(* controller-runtime's work queue.                                        *)
(*                                                                         *)
(* A request answered with a status other than 200 is repeated after a     *)
(* pause, without limit: a repetition that reached nobody is a stuttering  *)
(* step here, one whose first copy is still under way is AnswerNotOK.      *)
(***************************************************************************)
EXTENDS Naturals, Sequences, FiniteSets

CONSTANTS
  Collectors,        \* collector processes, each with one reconcile worker
  Images,            \* canonical image references (name and digest)
  Pods,
  Watched,           \* Watched[c]: the pods collector c's informer delivers
  Contents,          \* what a pod may look like in a collector's cache
  Class,             \* Class[i]: what the code will find out about image i
  Mirrors,           \* Mirrors[i]: what a grant of i names: i, or a mirror of it
  Filed,             \* Filed[i]: the reference under which the agent files i
  AgentKnowsCaller,  \* does the agent grant a reservation to its holder again?
  LapseMode,         \* when the agent's reservations may expire
  Nobody, NoPod, NoName,
  MaxFaults,         \* bound: lost answers, failed scans and crashes
  MaxEvents,         \* bound: changes of the pods
  MaxRotations,      \* bound: rotations of the API token
  MaxExtra           \* bound: SBOMs counted of an image after the first

(***************************************************************************)
(* "scan"      an image to be scanned                                      *)
(* "noPull"    its registry never lets the collector pull it               *)
(* "badMirror" the agent names a mirror that does not parse                *)
(* "excluded"  from an excluded registry or with an excluded name          *)
(* "noDigest"  its image ID carries no digest                              *)
(* "unlisted"  its reference does not parse, it is left out of the listing *)
(***************************************************************************)
Classes == {"scan", "noPull", "badMirror", "excluded", "noDigest", "unlisted"}

\* "aks": a pod AKS manages; "stub": stripped by the cache's transform.
PodStates == {"live", "aks", "stub", "gone"}

\* A pod in the cache: "whole" once it has started and all its image IDs are
\* known; "shows" is its phase, conditions and image IDs, as one token.
PodContents == [state : PodStates, whole : BOOLEAN, shows : Nat, images : Seq(Images)]
Gone == [state |-> "gone", whole |-> FALSE, shows |-> 0, images |-> <<>>]

ASSUME DeliveryAssumption ==
  /\ Watched \in [Collectors -> SUBSET Pods]
  /\ Contents \subseteq PodContents
  /\ Class \in [Images -> Classes]
  /\ Mirrors \in [Images -> (SUBSET Images) \ {{}}]
  /\ Filed \in [Images -> Images]
  /\ AgentKnowsCaller \in BOOLEAN
  /\ LapseMode \in {"never", "unused", "anytime"}
  /\ Nobody \notin Collectors
  /\ NoPod \notin Pods /\ NoName \notin Images
  /\ MaxFaults \in Nat /\ MaxEvents \in Nat /\ MaxRotations \in Nat /\ MaxExtra \in Nat

VARIABLES
  \* The worker of each collector.
  pc,         \* where Reconcile stands
  cur,        \* the pod being reconciled
  todo,       \* its images not yet dealt with, the current one first
  name,       \* the reference of the current image once it is granted
  failed,     \* processingErrors # nil
  waiting,    \* imagesReservedByOtherCollectors > 0
  resume,     \* where Reconcile goes on once an error has been reported
  token,      \* the API token SendSBOM holds
  \* The collector's informer cache and work queue.
  cache, entry,
  \* The agent's image cache, by the references it files.
  processed, holder,
  \* The output: the images, as the agent files them, it has an SBOM of, and
  \* the token it accepts.
  delivered, valid,
  \* Requests without an answer that may still arrive.
  late,
  \* The bounded counters.
  faults, events,
  \* Observations, never read by the program.
  extra,      \* extra[k]: SBOMs of an image filed as k received after the first,
              \* counted to MaxExtra
  unanswered, \* unanswered[k]: sends and marks of it that were left without an answer
  owed        \* owed[c][p]: the images the last pass over p listed and did not
              \* give up, for a mirror that does not parse or a failed scan

workerVars == <<pc, cur, todo, name, failed, waiting, resume, token>>
queueVars  == <<cache, entry>>
agentVars  == <<processed, holder>>
outputVars == <<delivered, valid>>
ghostVars  == <<extra, unanswered, owed>>
vars == <<workerVars, queueVars, agentVars, outputVars, late, faults, events, ghostVars>>

-----------------------------------------------------------------------------
(* Helpers *)

Image(c) == Head(todo[c])

\* Pods whose request Reconcile does more than look up.
Live(content) == content.state = "live"

\* The pod predicate: a pod that has started, with all its image IDs known, and
\* that the filters let through, is reconciled when the initial list has it or
\* when what it shows has changed; a later creation and a deletion are not.
Wanted(content) == content.state \in {"live", "aks"} /\ content.whole
CreateFunc(content, initial) == initial /\ Wanted(content)
UpdateFunc(old, new) == Wanted(new) /\ old.shows # new.shows
Passes(old, new) == /\ new.state # "gone"
                    /\ IF old.state = "gone" THEN CreateFunc(new, FALSE) ELSE UpdateFunc(old, new)

InSeq(i, s) == \E k \in 1..Len(s) : s[k] = i

\* Has every image of a pod a reference that parses?
AllListed(s) == \A i \in Images : InSeq(i, s) => Class[i] # "unlisted"

\* Collector c is between the grant of its image and the end of its work on it.
Working(c) == \/ pc[c] \in {"generate", "token", "send", "mark"}
              \/ pc[c] = "report" /\ resume[c] = "token"

\* It works on an image whose reservation the agent files as k.
WorksOn(c, k) == Working(c) /\ Filed[Image(c)] = k

\* Images Reconcile asks the agent about.
Candidate(i) == Class[i] \notin {"excluded", "noDigest", "unlisted"}

\* A request; "no" tells apart the copies of it that faults leave on the wire.
Requests == [kind : {"status", "send", "mark"}, by : Collectors, img : Images, tok : Nat, no : Nat]

\* The request collector c has on the wire, if any.
InFlight(c) ==
  {[kind |-> k, by |-> c, img |-> IF k = "status" THEN Image(c) ELSE name[c],
    tok |-> token[c], no |-> faults] :
     k \in (IF pc[c] = "next" /\ todo[c] # <<>> /\ Candidate(Image(c)) THEN {"status"}
            ELSE IF pc[c] \in {"send", "mark"} THEN {pc[c]}
            ELSE {})}

Goto(c, label) == pc' = [pc EXCEPT ![c] = label]
NextImage(c) == /\ todo' = [todo EXCEPT ![c] = Tail(@)]
                /\ name' = [name EXCEPT ![c] = NoName]

\* Mutated form: an image that failed is tried again in the same pass.
ReportAndTryAgain(c) == /\ Goto(c, "report")
                        /\ resume' = [resume EXCEPT ![c] = "next"]
                        /\ name' = [name EXCEPT ![c] = NoName]
                        /\ UNCHANGED todo

\* Mutated form: what follows the report is left as it was for an earlier one.
ReportAndSkipStale(c) == /\ Goto(c, "report")
                         /\ UNCHANGED resume
                         /\ NextImage(c)

\* ReportError, then the next image.
ReportAndSkip(c) == /\ Goto(c, "report")
                    /\ resume' = [resume EXCEPT ![c] = "next"]
                    /\ NextImage(c)

Fault == /\ faults < MaxFaults
         /\ faults' = faults + 1

-----------------------------------------------------------------------------
(* The initial state: every informer has delivered its initial list. *)

InitialEntries == [c \in Collectors |-> [p \in Pods |->
                     IF CreateFunc(cache[c][p], TRUE) THEN "ready" ELSE "none"]]

Init ==
  /\ pc = [c \in Collectors |-> "idle"]
  /\ cur = [c \in Collectors |-> NoPod]
  /\ todo = [c \in Collectors |-> <<>>]
  /\ name = [c \in Collectors |-> NoName]
  /\ failed = [c \in Collectors |-> FALSE]
  /\ waiting = [c \in Collectors |-> FALSE]
  /\ resume = [c \in Collectors |-> "next"]
  /\ token = [c \in Collectors |-> 0]
  /\ cache \in [Collectors -> [Pods -> Contents \cup {Gone}]]
  /\ \A c \in Collectors, p \in Pods : p \notin Watched[c] => cache[c][p] = Gone
  /\ entry = InitialEntries
  /\ processed = {}
  /\ holder = [i \in Images |-> Nobody]
  /\ delivered = {}
  /\ valid = 0
  /\ late = {}
  /\ faults = 0
  /\ events = 0
  /\ extra = [i \in Images |-> 0]
  /\ unanswered = [i \in Images |-> 0]
  /\ owed = [c \in Collectors |-> [p \in Pods |-> {}]]

-----------------------------------------------------------------------------
(* Reconcile: from the request to the loop over the pod's images. *)

\* The request is taken off the queue and its pod is gone, stripped or AKS's own.
SkipPod(c, p) ==
  /\ pc[c] = "idle"
  /\ entry[c][p] = "ready"
  /\ ~Live(cache[c][p])
  /\ entry' = [entry EXCEPT ![c][p] = "none"]
  /\ UNCHANGED <<workerVars, cache, agentVars, outputVars, late, faults, events, ghostVars>>

\* The request is taken off the queue and the pod's images are listed. Images
\* that the listing leaves out are reported here; the loop passes over them.
\* A trouble with the pull secrets is reported here too.
Begin(c, p) ==
  /\ pc[c] = "idle"
  /\ entry[c][p] = "ready"
  /\ Live(cache[c][p])
  /\ LET images == cache[c][p].images IN
     /\ todo' = [todo EXCEPT ![c] = images]
     /\ \/ AllListed(images) /\ Goto(c, "next")
        \/ Goto(c, "report")
  /\ entry' = [entry EXCEPT ![c][p] = "none"]
  /\ cur' = [cur EXCEPT ![c] = p]
  /\ resume' = [resume EXCEPT ![c] = "next"]
  /\ owed' = [owed EXCEPT ![c][p] = {i \in Images : InSeq(i, cache[c][p].images) /\ Candidate(i)}]
  /\ UNCHANGED <<name, failed, waiting, token, cache, agentVars, outputVars, late, faults, events,
                 extra, unanswered>>

\* The pod cannot be read: reported, and returned for a retry with backoff.
GetFails(c, p) ==
  /\ pc[c] = "idle"
  /\ entry[c][p] = "ready"
  /\ Fault
  /\ entry' = [entry EXCEPT ![c][p] = "none"]
  /\ cur' = [cur EXCEPT ![c] = p]
  /\ failed' = [failed EXCEPT ![c] = TRUE]
  /\ Goto(c, "report")
  /\ resume' = [resume EXCEPT ![c] = "next"]
  /\ UNCHANGED <<todo, name, waiting, token, cache, agentVars, outputVars, late, events, ghostVars>>

\* ReportError returns, its report sent or given up.
Reported(c) ==
  /\ pc[c] = "report"
  /\ Goto(c, resume[c])
  /\ UNCHANGED <<cur, todo, name, failed, waiting, resume, token, queueVars, agentVars, outputVars,
                 late, faults, events, ghostVars>>

-----------------------------------------------------------------------------
(* Reconcile: the loop over the images, up to the scan. *)

AtImage(c) == pc[c] = "next" /\ todo[c] # <<>>

SkipImage(c) ==
  /\ AtImage(c)
  /\ Class[Image(c)] \in {"excluded", "unlisted"}
  /\ NextImage(c)
  /\ UNCHANGED <<pc, cur, failed, waiting, resume, token, queueVars, agentVars, outputVars,
                 late, faults, events, ghostVars>>

ReportNoDigest(c) ==
  /\ AtImage(c)
  /\ Class[Image(c)] = "noDigest"
  /\ ReportAndSkip(c)
  /\ UNCHANGED <<cur, failed, waiting, token, queueVars, agentVars, outputVars, late, faults,
                 events, ghostVars>>

\* What the agent answers collector c about image i.
SaysProcessed(i) == Filed[i] \in processed
Grantable(c, i) == /\ ~SaysProcessed(i)
                   /\ \/ holder[Filed[i]] = Nobody
                      \/ AgentKnowsCaller /\ holder[Filed[i]] = c
SaysReserved(c, i) == ~SaysProcessed(i) /\ ~Grantable(c, i)

\* The image is scanned next, under its own name or that of the mirror the answer gives.
TakeUp(c) == /\ Goto(c, "generate")
             /\ \E m \in Mirrors[Image(c)] : name' = [name EXCEPT ![c] = m]

\* Mutated form: the answer that an image is processed is not looked at.
StatusProcessedIgnored(c) ==
  /\ AtImage(c)
  /\ Candidate(Image(c))
  /\ SaysProcessed(Image(c))
  /\ TakeUp(c)
  /\ UNCHANGED <<cur, todo, failed, waiting, resume, token, queueVars, agentVars, outputVars,
                 late, faults, events, ghostVars>>

StatusProcessed(c) ==
  /\ AtImage(c)
  /\ Candidate(Image(c))
  /\ SaysProcessed(Image(c))
  /\ NextImage(c)
  /\ UNCHANGED <<pc, cur, failed, waiting, resume, token, queueVars, agentVars, outputVars,
                 late, faults, events, ghostVars>>

\* Mutated form: the answer that an image is reserved is not looked at.
StatusReservedIgnored(c) ==
  /\ AtImage(c)
  /\ Candidate(Image(c))
  /\ SaysReserved(c, Image(c))
  /\ TakeUp(c)
  /\ UNCHANGED <<cur, todo, failed, waiting, resume, token, queueVars, agentVars, outputVars,
                 late, faults, events, ghostVars>>

StatusReserved(c) ==
  /\ AtImage(c)
  /\ Candidate(Image(c))
  /\ SaysReserved(c, Image(c))
  /\ waiting' = [waiting EXCEPT ![c] = TRUE]
  /\ NextImage(c)
  /\ UNCHANGED <<pc, cur, failed, resume, token, queueVars, agentVars, outputVars, late,
                 faults, events, ghostVars>>

\* What the pass over its pod need no longer deliver.
GiveUp(c) == owed' = [owed EXCEPT ![c][cur[c]] = @ \ {Image(c)}]

\* The agent reserves the image for this collector, which goes on to scan it
\* under the name of the mirror the answer gives, if it gives one that parses.
StatusGranted(c) ==
  /\ AtImage(c)
  /\ Candidate(Image(c))
  /\ Grantable(c, Image(c))
  /\ holder' = [holder EXCEPT ![Filed[Image(c)]] = c]
  /\ \/ /\ Class[Image(c)] = "badMirror"
        /\ ReportAndSkip(c)
        /\ GiveUp(c)
     \/ /\ Class[Image(c)] # "badMirror"
        /\ TakeUp(c)
        /\ UNCHANGED <<todo, resume, owed>>
  /\ UNCHANGED <<cur, failed, waiting, token, queueVars, processed, outputVars, late, faults,
                 events, extra, unanswered>>

-----------------------------------------------------------------------------
(* Reconcile: the scan, and SendImageSBOM. *)

Generate(c) ==
  /\ pc[c] = "generate"
  /\ Class[name[c]] # "noPull"
  /\ Goto(c, "token")
  /\ UNCHANGED <<cur, todo, name, failed, waiting, resume, token, queueVars, agentVars, outputVars,
                 late, faults, events, ghostVars>>

\* An SBOM, and an error from the cleanup after it: reported, and sent all the same.
GenerateUntidy(c) ==
  /\ pc[c] = "generate"
  /\ Class[name[c]] # "noPull"
  /\ Fault
  /\ Goto(c, "report")
  /\ resume' = [resume EXCEPT ![c] = "token"]
  /\ UNCHANGED <<cur, todo, name, failed, waiting, token, queueVars, agentVars, outputVars, late,
                 events, ghostVars>>

\* No SBOM, unauthorized or otherwise: reported, and not counted as an error
\* that makes the pod come back soon.
GenerateFails(c) ==
  /\ pc[c] = "generate"
  /\ IF Class[name[c]] = "noPull" THEN UNCHANGED faults ELSE Fault
  /\ GiveUp(c)
  /\ ReportAndSkip(c)
  /\ UNCHANGED <<cur, failed, waiting, token, queueVars, agentVars, outputVars, late, events,
                 extra, unanswered>>

\* GetAPIToken.
\* Mutated form: the image is marked before its SBOM is sent.
MarkBeforeSend(c) ==
  /\ pc[c] = "token"
  /\ token' = [token EXCEPT ![c] = valid]
  /\ Goto(c, "mark")
  /\ UNCHANGED <<cur, todo, name, failed, waiting, resume, queueVars, agentVars, outputVars, late,
                 faults, events, ghostVars>>

GetToken(c) ==
  /\ pc[c] = "token"
  /\ token' = [token EXCEPT ![c] = valid]
  /\ Goto(c, "send")
  /\ UNCHANGED <<cur, todo, name, failed, waiting, resume, queueVars, agentVars, outputVars, late,
                 faults, events, ghostVars>>

\* The output takes an SBOM of the image named m.
Receive(m) ==
  LET k == Filed[m]
  IN /\ delivered' = delivered \cup {k}
     /\ extra' = IF k \in delivered /\ extra[k] < MaxExtra THEN [extra EXCEPT ![k] = @ + 1]
                                                            ELSE extra

\* Mutated form: a sent image is not marked.
SendUnmarked(c) ==
  /\ pc[c] = "send"
  /\ token[c] = valid
  /\ Receive(name[c])
  /\ Goto(c, "next")
  /\ NextImage(c)
  /\ UNCHANGED <<cur, failed, waiting, resume, token, queueVars, agentVars, valid, late,
                 faults, events, unanswered, owed>>

\* SendSBOM, answered with 200. With a token the output does not accept (any
\* more) the answer is another one, and the same request is sent again.
Send(c) ==
  /\ pc[c] = "send"
  /\ token[c] = valid
  /\ Receive(name[c])
  /\ Goto(c, "mark")
  /\ UNCHANGED <<cur, todo, name, failed, waiting, resume, token, queueVars, agentVars, valid, late,
                 faults, events, unanswered, owed>>

\* MarkProcessedImage, answered with 200.
Mark(c) ==
  /\ pc[c] = "mark"
  /\ processed' = processed \cup {Filed[name[c]]}
  /\ Goto(c, "next")
  /\ NextImage(c)
  /\ UNCHANGED <<cur, failed, waiting, resume, token, queueVars, holder, outputVars, late,
                 faults, events, ghostVars>>

-----------------------------------------------------------------------------
(* Requests without a usable answer, and the end of a pass. *)

\* A send may have arrived, or a mark may not have, unknown to the collector.
Loosened(c, escaped) ==
  unanswered' = IF pc[c] = "mark" \/ (pc[c] = "send" /\ escaped # {})
                  THEN [unanswered EXCEPT ![Filed[name[c]]] = @ + 1] ELSE unanswered

\* What is done with the error of a call.
\* Mutated form: the error is reported, and not appended to processingErrors.
AppendErrorLost(c) == UNCHANGED failed
AppendError(c) == failed' = [failed EXCEPT ![c] = TRUE]

\* The call ends with a transport error, or with an answer that cannot be
\* decoded. The request may have escaped, to arrive at once, later or never.
CallFails(c) ==
  /\ InFlight(c) # {} \/ pc[c] = "token"
  /\ Fault
  /\ \E escaped \in SUBSET InFlight(c) :
       /\ late' = late \cup escaped
       /\ Loosened(c, escaped)
  /\ AppendError(c)
  /\ ReportAndSkip(c)
  /\ UNCHANGED <<cur, waiting, token, queueVars, agentVars, outputVars, events, extra,
                 owed>>

\* An answer other than 200 to a request that is not lost: it is repeated.
AnswerNotOK(c) ==
  /\ InFlight(c) # {}
  /\ Fault
  /\ late' = late \cup InFlight(c)
  /\ Loosened(c, InFlight(c))
  /\ UNCHANGED <<workerVars, queueVars, agentVars, outputVars, events, extra, owed>>

\* The result of Reconcile: an error, a short delay or the default one.
\* Mutated form: an error is only reported, the pod is not retried.
ResultWithoutRetry(c) == IF failed[c] THEN "none"
                         ELSE IF waiting[c] THEN "soon" ELSE "later"
\* Mutated form: a pass without an error is the last one.
ResultWithoutRequeue(c) == IF failed[c] THEN "backoff"
                           ELSE IF waiting[c] THEN "soon" ELSE "none"
Result(c) == IF failed[c] THEN "backoff" ELSE IF waiting[c] THEN "soon" ELSE "later"

\* Reconcile returns. The work queue keeps one entry per pod: an event that
\* came during the pass has made it ready, which the delay does not undo.
Finish(c) ==
  /\ pc[c] = "next"
  /\ todo[c] = <<>>
  /\ entry' = [entry EXCEPT ![c][cur[c]] = IF @ = "none" THEN Result(c) ELSE @]
  /\ Goto(c, "idle")
  /\ cur' = [cur EXCEPT ![c] = NoPod]
  /\ failed' = [failed EXCEPT ![c] = FALSE]
  /\ waiting' = [waiting EXCEPT ![c] = FALSE]
  /\ UNCHANGED <<todo, name, resume, token, cache, agentVars, outputVars, late, faults, events,
                 ghostVars>>

-----------------------------------------------------------------------------
(* The environment. *)

\* A delay of the work queue is over.
Due(c, p) ==
  /\ entry[c][p] \in {"backoff", "soon", "later"}
  /\ entry' = [entry EXCEPT ![c][p] = "ready"]
  /\ UNCHANGED <<workerVars, cache, agentVars, outputVars, late, faults, events, ghostVars>>

\* The informer updates the cache and, unless the predicate drops the event,
\* makes the pod's entry ready. (PodFeed models the filters.)
PodEvent(c, p) ==
  /\ events < MaxEvents
  /\ events' = events + 1
  /\ p \in Watched[c]
  /\ \E content \in Contents \ {cache[c][p]} :
       /\ cache' = [cache EXCEPT ![c][p] = content]
       /\ entry' = IF Passes(cache[c][p], content) THEN [entry EXCEPT ![c][p] = "ready"]
                                                ELSE entry
  /\ UNCHANGED <<workerVars, agentVars, outputVars, late, faults, ghostVars>>

\* The process dies and is started again; its requests may still arrive.
Crash(c) ==
  /\ Fault
  /\ \E escaped \in SUBSET InFlight(c) :
       /\ late' = late \cup escaped
       /\ Loosened(c, escaped)
  /\ Goto(c, "idle")
  /\ cur' = [cur EXCEPT ![c] = NoPod]
  /\ todo' = [todo EXCEPT ![c] = <<>>]
  /\ name' = [name EXCEPT ![c] = NoName]
  /\ failed' = [failed EXCEPT ![c] = FALSE]
  /\ waiting' = [waiting EXCEPT ![c] = FALSE]
  /\ resume' = [resume EXCEPT ![c] = "next"]
  /\ entry' = [entry EXCEPT ![c] = InitialEntries[c]]
  /\ UNCHANGED <<token, cache, agentVars, outputVars, events, extra, owed>>

ArriveStatus(r) ==
  /\ r.kind = "status"
  /\ IF Grantable(r.by, r.img) THEN holder' = [holder EXCEPT ![Filed[r.img]] = r.by]
                               ELSE UNCHANGED holder
  /\ UNCHANGED <<processed, delivered, extra>>

ArriveSend(r) ==
  /\ r.kind = "send"
  /\ IF r.tok = valid THEN Receive(r.img) ELSE UNCHANGED <<delivered, extra>>
  /\ UNCHANGED agentVars

ArriveMark(r) ==
  /\ r.kind = "mark"
  /\ processed' = processed \cup {Filed[r.img]}
  /\ UNCHANGED <<holder, delivered, extra>>

\* A request whose caller no longer waits for the answer arrives.
Arrive(r) ==
  /\ r \in late
  /\ late' = late \ {r}
  /\ ArriveStatus(r) \/ ArriveSend(r) \/ ArriveMark(r)
  /\ UNCHANGED <<workerVars, queueVars, valid, faults, events, unanswered, owed>>

\* A reservation expires. "unused": never while its holder works on the image.
Lapse(k) ==
  /\ LapseMode # "never"
  /\ holder[k] # Nobody
  /\ LapseMode = "unused" => ~WorksOn(holder[k], k)
  /\ holder' = [holder EXCEPT ![k] = Nobody]
  /\ UNCHANGED <<workerVars, queueVars, processed, outputVars, late, faults, events, ghostVars>>

\* The API token is rotated: the agent has the new one, the output takes no other.
Rotate ==
  /\ valid < MaxRotations
  /\ valid' = valid + 1
  /\ UNCHANGED <<workerVars, queueVars, agentVars, delivered, late, faults, events, ghostVars>>

-----------------------------------------------------------------------------
(* The specification. *)

\* The steps of collector c's worker that its scheduling and the parties it
\* calls owe it, once a pass is under way.
Work(c) == \/ Reported(c) \/ SkipImage(c) \/ ReportNoDigest(c) \/ StatusProcessed(c)
           \/ StatusReserved(c) \/ StatusGranted(c) \/ Generate(c)
           \/ GenerateFails(c) /\ Class[name[c]] = "noPull"
           \/ GetToken(c) \/ Send(c) \/ Mark(c) \/ Finish(c)

\* The steps that go wrong.
Mishap(c) == \/ GenerateUntidy(c) \/ GenerateFails(c) \/ CallFails(c) \/ AnswerNotOK(c)
             \/ Crash(c)

Take(c, p) == SkipPod(c, p) \/ Begin(c, p)

Next == \/ \E c \in Collectors : Work(c) \/ Mishap(c)
        \/ \E c \in Collectors, p \in Pods :
             Take(c, p) \/ GetFails(c, p) \/ Due(c, p) \/ PodEvent(c, p)
        \/ \E r \in late : Arrive(r)
        \/ \E k \in Images : Lapse(k)
        \/ Rotate

Spec == Init /\ [][Next]_vars

\* Every call is answered with 200 in the end (no limit on how often it is not),
\* delays end, the work queue starves no pod, and an unused reservation expires
\* if reservations do at all.
Fairness == /\ \A c \in Collectors : WF_vars(Work(c))
            /\ \A c \in Collectors, p \in Pods : SF_vars(Take(c, p)) /\ WF_vars(Due(c, p))
            /\ \A k \in Images : WF_vars(Lapse(k))

FairSpec == Spec /\ Fairness

-----------------------------------------------------------------------------
(* Properties. *)

\* The variables of the workers, the queues, the other parties, and the observations.
WorkerTypeOK ==
  /\ pc \in [Collectors -> {"idle", "report", "next", "generate", "token", "send", "mark"}]
  /\ cur \in [Collectors -> Pods \cup {NoPod}]
  /\ todo \in [Collectors -> Seq(Images)]
  /\ name \in [Collectors -> Images \cup {NoName}]
  /\ failed \in [Collectors -> BOOLEAN]
  /\ waiting \in [Collectors -> BOOLEAN]
  /\ resume \in [Collectors -> {"next", "token"}]
  /\ token \in [Collectors -> Nat]

QueueTypeOK ==
  /\ cache \in [Collectors -> [Pods -> PodContents]]
  /\ entry \in [Collectors -> [Pods -> {"none", "ready", "backoff", "soon", "later"}]]

PartiesTypeOK ==
  /\ processed \in SUBSET Images
  /\ holder \in [Images -> Collectors \cup {Nobody}]
  /\ delivered \in SUBSET Images
  /\ valid \in Nat
  /\ late \in SUBSET Requests

ObservedTypeOK ==
  /\ faults \in Nat
  /\ events \in Nat
  /\ extra \in [Images -> Nat]
  /\ unanswered \in [Images -> Nat]
  /\ owed \in [Collectors -> [Pods -> SUBSET Images]]

\* A pod is held exactly during a pass, and an image, under a name a grant of it
\* may give, while one is worked on.
PassOK ==
  \A c \in Collectors :
    /\ (pc[c] = "idle") <=> (cur[c] = NoPod)
    /\ pc[c] = "idle" => todo[c] = <<>>
    /\ Working(c) => todo[c] # <<>> /\ name[c] \in Mirrors[Image(c)]
    /\ ~Working(c) => name[c] = NoName

\* Type correctness, and the variables of a worker agree with where it stands.
TypeOK == WorkerTypeOK /\ QueueTypeOK /\ PartiesTypeOK /\ ObservedTypeOK /\ PassOK

\* An image the agent lists as processed is one whose SBOM the output has, in
\* spite of lost answers, late requests and crashes (service.SendImageSBOM).
ProcessedWasDelivered == processed \subseteq delivered

\* No two collectors scan or send the same image at a time, as long as a
\* reservation does not expire under its holder (watcher.go, IsReserved).
OneWorkerPerImage ==
  \A c, d \in Collectors :
    (Working(c) /\ Working(d) /\ Filed[Image(c)] = Filed[Image(d)]) => c = d

\* Whatever mirror a grant names, what is reserved as k is sent and marked as k,
\* and nothing else is. So it is of every k if the agent knows its mirrors, and of
\* every image without one if it files each reference by itself.
Traced(k) == \A i \in Images : \A m \in Mirrors[i] : (Filed[i] = k) <=> (Filed[m] = k)

\* The output gets an SBOM once more than it needs at most once for each send or
\* mark that stayed without its answer, through a failed call or a crash between
\* the two, whatever late copies, expired reservations and other collectors do.
OneExtraPerLostAnswer == \A k \in Images : Traced(k) => extra[k] <= unanswered[k]

\* Collector c has a request for pod p, or works on it.
InHand(c, p) == entry[c][p] # "none" \/ cur[c] = p

\* A pod that has started and is to be looked after does not leave a collector's
\* hands: not by a path through Reconcile, a later event, an error or a restart.
NoPodDropped ==
  [][\A c \in Collectors : \A p \in Pods :
       (InHand(c, p) /\ Live(cache[c][p]) /\ Wanted(cache[c][p])) => InHand(c, p)']_vars

\* The agent would answer that image i is processed, or says so of a name that it
\* gave for it.
Done(i) == \E m \in Mirrors[i] \cup {i} : Filed[m] \in processed

\* A pod is put off for the default twelve hours only when each image its last pass
\* listed has been processed, was given up or is not to be scanned.
SleepMeansDone ==
  \A c \in Collectors, p \in Pods :
    entry[c][p] = "later" => \A i \in owed[c][p] : Done(i)

\* Images the code can scan: whatever mirror is named, it can be pulled.
Scannable(i) == /\ Candidate(i)
                /\ Class[i] # "badMirror"
                /\ \A m \in Mirrors[i] : Class[m] # "noPull"

\* As long as nothing has failed, a reservation is worth waiting for: its holder is
\* at work on the image, or has marked it, unless the image cannot be scanned or
\* has a mirror the agent does not know it by.
ReservationsAreUsed ==
  faults = 0 => \A k \in Images :
    (holder[k] # Nobody /\ k \notin processed) =>
      \/ WorksOn(holder[k], k)
      \/ ~Traced(k)
      \/ \E i \in Images : Filed[i] = k /\ ~Scannable(i)

\* What a worker has still to do in its pass, at most.
Stage(c) == CASE pc[c] = "idle" -> 0
              [] pc[c] = "mark" -> 1
              [] pc[c] = "send" -> 2
              [] pc[c] = "token" -> 3
              [] pc[c] = "report" /\ resume[c] = "token" -> 4
              [] pc[c] = "generate" -> 5
              [] pc[c] = "next" -> 6
              [] OTHER -> 7
ToGo(c) == 8 * Len(todo[c]) + Stage(c)

\* No step of Reconcile, whatever it is told and whatever fails, leads back in its
\* pass: only an answer that does not come can keep a pass from its end.
NearerToIdle ==
  [][\A c \in Collectors :
       pc[c] # "idle" /\ (pc'[c] # pc[c] \/ todo'[c] # todo[c]) => ToGo(c)' < ToGo(c)]_vars

\* Every image of a pod in hand that can be scanned gets processed, unless the pod
\* changes or is no longer to be looked after.
EventuallyProcessed ==
  \A c \in Collectors, p \in Pods : \A i \in {j \in Images : Scannable(j)} :
    LET Asked == /\ Live(cache[c][p]) /\ Wanted(cache[c][p])
                 /\ InSeq(i, cache[c][p].images)
    IN (Asked /\ InHand(c, p)) ~> (~Asked \/ Done(i))

\* The submission of an SBOM comes to an end: the token is fetched from the
\* agent for each request (README.md, logger.go), so a rotation cannot stop it.
SubmissionEnds == \A c \in Collectors : (pc[c] = "send") ~> (pc[c] # "send")

\* Each image is processed only once across the cluster (README.md).
EachImageOnce == \A k \in Images : extra[k] = 0

\* Images a send or mark of which may have outlived its scan.
Loose == {k \in Images : unanswered[k] > 0}

\* The ledger this system implements, for the images it can follow by the agent's
\* reference, while no reservation in use expires.
Followed == {k \in Images : Traced(k)}
Scanner == [k \in Followed |-> IF \E c \in Collectors : WorksOn(c, k)
                                 THEN CHOOSE c \in Collectors : WorksOn(c, k)
                                 ELSE Nobody]
Ledger == INSTANCE ScanLedger WITH Images <- Followed,
                                   scanner <- Scanner,
                                   astray <- Loose \cap Followed,
                                   received <- delivered \cap Followed,
                                   done <- processed \cap Followed
ImplementsLedger == Ledger!LSpec

\* The work queues: a pass with an error, a wait or a result comes back, and its
\* delay does not undo a request that came during it.
Held == [c \in Collectors |-> IF cur[c] = NoPod THEN {} ELSE {cur[c]}]
Requested == [c \in Collectors |-> [p \in Pods |->
                IF entry[c][p] \in {"backoff", "soon", "later"} THEN "delayed" ELSE entry[c][p]]]
Queue == INSTANCE WorkQueue WITH Workers <- Collectors, held <- Held, due <- Requested
ImplementsQueue == Queue!QSpec
=============================================================================
