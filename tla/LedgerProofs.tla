---------------------------- MODULE LedgerProofs ----------------------------
(* Delivery implements ScanLedger. *)
EXTENDS DeliveryProofs

-----------------------------------------------------------------------------
(* The mapped variable scanner. *)

\* Only the worker of c moves.
Apart(c) == \A d \in Collectors \ {c} : UNCHANGED <<pc[d], todo[d], resume[d]>>

\* Scanner names the one collector that works on an image, if there is one.
ScannerFits ==
  /\ Scanner \in [Followed -> Collectors \cup {Nobody}]
  /\ \A c \in Collectors, k \in Followed : Scanner[k] = c <=> WorksOn(c, k)

LEMMA ScannerNow == HoldsItsImage => ScannerFits
  <1> SUFFICES ASSUME HoldsItsImage PROVE ScannerFits
    OBVIOUS
  <1>1. ASSUME NEW k \in Followed, NEW c \in Collectors, WorksOn(c, k)
        PROVE  (CHOOSE d \in Collectors : WorksOn(d, k)) = c
    <2> DEFINE e == CHOOSE d \in Collectors : WorksOn(d, k)
    <2>1. e \in Collectors /\ WorksOn(e, k)
      BY <1>1
    <2>2. holder[k] = e /\ holder[k] = c
      BY <1>1, <2>1 DEF HoldsItsImage, WorksOn
    <2> QED
      BY <2>2
  <1>2. ASSUME NEW k \in Followed, NEW c \in Collectors, WorksOn(c, k)
        PROVE  Scanner[k] = c
    BY <1>1, <1>2 DEF Scanner
  <1>3. ASSUME NEW k \in Followed, \A c \in Collectors : ~WorksOn(c, k)
        PROVE  Scanner[k] = Nobody
    BY <1>3 DEF Scanner
  <1>4. Nobody \notin Collectors
    BY DeliveryAssumption
  <1>5. \A k \in Followed : Scanner[k] \in Collectors \cup {Nobody}
    BY <1>2, <1>3
  <1>6. Scanner \in [Followed -> Collectors \cup {Nobody}]
    BY <1>5 DEF Scanner
  <1> QED
    BY <1>2, <1>3, <1>4, <1>6 DEF ScannerFits

LEMMA ScannerNext == HoldsItsImage' => ScannerFits'
  BY ScannerNow, PTL

LEMMA ApartWork ==
  ASSUME NEW c \in Collectors, Apart(c), NEW d \in Collectors \ {c}, NEW k
  PROVE  WorksOn(d, k)' <=> WorksOn(d, k)
  BY DEF Apart, WorksOn, Working, Image

LEMMA KeepsWork ==
  ASSUME HoldsItsImage, HoldsItsImage', NEW c \in Collectors, Apart(c),
         Working(c)' <=> Working(c), Working(c) => Image(c)' = Image(c)
  PROVE  Scanner' = Scanner
  <1>1. \A d \in Collectors, k \in Followed : WorksOn(d, k)' <=> WorksOn(d, k)
    BY ApartWork DEF WorksOn
  <1>2. ScannerFits /\ ScannerFits'
    BY ScannerNow, ScannerNext
  <1>3. \A k \in Followed : Scanner'[k] = Scanner[k]
    BY <1>1, <1>2 DEF ScannerFits
  <1> QED
    BY <1>2, <1>3 DEF ScannerFits

LEMMA TakesWork ==
  ASSUME HoldsItsImage, HoldsItsImage', NEW c \in Collectors, Apart(c),
         ~Working(c), Working(c)', NEW k, Filed[Image(c)'] = k
  PROVE  /\ k \in Followed => Scanner[k] = Nobody /\ Scanner' = [Scanner EXCEPT ![k] = c]
         /\ k \notin Followed => Scanner' = Scanner
  <1>1. ScannerFits /\ ScannerFits'
    BY ScannerNow, ScannerNext
  <1>2. \A d \in Collectors \ {c}, j \in Followed : WorksOn(d, j)' <=> WorksOn(d, j)
    BY ApartWork
  <1>3. \A j \in Followed : ~WorksOn(c, j) /\ (WorksOn(c, j)' <=> j = k)
    BY DEF WorksOn
  <1>4. \A j \in Followed \ {k} : Scanner'[j] = Scanner[j]
    BY <1>1, <1>2, <1>3 DEF ScannerFits
  <1>5. CASE k \in Followed
    <2>1. Scanner'[k] = c
      BY <1>1, <1>3, <1>5 DEF ScannerFits
    <2>2. \A d \in Collectors : ~WorksOn(d, k)
      BY <1>1, <1>2, <1>3, <1>5, <2>1 DEF ScannerFits
    <2>3. Scanner[k] = Nobody
      BY <1>1, <1>5, <2>2 DEF ScannerFits
    <2> QED
      BY <1>1, <1>4, <1>5, <2>1, <2>3 DEF ScannerFits
  <1>6. CASE k \notin Followed
    BY <1>1, <1>4, <1>6 DEF ScannerFits
  <1> QED
    BY <1>5, <1>6

LEMMA DropsWork ==
  ASSUME HoldsItsImage, HoldsItsImage', NEW c \in Collectors, Apart(c),
         Working(c), ~Working(c)', NEW k, Filed[Image(c)] = k
  PROVE  /\ k \in Followed => Scanner[k] # Nobody /\ Scanner' = [Scanner EXCEPT ![k] = Nobody]
         /\ k \notin Followed => Scanner' = Scanner
  <1>1. ScannerFits /\ ScannerFits'
    BY ScannerNow, ScannerNext
  <1>2. \A d \in Collectors \ {c}, j \in Followed : WorksOn(d, j)' <=> WorksOn(d, j)
    BY ApartWork
  <1>3. \A j \in Followed : ~WorksOn(c, j)' /\ (WorksOn(c, j) <=> j = k)
    BY DEF WorksOn
  <1>4. \A j \in Followed \ {k} : Scanner'[j] = Scanner[j]
    BY <1>1, <1>2, <1>3 DEF ScannerFits
  <1>5. CASE k \in Followed
    <2>1. Scanner[k] = c
      BY <1>1, <1>3, <1>5 DEF ScannerFits
    <2>2. \A d \in Collectors : ~WorksOn(d, k)'
      BY <1>1, <1>2, <1>3, <1>5, <2>1 DEF ScannerFits
    <2>3. Scanner'[k] = Nobody
      BY <1>1, <1>5, <2>2 DEF ScannerFits
    <2> QED
      BY <1>1, <1>4, <1>5, <2>1, <2>3, DeliveryAssumption DEF ScannerFits
  <1>6. CASE k \notin Followed
    BY <1>1, <1>4, <1>6 DEF ScannerFits
  <1> QED
    BY <1>5, <1>6

LEMMA WorkersStay ==
  ASSUME HoldsItsImage, HoldsItsImage', UNCHANGED <<pc, todo, resume>>
  PROVE  Scanner' = Scanner
  <1>1. \A d \in Collectors, k \in Followed : WorksOn(d, k)' <=> WorksOn(d, k)
    BY DEF WorksOn, Working, Image
  <1>2. ScannerFits /\ ScannerFits'
    BY ScannerNow, ScannerNext
  <1>3. \A k \in Followed : Scanner'[k] = Scanner[k]
    BY <1>1, <1>2 DEF ScannerFits
  <1> QED
    BY <1>2, <1>3 DEF ScannerFits

\* A collector that works under a name filed as a followed reference is the scanner of
\* that reference, whatever mirror the name is.
LEMMA ScannerOf ==
  ASSUME TypeOK, HoldsItsImage, NEW c \in Collectors, Working(c), Filed[name[c]] \in Followed
  PROVE  Filed[Image(c)] = Filed[name[c]] /\ Scanner[Filed[name[c]]] # Nobody
  <1>1. Image(c) \in Images /\ name[c] \in Mirrors[Image(c)]
    BY ImageHeld, NameHeld
  <1>2. Filed[Image(c)] = Filed[name[c]]
    BY <1>1 DEF Followed, Traced
  <1>3. Scanner[Filed[name[c]]] = c
    BY <1>2, ScannerNow DEF ScannerFits, WorksOn
  <1> QED
    BY <1>2, <1>3, DeliveryAssumption

\* So is one whose reservation is of a followed reference, under whatever name.
LEMMA NameOf ==
  ASSUME TypeOK, NEW c \in Collectors, Working(c), Filed[Image(c)] \in Followed
  PROVE  Filed[name[c]] = Filed[Image(c)]
  <1>1. Image(c) \in Images /\ name[c] \in Mirrors[Image(c)]
    BY ImageHeld, NameHeld
  <1> QED
    BY <1>1 DEF Followed, Traced

-----------------------------------------------------------------------------
(* The steps. *)

LedgerStep == [Ledger!LNext]_(Ledger!lvars)

LEMMA LedgerInit == Init => Ledger!LInit
  <1> SUFFICES ASSUME Init PROVE Ledger!LInit
    OBVIOUS
  <1>1. \A c \in Collectors, k \in Followed : ~WorksOn(c, k)
    BY DEF Init, WorksOn, Working
  <1>2. Scanner = [k \in Followed |-> Nobody]
    BY <1>1 DEF Scanner
  <1>3. Loose = {}
    BY DEF Init, Loose
  <1> QED
    BY <1>2, <1>3 DEF Init, Ledger!LInit

\* What is loose depends on the answers that were lost.
LEMMA LooseKept ==
  ASSUME UNCHANGED unanswered
  PROVE  UNCHANGED Loose
  BY DEF Loose

\* A call without its answer makes loose what it was sent as, or nothing.
LEMMA LooseGrows ==
  ASSUME TypeOK, NEW c \in Collectors, NEW escaped, Loosened(c, escaped)
  PROVE  /\ ~Working(c) => Loose' = Loose
         /\ Working(c) => Loose' = Loose \/ Loose' = Loose \cup {Filed[name[c]]}
  <1>1. CASE unanswered' = unanswered
    BY <1>1, LooseKept
  <1>2. CASE unanswered' # unanswered
    <2> DEFINE k == Filed[name[c]]
    <2>1. Working(c) /\ unanswered' = [unanswered EXCEPT ![k] = @ + 1]
      BY <1>2 DEF Loosened, Working
    <2>2. k \in Images /\ unanswered \in [Images -> Nat]
      BY <2>1, NameHeld DEF TypeOK, ObservedTypeOK
    <2> HIDE DEF k
    <2>3. \A j \in Images : unanswered'[j] > 0 <=> unanswered[j] > 0 \/ j = k
      BY <2>1, <2>2
    <2>4. Loose' = Loose \cup {k}
      BY <2>2, <2>3 DEF Loose
    <2> QED
      BY <2>1, <2>4 DEF k
  <1> QED
    BY <1>1, <1>2

\* A late send or mark is of a loose image.
LEMMA LateIsLoose ==
  ASSUME TypeOK, ExtrasPaid, NEW r \in late, r.kind # "status", Filed[r.img] \in Followed
  PROVE  Filed[r.img] \in Loose
  <1> DEFINE k == Filed[r.img]
  <1>1. k \in Images /\ Traced(k) /\ (r.kind = "send" \/ r.kind = "mark")
    BY DEF TypeOK, PartiesTypeOK, Requests, Followed
  <1>2. CASE r.kind = "mark"
    BY <1>1, <1>2 DEF ExtrasPaid, Loose
  <1>3. CASE r.kind = "send"
    <2>1. /\ IsFiniteSet(LateSends(k)) /\ Cardinality(LateSends(k)) \in Nat
          /\ extra[k] \in Nat /\ unanswered[k] \in Nat
          /\ Debt(k) <= unanswered[k]
      BY <1>1, DebtType DEF ExtrasPaid
    <2>2. LateSends(k) # {}
      BY <1>3 DEF LateSends
    <2>3. Cardinality(LateSends(k)) # 0
      BY <2>1, <2>2, FS_EmptySet
    <2>4. unanswered[k] > 0
      BY <2>1, <2>3 DEF Debt
    <2> QED
      BY <1>1, <2>4 DEF Loose
  <1> QED
    BY <1>1, <1>2, <1>3

\* A step that the ledger does not see.
LEMMA Unseen ==
  ASSUME Scanner' = Scanner,
         Loose' \cap Followed = Loose \cap Followed,
         delivered' \cap Followed = delivered \cap Followed,
         processed' \cap Followed = processed \cap Followed
  PROVE  LedgerStep
  BY DEF LedgerStep, Ledger!lvars

\* A worker that works neither before nor after.
LEMMA UnseenWorker ==
  ASSUME HoldsItsImage, HoldsItsImage', NEW c \in Collectors, Apart(c),
         ~Working(c), ~Working(c)', UNCHANGED <<Loose, delivered, processed>>
  PROVE  LedgerStep
  BY KeepsWork, Unseen

\* A worker that stops working without a mark; something may be left behind.
LEMMA Released ==
  ASSUME TypeOK, HoldsItsImage, HoldsItsImage', NEW c \in Collectors, Apart(c),
         Working(c), ~Working(c)', UNCHANGED <<delivered, processed>>,
         Loose' = Loose \/ Loose' = Loose \cup {Filed[name[c]]}
  PROVE  LedgerStep
  <1> DEFINE k == Filed[Image(c)]
  <1>1. CASE k \in Followed
    <2>1. Scanner[k] # Nobody /\ Scanner' = [Scanner EXCEPT ![k] = Nobody]
      BY <1>1, DropsWork
    <2>2. Filed[name[c]] = k
      BY <1>1, NameOf
    <2>3. \/ Loose' \cap Followed = Loose \cap Followed
          \/ Loose' \cap Followed = (Loose \cap Followed) \cup {k}
      BY <1>1, <2>2
    <2>4. Ledger!Release(k)
      BY <2>1, <2>3 DEF Ledger!Release
    <2> QED
      BY <1>1, <2>4 DEF LedgerStep, Ledger!LNext
  <1>2. CASE k \notin Followed
    <2>1. Scanner' = Scanner
      BY <1>2, DropsWork
    <2>2. Filed[name[c]] \notin Followed
      BY <1>2, ScannerOf
    <2>3. Loose' \cap Followed = Loose \cap Followed
      BY <2>2
    <2> QED
      BY <2>1, <2>3, Unseen
  <1> QED
    BY <1>1, <1>2

LEMMA LedgerWork ==
  ASSUME TypeOK, HoldsItsImage, HoldsItsImage', MarkBacked, NEW c \in Collectors, Work(c)
  PROVE  LedgerStep
  <1> USE DEF workerVars, agentVars, outputVars, ghostVars, Goto, NextImage
  <1> /\ pc \in [Collectors -> {"idle", "report", "next", "generate", "token", "send", "mark"}]
      /\ todo \in [Collectors -> Seq(Images)]
      /\ resume \in [Collectors -> {"next", "token"}]
    BY DEF TypeOK, WorkerTypeOK
  <1>1. CASE Reported(c) \/ Generate(c) \/ GetToken(c)
    <2>1. UNCHANGED <<todo, resume, Loose, delivered, processed>>
      BY <1>1, LooseKept DEF Reported, Generate, GetToken
    <2>2. Apart(c)
      BY <1>1, <2>1 DEF Apart, Reported, Generate, GetToken
    <2>3. Working(c)' <=> Working(c)
      BY <1>1, <2>1 DEF Reported, Generate, GetToken, Working
    <2>4. Scanner' = Scanner
      BY <2>1, <2>2, <2>3, KeepsWork DEF Image
    <2> QED
      BY <2>1, <2>4, Unseen
  <1>2. CASE SkipImage(c) \/ ReportNoDigest(c) \/ StatusProcessed(c) \/ StatusReserved(c) \/ Finish(c)
    <2>1. UNCHANGED <<Loose, delivered, processed>>
      BY <1>2, LooseKept DEF SkipImage, ReportNoDigest, StatusProcessed, StatusReserved, Finish
    <2>2. Apart(c)
      BY <1>2 DEF Apart, SkipImage, ReportNoDigest, StatusProcessed, StatusReserved, Finish,
         ReportAndSkip
    <2>3. ~Working(c) /\ ~Working(c)'
      BY <1>2 DEF Working, SkipImage, ReportNoDigest, StatusProcessed, StatusReserved, Finish,
         ReportAndSkip, AtImage
    <2> QED
      BY <2>1, <2>2, <2>3, UnseenWorker
  <1>3. CASE StatusGranted(c)
    <2> DEFINE k == Filed[Image(c)]
    <2>1. /\ UNCHANGED <<Loose, delivered, processed>>
          /\ ~Working(c)
          /\ k \notin processed
      BY <1>3, LooseKept DEF StatusGranted, AtImage, Grantable, SaysProcessed, Working
    <2>2. Apart(c)
      BY <1>3 DEF Apart, StatusGranted, ReportAndSkip, TakeUp
    <2>3. CASE Class[Image(c)] = "badMirror"
      <3>1. ~Working(c)'
        BY <1>3, <2>3 DEF StatusGranted, ReportAndSkip, Working
      <3> QED
        BY <2>1, <2>2, <3>1, UnseenWorker
    <2>4. CASE Class[Image(c)] # "badMirror"
      <3>1. Working(c)' /\ Filed[Image(c)'] = k
        BY <1>3, <2>4 DEF StatusGranted, TakeUp, Working, Image
      <3>2. CASE k \in Followed
        <4>1. Scanner[k] = Nobody /\ Scanner' = [Scanner EXCEPT ![k] = c]
          BY <2>1, <2>2, <3>1, <3>2, TakesWork
        <4>2. Ledger!Claim(c, k)
          BY <2>1, <4>1 DEF Ledger!Claim
        <4> QED
          BY <3>2, <4>2 DEF LedgerStep, Ledger!LNext
      <3>3. CASE k \notin Followed
        <4>1. Scanner' = Scanner
          BY <2>1, <2>2, <3>1, <3>3, TakesWork
        <4> QED
          BY <2>1, <4>1, Unseen
      <3> QED
        BY <3>2, <3>3
    <2> QED
      BY <2>3, <2>4
  <1>4. CASE GenerateFails(c)
    <2>1. UNCHANGED <<Loose, delivered, processed>> /\ Working(c)
      BY <1>4, LooseKept DEF GenerateFails, Working
    <2>2. Apart(c) /\ ~Working(c)'
      BY <1>4 DEF GenerateFails, Apart, ReportAndSkip, Working
    <2> QED
      BY <2>1, <2>2, Released
  <1>5. CASE Send(c)
    <2> DEFINE k == Filed[name[c]]
    <2>1. /\ delivered' = delivered \cup {k}
          /\ UNCHANGED <<todo, resume, Loose, processed>>
          /\ Working(c) /\ Working(c)'
      BY <1>5, LooseKept DEF Send, Receive, Working
    <2>2. Apart(c)
      BY <1>5 DEF Send, Apart
    <2>3. Scanner' = Scanner
      BY <2>1, <2>2, KeepsWork DEF Image
    <2>4. CASE k \in Followed
      <3>1. Scanner[k] # Nobody
        BY <2>1, <2>4, ScannerOf
      <3>2. delivered' \cap Followed = (delivered \cap Followed) \cup {k}
        BY <2>1, <2>4
      <3>3. Ledger!Receive(k)
        BY <2>1, <2>3, <3>1, <3>2 DEF Ledger!Receive
      <3> QED
        BY <2>4, <3>3 DEF LedgerStep, Ledger!LNext
    <2>5. CASE k \notin Followed
      <3>1. delivered' \cap Followed = delivered \cap Followed
        BY <2>1, <2>5
      <3> QED
        BY <2>1, <2>3, <3>1, Unseen
    <2> QED
      BY <2>4, <2>5
  <1>6. CASE Mark(c)
    <2> DEFINE k == Filed[name[c]]
    <2>1. /\ processed' = processed \cup {k}
          /\ UNCHANGED <<Loose, delivered>>
          /\ Working(c) /\ ~Working(c)'
      BY <1>6, LooseKept DEF Mark, Working
    <2>2. Apart(c)
      BY <1>6 DEF Mark, Apart
    <2>3. CASE k \in Followed
      <3>1. Filed[Image(c)] = k
        BY <2>1, <2>3, ScannerOf
      <3>2. Scanner[k] # Nobody /\ Scanner' = [Scanner EXCEPT ![k] = Nobody]
        BY <2>1, <2>2, <2>3, <3>1, DropsWork
      <3>3. /\ k \in delivered
            /\ processed' \cap Followed = (processed \cap Followed) \cup {k}
        BY <1>6, <2>1, <2>3 DEF Mark, MarkBacked
      <3>4. Ledger!Finish(k)
        BY <2>1, <2>3, <3>2, <3>3 DEF Ledger!Finish
      <3> QED
        BY <2>3, <3>4 DEF LedgerStep, Ledger!LNext
    <2>4. CASE k \notin Followed
      <3>1. Filed[Image(c)] \notin Followed
        BY <2>1, <2>4, NameOf
      <3>2. Scanner' = Scanner
        BY <2>1, <2>2, <3>1, DropsWork
      <3>3. processed' \cap Followed = processed \cap Followed
        BY <2>1, <2>4
      <3> QED
        BY <2>1, <3>2, <3>3, Unseen
    <2> QED
      BY <2>3, <2>4
  <1> QED
    BY <1>1, <1>2, <1>3, <1>4, <1>5, <1>6 DEF Work

LEMMA LedgerMishap ==
  ASSUME TypeOK, HoldsItsImage, HoldsItsImage', NEW c \in Collectors, Mishap(c)
  PROVE  LedgerStep
  <1> USE DEF workerVars, agentVars, outputVars, ghostVars, Goto, NextImage
  <1> /\ pc \in [Collectors -> {"idle", "report", "next", "generate", "token", "send", "mark"}]
      /\ todo \in [Collectors -> Seq(Images)]
      /\ resume \in [Collectors -> {"next", "token"}]
    BY DEF TypeOK, WorkerTypeOK
  <1>1. CASE GenerateUntidy(c)
    <2>1. UNCHANGED <<todo, Loose, delivered, processed>> /\ Working(c) /\ Working(c)'
      BY <1>1, LooseKept DEF GenerateUntidy, Working
    <2>2. Apart(c)
      BY <1>1 DEF GenerateUntidy, Apart
    <2> QED
      BY <2>1, <2>2, KeepsWork, Unseen DEF Image
  <1>2. CASE GenerateFails(c)
    <2>1. UNCHANGED <<Loose, delivered, processed>> /\ Working(c)
      BY <1>2, LooseKept DEF GenerateFails, Working
    <2>2. Apart(c) /\ ~Working(c)'
      BY <1>2 DEF GenerateFails, Apart, ReportAndSkip, Working
    <2> QED
      BY <2>1, <2>2, Released
  <1>3. CASE CallFails(c) \/ Crash(c)
    <2>1. /\ UNCHANGED <<delivered, processed>>
          /\ \E escaped \in SUBSET InFlight(c) : Loosened(c, escaped)
      BY <1>3 DEF CallFails, Crash
    <2>2. Apart(c)
      BY <1>3 DEF CallFails, Crash, Apart, ReportAndSkip
    <2>3. ~Working(c)'
      BY <1>3 DEF CallFails, Crash, ReportAndSkip, Working
    <2>4. CASE Working(c)
      <3>1. Loose' = Loose \/ Loose' = Loose \cup {Filed[name[c]]}
        BY <2>1, <2>4, LooseGrows
      <3> QED
        BY <2>1, <2>2, <2>3, <2>4, <3>1, Released
    <2>5. CASE ~Working(c)
      <3>1. UNCHANGED Loose
        BY <2>1, <2>5, LooseGrows
      <3> QED
        BY <2>1, <2>2, <2>3, <2>5, <3>1, UnseenWorker
    <2> QED
      BY <2>4, <2>5
  <1>4. CASE AnswerNotOK(c)
    <2> DEFINE k == Filed[name[c]]
    <2>1. /\ UNCHANGED <<pc, todo, resume, delivered, processed>>
          /\ Loosened(c, InFlight(c))
      BY <1>4 DEF AnswerNotOK
    <2>2. Scanner' = Scanner
      BY <2>1, WorkersStay
    <2>3. CASE Working(c) /\ k \in Followed /\ Loose' = Loose \cup {k}
      <3>1. Scanner[k] # Nobody
        BY <2>3, ScannerOf
      <3>2. Loose' \cap Followed = (Loose \cap Followed) \cup {k}
        BY <2>3
      <3>3. Ledger!Stray(k)
        BY <2>1, <2>2, <3>1, <3>2 DEF Ledger!Stray
      <3> QED
        BY <2>3, <3>3 DEF LedgerStep, Ledger!LNext
    <2>4. CASE ~(Working(c) /\ k \in Followed /\ Loose' = Loose \cup {k})
      <3>1. Loose' = Loose \/ (k \notin Followed /\ Loose' = Loose \cup {k})
        BY <2>1, <2>4, LooseGrows
      <3>2. Loose' \cap Followed = Loose \cap Followed
        BY <3>1
      <3> QED
        BY <2>1, <2>2, <3>2, Unseen
    <2> QED
      BY <2>3, <2>4
  <1> QED
    BY <1>1, <1>2, <1>3, <1>4 DEF Mishap

\* A request that is taken off the queue finds a worker that is idle, and a new
\* pass begins with no image granted.
LEMMA LedgerTake ==
  ASSUME TypeOK, HoldsItsImage, HoldsItsImage', NEW c \in Collectors, NEW p \in Pods,
         Take(c, p) \/ GetFails(c, p)
  PROVE  LedgerStep
  <1> USE DEF workerVars, agentVars, outputVars, ghostVars, Goto
  <1> /\ pc \in [Collectors -> {"idle", "report", "next", "generate", "token", "send", "mark"}]
      /\ todo \in [Collectors -> Seq(Images)]
      /\ resume \in [Collectors -> {"next", "token"}]
    BY DEF TypeOK, WorkerTypeOK
  <1>1. UNCHANGED <<Loose, delivered, processed>>
    BY LooseKept DEF Take, SkipPod, Begin, GetFails
  <1>2. ~Working(c)
    BY DEF Take, SkipPod, Begin, GetFails, Working
  <1>3. ~Working(c)'
    BY DEF Take, SkipPod, Begin, GetFails, Working
  <1>4. Apart(c)
    BY DEF Take, SkipPod, Begin, GetFails, Apart
  <1> QED
    BY <1>1, <1>2, <1>3, <1>4, UnseenWorker

\* A late request is for an image that went astray, or for one that is not followed.
LEMMA LedgerArrive ==
  ASSUME TypeOK, HoldsItsImage, HoldsItsImage', MarkBacked, ExtrasPaid, NEW r \in late, Arrive(r)
  PROVE  LedgerStep
  <1> USE DEF workerVars, agentVars, outputVars
  <1> DEFINE k == Filed[r.img]
  <1>1. UNCHANGED Loose /\ Scanner' = Scanner
    BY WorkersStay, LooseKept DEF Arrive
  <1>2. CASE ArriveStatus(r)
    BY <1>1, <1>2, Unseen DEF ArriveStatus
  <1>3. CASE ArriveSend(r)
    <2>1. UNCHANGED processed /\ (delivered' = delivered \/ delivered' = delivered \cup {k})
      BY <1>3 DEF ArriveSend, Receive
    <2>2. CASE k \in Followed /\ delivered' = delivered \cup {k}
      <3>1. k \in Loose
        BY <1>3, <2>2, LateIsLoose DEF ArriveSend
      <3>2. delivered' \cap Followed = (delivered \cap Followed) \cup {k}
        BY <2>2
      <3>3. Ledger!Receive(k)
        BY <1>1, <2>1, <2>2, <3>1, <3>2 DEF Ledger!Receive
      <3> QED
        BY <2>2, <3>3 DEF LedgerStep, Ledger!LNext
    <2>3. CASE ~(k \in Followed /\ delivered' = delivered \cup {k})
      <3>1. delivered' \cap Followed = delivered \cap Followed
        BY <2>1, <2>3
      <3> QED
        BY <1>1, <2>1, <3>1, Unseen
    <2> QED
      BY <2>2, <2>3
  <1>4. CASE ArriveMark(r)
    <2>1. UNCHANGED delivered /\ processed' = processed \cup {k}
      BY <1>4 DEF ArriveMark
    <2>2. CASE k \in Followed
      <3>1. k \in Loose /\ k \in delivered
        BY <1>4, <2>2, LateIsLoose DEF ArriveMark, MarkBacked
      <3>2. processed' \cap Followed = (processed \cap Followed) \cup {k}
        BY <2>1, <2>2
      <3>3. Ledger!Finish(k)
        BY <1>1, <2>1, <2>2, <3>1, <3>2 DEF Ledger!Finish
      <3> QED
        BY <2>2, <3>3 DEF LedgerStep, Ledger!LNext
    <2>3. CASE k \notin Followed
      <3>1. processed' \cap Followed = processed \cap Followed
        BY <2>1, <2>3
      <3> QED
        BY <1>1, <2>1, <3>1, Unseen
    <2> QED
      BY <2>2, <2>3
  <1> QED
    BY <1>2, <1>3, <1>4 DEF Arrive

LEMMA LedgerNext ==
  ASSUME TypeOK, HoldsItsImage, HoldsItsImage', MarkBacked, ExtrasPaid, [Next]_vars
  PROVE  LedgerStep
  <1>1. ASSUME NEW c \in Collectors, NEW p \in Pods, Due(c, p) \/ PodEvent(c, p)
        PROVE  LedgerStep
    BY <1>1, WorkersStay, LooseKept, Unseen DEF Due, PodEvent, workerVars, agentVars, outputVars, ghostVars
  <1>2. ASSUME NEW i \in Images, Lapse(i)
        PROVE  LedgerStep
    BY <1>2, WorkersStay, LooseKept, Unseen DEF Lapse, workerVars, outputVars, ghostVars
  <1>3. CASE Rotate
    BY <1>3, WorkersStay, LooseKept, Unseen DEF Rotate, workerVars, agentVars, ghostVars
  <1>4. CASE UNCHANGED vars
    BY <1>4, WorkersStay, LooseKept, Unseen DEF vars, workerVars, agentVars, outputVars, ghostVars
  <1> QED
    BY <1>1, <1>2, <1>3, <1>4, LedgerWork, LedgerMishap, LedgerTake, LedgerArrive DEF Next

\* While no reservation in use expires, the collectors, the agent and the output
\* together are the ledger of what the agent can follow across its mirrors: one
\* scanner per image, nothing done that has not been received, nothing received that
\* no scan sent. What is filed under any other reference is not seen by it.
THEOREM LedgerImplemented ==
  ASSUME LapseMode # "anytime"
  PROVE  Spec => ImplementsLedger
  <1> DEFINE IInv == TypeOK /\ HoldsItsImage /\ MarkBacked /\ ExtrasPaid
  <1>1. Init => IInv
    BY InitType, HoldsInit, MarkBackedInit, PaidInit
  <1>2. IInv /\ [Next]_vars => IInv'
    BY TypeStep, HoldsStep, MarkBackedStep, PaidStep
  <1>3. IInv /\ IInv' /\ [Next]_vars => [Ledger!LNext]_(Ledger!lvars)
    BY LedgerNext DEF LedgerStep
  <1> QED
    BY <1>1, <1>2, <1>3, LedgerInit, PTL DEF Spec, ImplementsLedger, Ledger!LSpec
-----------------------------------------------------------------------------
(* The work queues.                                                         *)

Delays == {"backoff", "soon", "later"}

\* A pod whose pass is under way is not put off.
NotPutOff == \A c \in Collectors, p \in Pods : cur[c] = p => entry[c][p] \in {"none", "ready"}

LEMMA NotPutOffStep ==
  ASSUME TypeOK, NotPutOff, [Next]_vars
  PROVE  NotPutOff'
  <1>1. /\ cur \in [Collectors -> Pods \cup {NoPod}] /\ NoPod \notin Pods
        /\ entry \in [Collectors -> [Pods -> {"none", "ready", "backoff", "soon", "later"}]]
    BY DeliveryAssumption DEF TypeOK, WorkerTypeOK, QueueTypeOK
  <1>2. CASE UNCHANGED <<cur, entry>>
    BY <1>2 DEF NotPutOff
  <1>3. ASSUME NEW c \in Collectors, NEW p \in Pods, NEW d \in {"none", "ready"},
               entry' = [entry EXCEPT ![c][p] = d], cur' = cur \/ cur' = [cur EXCEPT ![c] = p]
        PROVE  NotPutOff'
    BY <1>1, <1>3 DEF NotPutOff
  <1>4. ASSUME NEW c \in Collectors, Finish(c)
        PROVE  NotPutOff'
    <2>1. cur[c] \in Pods
      BY <1>4, PodHeld DEF Finish
    <2>2. /\ cur' = [cur EXCEPT ![c] = NoPod]
          /\ \A d \in Collectors, p \in Pods : d # c => entry'[d][p] = entry[d][p]
      BY <1>1, <1>4 DEF Finish
    <2> QED
      BY <1>1, <2>2 DEF NotPutOff
  <1>5. ASSUME NEW c \in Collectors, Crash(c)
        PROVE  NotPutOff'
    <2>1. /\ cur' = [cur EXCEPT ![c] = NoPod]
          /\ entry' = [entry EXCEPT ![c] = InitialEntries[c]]
      BY <1>5 DEF Crash
    <2> QED
      BY <1>1, <2>1 DEF NotPutOff
  <1>6. ASSUME NEW c \in Collectors, Work(c)
        PROVE  NotPutOff'
    BY <1>2, <1>4, <1>6 DEF Work, Reported, SkipImage, ReportNoDigest, StatusProcessed, queueVars,
       StatusReserved, StatusGranted, Generate, GenerateFails, GetToken, Send, Mark, workerVars
  <1>7. ASSUME NEW c \in Collectors, Mishap(c)
        PROVE  NotPutOff'
    BY <1>2, <1>5, <1>7 DEF Mishap, GenerateUntidy, GenerateFails, CallFails, AnswerNotOK,
       queueVars, workerVars
  <1>8. ASSUME NEW c \in Collectors, NEW p \in Pods,
               Take(c, p) \/ GetFails(c, p) \/ Due(c, p)
        PROVE  NotPutOff'
    BY <1>3, <1>8 DEF Take, SkipPod, Begin, GetFails, Due, workerVars
  <1>9. ASSUME NEW c \in Collectors, NEW p \in Pods, PodEvent(c, p)
        PROVE  NotPutOff'
    <2>1. cur' = cur /\ (entry' = entry \/ entry' = [entry EXCEPT ![c][p] = "ready"])
      BY <1>9 DEF PodEvent, workerVars
    <2> QED
      BY <1>2, <1>3, <2>1
  <1>10. ASSUME \/ \E r \in late : Arrive(r)
                \/ \E i \in Images : Lapse(i)
                \/ Rotate
                \/ UNCHANGED vars
         PROVE  NotPutOff'
    BY <1>2, <1>10 DEF Arrive, Lapse, Rotate, vars, queueVars, workerVars
  <1> QED
    BY <1>6, <1>7, <1>8, <1>9, <1>10 DEF Next

LEMMA RequestFits ==
  ASSUME TypeOK, NEW c \in Collectors, NEW p \in Pods, NEW d,
         entry' = [entry EXCEPT ![c][p] = d]
  PROVE  Queue!Put(c, p, IF d \in Delays THEN "delayed" ELSE d)
  <1>1. entry \in [Collectors -> [Pods -> {"none", "ready", "backoff", "soon", "later"}]]
    BY DEF TypeOK, QueueTypeOK
  <1> DEFINE Slot(d0) == IF d0 \in Delays THEN "delayed" ELSE d0
             R == [b \in Collectors |-> [q \in Pods |-> Slot(entry[b][q])]]
  <1>2. /\ Requested = R
        /\ Requested' = [b \in Collectors |-> [q \in Pods |-> Slot(entry'[b][q])]]
    BY DEF Requested, Delays
  <1>3. \A b \in Collectors, q \in Pods : entry'[b][q] = IF b = c /\ q = p THEN d ELSE entry[b][q]
    BY <1>1
  <1> HIDE DEF Slot
  <1>4. [R EXCEPT ![c][p] = Slot(d)]
          = [b \in Collectors |-> [q \in Pods |-> IF b = c /\ q = p THEN Slot(d) ELSE Slot(entry[b][q])]]
    OBVIOUS
  <1>5. Requested' = [Requested EXCEPT ![c][p] = Slot(d)]
    BY <1>2, <1>3, <1>4
  <1> QED
    BY <1>5 DEF Queue!Put, Slot

LEMMA HeldFits ==
  ASSUME TypeOK, NEW c \in Collectors, NEW p \in Pods \cup {NoPod}, cur' = [cur EXCEPT ![c] = p]
  PROVE  Held' = [Held EXCEPT ![c] = IF p = NoPod THEN {} ELSE {p}]
  <1>1. cur \in [Collectors -> Pods \cup {NoPod}]
    BY DEF TypeOK, WorkerTypeOK
  <1>2. cur' = [b \in Collectors |-> IF b = c THEN p ELSE cur[b]]
    BY <1>1
  <1> QED
    BY <1>1, <1>2 DEF Held

QueueStep == [Queue!QNext]_(Queue!qvars)

LEMMA QueueNext ==
  ASSUME TypeOK, NotPutOff, [Next]_vars
  PROVE  QueueStep
  <1>1. /\ cur \in [Collectors -> Pods \cup {NoPod}] /\ NoPod \notin Pods
        /\ entry \in [Collectors -> [Pods -> {"none", "ready", "backoff", "soon", "later"}]]
    BY DeliveryAssumption DEF TypeOK, WorkerTypeOK, QueueTypeOK
  <1>2. CASE UNCHANGED <<cur, entry>>
    BY <1>2 DEF QueueStep, Queue!qvars, Held, Requested
  <1>3. ASSUME NEW c \in Collectors, NEW p \in Pods, entry' = [entry EXCEPT ![c][p] = "ready"], cur' = cur
        PROVE  QueueStep
    <2>1. Queue!Put(c, p, "ready")
      BY <1>3, RequestFits DEF Delays
    <2>2. Held' = Held
      BY <1>3 DEF Held
    <2>3. Queue!Wake(c, p)
      BY <2>1, <2>2 DEF Queue!Wake
    <2> QED
      BY <2>3 DEF QueueStep, Queue!QNext
  <1>4. ASSUME NEW c \in Collectors, NEW p \in Pods, Take(c, p) \/ GetFails(c, p)
        PROVE  QueueStep
    <2>1. /\ cur[c] = NoPod /\ entry[c][p] = "ready" /\ entry' = [entry EXCEPT ![c][p] = "none"]
          /\ cur' = cur \/ cur' = [cur EXCEPT ![c] = p]
      BY <1>4 DEF TypeOK, PassOK, Take, SkipPod, Begin, GetFails, workerVars
    <2>2. Held[c] = {} /\ Requested[c][p] = "ready"
      BY <2>1 DEF Held, Requested
    <2>3. Queue!Put(c, p, "none")
      BY <2>1, RequestFits DEF Delays
    <2>4. Held' = Held \/ Held' = [Held EXCEPT ![c] = {p}]
      <3>1. CASE cur' = cur
        BY <3>1 DEF Held
      <3>2. CASE cur' = [cur EXCEPT ![c] = p]
        BY <1>1, <3>2, HeldFits
      <3> QED
        BY <2>1, <3>1, <3>2
    <2>5. Queue!Take(c, p)
      BY <2>2, <2>3, <2>4 DEF Queue!Take
    <2> QED
      BY <2>5 DEF QueueStep, Queue!QNext
  <1>5. ASSUME NEW c \in Collectors, Finish(c)
        PROVE  QueueStep
    <2>1. PICK p \in Pods : p = cur[c] /\ p # NoPod
      BY <1>1, <1>5, PodHeld DEF Finish
    <2>2. entry[c][p] \in {"none", "ready"} /\ cur' = [cur EXCEPT ![c] = NoPod]
      BY <1>5, <2>1 DEF Finish, NotPutOff
    <2>3. Held[c] = {p} /\ Held' = [Held EXCEPT ![c] = {}]
      BY <2>1, <2>2, HeldFits DEF Held
    <2>4. CASE entry[c][p] = "ready"
      <3>1. entry' = entry
        BY <1>1, <1>5, <2>1, <2>4 DEF Finish
      <3>2. Requested[c][p] = "ready" /\ Requested' = Requested
        BY <2>4, <3>1 DEF Requested
      <3> QED
        BY <2>3, <3>2 DEF QueueStep, Queue!QNext, Queue!Return
    <2>5. CASE entry[c][p] = "none"
      <3>1. Result(c) \in Delays /\ entry' = [entry EXCEPT ![c][p] = Result(c)]
        BY <1>5, <2>1, <2>5 DEF Finish, Result, Delays
      <3>2. Queue!Put(c, p, "delayed")
        BY <3>1, RequestFits
      <3>3. Requested[c][p] = "none"
        BY <2>5 DEF Requested
      <3>4. Queue!Return(c, p)
        BY <2>3, <3>2, <3>3 DEF Queue!Return
      <3> QED
        BY <3>4 DEF QueueStep, Queue!QNext
    <2> QED
      BY <2>2, <2>4, <2>5
  <1>6. ASSUME NEW c \in Collectors, Crash(c)
        PROVE  QueueStep
    <2>1. /\ cur' = [cur EXCEPT ![c] = NoPod]
          /\ entry' = [entry EXCEPT ![c] = InitialEntries[c]]
      BY <1>6 DEF Crash
    <2>2. Held' = [Held EXCEPT ![c] = {}]
      BY <2>1, HeldFits
    <2>3. InitialEntries[c] \in [Pods -> {"none", "ready"}]
      BY DEF InitialEntries
    <2>4. Requested' = [Requested EXCEPT ![c] = InitialEntries[c]]
      <3>1. entry' = [b \in Collectors |-> IF b = c THEN InitialEntries[c] ELSE entry[b]]
        BY <1>1, <2>1
      <3>2. [p \in Pods |-> IF InitialEntries[c][p] \in Delays THEN "delayed" ELSE InitialEntries[c][p]]
              = InitialEntries[c]
        BY <2>3 DEF Delays
      <3> QED
        BY <3>1, <3>2 DEF Requested, Delays
    <2>5. Queue!Restart(c)
      BY <2>2, <2>3, <2>4 DEF Queue!Restart
    <2> QED
      BY <2>5 DEF QueueStep, Queue!QNext
  <1>7. ASSUME NEW c \in Collectors, Work(c)
        PROVE  QueueStep
    BY <1>2, <1>5, <1>7 DEF Work, Reported, SkipImage, ReportNoDigest, StatusProcessed, queueVars,
       StatusReserved, StatusGranted, Generate, GenerateFails, GetToken, Send, Mark, workerVars
  <1>8. ASSUME NEW c \in Collectors, Mishap(c)
        PROVE  QueueStep
    BY <1>2, <1>6, <1>8 DEF Mishap, GenerateUntidy, GenerateFails, CallFails, AnswerNotOK,
       queueVars, workerVars
  <1>9. ASSUME NEW c \in Collectors, NEW p \in Pods, Due(c, p) \/ PodEvent(c, p)
        PROVE  QueueStep
    <2>1. cur' = cur /\ (entry' = entry \/ entry' = [entry EXCEPT ![c][p] = "ready"])
      BY <1>9 DEF Due, PodEvent, workerVars
    <2> QED
      BY <1>2, <1>3, <2>1
  <1>10. ASSUME \/ \E r \in late : Arrive(r)
                \/ \E i \in Images : Lapse(i)
                \/ Rotate
                \/ UNCHANGED vars
         PROVE  QueueStep
    BY <1>2, <1>10 DEF Arrive, Lapse, Rotate, vars, queueVars, workerVars
  <1> QED
    BY <1>4, <1>7, <1>8, <1>9, <1>10 DEF Next

\* Whatever fails, crashes or is rotated, every pass gives its pod back to the work
\* queue, ready if the pod has been asked for meanwhile and delayed otherwise.
THEOREM QueueImplemented == Spec => ImplementsQueue
  <1>1. Init => Queue!QInit /\ NotPutOff
    BY DEF Init, InitialEntries, NotPutOff, Queue!QInit, Held, Requested
  <1>2. (TypeOK /\ NotPutOff) /\ [Next]_vars => (TypeOK /\ NotPutOff)'
    BY TypeStep, NotPutOffStep
  <1>3. (TypeOK /\ NotPutOff) /\ [Next]_vars => QueueStep
    BY QueueNext
  <1> QED
    BY <1>1, <1>2, <1>3, InitType, PTL DEF Spec, ImplementsQueue, Queue!QSpec, QueueStep
=============================================================================
