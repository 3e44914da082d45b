-------------------------- MODULE CredentialProofs --------------------------
(***************************************************************************)
(* Theorems of getKeychain in a Collector: which secrets are read, and     *)
(* whose credentials come of them, for every secret, service account,      *)
(* mounted file and registry, and whatever call fails.                     *)
(***************************************************************************)
EXTENDS CollectorProofs

(* Sequences of names. *)

LEMMA HeadAndTail ==
  ASSUME NEW s \in Seq(STRING), s # <<>>
  PROVE  /\ Head(s) \in Range(s)
         /\ Tail(s) \in Seq(STRING)
         /\ Range(Tail(s)) \subseteq Range(s)
  BY DEF Range

LEMMA BothRanges ==
  ASSUME NEW s \in Seq(STRING), NEW t \in Seq(STRING)
  PROVE  s \o t \in Seq(STRING) /\ Range(s \o t) \subseteq Range(s) \cup Range(t)
  <1>1. /\ s \o t \in Seq(STRING)
        /\ Len(s \o t) = Len(s) + Len(t)
        /\ \A i \in 1..(Len(s) + Len(t)) : (s \o t)[i] = IF i <= Len(s) THEN s[i] ELSE t[i - Len(s)]
    BY ConcatProperties
  <1>2. Len(s) \in Nat /\ Len(t) \in Nat
    OBVIOUS
  <1>3. ASSUME NEW i \in 1..(Len(s) + Len(t)) PROVE (s \o t)[i] \in Range(s) \cup Range(t)
    <2>1. CASE i <= Len(s)
      BY <1>1, <1>2, <2>1 DEF Range
    <2>2. CASE ~(i <= Len(s))
      <3>1. i - Len(s) \in 1..Len(t)
        BY <1>2, <2>2
      <3> QED
        BY <1>1, <2>2, <3>1 DEF Range
    <2> QED
      BY <2>1, <2>2
  <1>4. DOMAIN (s \o t) = 1..(Len(s) + Len(t))
    BY <1>1
  <1> QED
    BY <1>1, <1>3, <1>4 DEF Range

-----------------------------------------------------------------------------
(***************************************************************************)
(* The names. While secrets of the pod, or of the collector, are read, the  *)
(* names still unread are among those that may be read.                    *)
(***************************************************************************)

PodNames == Range(pod.pullSecrets) \cup Range(lookup.pod.names)

CollectorNames == IF lookup.collector.ok THEN Range(lookup.collector.names)
                  ELSE Range(ConfiguredSecrets)

Asking == {"podAccount", "podSecrets", "collectorAccount", "collectorSecrets"}

NamesOK ==
  /\ look \in Asking \cup {"none", "noClient", "mounted", "ready"}
  /\ unread \in Seq(STRING)
  /\ lookup = [pod |-> lookup.pod, collector |-> lookup.collector]
  /\ look \in Asking => HasSecretsPermission
  /\ look \in {"none", "podAccount", "noClient"} => reads = {}
  /\ look \in {"podAccount", "podSecrets", "collectorAccount"} => \A x \in reads : x.by # "collector"
  /\ look = "podAccount" => Range(unread) \subseteq Range(pod.pullSecrets)
  /\ look = "podSecrets" => Range(unread) \subseteq PodNames
  /\ look = "collectorSecrets" => Range(unread) \subseteq CollectorNames
  /\ NamedSecretsOnly

LEMMA EmptyNames == <<>> \in Seq(STRING) /\ Range(<<>>) = {}
  BY DEF Range

LEMMA AnswerType ==
  ASSUME NEW ns \in DOMAIN SecretAuths, NEW answer \in AccountAnswers(ns)
  PROVE  answer.names \in Seq(STRING)
  <1>1. AccountSecrets[ns] \subseteq Seq(STRING)
    BY KeychainAssumption
  <1>2. answer.names = <<>> \/ answer.names \in AccountSecrets[ns]
    BY DEF AccountAnswers, NotFound, Failed
  <1> QED
    BY <1>1, <1>2, EmptyNames

\* Where nothing is being looked up, nothing has been read.
LEMMA NamesEnded ==
  ASSUME look' = "none", reads' = {}, unread' = <<>>, lookup' = NoLookups
  PROVE  NamesOK'
  BY EmptyNames DEF NamesOK, NamedSecretsOnly, NoLookups, Asking

LEMMA NamesSame ==
  ASSUME NamesOK, UNCHANGED <<keyVars, pod, startVars>>
  PROVE  NamesOK'
  BY DEF NamesOK, NamedSecretsOnly, PodNames, CollectorNames, HasSecretsPermission, keyVars, startVars

LEMMA NamesPodAccount ==
  ASSUME NamesOK, pod \in Pods, UNCHANGED <<pod, startVars>>, GetPodAccount(pod.ns)
  PROVE  NamesOK'
  <1>1. PICK answer \in AccountAnswers(pod.ns) :
          lookup' = [lookup EXCEPT !.pod = answer] /\ unread' = unread \o answer.names
    BY DEF GetPodAccount
  <1>2. answer.names \in Seq(STRING)
    BY AnswerType, CollectorAssumption
  <1>3. unread' \in Seq(STRING) /\ Range(unread') \subseteq Range(unread) \cup Range(answer.names)
    BY <1>1, <1>2, BothRanges DEF NamesOK
  <1>4. lookup' = [pod |-> answer, collector |-> lookup.collector]
    BY <1>1 DEF NamesOK
  <1>5. look = "podAccount" /\ look' = "podSecrets" /\ reads' = reads
    BY DEF GetPodAccount
  <1>6. reads = {} /\ HasSecretsPermission' /\ Range(unread) \subseteq Range(pod.pullSecrets)
    BY <1>5 DEF NamesOK, Asking, HasSecretsPermission, startVars
  <1>7. Range(unread') \subseteq PodNames'
    BY <1>3, <1>4, <1>6 DEF PodNames
  <1> QED
    BY <1>3, <1>4, <1>5, <1>6, <1>7 DEF NamesOK, NamedSecretsOnly, Asking

LEMMA NamesCollectorAccount ==
  ASSUME NamesOK, UNCHANGED <<pod, startVars>>, GetCollectorAccount
  PROVE  NamesOK'
  <1>1. PICK answer \in AccountAnswers(CollectorNamespace) :
          /\ lookup' = [lookup EXCEPT !.collector = answer]
          /\ unread' = IF answer.ok THEN answer.names ELSE ConfiguredSecrets
    BY DEF GetCollectorAccount
  <1>2. unread' \in Seq(STRING)
    BY <1>1, AnswerType, KeychainAssumption
  <1>3. lookup' = [pod |-> lookup.pod, collector |-> answer]
    BY <1>1 DEF NamesOK
  <1>4. look = "collectorAccount" /\ look' = "collectorSecrets" /\ reads' = reads
    BY DEF GetCollectorAccount
  <1>5. Range(unread') \subseteq CollectorNames'
    BY <1>1, <1>3 DEF CollectorNames
  <1>6. HasSecretsPermission' /\ \A x \in reads : x.by # "collector"
    BY <1>4 DEF NamesOK, Asking, HasSecretsPermission, startVars
  <1>7. NamedSecretsOnly'
    BY <1>3, <1>4, <1>6 DEF NamesOK, NamedSecretsOnly
  <1> QED
    BY <1>2, <1>3, <1>4, <1>5, <1>6, <1>7 DEF NamesOK, Asking

\* Where the secrets of whose they are come from.
SecretSpace == IF Whose = "pod" THEN pod.ns ELSE CollectorNamespace

LEMMA NamesRead ==
  ASSUME NamesOK, UNCHANGED <<pod, startVars, lookup>>, ReadingSecrets,
         \/ look' = look /\ unread' = Tail(unread)
         \/ look' = After[look] /\ unread' = <<>>,
         NEW outcome,
         reads' = reads \cup {Secret(SecretSpace, outcome)}
  PROVE  NamesOK'
  <1>1. look \in {"podSecrets", "collectorSecrets"} /\ unread \in Seq(STRING) /\ unread # <<>>
    BY DEF ReadingSecrets, NamesOK
  <1>2. unread' \in Seq(STRING) /\ Range(unread') \subseteq Range(unread) /\ Head(unread) \in Range(unread)
    BY <1>1, HeadAndTail, EmptyNames
  <1>3. HasSecretsPermission /\ HasSecretsPermission'
    BY <1>1 DEF NamesOK, Asking, HasSecretsPermission, startVars
  <1>4. PodNames' = PodNames /\ CollectorNames' = CollectorNames
    BY DEF PodNames, CollectorNames
  <1> DEFINE x == Secret(SecretSpace, outcome)
  <1>5. /\ look = "podSecrets" => x.by = "pod" /\ x.ns = pod.ns /\ x.name \in PodNames
        /\ look = "collectorSecrets" => x.by = "collector" /\ x.ns = CollectorNamespace
                                        /\ x.name \in CollectorNames
    BY <1>1, <1>2 DEF Secret, SecretSpace, Whose, NamesOK
  <1> HIDE DEF x
  <1>6. reads' = reads \cup {x}
    BY DEF x
  <1>7. NamedSecretsOnly'
    BY <1>1, <1>3, <1>5, <1>6 DEF NamesOK, NamedSecretsOnly, PodNames, CollectorNames
  <1>8. \/ look' = look
        \/ look = "podSecrets" /\ look' = "collectorAccount"
        \/ look = "collectorSecrets" /\ look' = "mounted"
    BY <1>1 DEF After
  <1>9. look' \in {"podSecrets", "collectorAccount"} => \A y \in reads' : y.by # "collector"
    BY <1>1, <1>5, <1>6, <1>8 DEF NamesOK
  <1> QED
    BY <1>1, <1>2, <1>3, <1>4, <1>5, <1>6, <1>7, <1>8, <1>9 DEF NamesOK, Asking

LEMMA NamesKeychain == PassTypes /\ NamesOK /\ UNCHANGED startVars /\ GetKeychain => NamesOK'
  <1> SUFFICES ASSUME PassTypes, NamesOK, UNCHANGED startVars, GetKeychain PROVE NamesOK'
    OBVIOUS
  <1>a. pod' = pod /\ pod \in Pods
    BY DEF GetKeychain, passVars, PassTypes
  <1>1. CASE GetPodAccount(pod.ns)
    BY <1>a, <1>1, NamesPodAccount
  <1>2. CASE GetCollectorAccount
    BY <1>a, <1>2, NamesCollectorAccount
  <1>3. CASE SecretFound(SecretSpace) \/ SecretNotFound(SecretSpace) \/ SecretFails(SecretSpace)
    BY <1>a, <1>3, NamesRead DEF SecretFound, SecretNotFound, SecretFails
  <1>4. CASE AddChain \/ ChainFails \/ AddMountedKeychain
    <2>1. UNCHANGED <<lookup, unread, reads>>
      BY <1>4 DEF AddChain, ChainFails, AddMountedKeychain
    <2>2. \/ look = "podSecrets" /\ look' = "collectorAccount"
          \/ /\ look \in {"collectorSecrets", "noClient", "mounted"}
             /\ look' \in {"mounted", "ready"}
      BY <1>4 DEF AddChain, ChainFails, ChainDue, After, AddMountedKeychain
    <2>3. HasSecretsPermission' = HasSecretsPermission /\ NamedSecretsOnly'
      BY <1>a, <2>1 DEF HasSecretsPermission, startVars, NamesOK, NamedSecretsOnly
    <2> QED
      BY <1>a, <2>1, <2>2, <2>3 DEF NamesOK, Asking
  <1> QED
    BY <1>1, <1>2, <1>3, <1>4 DEF GetKeychain, KeychainStep, SecretSpace

LEMMA NamesNext == PassTypes /\ NamesOK /\ [Next]_vars => NamesOK'
  <1> SUFFICES ASSUME PassTypes, NamesOK, [Next]_vars PROVE NamesOK'
    OBVIOUS
  <1>1. CASE Start \/ Fail
    <2>1. PassLost /\ (step = "running" => step' \in {"failing", "exited"})
      BY <1>1, RunningEnds DEF Start, Fail
    <2>2. CASE step' \in {"failing", "exited"}
      BY <2>1, <2>2, NamesEnded DEF PassLost, KeychainEnds
    <2>3. CASE step' \notin {"failing", "exited"}
      <3>1. look = "none" /\ UNCHANGED keyVars
        BY <2>1, <2>3 DEF PassLost, PassTypes
      <3> QED
        BY <3>1 DEF NamesOK, NamedSecretsOnly, Asking, keyVars
    <2> QED
      BY <2>2, <2>3
  <1>2. ASSUME NEW p \in Pods, Reconcile(p), UNCHANGED startVars PROVE NamesOK'
    <2>1. /\ pod' = p /\ reads' = reads /\ lookup' = lookup
          /\ look' = IF HasSecretsPermission THEN "podAccount" ELSE "noClient"
          /\ unread' = IF HasSecretsPermission THEN p.pullSecrets ELSE <<>>
      BY <1>2 DEF Reconcile, StartKeychain
    <2>2. look = "none" /\ reads = {}
      BY <1>2 DEF Reconcile, PassTypes, NamesOK
    <2>3. unread' \in Seq(STRING)
      BY <2>1, CollectorAssumption, EmptyNames
    <2>4. HasSecretsPermission' = HasSecretsPermission
      BY <1>2 DEF HasSecretsPermission, startVars
    <2> QED
      BY <2>1, <2>2, <2>3, <2>4 DEF NamesOK, NamedSecretsOnly, Asking
  <1>3. CASE GetKeychain /\ UNCHANGED startVars
    BY <1>3, NamesKeychain
  <1>4. CASE ListImages
    BY <1>4, NamesEnded DEF ListImages, HandOverKeychain, KeychainEnds
  <1>5. CASE /\ UNCHANGED startVars
             /\ \/ SkipStatus \/ SkipImage \/ GetImageStatus \/ ResolveContainerdImage
                \/ UseMirror \/ GenerateAndSend \/ ScanFails
    BY <1>5, NamesSame DEF SkipStatus, SkipImage, GetImageStatus, ResolveContainerdImage,
                           UseMirror, GenerateAndSend, ScanFails
  <1>6. CASE Return
    <2>1. look = "none" /\ UNCHANGED keyVars
      BY <1>6 DEF Return, PassTypes
    <2> QED
      BY <2>1 DEF NamesOK, NamedSecretsOnly, Asking, keyVars
  <1>7. CASE UNCHANGED vars
    BY <1>7, NamesSame DEF vars, passVars
  <1> QED
    BY <1>1, <1>2, <1>3, <1>4, <1>5, <1>6, <1>7 DEF Next, PassNext

LEMMA NamesInit == Init => NamesOK
  BY EmptyNames DEF Init, KeychainInit, NamesOK, NamedSecretsOnly, NoLookups, Asking

LEMMA NamesAlways == Spec => [](PassTypes /\ NamesOK)
  BY Always, NamesInit, NamesNext, PTL DEF Spec

\* A secret is only read with the permission, and under a name that the pod, its
\* service account or the collector gives, for every list of names and every answer
\* about the service accounts (Watcher.getKeychain).
THEOREM OnlyNamedSecrets == Spec => []NamedSecretsOnly
  <1>1. NamesOK => NamedSecretsOnly
    BY DEF NamesOK
  <1> QED
    BY <1>1, NamesAlways, PTL

-----------------------------------------------------------------------------
(***************************************************************************)
(* The credentials. While somebody's secrets are read, what is held answers *)
(* what those read so far offer, and nothing if they offer nothing; what    *)
(* one reads is never anonymous, so that who comes first stays first.       *)
(***************************************************************************)

\* v answers what is offered.
Meets(v, offered) == IF offered = {} THEN v = "anonymous" ELSE v \in offered

LEMMA HubAliasesRange == /\ DOMAIN HubAliases = 1..3
                         /\ \A k \in 1..3 : HubAliases[k] \in Range(HubAliases)
                         /\ \A a \in Range(HubAliases) : \E k \in 1..3 : a = HubAliases[k]
  BY DEF HubAliases, Range

LEMMA FirstOf ==
  ASSUME NEW K \in SUBSET (1..3), K # {}
  PROVE  (CHOOSE k \in K : \A j \in K : k <= j) \in K
  <1>1. \E k \in K : \A j \in K : k <= j
    <2>1. CASE 1 \in K
      BY <2>1
    <2>2. CASE 1 \notin K /\ 2 \in K
      BY <2>2
    <2>3. CASE 1 \notin K /\ 2 \notin K
      <3>1. \A k \in 1..3 : k = 1 \/ k = 2 \/ k = 3
        OBVIOUS
      <3>2. K = {3}
        BY <2>3, <3>1
      <3> QED
        BY <3>2
    <2> QED
      BY <2>1, <2>2, <2>3
  <1> QED
    BY <1>1

\* Filling in Docker Hub's aliases changes no credentials a secret has, adds none but
\* to the aliases, gives the three of them credentials or none of them, and has nothing
\* left to do when it is done again.
THEOREM AliasesAreFilledIn ==
  ASSUME NEW auths
  PROVE  LET all == addDockerHubAliases(auths)
         IN /\ \A a \in DOMAIN auths : a \in DOMAIN all /\ all[a] = auths[a]
            /\ DOMAIN all \subseteq DOMAIN auths \cup Range(HubAliases)
            /\ Range(HubAliases) \cap DOMAIN all = {} \/ Range(HubAliases) \subseteq DOMAIN all
            /\ addDockerHubAliases(all) = all
  <1> DEFINE Known(f) == {k \in 1..3 : HubAliases[k] \in DOMAIN f}
             Given(f) == f[HubAliases[CHOOSE k \in Known(f) : \A j \in Known(f) : k <= j]]
             all == addDockerHubAliases(auths)
  <1>1. \A f : addDockerHubAliases(f) =
                 IF Known(f) = {} THEN f
                 ELSE [a \in DOMAIN f \cup Range(HubAliases) |-> IF a \in DOMAIN f THEN f[a] ELSE Given(f)]
    BY DEF addDockerHubAliases
  <1>2. CASE Known(auths) = {}
    <2>1. all = auths
      BY <1>1, <1>2
    <2>2. Range(HubAliases) \cap DOMAIN auths = {}
      BY <1>2, HubAliasesRange
    <2> HIDE DEF all, Known, Given
    <2> QED
      BY <2>1, <2>2 DEF all
  <1>3. CASE Known(auths) # {}
    <2>1. all = [a \in DOMAIN auths \cup Range(HubAliases) |->
                   IF a \in DOMAIN auths THEN auths[a] ELSE Given(auths)]
      BY <1>1, <1>3
    <2> HIDE DEF all, Given
    <2>2. Known(all) # {}
      BY <1>3, <2>1
    <2> HIDE DEF Known
    <2>3. addDockerHubAliases(all) =
            [a \in DOMAIN all \cup Range(HubAliases) |-> IF a \in DOMAIN all THEN all[a] ELSE Given(all)]
      BY <1>1, <2>2
    <2>4. DOMAIN all = DOMAIN auths \cup Range(HubAliases)
      BY <2>1
    <2>5. addDockerHubAliases(all) = all
      BY <2>1, <2>3, <2>4
    <2>6. \A a \in DOMAIN auths : a \in DOMAIN all /\ all[a] = auths[a]
      BY <2>1
    <2> QED
      BY <2>4, <2>5, <2>6 DEF all
  <1> QED
    BY <1>2, <1>3

\* A secret answers what it says.
LEMMA AnswersSays ==
  ASSUME NEW auths, NEW r \in Registries
  PROVE  Meets(Answers(auths)[r], Says(auths, r))
  <1> DEFINE known == {k \in 1..3 : HubAliases[k] \in DOMAIN auths}
             first == CHOOSE k \in known : \A j \in known : k <= j
             all == addDockerHubAliases(auths)
  <1>1. Answers(auths)[r] = IF r \in DOMAIN all THEN all[r] ELSE "anonymous"
    BY DEF Answers
  <1>2. CASE known = {}
    <2>1. all = auths
      BY <1>2 DEF addDockerHubAliases
    <2>2. DOMAIN auths \cap Range(HubAliases) = {}
      BY <1>2, HubAliasesRange
    <2> HIDE DEF all, known, first
    <2> QED
      BY <1>1, <2>1, <2>2 DEF Meets, Says
  <1>3. CASE known # {}
    <2>1. all = [a \in DOMAIN auths \cup Range(HubAliases) |->
                   IF a \in DOMAIN auths THEN auths[a] ELSE auths[HubAliases[first]]]
      BY <1>3 DEF addDockerHubAliases
    <2>2. first \in known
      <3>1. known \in SUBSET (1..3)
        OBVIOUS
      <3> HIDE DEF known
      <3> QED BY <1>3, <3>1, FirstOf
    <2>3. HubAliases[first] \in DOMAIN auths \cap Range(HubAliases)
      BY <2>2, HubAliasesRange
    <2> HIDE DEF all, known, first
    <2>4. CASE r \in DOMAIN auths
      BY <1>1, <2>1, <2>4 DEF Meets, Says
    <2>5. CASE r \notin DOMAIN auths /\ r \in Range(HubAliases)
      BY <1>1, <2>1, <2>3, <2>5 DEF Meets, Says
    <2>6. CASE r \notin DOMAIN auths /\ r \notin Range(HubAliases)
      BY <1>1, <2>1, <2>6 DEF Meets, Says
    <2> QED
      BY <2>4, <2>5, <2>6
  <1> QED
    BY <1>2, <1>3

LEMMA LayerMeets ==
  ASSUME NEW first, NEW second, NEW r \in Registries, NEW one, NEW two,
         Meets(first[r], one), Meets(second[r], two), "anonymous" \notin one
  PROVE  /\ Meets(Layer(first, second)[r], one \cup two)
         /\ Meets(Layer(first, second)[r], IF one # {} THEN one ELSE two)
  BY DEF Meets, Layer

FailedFor(who) == \E x \in reads : x.by = who /\ x.outcome = "failed"

\* What was found is there to be read.
FoundOK == \A x \in reads : x.outcome = "found" => /\ x.ns \in DOMAIN SecretAuths
                                                   /\ x.name \in DOMAIN SecretAuths[x.ns]

OffersOK(who) == \A r \in Registries : Meets(held[r], Offers(who, r))

\* What comes first, if it has anything.
Else(one, two) == IF one # {} THEN one ELSE two

\* What answers before the mounted files.
Chains(r) == Else(Chain("pod", r), Else(Chain("collector", r), Chain("machine", r)))

CredentialsOK ==
  /\ FoundOK
  /\ look \in {"none", "podAccount", "collectorAccount", "noClient"} => held = Anonymous
  /\ look \in {"none", "podAccount", "podSecrets", "noClient"} => keychain = Anonymous /\ made = {}
  /\ look = "podSecrets" => OffersOK("pod") /\ ~FailedFor("pod")
  /\ look \in {"collectorAccount", "collectorSecrets"} =>
       made \subseteq {"pod"} /\ \A r \in Registries : Meets(keychain[r], Chain("pod", r))
  /\ look = "collectorSecrets" => OffersOK("collector") /\ ~FailedFor("collector")
  /\ look = "mounted" => \A r \in Registries : Meets(keychain[r], Chains(r))
  /\ OwnCredentialsFirst

LEMMA OffersKnown ==
  ASSUME FoundOK, NEW who, NEW r
  PROVE  "anonymous" \notin Offers(who, r)
  <1> SUFFICES ASSUME NEW v \in Offers(who, r) PROVE v # "anonymous"
    OBVIOUS
  <1>1. PICK x \in reads : x.outcome = "found" /\ v \in Says(SecretAuths[x.ns][x.name], r)
    BY DEF Offers
  <1>2. x.ns \in DOMAIN SecretAuths /\ x.name \in DOMAIN SecretAuths[x.ns]
    BY <1>1 DEF FoundOK
  <1>3. \E k \in DOMAIN SecretAuths[x.ns][x.name] : v = SecretAuths[x.ns][x.name][k]
    BY <1>1 DEF Says
  <1> QED
    BY <1>2, <1>3, KeychainAssumption

\* Who has read nothing offers nothing.
LEMMA OffersNothing ==
  ASSUME NEW who, \A x \in reads : x.by # who, NEW r
  PROVE  Offers(who, r) = {} /\ ~FailedFor(who)
  BY DEF Offers, FailedFor

\* One more call changes the offers of the one for whom it is.
LEMMA OffersMore ==
  ASSUME NEW x, reads' = reads \cup {x}, NEW r
  PROVE  /\ \A who : who # x.by => Offers(who, r)' = Offers(who, r)
         /\ x.outcome = "failed" => Offers(x.by, r)' = {}
         /\ x.outcome = "missing" => Offers(x.by, r)' = Offers(x.by, r)
         /\ x.outcome = "found" /\ ~FailedFor(x.by) =>
              Offers(x.by, r)' = Offers(x.by, r) \cup Says(SecretAuths[x.ns][x.name], r)
  <1>1. ASSUME NEW who, who # x.by PROVE Offers(who, r)' = Offers(who, r)
    BY <1>1 DEF Offers
  <1>2. x.outcome = "failed" => Offers(x.by, r)' = {}
    BY DEF Offers
  <1>3. x.outcome = "missing" => Offers(x.by, r)' = Offers(x.by, r)
    BY DEF Offers
  <1>4. x.outcome = "found" /\ ~FailedFor(x.by) =>
          Offers(x.by, r)' = Offers(x.by, r) \cup Says(SecretAuths[x.ns][x.name], r)
    BY DEF Offers, FailedFor
  <1> QED
    BY <1>1, <1>2, <1>3, <1>4

LEMMA CredentialsInit == Init => CredentialsOK
  BY DEF Init, KeychainInit, CredentialsOK, FoundOK, OwnCredentialsFirst

LEMMA CredentialsEnded ==
  ASSUME look' = "none", reads' = {}, held' = Anonymous, keychain' = Anonymous, made' = {}
  PROVE  CredentialsOK'
  BY DEF CredentialsOK, FoundOK, OwnCredentialsFirst

LEMMA OffersSame ==
  ASSUME UNCHANGED reads
  PROVE  /\ \A who, r : Offers(who, r)' = Offers(who, r)
         /\ \A who : FailedFor(who)' = FailedFor(who)
         /\ FoundOK => FoundOK'
  BY DEF Offers, FailedFor, FoundOK

LEMMA ChainSame ==
  ASSUME NEW who, NEW r, Offers(who, r)' = Offers(who, r), who \in made' <=> who \in made
  PROVE  Chain(who, r)' = Chain(who, r)
  BY DEF Chain

LEMMA CredentialsSame ==
  ASSUME CredentialsOK, UNCHANGED keyVars
  PROVE  CredentialsOK'
  <1>1. UNCHANGED <<look, unread, held, keychain, made, reads>>
    BY DEF keyVars
  <1>2. \A who, r : Offers(who, r)' = Offers(who, r) /\ Chain(who, r)' = Chain(who, r)
    BY <1>1, OffersSame, ChainSame
  <1>3. FoundOK' /\ \A who : FailedFor(who)' = FailedFor(who)
    BY <1>1, OffersSame DEF CredentialsOK
  <1>4. \A r : Chains(r)' = Chains(r)
    BY <1>2 DEF Chains, Else
  <1>5. \A who : OffersOK(who)' = OffersOK(who)
    BY <1>1, <1>2 DEF OffersOK
  <1>6. OwnCredentialsFirst'
    BY <1>1, <1>2 DEF CredentialsOK, OwnCredentialsFirst
  <1> QED
    BY <1>1, <1>2, <1>3, <1>4, <1>5, <1>6 DEF CredentialsOK

LEMMA ChainKnown ==
  ASSUME FoundOK, NEW who, NEW r
  PROVE  "anonymous" \notin Chain(who, r)
  BY OffersKnown DEF Chain

LEMMA AnonymousMeets == \A r \in Registries : Meets(Anonymous[r], {})
  BY DEF Meets, Anonymous

LEMMA CredentialsPodAccount ==
  ASSUME NamesOK, CredentialsOK, NEW ns, GetPodAccount(ns)
  PROVE  CredentialsOK'
  <1>1. /\ look = "podAccount" /\ look' = "podSecrets" /\ UNCHANGED <<held, keychain, made, reads>>
        /\ held = Anonymous /\ keychain = Anonymous /\ made = {} /\ reads = {}
    BY DEF GetPodAccount, CredentialsOK, NamesOK
  <1>2. (\A r : Offers("pod", r)' = {}) /\ ~FailedFor("pod")'
    BY <1>1 DEF Offers, FailedFor
  <1>3. OffersOK("pod")'
    BY <1>1, <1>2, AnonymousMeets DEF OffersOK
  <1> QED
    BY <1>1, <1>2, <1>3, OffersSame DEF CredentialsOK, OwnCredentialsFirst

LEMMA CredentialsCollectorAccount ==
  ASSUME NamesOK, CredentialsOK, GetCollectorAccount
  PROVE  CredentialsOK'
  <1>1. /\ look = "collectorAccount" /\ look' = "collectorSecrets"
        /\ UNCHANGED <<held, keychain, made, reads>>
        /\ held = Anonymous /\ \A x \in reads : x.by # "collector"
    BY DEF GetCollectorAccount, CredentialsOK, NamesOK
  <1>2. (\A r : Offers("collector", r)' = {}) /\ ~FailedFor("collector")'
    BY <1>1, OffersNothing, OffersSame
  <1>3. OffersOK("collector")'
    BY <1>1, <1>2, AnonymousMeets DEF OffersOK
  <1>4. made' \subseteq {"pod"} /\ \A r \in Registries : Meets(keychain'[r], Chain("pod", r)')
    BY <1>1, OffersSame, ChainSame DEF CredentialsOK
  <1> QED
    BY <1>1, <1>2, <1>3, <1>4, OffersSame DEF CredentialsOK, OwnCredentialsFirst

\* A secret is read: what it says is added to what its owner offers; the other
\* one's offers stay.
LEMMA CredentialsRead ==
  ASSUME NamesOK, CredentialsOK, NEW ns \in DOMAIN SecretAuths, SecretFound(ns) \/ SecretNotFound(ns)
  PROVE  CredentialsOK'
  <1>a. PICK who : who = Whose
    OBVIOUS
  <1>1. /\ look \in {"podSecrets", "collectorSecrets"} /\ UNCHANGED <<look, keychain, made>>
        /\ who = IF look = "podSecrets" THEN "pod" ELSE "collector"
    BY <1>a DEF SecretFound, SecretNotFound, ReadingSecrets, Whose
  <1>2. OffersOK(who) /\ ~FailedFor(who) /\ FoundOK
    BY <1>1 DEF CredentialsOK
  <1>3. PICK outcome \in {"found", "missing"} :
          /\ reads' = reads \cup {Secret(ns, outcome)}
          /\ outcome = "found" => /\ Head(unread) \in DOMAIN SecretAuths[ns]
                                  /\ held' = Layer(held, Answers(SecretAuths[ns][Head(unread)]))
          /\ outcome = "missing" => held' = held
    BY DEF SecretFound, SecretNotFound
  <1>b. PICK x : x = Secret(ns, outcome)
    OBVIOUS
  <1>4. x.by = who /\ x.ns = ns /\ x.name = Head(unread) /\ x.outcome = outcome
    BY <1>a, <1>b DEF Secret
  <1>5. reads' = reads \cup {x}
    BY <1>3, <1>b
  <1>6. FoundOK'
    BY <1>2, <1>3, <1>4, <1>5 DEF FoundOK
  <1>7. OffersOK(who)'
    <2> SUFFICES ASSUME NEW r \in Registries PROVE Meets(held'[r], Offers(who, r)')
      BY DEF OffersOK
    <2>1. Meets(held[r], Offers(who, r)) /\ "anonymous" \notin Offers(who, r)
      BY <1>2, OffersKnown DEF OffersOK
    <2>2. CASE outcome = "found"
      <3>1. Offers(who, r)' = Offers(who, r) \cup Says(SecretAuths[ns][Head(unread)], r)
        BY <1>2, <1>4, <1>5, <2>2, OffersMore
      <3>2. Meets(Answers(SecretAuths[ns][Head(unread)])[r], Says(SecretAuths[ns][Head(unread)], r))
        BY AnswersSays
      <3> QED
        BY <1>3, <2>1, <2>2, <3>1, <3>2, LayerMeets
    <2>3. CASE outcome = "missing"
      BY <1>3, <1>4, <1>5, <2>1, <2>3, OffersMore
    <2> QED
      BY <2>2, <2>3
  <1>8. ~FailedFor(who)'
    BY <1>2, <1>3, <1>4, <1>5 DEF FailedFor
  <1>9. look = "collectorSecrets" =>
          made' \subseteq {"pod"} /\ \A r \in Registries : Meets(keychain'[r], Chain("pod", r)')
    BY <1>1, <1>4, <1>5, OffersMore, ChainSame DEF CredentialsOK
  <1> QED
    BY <1>1, <1>6, <1>7, <1>8, <1>9 DEF CredentialsOK, OwnCredentialsFirst

\* A keychain of secrets that offer one is made: the machine's answers come behind.
LEMMA ChainMade ==
  ASSUME NEW who, FoundOK, UNCHANGED reads, made' = made \cup {who}, NEW r \in Registries,
         Meets(held[r], Offers(who, r))
  PROVE  Meets(Layer(held, Machine)[r], Chain(who, r)')
  <1>1. Meets(Machine[r], {Machine[r]} \ {"anonymous"})
    BY DEF Meets
  <1>2. Meets(Layer(held, Machine)[r], Else(Offers(who, r), {Machine[r]} \ {"anonymous"}))
    <2> PICK machine : machine = Machine
      OBVIOUS
    <2> QED
      BY <1>1, LayerMeets, OffersKnown DEF Else
  <1>3. Chain(who, r)' = Else(Offers(who, r), {Machine[r]} \ {"anonymous"})
    BY OffersSame DEF Chain, Else, Machine
  <1> QED
    BY <1>2, <1>3

\* The keychain that is due is made, behind those made before.
LEMMA CredentialsLayered ==
  ASSUME NamesOK, CredentialsOK, AddChain
  PROVE  CredentialsOK'
  <1>1. /\ keychain' = Layer(keychain, Layer(held, Machine)) /\ held' = Anonymous /\ UNCHANGED reads
        /\ \/ look = "podSecrets" /\ look' = "collectorAccount" /\ made' = made \cup {"pod"}
           \/ look = "collectorSecrets" /\ look' = "mounted" /\ made' = made \cup {"collector"}
           \/ look = "noClient" /\ look' = "mounted" /\ made' = made \cup {"machine"}
    BY DEF AddChain, ChainDue, After, Whose
  <1>a. FoundOK /\ FoundOK'
    BY <1>1, OffersSame DEF CredentialsOK
  <1>2. CASE look = "podSecrets"
    <2>1. ASSUME NEW r \in Registries PROVE Meets(keychain'[r], Chain("pod", r)')
      <3>1. Meets(keychain[r], {}) /\ Meets(Layer(held, Machine)[r], Chain("pod", r)')
        BY <1>1, <1>2, <1>a, AnonymousMeets, ChainMade DEF CredentialsOK, OffersOK
      <3> QED
        BY <1>1, <3>1, LayerMeets
    <2>2. made' \subseteq {"pod"}
      BY <1>1, <1>2 DEF CredentialsOK
    <2> QED
      BY <1>1, <1>2, <1>a, <2>1, <2>2 DEF CredentialsOK, OwnCredentialsFirst
  <1>3. CASE look = "collectorSecrets"
    <2>1. ASSUME NEW r \in Registries PROVE Meets(keychain'[r], Chains(r)')
      <3>1. Meets(keychain[r], Chain("pod", r)) /\ Meets(Layer(held, Machine)[r], Chain("collector", r)')
        BY <1>1, <1>3, <1>a, ChainMade DEF CredentialsOK, OffersOK
      <3>2. Chain("pod", r)' = Chain("pod", r) /\ Chain("machine", r)' = {}
        BY <1>1, <1>3, OffersSame, ChainSame DEF Chain, CredentialsOK
      <3>3. Meets(Layer(keychain, Layer(held, Machine))[r],
                  Else(Chain("pod", r), Chain("collector", r)'))
        BY <1>a, <3>1, ChainKnown, LayerMeets DEF Else
      <3> QED
        BY <1>1, <3>2, <3>3 DEF Chains, Else
    <2> QED
      BY <1>1, <1>3, <1>a, <2>1 DEF CredentialsOK, OwnCredentialsFirst
  <1>4. CASE look = "noClient"
    <2>1. ASSUME NEW r \in Registries PROVE Meets(keychain'[r], Chains(r)')
      <3>1. Meets(keychain[r], {}) /\ Meets(held[r], Offers("machine", r))
        BY <1>4, AnonymousMeets, OffersNothing DEF CredentialsOK, NamesOK
      <3>2. Meets(Layer(held, Machine)[r], Chain("machine", r)')
        BY <1>1, <1>4, <1>a, <3>1, ChainMade
      <3>3. Chain("pod", r)' = {} /\ Chain("collector", r)' = {}
        BY <1>1, <1>4 DEF Chain, CredentialsOK
      <3>4. Chains(r)' = Chain("machine", r)'
        BY <3>3 DEF Chains, Else
      <3> QED
        BY <1>1, <3>1, <3>2, <3>4, LayerMeets
    <2> QED
      BY <1>1, <1>4, <1>a, <2>1 DEF CredentialsOK, OwnCredentialsFirst
  <1> QED
    BY <1>1, <1>2, <1>3, <1>4

\* A keychain that could not be made, for want of a secret or otherwise, is left out.
LEMMA CredentialsLeftOut ==
  ASSUME NamesOK, CredentialsOK, NEW ns, SecretFails(ns) \/ ChainFails
  PROVE  CredentialsOK'
  <1>1. /\ held' = Anonymous /\ UNCHANGED <<keychain, made>>
        /\ \/ look = "podSecrets" /\ look' = "collectorAccount"
           \/ look \in {"collectorSecrets", "noClient"} /\ look' = "mounted"
    BY DEF SecretFails, ReadingSecrets, ChainFails, ChainDue, After
  <1>2. /\ FoundOK'
        /\ look = "collectorSecrets" => \A r : Offers("pod", r)' = Offers("pod", r)
    <2>1. CASE SecretFails(ns)
      <3>1. PICK x : x = Secret(ns, "failed")
        OBVIOUS
      <3>2. reads' = reads \cup {x} /\ x.outcome = "failed" /\ x.by = Whose
        BY <2>1, <3>1 DEF SecretFails, Secret
      <3>3. look = "collectorSecrets" => x.by = "collector"
        BY <3>2 DEF Whose
      <3> QED
        BY <3>2, <3>3, OffersMore DEF CredentialsOK, FoundOK
    <2>2. CASE ChainFails
      BY <2>2, OffersSame DEF ChainFails, CredentialsOK
    <2> QED
      BY <2>1, <2>2
  <1>3. CASE look \in {"podSecrets", "noClient"}
    <2>1. keychain' = Anonymous /\ made' = {}
      BY <1>1, <1>3 DEF CredentialsOK
    <2>2. \A who, r : Chain(who, r)' = {}
      BY <2>1 DEF Chain
    <2>3. \A r \in Registries : /\ Meets(keychain'[r], Chain("pod", r)')
                                /\ Meets(keychain'[r], Chains(r)')
      BY <2>1, <2>2, AnonymousMeets DEF Chains, Else
    <2> QED
      BY <1>1, <1>2, <1>3, <2>1, <2>3 DEF CredentialsOK, OwnCredentialsFirst
  <1>4. CASE look = "collectorSecrets"
    <2>1. \A r : /\ Chain("pod", r)' = Chain("pod", r)
                 /\ Chain("collector", r)' = {} /\ Chain("machine", r)' = {}
      BY <1>1, <1>2, <1>4, ChainSame DEF CredentialsOK, Chain
    <2>2. \A r : Chains(r)' = Chain("pod", r)
      BY <2>1 DEF Chains, Else
    <2>3. \A r \in Registries : Meets(keychain'[r], Chains(r)')
      BY <1>1, <1>4, <2>2 DEF CredentialsOK
    <2> QED
      BY <1>1, <1>2, <1>4, <2>3 DEF CredentialsOK, OwnCredentialsFirst
  <1> QED
    BY <1>1, <1>3, <1>4

LEMMA MountedKnown ==
  ASSUME NEW files \in MountedFiles, NEW r
  PROVE  "anonymous" \notin Says(MountedAuths(files), r)
  <1>1. \A k \in DOMAIN MountedAuths(files) : MountedAuths(files)[k] # "anonymous"
    BY KeychainAssumption DEF MountedAuths
  <1> QED
    BY <1>1 DEF Says

LEMMA CredentialsMounted ==
  ASSUME NamesOK, CredentialsOK, AddMountedKeychain
  PROVE  CredentialsOK'
  <1>1. PICK files \in MountedFiles :
          keychain' = Layer(keychain, Layer(CreateMountedSecretKeychain(files), DefaultAuths))
    BY DEF AddMountedKeychain
  <1>2. look = "mounted" /\ look' = "ready" /\ UNCHANGED <<held, made, reads>>
    BY DEF AddMountedKeychain
  <1>3. \A who, r : Chain(who, r)' = Chain(who, r)
    BY <1>2, OffersSame, ChainSame
  <1>4. ASSUME NEW r \in Registries
        PROVE  keychain'[r] \in IF Chains(r) # {} THEN Chains(r)
                                ELSE UNION {MountedOffers(f, r) : f \in MountedFiles}
    <2> DEFINE last == Layer(CreateMountedSecretKeychain(files), DefaultAuths)
    <2>1. Meets(keychain[r], Chains(r)) /\ "anonymous" \notin Chains(r)
      BY <1>2, ChainKnown DEF CredentialsOK, Chains, Else
    <2>2. last[r] \in MountedOffers(files, r)
      <3>1. Meets(CreateMountedSecretKeychain(files)[r], Says(MountedAuths(files), r))
        BY AnswersSays DEF CreateMountedSecretKeychain
      <3>2. last[r] = IF CreateMountedSecretKeychain(files)[r] # "anonymous"
                        THEN CreateMountedSecretKeychain(files)[r] ELSE DefaultAuths[r]
        BY DEF Layer
      <3> HIDE DEF last
      <3> QED
        BY <3>1, <3>2, MountedKnown DEF Meets, MountedOffers
    <2>3. keychain'[r] = IF keychain[r] # "anonymous" THEN keychain[r] ELSE last[r]
      BY <1>1 DEF Layer
    <2> HIDE DEF last
    <2>4. CASE Chains(r) # {}
      BY <2>1, <2>3, <2>4 DEF Meets
    <2>5. CASE Chains(r) = {}
      BY <2>1, <2>2, <2>3, <2>5 DEF Meets
    <2> QED
      BY <2>4, <2>5
  <1>5. OwnCredentialsFirst'
    BY <1>2, <1>3, <1>4 DEF OwnCredentialsFirst, Chains, Else
  <1> QED
    BY <1>2, <1>5, OffersSame DEF CredentialsOK

LEMMA CredentialsNext == PassTypes /\ NamesOK /\ CredentialsOK /\ [Next]_vars => CredentialsOK'
  <1> SUFFICES ASSUME PassTypes, NamesOK, CredentialsOK, [Next]_vars PROVE CredentialsOK'
    OBVIOUS
  <1>1. CASE Start \/ Fail
    BY <1>1, CredentialsSame, CredentialsEnded DEF Start, Fail, PassLost, KeychainEnds
  <1>2. ASSUME NEW p \in Pods, Reconcile(p) PROVE CredentialsOK'
    <2>1. /\ look = "none" /\ look' \in {"podAccount", "noClient"}
          /\ UNCHANGED <<held, keychain, made, reads>>
      BY <1>2 DEF Reconcile, StartKeychain, PassTypes
    <2>2. held = Anonymous /\ keychain = Anonymous /\ made = {} /\ reads = {}
      BY <2>1 DEF CredentialsOK, NamesOK
    <2> QED
      BY <2>1, <2>2 DEF CredentialsOK, FoundOK, OwnCredentialsFirst
  <1>3. CASE GetKeychain
    <2>1. pod.ns \in DOMAIN SecretAuths /\ SecretSpace \in DOMAIN SecretAuths
      BY <1>3, CollectorAssumption, KeychainAssumption DEF GetKeychain, PassTypes, SecretSpace
    <2> QED
      BY <1>3, <2>1, CredentialsPodAccount, CredentialsCollectorAccount, CredentialsRead,
         CredentialsLayered, CredentialsLeftOut, CredentialsMounted DEF GetKeychain, KeychainStep, SecretSpace
  <1>4. CASE ListImages
    BY <1>4, CredentialsEnded DEF ListImages, HandOverKeychain, KeychainEnds
  <1>5. CASE \/ SkipStatus \/ SkipImage \/ GetImageStatus \/ ResolveContainerdImage
             \/ UseMirror \/ GenerateAndSend \/ ScanFails \/ Return \/ UNCHANGED vars
    BY <1>5, CredentialsSame DEF SkipStatus, SkipImage, GetImageStatus, ResolveContainerdImage,
                                 UseMirror, GenerateAndSend, ScanFails, Return, vars
  <1> QED
    BY <1>1, <1>2, <1>3, <1>4, <1>5 DEF Next, PassNext

\* Whatever calls fail, the credentials for a registry are the pod's if its secrets
\* could be read and have some, else the machine's if the pod has a keychain, then
\* the collector's and the machine's likewise, those mounted and the default ones,
\* for every content of the secrets, also under Docker Hub's other names.
THEOREM CredentialsHaveTheirOrder == Spec => []OwnCredentialsFirst
  <1>1. CredentialsOK => OwnCredentialsFirst
    BY DEF CredentialsOK
  <1>2. Spec => []CredentialsOK
    BY NamesAlways, CredentialsInit, CredentialsNext, PTL DEF Spec
  <1> QED
    BY <1>1, <1>2, PTL
=============================================================================
