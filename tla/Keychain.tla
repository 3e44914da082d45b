------------------------------ MODULE Keychain ------------------------------
(***************************************************************************)
(* getKeychain (internal/controllers/watcher.go, pkg/keychain): the calls  *)
(* of the API server that find a pod's and the collector's pull secrets,   *)
(* each of which may fail, and the credentials that come of them. A        *)
(* keychain is what it answers for each registry.                          *)
(***************************************************************************)
EXTENDS Naturals, Sequences, SequencesExt

CONSTANTS Registries,       \* the keys under which a puller asks
          CollectorNamespace,
          ConfiguredSecrets, \* CollectorServiceAccountPullSecrets
          SecretAuths,      \* SecretAuths[ns][name]: the credentials in a secret
          AccountSecrets,   \* AccountSecrets[ns]: what a service account may name
          DefaultAuths,     \* what the collector's own docker configuration answers
          CloudAuths,       \* what the keychains of the clouds answer
          MountedFiles      \* what the two mounted files may hold

\* Every credential is one, and the namespaces are those that have secrets.
ASSUME KeychainAssumption ==
  /\ CollectorNamespace \in DOMAIN SecretAuths
  /\ DOMAIN AccountSecrets = DOMAIN SecretAuths
  /\ DOMAIN DefaultAuths = Registries /\ DOMAIN CloudAuths = Registries
  /\ ConfiguredSecrets \in Seq(STRING)
  /\ \A ns \in DOMAIN SecretAuths :
       /\ AccountSecrets[ns] \subseteq Seq(STRING)
       /\ \A n \in DOMAIN SecretAuths[ns] :
            \A k \in DOMAIN SecretAuths[ns][n] : SecretAuths[ns][n][k] # "anonymous"
  /\ \A files \in MountedFiles : \A file \in {files.json, files.legacy} :
       \A k \in DOMAIN file.auths : file.auths[k] # "anonymous"

VARIABLES look,      \* where getKeychain is
          lookup,    \* lookup[who]: the answer about who's service account
          unread,    \* names of secrets still to be read
          held,      \* what the secrets read so far answer
          keychain,  \* what the keychains made so far answer
          made,      \* whose keychains they are: the pod's, the collector's, or
                     \* "machine" for the one made without a client (an observation)
          reads      \* the calls that read secrets, an observation

keyVars == <<look, lookup, unread, held, keychain, made, reads>>

-----------------------------------------------------------------------------
(* Credentials. *)

HubAliases == <<"docker.io", "index.docker.io", "https://index.docker.io/v1/">>

\* Mutated form: the first alias' credentials are the others' too, whatever they have.
overrideDockerHubAliases(auths) ==
  LET known == {k \in 1..3 : HubAliases[k] \in DOMAIN auths}
      first == CHOOSE k \in known : \A j \in known : k <= j
  IN IF known = {} THEN auths
     ELSE [a \in DOMAIN auths \cup Range(HubAliases) |->
             IF a \in Range(HubAliases) THEN auths[HubAliases[first]] ELSE auths[a]]

\* The first alias that has credentials gives them to those that have none.
addDockerHubAliases(auths) ==
  LET known == {k \in 1..3 : HubAliases[k] \in DOMAIN auths}
      first == CHOOSE k \in known : \A j \in known : k <= j
  IN IF known = {} THEN auths
     ELSE [a \in DOMAIN auths \cup Range(HubAliases) |->
             IF a \in DOMAIN auths THEN auths[a] ELSE auths[HubAliases[first]]]

Anonymous == [r \in Registries |-> "anonymous"]

\* What a secret answers, once it is normalized.
Answers(auths) == LET all == addDockerHubAliases(auths)
                  IN [r \in Registries |-> IF r \in DOMAIN all THEN all[r] ELSE "anonymous"]

\* Who comes first has precedence, among secrets and among keychains.
Layer(first, second) ==
  [r \in Registries |-> IF first[r] # "anonymous" THEN first[r] ELSE second[r]]

\* What needs no secret: the docker configuration of the collector, then the clouds.
Machine == Layer(DefaultAuths, CloudAuths)

\* The file of the present format, if it can be read and parsed, else the legacy
\* one's, else none.
MountedAuths(files) == IF files.json.usable THEN files.json.auths
                       ELSE IF files.legacy.usable THEN files.legacy.auths
                       ELSE <<>>

CreateMountedSecretKeychain(files) == Answers(MountedAuths(files))

-----------------------------------------------------------------------------
(* The calls. What is not there at the moment of a call is not an error;    *)
(* anything may come and go between two of them.                            *)

NotFound == [ok |-> TRUE, names |-> <<>>]
Failed   == [ok |-> FALSE, names |-> <<>>]
AccountAnswers(ns) == {NotFound, Failed} \cup {[ok |-> TRUE, names |-> s] : s \in AccountSecrets[ns]}

NoLookups == [pod |-> NotFound, collector |-> NotFound]

KeychainInit ==
  /\ look = "none" /\ lookup = NoLookups /\ unread = <<>>
  /\ held = Anonymous /\ keychain = Anonymous /\ made = {} /\ reads = {}

\* Without the permission no secret is looked for.
StartKeychain(permission, pullSecrets) ==
  /\ look' = IF permission THEN "podAccount" ELSE "noClient"
  /\ unread' = IF permission THEN pullSecrets ELSE <<>>
  /\ UNCHANGED <<lookup, held, keychain, made, reads>>

\* The pod's own names stay when its service account cannot be looked up.
GetPodAccount(ns) ==
  /\ look = "podAccount"
  /\ look' = "podSecrets"
  /\ \E answer \in AccountAnswers(ns) :
       /\ lookup' = [lookup EXCEPT !.pod = answer]
       /\ unread' = unread \o answer.names
  /\ UNCHANGED <<held, keychain, made, reads>>

\* Mutated form: the configured names are always used.
GetCollectorAccountToo ==
  /\ look = "collectorAccount"
  /\ look' = "collectorSecrets"
  /\ \E answer \in AccountAnswers(CollectorNamespace) :
       /\ lookup' = [lookup EXCEPT !.collector = answer]
       /\ unread' = ConfiguredSecrets \o answer.names
  /\ UNCHANGED <<held, keychain, made, reads>>

\* The collector's configured names count only if the lookup fails.
GetCollectorAccount ==
  /\ look = "collectorAccount"
  /\ look' = "collectorSecrets"
  /\ \E answer \in AccountAnswers(CollectorNamespace) :
       /\ lookup' = [lookup EXCEPT !.collector = answer]
       /\ unread' = IF answer.ok THEN answer.names ELSE ConfiguredSecrets
  /\ UNCHANGED <<held, keychain, made, reads>>

\* Whose keychain is due, and what comes after it.
Whose == CASE look = "podSecrets" -> "pod"
           [] look = "collectorSecrets" -> "collector"
           [] OTHER -> "machine"
After == [podSecrets |-> "collectorAccount", collectorSecrets |-> "mounted", noClient |-> "mounted"]
Secret(ns, outcome) == [by |-> Whose, ns |-> ns, name |-> Head(unread), outcome |-> outcome]

ReadingSecrets == look \in {"podSecrets", "collectorSecrets"} /\ unread # <<>>

SecretFound(ns) ==
  /\ ReadingSecrets
  /\ Head(unread) \in DOMAIN SecretAuths[ns]
  /\ held' = Layer(held, Answers(SecretAuths[ns][Head(unread)]))
  /\ unread' = Tail(unread)
  /\ reads' = reads \cup {Secret(ns, "found")}
  /\ UNCHANGED <<look, lookup, keychain, made>>

SecretNotFound(ns) ==
  /\ ReadingSecrets
  /\ unread' = Tail(unread)
  /\ reads' = reads \cup {Secret(ns, "missing")}
  /\ UNCHANGED <<look, lookup, held, keychain, made>>

\* Mutated form: what has been read before the failure is kept.
SecretFailsPartly(ns) ==
  /\ ReadingSecrets
  /\ unread' = <<>>
  /\ reads' = reads \cup {Secret(ns, "failed")}
  /\ UNCHANGED <<look, lookup, held, keychain, made>>

\* One failure costs the keychain of the pod, or of the collector, not both.
SecretFails(ns) ==
  /\ ReadingSecrets
  /\ held' = Anonymous
  /\ unread' = <<>>
  /\ look' = After[look]
  /\ reads' = reads \cup {Secret(ns, "failed")}
  /\ UNCHANGED <<lookup, keychain, made>>

ChainDue == look \in DOMAIN After /\ unread = <<>>

\* A keychain of the secrets that were read, or of none, and behind them in the
\* same keychain what needs no secret.
AddChain ==
  /\ ChainDue
  /\ keychain' = Layer(keychain, Layer(held, Machine))
  /\ made' = made \cup {Whose}
  /\ held' = Anonymous
  /\ look' = After[look]
  /\ UNCHANGED <<lookup, unread, reads>>

\* It cannot be made, as when a secret does not parse.
ChainFails ==
  /\ ChainDue
  /\ held' = Anonymous
  /\ look' = After[look]
  /\ UNCHANGED <<lookup, unread, keychain, made, reads>>

\* The mounted files, and last the collector's docker configuration.
AddMountedKeychain ==
  /\ look = "mounted"
  /\ \E files \in MountedFiles :
       keychain' = Layer(keychain, Layer(CreateMountedSecretKeychain(files), DefaultAuths))
  /\ look' = "ready"
  /\ UNCHANGED <<lookup, unread, held, made, reads>>

KeychainStep(podNamespace) ==
  LET ns == IF Whose = "pod" THEN podNamespace ELSE CollectorNamespace
  IN \/ GetPodAccount(podNamespace) \/ GetCollectorAccount
     \/ SecretFound(ns) \/ SecretNotFound(ns) \/ SecretFails(ns)
     \/ AddChain \/ ChainFails \/ AddMountedKeychain

KeychainEnds ==
  /\ look' = "none" /\ lookup' = NoLookups /\ unread' = <<>>
  /\ held' = Anonymous /\ keychain' = Anonymous /\ made' = {} /\ reads' = {}

\* The credentials are handed on, and what has been looked up is forgotten.
HandOverKeychain == look = "ready" /\ KeychainEnds

-----------------------------------------------------------------------------

\* The credentials in auths for r: r's own entry, or if it is a name of Docker
\* Hub without one, the entry of another of its names.
Says(auths, r) ==
  IF r \in DOMAIN auths THEN {auths[r]}
  ELSE IF r \in Range(HubAliases) THEN {auths[a] : a \in DOMAIN auths \cap Range(HubAliases)}
  ELSE {}

\* What who's secrets offer for r: nothing if one of them could not be read.
Offers(who, r) ==
  IF \E x \in reads : x.by = who /\ x.outcome = "failed" THEN {}
  ELSE UNION {Says(SecretAuths[x.ns][x.name], r) :
                x \in {y \in reads : y.by = who /\ y.outcome = "found"}}

\* What who's keychain answers for r, its secrets first; nothing without one.
Chain(who, r) == IF who \notin made THEN {}
                 ELSE IF Offers(who, r) # {} THEN Offers(who, r)
                 ELSE {Machine[r]} \ {"anonymous"}

MountedOffers(files, r) == IF Says(MountedAuths(files), r) = {} THEN {DefaultAuths[r]}
                           ELSE Says(MountedAuths(files), r)

\* An image is pulled with the pod's credentials, else the machine's if the pod has
\* a keychain; else with the collector's, else the machine's if there is a keychain
\* of the collector, or one without a client; else with the mounted ones, and last
\* the default ones. A failure for the one's secrets never costs the other's, and
\* where a secret could not be read none of its owner's is used. Under another of
\* Docker Hub's names the credentials for it are found too, and never replace what
\* that name has.
OwnCredentialsFirst ==
  look = "ready" =>
    \A r \in Registries :
      keychain[r] \in IF Chain("pod", r) # {} THEN Chain("pod", r)
                      ELSE IF Chain("collector", r) # {} THEN Chain("collector", r)
                      ELSE IF Chain("machine", r) # {} THEN Chain("machine", r)
                      ELSE UNION {MountedOffers(files, r) : files \in MountedFiles}
=============================================================================
