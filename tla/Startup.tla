------------------------------ MODULE Startup ------------------------------
(***************************************************************************)
(* main (cmd/main.go): what a collector is started with, the steps before  *)
(* its manager runs, what each failure leads to, and the restart of a      *)
(* process that has exited. The API server, the agent's configuration and  *)
(* containerd are external.                                                *)
(***************************************************************************)
EXTENDS Naturals, ImageFilter

CONSTANTS Environments,  \* environments a collector may be deployed with
          OwnNode,       \* the node it runs on
          MaxFaults      \* bound: failures of others and crashes

(***************************************************************************)
(* An environment: the texts of two flags ("" if not set), whether POD_NAME *)
(* is set, AGENT_URL is a URL and EXCLUDED_IMAGE_NAMES is JSON, its         *)
(* patterns, and whether the containerd socket is mounted.                  *)
(***************************************************************************)
VARIABLES env,     \* the environment
          step,    \* where main is; "failing" while it reports, "exited" after
          node,    \* nodeName
          client,  \* containerdClient: "nil" or "open"
          faults

startVars == <<env, step, node, client, faults>>

Steps == {"environment", "node", "agent", "config", "output", "manager", "patterns",
          "containerd", "watcher", "start", "running", "failing", "exited"}

HasSecretsPermission == env.secretsAccess = "true"

\* A text that is not a truth value counts as true here, and is an error there.
RunAsDaemonSet == env.daemonSet # "false"

From(s) == step = s
To(s) == step' = s

Fault == faults < MaxFaults /\ faults' = faults + 1

-----------------------------------------------------------------------------

\* Mutated form: no text but a truth value is let pass.
ParseEnvironmentStrictly ==
  /\ From("environment")
  /\ To(IF /\ env.podName /\ env.json
           /\ "garbled" \notin {env.secretsAccess, env.daemonSet} THEN "node" ELSE "exited")
  /\ UNCHANGED <<env, node, client, faults>>

ParseEnvironment ==
  /\ From("environment")
  /\ To(IF env.podName /\ env.secretsAccess # "garbled" /\ env.json THEN "node" ELSE "exited")
  /\ UNCHANGED <<env, node, client, faults>>

\* The clients of the API server cannot be made.
NoKubeconfig ==
  /\ From("environment")
  /\ To("exited")
  /\ Fault
  /\ UNCHANGED <<env, node, client>>

\* Mutated form: the name is assigned to a variable of the inner scope.
GetNodeNameShadowed ==
  /\ From("node")
  /\ To("agent")
  /\ UNCHANGED <<env, node, client, faults>>

GetNodeNameForPod ==
  /\ From("node")
  /\ node' = OwnNode
  /\ To("agent")
  /\ UNCHANGED <<env, client, faults>>

\* An error is logged, and main goes on without a name.
NodeNameUnknown ==
  /\ From("node")
  /\ node' = ""
  /\ To("agent")
  /\ Fault
  /\ UNCHANGED <<env, client>>

NewAgentClient ==
  /\ From("agent")
  /\ To(IF env.agentURL THEN "config" ELSE "exited")
  /\ UNCHANGED <<env, node, client, faults>>

\* Asked for until the agent answers with 200; the other answers are stuttering.
GetCollectorConfig ==
  /\ From("config")
  /\ To("output")
  /\ UNCHANGED <<env, node, client, faults>>

\* An answer that cannot be decoded, or one whose API host is not a URL.
BadCollectorConfig ==
  /\ step \in {"config", "output"}
  /\ To("exited")
  /\ Fault
  /\ UNCHANGED <<env, node, client>>

NewOutputClient ==
  /\ From("output")
  /\ To("manager")
  /\ UNCHANGED <<env, node, client, faults>>

NewManager ==
  /\ From("manager")
  /\ To("patterns")
  /\ UNCHANGED <<env, node, client, faults>>

\* Mutated form: patterns that do not compile are left out.
CompileSomeExcludedImageNames ==
  /\ From("patterns")
  /\ To("containerd")
  /\ UNCHANGED <<env, node, client, faults>>

CompileExcludedImageNames ==
  /\ From("patterns")
  /\ To(IF CompileNamePatterns(env.excluded) THEN "containerd" ELSE "failing")
  /\ UNCHANGED <<env, node, client, faults>>

\* Only on a node, and only if the socket is there.
WantsContainerd == RunAsDaemonSet /\ env.socket

NewContainerdClient ==
  /\ From("containerd")
  /\ client' = IF WantsContainerd THEN "open" ELSE "nil"
  /\ To("watcher")
  /\ UNCHANGED <<env, node, faults>>

\* No client, or nobody answers at the socket and it is closed and forgotten:
\* that is logged, and main goes on without containerd.
NoContainerdClient ==
  /\ From("containerd")
  /\ WantsContainerd
  /\ To("watcher")
  /\ Fault
  /\ UNCHANGED <<env, node, client>>

SetupWatcher ==
  /\ From("watcher")
  /\ To("start")
  /\ UNCHANGED <<env, node, client, faults>>

StartManager ==
  /\ From("start")
  /\ To("running")
  /\ UNCHANGED <<env, node, client, faults>>

\* The manager or the watcher cannot be made or started, or ends with an error.
SetupFails ==
  /\ step \in {"manager", "watcher", "start", "running"}
  /\ To("failing")
  /\ Fault
  /\ UNCHANGED <<env, node, client>>

\* The report ends when it is answered with 200 or cannot be sent; then main exits.
ReportFailure ==
  /\ From("failing")
  /\ To("exited")
  /\ UNCHANGED <<env, node, client, faults>>

\* A signal ends the process.
Killed ==
  /\ step # "exited"
  /\ To("exited")
  /\ Fault
  /\ UNCHANGED <<env, node, client>>

\* The kubelet starts the container again (external).
Restarted ==
  /\ From("exited")
  /\ To("environment")
  /\ node' = ""
  /\ client' = "nil"
  /\ UNCHANGED <<env, faults>>

StartInit ==
  /\ env \in Environments
  /\ step = "environment"
  /\ node = ""
  /\ client = "nil"
  /\ faults = 0

\* What main and the kubelet do without anything going wrong.
StartWork ==
  \/ ParseEnvironment \/ GetNodeNameForPod \/ NewAgentClient \/ GetCollectorConfig
  \/ NewOutputClient \/ NewManager \/ CompileExcludedImageNames \/ NewContainerdClient
  \/ SetupWatcher \/ StartManager \/ ReportFailure \/ Restarted

StartFaults ==
  \/ NoKubeconfig \/ NodeNameUnknown \/ BadCollectorConfig \/ NoContainerdClient
  \/ SetupFails \/ Killed

-----------------------------------------------------------------------------
(* Which pods a running collector sees: the selector of its cache, the      *)
(* transform of what is cached, and the predicate.                          *)

SelectsPod(on) == (RunAsDaemonSet /\ node # "") => on = node
StripsPod(on) == RunAsDaemonSet /\ node # "" /\ on # node

\* Mutated form: nothing is said of a collector that does not know its node.
IsFromKnownNode(on) == on = node

IsFromCurrentNode(on) == node = "" \/ on = node
RefusesPod(on) == RunAsDaemonSet /\ ~IsFromCurrentNode(on)
=============================================================================
