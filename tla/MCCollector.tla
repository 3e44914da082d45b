---------------------------- MODULE MCCollector ----------------------------
(* Small instances of Collector for TLC. *)
EXTENDS Collector

Text(host, path, tag, digest) ==
  [scheme |-> "", host |-> host, path |-> path, tag |-> tag, digest |-> digest]

Under(scheme, t) == [t EXCEPT !.scheme = scheme]

Container(runtime, id, image) == [runtime |-> runtime, id |-> id, image |-> image]
Status(name, imageID, container) == [name |-> name, imageID |-> imageID, containerID |-> container]

Nginx == Text("docker.io", <<"library", "nginx">>, "1", "")

\* On the collector's node, with containerd: an image of Docker Hub pinned to
\* another digest than it runs with, one whose name in the spec does not parse
\* and that has but a digest, one that is not resolved yet, one unknown, one of an
\* excluded registry, and one of Docker Hub that only its status names.
NodePod ==
  [name |-> "web", ns |-> "app", node |-> "here", pullSecrets |-> <<"own">>,
   spec |-> [c \in {"nginx", "bad", "infra", "pending"} |->
               CASE c = "nginx" -> Text("", <<"nginx">>, "1", "d2")
                 [] c = "bad"   -> NoText
                 [] c = "infra" -> Text("eks", <<"pause">>, "", "")
                 [] c = "pending" -> Text("quay.io", <<"app">>, "", "")],
   statuses |-> <<Status("ghost", NoText, Container("", "0", NoText)),
                  Status("nginx", Text("docker.io", <<"library", "nginx">>, "", "d1"),
                         Container("containerd", "1", Nginx)),
                  Status("infra", Text("eks", <<"pause">>, "", "d1"), Container("containerd", "2", Nginx)),
                  Status("bad", Text("", <<>>, "", "d2"), Container("containerd", "3", NoText)),
                  Status("pending", NoText, Container("containerd", "4", NoText)),
                  Status("debug", Text("docker.io", <<"library", "nginx">>, "", "d1"),
                         Container("docker", "6", NoText))>>]

\* On another node, with docker.
ElsewherePod ==
  [name |-> "job", ns |-> "collector", node |-> "there", pullSecrets |-> <<>>,
   spec |-> [c \in {"main"} |-> Text("gar", <<"project", "repo", "tool">>, "", "")],
   statuses |-> <<Status("main", Under("docker-pullable", Text("gar", <<"project", "repo", "tool">>, "", "d1")),
                         Container("docker", "5", NoText))>>]

ThePods == {NodePod, ElsewherePod}

Env(secretsAccess, daemonSet, excluded) ==
  [secretsAccess |-> secretsAccess, daemonSet |-> daemonSet, podName |-> TRUE, agentURL |-> TRUE,
   json |-> TRUE, excluded |-> excluded, socket |-> TRUE]

Pattern(before, after) == [before |-> before, after |-> after, compiles |-> TRUE]
AnyTool == Pattern(<<>>, <<"tool">>)

TheEnvironments ==
  {Env("true", "", {}), Env("true", "false", {AnyTool}), Env("", "garbled", {AnyTool}),
   Env("false", "false", {}), Env("garbled", "", {}), [Env("", "", {}) EXCEPT !.socket = FALSE],
   [Env("", "", {}) EXCEPT !.podName = FALSE], [Env("", "", {}) EXCEPT !.agentURL = FALSE],
   Env("", "", {AnyTool, [Pattern(<<"[">>, <<>>) EXCEPT !.compiles = FALSE]})}

ExampleEnvironments == {Env("", "", {Pattern(<<"docker.io", "library">>, <<>>)})}

\* Three credentials for Docker Hub under different aliases, and another registry's.
Auths(key, credential) == [k \in {key} |-> credential]
TheSecrets ==
  [ns \in {"app", "collector"} |->
     IF ns = "app"
       THEN [n \in {"own", "shared"} |->
               IF n = "own" THEN Auths("docker.io", "pod") @@ Auths("index.docker.io", "pod index")
               ELSE Auths("quay.io", "account")]
       ELSE [n \in {"shared", "configured"} |->
               IF n = "shared" THEN Auths("https://index.docker.io/v1/", "collector") @@ Auths("quay.io", "collector")
               ELSE Auths("quay.io", "configured")]]
TheAccounts == [ns \in {"app", "collector"} |-> {<<"shared">>}]

\* The machine knows quay.io twice, and Docker Hub not at all.
TheDefault == [r \in Registries |-> IF r = "quay.io" THEN "default" ELSE "anonymous"]
TheCloud   == [r \in Registries |-> IF r = "quay.io" THEN "cloud" ELSE "anonymous"]

File(usable, auths) == [usable |-> usable, auths |-> auths]
TheMounted == {[json |-> File(FALSE, <<>>), legacy |-> File(FALSE, <<>>)],
               [json |-> File(FALSE, <<>>), legacy |-> File(TRUE, Auths("quay.io", "legacy"))],
               [json |-> File(TRUE, Auths("docker.io", "mounted")), legacy |-> File(TRUE, Auths("quay.io", "legacy"))]}

TheMirrors == {Text("gar", <<"project", "repo", "nginx">>, "", ""), Under("bad", NoText)}

TheContents ==
  {[media |-> "index", manifests |-> <<[platform |-> "", config |-> "os"],
                                       [platform |-> "linux", config |-> "linux/v8"]>>],
   [media |-> "manifest", manifests |-> <<[platform |-> "", config |-> "unreadable"]>>],
   [media |-> "other", manifests |-> <<>>]}

TheFiles == {[parses |-> FALSE, from |-> {}], [parses |-> TRUE, from |-> {"registry"}],
             [parses |-> TRUE, from |-> {"registry", "disk"}]}
TheConfigured == <<"configured">>
=============================================================================
