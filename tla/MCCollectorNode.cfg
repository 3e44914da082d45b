SPECIFICATION Spec
CONSTANTS
  Environments <- TheEnvironments
  OwnNode = "here"
  MaxFaults = 2
  Registries = {"index.docker.io", "quay.io"}
  CollectorNamespace = "collector"
  ConfiguredSecrets <- TheConfigured
  SecretAuths <- TheSecrets
  AccountSecrets <- TheAccounts
  DefaultAuths <- TheDefault
  CloudAuths <- TheCloud
  MountedFiles <- TheMounted
  ArtifactRegistries = {"gar"}
  NodePlatform = "linux"
  InfrastructureHosts = {"eks"}
  Pods <- ThePods
  Mirrors <- TheMirrors
  Digests = {"d1", "d2"}
  Contents <- TheContents
  ConfigFiles <- TheFiles
INVARIANT
  OwnNodeOnly
