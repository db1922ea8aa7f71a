SPECIFICATION FairSpec
CONSTANTS
  Resources = {"arm", "sensors"}
  Relevant = {"arm"}
  Sensors = "sensors"
  Deployments <- TwoDeployments
INVARIANTS
  StreamFollowsResources
PROPERTIES
  RecoversWhenCalm
  MonitorSpec
