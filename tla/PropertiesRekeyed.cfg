SPECIFICATION Spec
CONSTANTS
  CompositeName = "x"
  Namespace = "x"
  Templates = {}
  Parameters = {}
  NoTemplate = NoTemplate
  Specs <- MCSpecs
  Statuses <- MCStatuses
  Known = {"a"}
  Secrets = {"s"}
  Versions <- MCVersions
  ChildOf <- renderChild
  OutputsOf <- renderOutputs
  MaxEdits = 1
  MaxFaults = 0
INVARIANT SpecEditsReachResource
CHECK_DEADLOCK FALSE
