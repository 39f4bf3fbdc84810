SPECIFICATION Spec
CONSTANTS
  CompositeName = "x"
  Namespace = "x"
  Templates <- MCTemplates
  Parameters <- MCParameters
  NoTemplate = NoTemplate
  Specs <- MCSpecs
  Statuses <- MCStatuses
  Known = {"a"}
  Secrets = {"s"}
  Versions <- MCVersions
  ChildOf <- renderChild
  OutputsOf <- renderOutputs
  MaxEdits = 2
  MaxFaults = 1
INVARIANTS
  RenderedIsTemplate
  OutputsAreWhole
  SecretsInPlace
  SecretsCurrent
  DeleteStateIsClean
CHECK_DEADLOCK FALSE
