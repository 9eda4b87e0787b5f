SPECIFICATION Spec
CONSTANTS
  Nil = Nil
  Inputs <- MCRendered
  Selected <- MCSelected
  Combined <- MCCombined
  Begins <- MCBegins
  ServerScopes <- MCServerScopes
  ClusterKinds = {"ClusterRole", "Namespace", "CustomResourceDefinition"}
  WithRelease = TRUE
  Overrides = {TRUE, FALSE}
INVARIANTS Renderable EachInItsPlace
PROPERTIES ReleasesKept ResolvedTwice
CHECK_DEADLOCK FALSE
