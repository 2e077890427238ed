SPECIFICATION Spec
CONSTANTS
  Tags <- MCTags
  TagsMacOS <- MCNone
  TagsNotMacos <- MCNone
  Targets <- MCTargets
INVARIANT PlatformTags
