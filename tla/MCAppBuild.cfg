SPECIFICATION Spec
CONSTANTS
  Host <- MCHost
  Commands <- MCCommands
INVARIANT ImportsRecognised
\* A command ends.
CHECK_DEADLOCK FALSE
