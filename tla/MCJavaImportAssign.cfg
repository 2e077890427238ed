SPECIFICATION Spec
CONSTANTS
    Universes <- MCUniverses
    Sources <- MCSources
    Object <- MCObject
    Throwable <- MCThrowable
    DataBindingComponent <- MCDataBinding
CHECK_DEADLOCK FALSE

INVARIANT
    Assignable
