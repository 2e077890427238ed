SPECIFICATION Spec
CONSTANTS
    Universes <- MCUniverses
    Sources <- MCSources
    Object <- MCObject
    Throwable <- MCThrowable
    DataBindingComponent <- MCDataBinding
CHECK_DEADLOCK FALSE
INVARIANTS
    TypeOK
    AllMethodsExact
    ErrorCallsToString
    StubsLink
    NamedTypesGenerated
    VariantsCovered
