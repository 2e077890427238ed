SPECIFICATION Spec
CONSTANTS
    Pkgs <- MCPkgs
    Universe <- MCUniverse
    Imports <- MCImports
    Under <- MCUnder
    Hidden <- MCHidden
    ClassName <- MCClassName
    Lower <- MCLower
    Langs <- MCLangs
    Declarations <- MCDeclarations
    TypeDecls <- MCTypeDecls
    MaxDecls = 2
CHECK_DEADLOCK FALSE
INVARIANTS
    HiddenHarmless
