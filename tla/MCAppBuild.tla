------------------------------ MODULE MCAppBuild ------------------------------
EXTENDS AppBuild
MCHost == <<"linux", "amd64">>
Game == [main |-> TRUE, imports |-> {App, <<"golang.org/x", "image/font">>}, long |-> FALSE]
MCCommands ==
    [spec : { << <<"android", "arm">>, <<"android", "arm64">> >>, << <<"macos">> >> }, n : BOOLEAN, args : {0, 2},
     pkgs : { {Game}, {[Game EXCEPT !.long = TRUE]}, {[Game EXCEPT !.main = FALSE, !.imports = {}]} }, openal : {FALSE}]
=============================================================================
