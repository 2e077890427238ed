------------------------------- MODULE MCAnja -------------------------------
EXTENDS Anja
MCHost == <<"linux", "amd64">>
Bind(spec) == [cmd |-> "bind", spec |-> spec, desk |-> <<>>, desktop |-> FALSE, natives |-> FALSE, n |-> FALSE,
               work |-> FALSE, openal |-> FALSE, mods |-> TRUE, files |-> <<"p", "seq">>]
Arm == << <<"android", "arm">> >>
MCCommands ==
    { Bind(Arm), [Bind(Arm) EXCEPT !.n = TRUE, !.desktop = TRUE],
      [Bind(<< <<"android", "arm">>, <<"android", "arm64">> >>) EXCEPT !.files = <<"seq">>],
      [Bind(<< <<"jvm">> >>) EXCEPT !.natives = TRUE, !.desk = << <<"host">>, <<"linux", "amd64">> >>, !.files = <<"seq">>],
      [Bind(<< <<"jvm">> >>) EXCEPT !.desk = << <<"plan9">> >>],
      [Bind(<< <<"macos", "arm64">> >>) EXCEPT !.work = TRUE, !.mods = FALSE],
      [Bind(<< <<"macos", "arm64">>, <<"maccatalyst", "arm64">> >>) EXCEPT !.n = TRUE],
      Bind(<< <<"android", "sparc">> >>), Bind(<< <<"ios">>, <<"android">> >>),
      [Bind(Arm) EXCEPT !.cmd = "init", !.openal = TRUE], [Bind(Arm) EXCEPT !.cmd = "init", !.n = TRUE],
      [Bind(Arm) EXCEPT !.cmd = "clean"] }
=============================================================================
