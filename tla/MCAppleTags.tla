----------------------------- MODULE MCAppleTags -----------------------------
EXTENDS AppleTags
\* Three tags: the array has room for a fourth.
MCTags == <<"a", "b", "c">>
MCTargets == {<<"ios", "arm64">>, <<"macos", "arm64">>}
MCNone == <<>>
=============================================================================
