------------------------------ MODULE MCShell ------------------------------
(* Small instances of Shell for TLC.                                        *)
EXTENDS Shell

\* What the user types: a program, in the background or with its streams
\* redirected, a pipeline, lines with an empty half, and the builtins.
SomeLines ==
  {<<"ls", "&">>, <<"ls", ">f", "2>&1">>, <<"|", "ls">>, <<"cd">>, <<"exit">>}

SomeFiles == {<<>>, <<<<"ls">>>>}
=============================================================================
