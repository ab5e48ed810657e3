----------------------------- MODULE MCIpoNames -----------------------------
(* A formatted disk with one extra directory, and a few paths on it.        *)
EXTENDS IpoNames

MCNames == {"app", "autorun", "d", "f"}
MCPaths ==
  {<<>>, <<"app">>, <<"autorun">>, <<"d">>, <<"f">>, <<"app", "d">>,
   <<"d", "f">>, <<"app", "d", "f">>, <<"?">>}

=============================================================================
