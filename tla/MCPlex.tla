-------------------------------- MODULE MCPlex --------------------------------
(* Two passes that overlap.                                                   *)
EXTENDS PlexTuners

MCKeyOf == <<"key">>
=============================================================================
