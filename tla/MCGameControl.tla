--------------------------- MODULE MCGameControl ---------------------------
(* Settings at the ends of the packing and beyond, and a mode of Rider with
   the bit that asks for a compilation. *)
EXTENDS GameControl

PlaySettings(mode, clients, dedicated, spawn) ==
  [PlayMode |-> mode, NumberOfClients |-> clients,
   bNetDedicated |-> dedicated, bSpawnAtPlayerStart |-> spawn]

MCSettings == {PlaySettings("ViewPort", 1, FALSE, FALSE),
               PlaySettings("TargetedMobilePreview", 4, TRUE, TRUE),
               PlaySettings("ViewPort", 5, FALSE, FALSE)}
MCRiderModes == {128 + 6 * 16 + 5}

=============================================================================
