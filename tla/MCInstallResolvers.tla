-------------------------- MODULE MCInstallResolvers --------------------------
(* Instances of InstallResolvers for TLC. *)
EXTENDS InstallResolvers, TLC

MCRequests ==
  {<<"mdns", "h3">>, <<"h3", "http">>, <<"http">>, <<"mdns", "mdns">>, <<"system">>}

Symmetry == Permutations(Thread)
=============================================================================
