------------------------- MODULE MCConnectorControl -------------------------
(* Small instances of ConnectorControl.                                    *)
EXTENDS ConnectorControl, TLC

Symmetry == Permutations(Admins) \cup Permutations(Installations) \cup Permutations(Apps)
=============================================================================
