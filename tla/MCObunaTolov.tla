---------------------------- MODULE MCObunaTolov ----------------------------
(* ObunaTolov for TLC. *)
EXTENDS ObunaTolov

(* A monthly subscription is reminded of when two days are left and when    *)
(* one is.                                                                  *)
IkkiBir == {2, 1}
=============================================================================
