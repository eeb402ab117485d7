----------------------------- MODULE MCInstall -----------------------------
(* A card of three blocks of four units, read by two: images that fit it and *)
(* one cut short, from its bottom, across a boundary and beyond its end.     *)
EXTENDS Install
=============================================================================
