--------------------------- MODULE MCFavoriteTree ---------------------------
(* Instances of FavoriteTree for TLC.                                       *)
EXTENDS FavoriteTree

CONSTANTS f1, f2, g1, g2

OneFile  == {f1}
TwoFiles == {f1, f2}
OneName  == {g1}
TwoNames == {g1, g2}
=============================================================================
