----------------------------- MODULE MCStorage -----------------------------
(* A few components, with separators in front, behind and inside. *)
EXTENDS Storage, TLC

FewComponents == {<<>>, <<"/">>, <<"a">>, <<"a", "b", "\\">>, <<"b", "/", "a">>}

BlockSymmetry == Permutations(Blocks)
=============================================================================
