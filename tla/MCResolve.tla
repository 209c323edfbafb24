------------------------------ MODULE MCResolve ------------------------------
(***************************************************************************)
(* Resolve on small trees.                                                 *)
(***************************************************************************)
EXTENDS Resolve, TLC

\* A checkout one below the top with a directory inside it, where another
\* worktree or a submodule may be, and a place out of reach of what is above
\* it, shaped likewise.
MCDirs ==
    {<<>>, <<"a">>, <<"a", "m">>, <<"a", "m", "s">>, <<"w">>, <<"w", "s">>}
MCMains == {<<"a", "m">>}

MCSymmetry == Permutations(Admin)
=============================================================================
