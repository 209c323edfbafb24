------------------------------ MODULE MCSession ------------------------------
(***************************************************************************)
(* Session on a small tree: a checkout m, its linked worktree w.           *)
(***************************************************************************)
EXTENDS Session

MCDirs == {<<>>, <<"m">>, <<"w">>}
MCMains == {<<"m">>}
MCWorktrees == [d \in {<<"w">>} |-> "e"]
MCLiterals == {<<"x">>}
MCHomeDir == <<"h">>

Text == [kind |-> "text", text |-> <<"x">>]
Dir == [kind |-> "dir", text |-> <<"x">>]

\* A value that follows the worktree, and a HOME, as an older schain could
\* have had it in its shell too.
MCTree == {[Blank EXCEPT !["A"] = Dir], [Blank EXCEPT !["HOME"] = Text]}

MCOne == {[Blank EXCEPT !["A"] = Dir]}
=============================================================================
