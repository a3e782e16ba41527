---------------------------- MODULE MCNumbering -----------------------------
(* Two cards, one whose form takes its numbers from the series and one     *)
(* whose form does not.                                                    *)
EXTENDS Numbering, TLC

CONSTANTS bound, unbound, s1, e1, e2

MCDocs == {bound, unbound}
MCFormSeries == (bound :> s1) @@ (unbound :> NoSeries)
Symmetric == Permutations(Entries) \cup Permutations(Periods)
=============================================================================
