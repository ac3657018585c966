---------------------------- MODULE MCKacheWords ----------------------------
(* Values for the constants of KacheWords: z is in the trie; x, y and s    *)
(* share the one slot of the hash table, and s begins like x.              *)
EXTENDS KacheWords, TLC

CONSTANTS x, y, z, s, w1, w2, r1

MCNames == {x, y, z, s}
MCHash == [n \in MCNames \cup {EmptyName} |-> 0]
MCFirst4 == (EmptyName :> <<>>) @@ (x :> <<"a", "b">>) @@ (y :> <<"c", "b">>) @@
            (z :> <<"a">>) @@ (s :> <<"a">>)
MCAnswers == (z :> {DNS_ERROR}) @@ [n \in {x, y, s} |-> {n}]
MCSymmetry == Permutations({w1, w2})
=============================================================================
