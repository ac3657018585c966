----------------------------- MODULE MCDcClient -----------------------------
(* Values for the constants of DcClient.                                   *)
EXTENDS DcClient, TLC

CONSTANTS d1, d2, d3

MCLength == (d1 :> 1) @@ (d2 :> 2) @@ (d3 :> 1)
Word(d, s) == [domain |-> d, spelling |-> s]
MCBatches == {<<Word(d1, s)>> : s \in Spellings} \cup
             {<<Word(d1, s), Word(d2, t)>> : s \in {"lower", "upper"}, t \in {"lower", "bad"}} \cup
             {<<Word(d2, "upper"), Word(d1, "lower"), Word(d3, "lower")>>}

\* Spec, with the fairness of the client in a form that is checked more quickly: each of
\* its steps moves pc on or takes bytes off a finite stream, so there are finitely many of
\* them, and to be weakly fair is to be without a step again and again.
LiveSpec == Init /\ [][Next]_vars /\ []<>~ENABLED <<ClientStep>>_vars /\ WF_vars(ServerStep)
=============================================================================
