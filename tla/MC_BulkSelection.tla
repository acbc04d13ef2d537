-------------------------- MODULE MC_BulkSelection --------------------------
(* Small instances of BulkSelection *)
EXTENDS BulkSelection, TLC

CONSTANTS t1, t2, t3, t4, monday, sunday

TwoDays == (t1 :> monday @@ t2 :> monday @@ t3 :> sunday @@ t4 :> sunday)

\* A first page, one where a row has gone and the next has come, all four with one moved by its
\* date, and none
Pages == {<<t1, t2, t3>>, <<t1, t3, t4>>, <<t3, t1, t2, t4>>, <<>>}

Access == {{}, {t1}}
=============================================================================
