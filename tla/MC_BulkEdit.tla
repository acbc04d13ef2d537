---------------------------- MODULE MC_BulkEdit ----------------------------
(* Small instances of BulkEdit *)
EXTENDS BulkEdit, FiniteSets, TLC

CONSTANTS a, b, c, d, gone

SmallCurrency == (a :> "x" @@ b :> "x" @@ c :> "y" @@ d :> "x")

ShapeOf(acc, recs, side, sgn, has) ==
  [account |-> acc, currency |-> SmallCurrency[acc], records |-> recs,
   far |-> side, sign |-> sgn, merchant |-> has]

\* Rows of either direction and of none, in three accounts, two currencies and one account the user
\* cannot write, with their other side here, outside or unanswered, and one that is no transfer
SmallShapes ==
  {ShapeOf(a, TRUE, b, "debit", TRUE), ShapeOf(a, TRUE, Outside, "zero", TRUE), ShapeOf(b, TRUE, Outside, "zero", TRUE),
   ShapeOf(b, TRUE, Unanswered, "credit", TRUE), ShapeOf(a, FALSE, Unanswered, "debit", FALSE),
   ShapeOf(d, TRUE, Outside, "credit", TRUE), ShapeOf(c, TRUE, Outside, "debit", TRUE),
   [ShapeOf(a, TRUE, b, "debit", TRUE) EXCEPT !.currency = "y"]}

Interchangeable == Permutations(Ids)
=============================================================================
