--------------------------- MODULE MC_RefundLinks ---------------------------
(* A small instance of RefundLinks *)
EXTENDS RefundLinks

Row(a, k) == [amount |-> a, kind |-> k]

\* One expense, which an edit may shrink and bar, and two transactions that each refund it in part:
\* the small amounts fit together, a large one beside another does not
OneExpense ==
  <<{Row(-3, "expense"), Row(-1, "barred")},
    {Row(1, "income"), Row(2, "income")}, {Row(1, "income"), Row(2, "income")}>>
=============================================================================
