--------------------------------- MODULE Sums ---------------------------------
(* SUM(amount) over the rows of a query, as PostgreSQL adds them *)
EXTENDS Integers, FiniteSetsExt

\* The sum of a function's values
SumOf(f) == MapThenSumSet(LAMBDA t : f[t], DOMAIN f)

=============================================================================
