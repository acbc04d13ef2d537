---------------------------- MODULE BulkEditRules ----------------------------
(***************************************************************************)
(* What the server answers to one bulk edit of transactions, and what it   *)
(* writes (backend/app/services/transactions/bulk_update.py).  A row is    *)
(* the facts the rules read of a transaction; a request is a record with   *)
(* None for each field it leaves out.                                      *)
(*                                                                         *)
(* Money out of a transfer puts the row's own account at From and the      *)
(* account on the other side at To; money in the other way round.  So      *)
(* which of the two fields moves a row, and which only records its other   *)
(* side, depends on the direction the row ends up with.                    *)
(***************************************************************************)
CONSTANTS
  Accounts,   \* accounts the user can open
  Writable,   \* those the user can write to and that are not archived
  Closed,     \* accounts the user can no longer open
  Currency,   \* of each account
  None, Outside, Unanswered

ASSUME RulesAssumption ==
  /\ Writable \subseteq Accounts /\ Closed \cap Accounts = {}
  /\ None \notin Accounts \cup {"debit", "credit", "reverse"} /\ Outside \notin Accounts \cup Closed \cup {None}
  /\ Unanswered \notin Accounts \cup Closed \cup {None, Outside}

Directions == {"debit", "credit"}
Turns == Directions \cup {"reverse"}
Ends == Accounts \cup {Outside}

Row == [account : Accounts, currency : {Currency[a] : a \in Accounts}, records : BOOLEAN,
        far : Accounts \cup Closed \cup {Outside, Unanswered}, sign : Directions \cup {"zero"}, merchant : BOOLEAN]

Request == [category : {None, "transfer", "other"}, merchant : BOOLEAN, other : BOOLEAN,
            account : Accounts \cup {None}, from : Ends \cup {None}, to : Ends \cup {None},
            direction : Turns \cup {None}, transferDirection : Turns \cup {None}]

\* Whether the category a row ends up with records the account on the other side
Records(r, q) == IF q.category = None THEN r.records ELSE q.category = "transfer"

Flip(sign) == IF sign = "debit" THEN "credit" ELSE "debit"

\* The sign a turn leaves: zero has none to change
Turned(sign, turn) ==
  IF sign = "zero" \/ turn = None THEN sign ELSE IF turn = "reverse" THEN Flip(sign) ELSE turn

Resulting(r, q) == Turned(r.sign, IF q.direction # None THEN q.direction ELSE q.transferDirection)

\* From answers the row's own side when money goes out.  A zero counts as money in
OwnEnd(r, q) == IF ~Records(r, q) THEN None ELSE IF Resulting(r, q) = "debit" THEN q.from ELSE q.to
FarEnd(r, q) == IF ~Records(r, q) THEN None ELSE IF Resulting(r, q) = "debit" THEN q.to ELSE q.from

AccountAfter(r, q) ==
  IF OwnEnd(r, q) \in Accounts THEN OwnEnd(r, q) ELSE IF q.account # None THEN q.account ELSE r.account

FarAfter(r, q) ==
  IF ~Records(r, q) THEN Unanswered ELSE IF FarEnd(r, q) # None THEN FarEnd(r, q) ELSE r.far

\* direction reaches every row, transfer_direction those that end up as transfers
SignAfter(r, q) == IF q.direction # None \/ Records(r, q) THEN Resulting(r, q) ELSE r.sign

Written(r, q) ==
  [r EXCEPT !.account = AccountAfter(r, q), !.far = FarAfter(r, q), !.sign = SignAfter(r, q),
            !.records = Records(r, q), !.merchant = r.merchant \/ q.merchant]

-----------------------------------------------------------------------------
(* Why a request is refused *)

SetsNothing(q) ==
  /\ q.category = None /\ ~q.merchant /\ ~q.other /\ q.account = None
  /\ q.from = None /\ q.to = None /\ q.direction = None /\ q.transferDirection = None

\* The schema: nothing set, or two answers for one column
Malformed(q) ==
  \/ SetsNothing(q)
  \/ q.account # None /\ (q.from # None \/ q.to # None)
  \/ q.direction # None /\ q.transferDirection # None

ReachesNoRow(rows, q) ==
  /\ q.from # None \/ q.to # None \/ q.transferDirection # None
  /\ \A r \in rows : ~Records(r, q)

Unavailable(r, q) ==
  \/ r.account \notin Writable
  \/ q.account # None /\ q.account \notin Writable
  \/ OwnEnd(r, q) \in Accounts \ Writable

\* Fault: only the request's own answer is compared, not the stored one
OwnAccountOnBothSidesAsked(r, q) ==
  Records(r, q) /\ OwnEnd(r, q) # Outside /\ FarEnd(r, q) \in Accounts /\ FarEnd(r, q) = AccountAfter(r, q)

OwnAccountOnBothSides(r, q) == Records(r, q) /\ OwnEnd(r, q) # Outside /\ FarAfter(r, q) = AccountAfter(r, q)

BreaksRule(r, q) ==
  \/ ~q.merchant /\ ~r.merchant
  \/ AccountAfter(r, q) # r.account /\ r.currency # Currency[AccountAfter(r, q)]
  \/ OwnEnd(r, q) = Outside
  \/ Records(r, q) /\ FarAfter(r, q) = Unanswered
  \/ OwnAccountOnBothSides(r, q)
  \/ FarAfter(r, q) \in Closed

\* One row that refuses the edit refuses it for all
Refuses(rows, q) ==
  Malformed(q) \/ ReachesNoRow(rows, q) \/ \E r \in rows : Unavailable(r, q) \/ BreaksRule(r, q)

\* What a single edit leaves: a transfer with its other side answered by another
\* account, anything else with none, and a merchant
Lawful(r) ==
  /\ r.merchant
  /\ r.records => r.far \in Ends /\ r.far # r.account
  /\ ~r.records => r.far = Unanswered
=============================================================================
