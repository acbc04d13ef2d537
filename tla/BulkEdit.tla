------------------------------ MODULE BulkEdit ------------------------------
(***************************************************************************)
(* The bulk edit panel: what the user sets, what the From and To ends imply *)
(* about the direction, what the panel warns about before it lets the edit *)
(* be sent, and the server that judges it by BulkEditRules.                *)
(*                                                                         *)
(*   frontend/src/components/transactions/bulk-edit/selection.ts           *)
(*   frontend/src/components/transactions/bulk-edit/BulkEditModal.tsx      *)
(*   frontend/src/components/transactions/bulk-edit/summary.ts             *)
(*                                                                         *)
(* The panel judges the rows it last fetched, the server the rows as they  *)
(* are.  Fetching again may change the rows under an open panel.           *)
(***************************************************************************)
EXTENDS BulkEditRules, Naturals

CONSTANTS
  Ids,        \* the ticked transactions
  Shapes,     \* the facts a row may have
  MaxChanges  \* bound: changes to a row made elsewhere

ASSUME EditAssumption == Shapes \subseteq Row /\ MaxChanges \in Nat

VARIABLES
  stored,     \* the rows on the server
  rows,       \* as the panel knows them
  category, merchant, other, account, from, to,
  direction,  \* what the direction pills hold, and what set it
  answer,     \* open; taken or refused by the server; or closed with no row left
  changes

panel == <<category, merchant, other, account, from, to, direction>>
vars == <<stored, rows, panel, answer, changes>>

Selected(f) == {f[i] : i \in DOMAIN f}
Unset == [value |-> None, source |-> "implied"]

Init ==
  /\ stored \in [Ids -> {s \in Shapes : s.account \in Writable}] /\ rows = stored
  /\ category = None /\ merchant = FALSE /\ other = FALSE /\ account = None
  /\ from = None /\ to = None /\ direction = Unset
  /\ answer = "open" /\ changes = 0

-----------------------------------------------------------------------------
(* What the panel holds, as a request *)

RecordsUnder(c, r) == IF c = None THEN r.records ELSE c = "transfer"
Transfers(c, f) == {r \in Selected(f) : RecordsUnder(c, r)}

\* endsAreOffered
Offered == Transfers(category, rows) # {}

SendsAnEnd == Offered /\ (from # None \/ to # None)

\* effectiveDirection: one that was implied goes with the controls it came from
Effective == IF direction.source = "implied" /\ ~Offered THEN None ELSE direction.value

\* Fault: a direction the ends imply is sent for every row
FieldsForAll ==
  [category |-> category, merchant |-> merchant, other |-> other,
   account |-> IF SendsAnEnd THEN None ELSE account,
   from |-> IF Offered THEN from ELSE None, to |-> IF Offered THEN to ELSE None,
   direction |-> Effective, transferDirection |-> None]

\* buildBulkEditFields
Fields ==
  [category |-> category, merchant |-> merchant, other |-> other,
   account |-> IF SendsAnEnd THEN None ELSE account,
   from |-> IF Offered THEN from ELSE None, to |-> IF Offered THEN to ELSE None,
   direction |-> IF direction.source = "user" THEN Effective ELSE None,
   transferDirection |-> IF direction.source = "implied" THEN Effective ELSE None]

\* hasBulkEditChoice
HasChoice == ~SetsNothing(Fields)

\* resultingDirectionFor
Points(r, turn) ==
  IF r.sign = "zero" THEN "credit" ELSE IF turn = "reverse" THEN Flip(r.sign)
  ELSE IF turn # None THEN turn ELSE r.sign

\* resolveTransferEnds
PanelOwn(r) == IF Points(r, Effective) = "debit" THEN from ELSE to
PanelFar(r) == IF Points(r, Effective) = "debit" THEN to ELSE from

-----------------------------------------------------------------------------
(* getBulkEditBlockers: why the panel holds the edit back *)

StaysPut(r) == PanelOwn(r) = r.account

CurrencyDiffers(r) == PanelOwn(r) \in Accounts /\ ~StaysPut(r) /\ Currency[PanelOwn(r)] # r.currency

NotWritable(r) ==
  \/ r.account \notin Writable
  \/ ~SendsAnEnd /\ account # None /\ account \notin Writable

PanelAccount(r) ==
  IF PanelOwn(r) \in Accounts THEN PanelOwn(r) ELSE IF ~SendsAnEnd /\ account # None THEN account ELSE r.account

\* Fault: the account on the other side is compared only where the edit sets it
TransferBlockedAsked(r) ==
  \/ PanelOwn(r) = Outside
  \/ CurrencyDiffers(r)
  \/ PanelOwn(r) \in Accounts \ Writable
  \/ PanelFar(r) = None /\ r.far = Unanswered
  \/ PanelFar(r) = PanelAccount(r)

\* The warnings of a row that ends up as a transfer
TransferBlocked(r) ==
  \/ PanelOwn(r) = Outside
  \/ CurrencyDiffers(r)
  \/ PanelOwn(r) \in Accounts \ Writable
  \/ PanelFar(r) = None /\ r.far = Unanswered
  \/ (IF PanelFar(r) = None THEN r.far ELSE PanelFar(r)) = PanelAccount(r)

Blocked(r) ==
  \/ ~r.merchant /\ ~merchant
  \/ NotWritable(r)
  \/ RecordsUnder(category, r) /\ TransferBlocked(r)

SomeBlocked == \E r \in Selected(rows) : Blocked(r)

-----------------------------------------------------------------------------
(* How the controls move one another *)

\* impliedDirection
Implied(f, c, x, y) ==
  LET home == {r.account : r \in Transfers(c, f)} IN
  IF home = {} \/ (x = Outside /\ y = Outside) THEN None
  ELSE IF x = Outside THEN "credit" ELSE IF y = Outside THEN "debit"
  ELSE IF {y} = home /\ {x} # home THEN "credit"
  ELSE IF {x} = home /\ {y} # home THEN "debit" ELSE None

\* nextDirectionAfterEndChange
NextDirection(turn) ==
  IF turn # None THEN [value |-> turn, source |-> "implied"]
  ELSE IF direction.source = "user" THEN direction ELSE Unset

\* Fault: an end that would sit outside is left where it is
SettledLeft(x, f, c, turn, side) == x

\* endsAfterDirectionClick: an outside end is dropped where it would be a transfer's own
Settled(x, f, c, turn, side) ==
  IF x = Outside /\ \E r \in Transfers(c, f) : Points(r, turn) = side THEN None ELSE x

\* The render after the category's rule or the rows' facts have changed
Corrected(f, c) ==
  /\ from' = Settled(from, f, c, direction.value, "debit")
  /\ to' = Settled(to, f, c, direction.value, "credit")
  /\ direction' = NextDirection(Implied(f, c, from', to'))

PickCategory(c) ==
  /\ answer = "open" /\ c # category
  /\ category' = c
  /\ Corrected(rows, c)
  /\ UNCHANGED <<stored, rows, merchant, other, account, answer, changes>>

PickMerchant ==
  /\ answer = "open"
  /\ merchant' = ~merchant
  /\ UNCHANGED <<stored, rows, category, other, account, from, to, direction, answer, changes>>

\* A date, a note or tags
PickOther ==
  /\ answer = "open"
  /\ other' = ~other
  /\ UNCHANGED <<stored, rows, category, merchant, account, from, to, direction, answer, changes>>

\* getBulkMoveTargets
MoveTargets == {a \in Writable : {r.currency : r \in Selected(rows)} = {Currency[a]}}

\* Fault: the ends stay as they are
EndsKept == UNCHANGED <<from, to, direction>>

EndsCleared == from' = None /\ to' = None /\ direction' = NextDirection(None)

\* changeMoveAccount
PickMove(a) ==
  /\ answer = "open" /\ ~SendsAnEnd /\ a \in MoveTargets \cup {None} /\ MoveTargets # {}
  /\ account' = a
  /\ IF a # None THEN EndsCleared ELSE UNCHANGED <<from, to, direction>>
  /\ UNCHANGED <<stored, rows, category, merchant, other, answer, changes>>

\* changeTransferEnd.  A pick of outside drops the other end if that is outside too
PickEnd(x, y, picked) ==
  /\ answer = "open" /\ Offered /\ account = None
  /\ from' = IF x = Outside /\ y = Outside /\ picked = "to" THEN None ELSE x
  /\ to' = IF x = Outside /\ y = Outside /\ picked = "from" THEN None ELSE y
  /\ direction' = NextDirection(Implied(rows, category, from', to'))
  /\ UNCHANGED <<stored, rows, category, merchant, other, account, answer, changes>>

\* changeDirection
PickDirection(turn) ==
  /\ answer = "open" /\ turn # Effective
  /\ from' = Settled(from, rows, category, turn, "debit")
  /\ to' = Settled(to, rows, category, turn, "credit")
  /\ direction' = [value |-> turn, source |-> "user"]
  /\ UNCHANGED <<stored, rows, category, merchant, other, account, answer, changes>>

-----------------------------------------------------------------------------
(* Rows that change under the panel *)

\* Fault: the key leaves out which account a row is in
KeyWithoutAccount(f) == [i \in DOMAIN f |-> [f[i] EXCEPT !.merchant = TRUE, !.account = None]]

\* rowFactsKey: what the rules about the ends read
Key(f) == [i \in DOMAIN f |-> [f[i] EXCEPT !.merchant = TRUE]]

Ticked(f) == [i \in {j \in DOMAIN f : f[j].account \in Writable} |-> f[i]]

\* The list shows f.  A row the user cannot edit loses its tick, and the last tick ends the edit
Show(f) ==
  /\ rows' = Ticked(f)
  /\ stored' = Ticked(f)
  /\ answer' = IF DOMAIN Ticked(f) = {} THEN "closed" ELSE answer
  /\ IF Key(rows') # Key(rows) THEN Corrected(rows', category) ELSE UNCHANGED <<from, to, direction>>
  /\ UNCHANGED <<category, merchant, other, account>>

\* Another session edits a row, unseen until the list is fetched again.  A row's currency never changes
Change(i, s) ==
  /\ answer = "open" /\ changes < MaxChanges /\ changes' = changes + 1
  /\ s \in Shapes /\ s.currency = stored[i].currency /\ s # stored[i]
  /\ stored' = [stored EXCEPT ![i] = s]
  /\ UNCHANGED <<rows, panel, answer>>

\* A row leaves the list, and with it the selection
Drop(i) ==
  /\ answer = "open" /\ changes < MaxChanges /\ changes' = changes + 1
  /\ Show([j \in DOMAIN stored \ {i} |-> stored[j]])

Refetch ==
  /\ answer = "open" /\ rows # stored
  /\ Show(stored)
  /\ UNCHANGED changes

-----------------------------------------------------------------------------
(* The edit is confirmed and sent *)

Apply ==
  /\ answer = "open" /\ HasChoice /\ ~SomeBlocked
  /\ IF Refuses(Selected(stored), Fields)
       THEN answer' = "refused" /\ UNCHANGED stored
       ELSE answer' = "taken" /\ stored' = [i \in DOMAIN stored |-> Written(stored[i], Fields)]
  /\ UNCHANGED <<rows, panel, changes>>

Next ==
  \/ \E c \in {None, "transfer", "other"} : PickCategory(c)
  \/ PickMerchant \/ PickOther \/ Refetch \/ Apply
  \/ \E a \in Accounts \cup {None} : PickMove(a)
  \/ \E x \in Ends \cup {None} : PickEnd(x, to, "from") \/ PickEnd(from, x, "to")
  \/ \E turn \in Turns \cup {None} : PickDirection(turn)
  \/ \E i \in DOMAIN stored : Drop(i)
  \/ \E i \in DOMAIN stored, s \in Shapes : Change(i, s)

Spec == Init /\ [][Next]_vars

-----------------------------------------------------------------------------
EditTypeOK ==
  /\ DOMAIN rows = DOMAIN stored /\ Selected(rows) \subseteq Shapes
  /\ answer # "taken" => Selected(stored) \subseteq Shapes
  /\ Fields \in Request
  /\ account # None => from = None /\ to = None

\* "The refusals it would answer with are counted here": where the panel knows
\* the rows as they are, it holds back an edit exactly when the server would
\* refuse it
JudgesAsServer ==
  answer = "open" /\ rows = stored /\ HasChoice => (SomeBlocked <=> Refuses(Selected(stored), Fields))

\* "A bulk edit can never write a state a single edit would have refused", also
\* over rows the panel has not seen
WritesLawful == [][answer' = "taken" => \A r \in Selected(stored') : Lawful(r)]_vars

\* What the summary says of an edit that may be sent is what the server writes
Told(r) ==
  LET transfer == RecordsUnder(category, r) IN
  [moves |-> IF SendsAnEnd THEN transfer /\ PanelOwn(r) # None /\ ~StaysPut(r) ELSE account \notin {None, r.account},
   records |-> IF SendsAnEnd /\ transfer THEN PanelFar(r) ELSE None,
   turns |-> r.sign # "zero" /\ Effective # None /\ (direction.source = "user" \/ transfer) /\ Points(r, Effective) # r.sign]

SummaryIsTrue ==
  answer = "open" /\ rows = stored /\ HasChoice /\ ~SomeBlocked =>
    \A r \in Selected(rows) :
      LET w == Written(r, Fields) IN
      /\ Told(r).moves <=> w.account # r.account
      /\ Told(r).records # None => w.far = Told(r).records
      /\ Told(r).records = None => w.far \in {r.far, Unanswered}
      /\ Told(r).turns <=> w.sign # r.sign

\* No control leaves a transfer on the outside end of its own edit; a zero
\* amount, which no direction moves to the other end, is the exception
NoneSitsOutside ==
  answer = "open" =>
    \A r \in Transfers(category, rows) : r.sign # "zero" => PanelOwn(r) # Outside

\* A direction nobody picked is the one the ends on screen imply
ImpliedHolds ==
  answer = "open" /\ direction.source = "implied" => direction.value = Implied(rows, category, from, to)
=============================================================================
