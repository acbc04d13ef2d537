--------------------------- MODULE BulkEditProofs ---------------------------
(***************************************************************************)
(* For any accounts, rows and sequence of picks: a bulk edit writes only   *)
(* what a single edit could have left, however far the panel is behind the *)
(* server; the controls agree with one another; and a panel that is up to  *)
(* date judges and tells what the server would do.                         *)
(***************************************************************************)
EXTENDS BulkEdit, TLAPS

\* Until the edit is answered the rows are rows, and the ends what the menus hold
OpenInv ==
  answer = "open" =>
    /\ \A i \in DOMAIN stored : stored[i] \in Row
    /\ from \in Ends \cup {None} /\ to \in Ends \cup {None}

\* The rules of the server together leave nothing unlawful of one row
LEMMA UnrefusedIsLawful ==
  ASSUME NEW r \in Row, NEW q, q.from \in Ends \cup {None}, q.to \in Ends \cup {None}, ~BreaksRule(r, q)
  PROVE  Lawful(Written(r, q))
<1> DEFINE w == Written(r, q)
<1>1. /\ w.merchant = (r.merchant \/ q.merchant) /\ w.records = Records(r, q)
      /\ w.far = FarAfter(r, q) /\ w.account = AccountAfter(r, q)
  BY DEF Written, Row
<1>2. w.merchant
  BY <1>1 DEF BreaksRule
<1>3. ASSUME Records(r, q) PROVE w.far \in Ends /\ w.far # w.account
  <2>1. FarAfter(r, q) \in Ends \cup Closed \cup {Unanswered}
    <3>1. FarEnd(r, q) \in Ends \cup {None}
      BY <1>3 DEF FarEnd
    <3>2. r.far \in Ends \cup Closed \cup {Unanswered}
      BY DEF Row, Ends
    <3> QED BY <1>3, <3>1, <3>2 DEF FarAfter
  <2>2. FarAfter(r, q) \in Ends
    BY <1>3, <2>1 DEF BreaksRule
  <2>3. FarAfter(r, q) # AccountAfter(r, q)
    BY <1>3 DEF BreaksRule, OwnAccountOnBothSides
  <2> QED BY <1>1, <2>2, <2>3
<1>4. ASSUME ~Records(r, q) PROVE w.far = Unanswered
  BY <1>1, <1>4 DEF FarAfter
<1> HIDE DEF w
<1>5. Lawful(w)
  BY <1>1, <1>2, <1>3, <1>4 DEF Lawful
<1> QED BY <1>5 DEF w

LEMMA InitOpen == Init => OpenInv
BY EditAssumption DEF Init, OpenInv

\* An end is settled where it was or cleared
LEMMA SettledEnds ==
  ASSUME NEW x \in Ends \cup {None}, NEW f, NEW c, NEW turn, NEW side
  PROVE  Settled(x, f, c, turn, side) \in Ends \cup {None}
BY DEF Settled

\* The rows a list shows are some of those it is given
LEMMA ShowOpen ==
  ASSUME OpenInv, answer = "open", NEW f, \A i \in DOMAIN f : f[i] \in Row, Show(f)
  PROVE  OpenInv'
<1>1. from \in Ends \cup {None} /\ to \in Ends \cup {None}
  BY DEF OpenInv
<1>2. \A i \in DOMAIN stored' : stored'[i] \in Row
  BY DEF Show, Ticked
<1>3. from' \in Ends \cup {None} /\ to' \in Ends \cup {None}
  BY <1>1, SettledEnds DEF Show, Corrected
<1> QED BY <1>2, <1>3 DEF OpenInv

LEMMA NextOpen == OpenInv /\ [Next]_vars => OpenInv'
<1> SUFFICES ASSUME OpenInv, [Next]_vars PROVE OpenInv'
  OBVIOUS
<1> DEFINE Menu == Ends \cup {None}
<1>1. ASSUME NEW c, PickCategory(c) PROVE OpenInv'
  BY <1>1, SettledEnds DEF PickCategory, Corrected, OpenInv
<1>2. CASE PickMerchant \/ PickOther
  BY <1>2 DEF PickMerchant, PickOther, OpenInv
<1>3. ASSUME NEW a, PickMove(a) PROVE OpenInv'
  BY <1>3 DEF PickMove, EndsCleared, OpenInv
<1>4. ASSUME NEW x \in Menu, NEW y \in Menu, NEW picked, PickEnd(x, y, picked) PROVE OpenInv'
  BY <1>4 DEF PickEnd, OpenInv
<1>5. ASSUME NEW turn, PickDirection(turn) PROVE OpenInv'
  BY <1>5, SettledEnds DEF PickDirection, OpenInv
<1>6. ASSUME NEW i \in DOMAIN stored, Drop(i) PROVE OpenInv'
  <2>1. answer = "open" /\ \A j \in DOMAIN stored : stored[j] \in Row
    BY <1>6 DEF Drop, OpenInv
  <2>2. Show([j \in DOMAIN stored \ {i} |-> stored[j]])
    BY <1>6 DEF Drop
  <2> QED BY <2>1, <2>2, ShowOpen
<1>7. ASSUME NEW i \in DOMAIN stored, NEW s \in Shapes, Change(i, s) PROVE OpenInv'
  BY <1>7, EditAssumption DEF Change, OpenInv, panel
<1>8. CASE Refetch
  <2>1. answer = "open" /\ \A j \in DOMAIN stored : stored[j] \in Row
    BY <1>8 DEF Refetch, OpenInv
  <2> QED BY <1>8, <2>1, ShowOpen DEF Refetch
<1>9. CASE Apply
  BY <1>9 DEF Apply, OpenInv
<1>10. CASE UNCHANGED vars
  BY <1>10 DEF vars, panel, OpenInv
<1>11. ASSUME NEW x \in Menu, answer = "open", PickEnd(x, to, "from") \/ PickEnd(from, x, "to") PROVE OpenInv'
  <2>1. from \in Menu /\ to \in Menu
    BY <1>11 DEF OpenInv
  <2> QED BY <1>11, <2>1, <1>4
<1>12. ASSUME NEW x \in Menu, PickEnd(x, to, "from") \/ PickEnd(from, x, "to") PROVE OpenInv'
  <2>1. answer = "open"
    BY <1>12 DEF PickEnd
  <2> QED BY <1>11, <1>12, <2>1
<1> QED BY <1>1, <1>2, <1>3, <1>12, <1>5, <1>6, <1>7, <1>8, <1>9, <1>10 DEF Next

\* Only sending the edit has it taken, and what it writes then is lawful
LEMMA ApplyLawful ==
  ASSUME OpenInv, Apply, answer' = "taken"
  PROVE  \A r \in Selected(stored') : Lawful(r)
<1>1. answer = "open" /\ ~Refuses(Selected(stored), Fields)
  BY DEF Apply
<1>2. stored' = [i \in DOMAIN stored |-> Written(stored[i], Fields)]
  BY <1>1 DEF Apply
<1>3. Fields.from \in Ends \cup {None} /\ Fields.to \in Ends \cup {None}
  BY <1>1 DEF OpenInv, Fields
<1>4. ASSUME NEW i \in DOMAIN stored PROVE Lawful(Written(stored[i], Fields))
  <2>1. stored[i] \in Row /\ stored[i] \in Selected(stored)
    BY <1>1, <1>4 DEF OpenInv, Selected
  <2>2. ~BreaksRule(stored[i], Fields)
    BY <1>1, <2>1 DEF Refuses
  <2> HIDE DEF Fields
  <2> QED BY <1>3, <2>1, <2>2, UnrefusedIsLawful
<1>5. DOMAIN stored' = DOMAIN stored /\ \A i \in DOMAIN stored : stored'[i] = Written(stored[i], Fields)
  BY <1>2
<1> QED BY <1>4, <1>5 DEF Selected

LEMMA StepLawful ==
  ASSUME OpenInv, Next, answer' = "taken"
  PROVE  \A r \in Selected(stored') : Lawful(r)
<1>1. CASE Apply
  BY <1>1, ApplyLawful
<1>2. CASE ~Apply
  BY <1>2 DEF Next, PickCategory, PickMerchant, PickOther, PickMove, PickEnd, PickDirection, Drop, Change, Refetch, Show
<1> QED BY <1>1, <1>2

\* "A bulk edit can never write a state a single edit would have refused", also over rows the panel has
\* not seen: every row of a batch the server takes is lawful afterwards.
THEOREM BatchesWriteLawfully == Spec => WritesLawful
<1>1. OpenInv /\ [Next]_vars => [answer' = "taken" => \A r \in Selected(stored') : Lawful(r)]_vars
  BY StepLawful
<1>2. Spec => []OpenInv
  BY InitOpen, NextOpen, PTL DEF Spec
<1> QED BY <1>1, <1>2, PTL DEF Spec, WritesLawful

-----------------------------------------------------------------------------
(* The controls agree with one another *)

RowsIn(f) == \A i \in DOMAIN f : f[i] \in Shapes

\* Where a row's own account goes, whether or not the ends are offered
OwnSide(r) == IF Points(r, direction.value) = "debit" THEN from ELSE to

DirectionInv ==
  /\ direction.source = "implied" => direction.value = Implied(rows, category, from, to)
  /\ \A r \in Transfers(category, rows) : r.sign # "zero" => OwnSide(r) # Outside

ControlsOK ==
  /\ category \in {None, "transfer", "other"} /\ merchant \in BOOLEAN /\ other \in BOOLEAN
  /\ account \in Accounts \cup {None}
  /\ from \in Ends \cup {None} /\ to \in Ends \cup {None}
  /\ direction \in [value : Turns \cup {None}, source : {"implied", "user"}]
  /\ account # None => from = None /\ to = None

RowsOK ==
  /\ DOMAIN rows = DOMAIN stored /\ RowsIn(rows)
  /\ answer # "taken" => RowsIn(stored)

PanelInv == RowsOK /\ ControlsOK /\ DirectionInv

\* A row the panel counts as a transfer is a row
LEMMA TransfersAreRows ==
  ASSUME NEW f, RowsIn(f), NEW c, NEW r \in Transfers(c, f) PROVE r \in Row /\ r.account \in Accounts
BY EditAssumption DEF RowsIn, Transfers, Selected, Row

\* The ends imply a direction or none
LEMMA ImpliedTurn == ASSUME NEW f, NEW c, NEW x, NEW y PROVE Implied(f, c, x, y) \in Turns \cup {None}
BY DEF Implied, Turns, Directions

\* Empty ends imply nothing
LEMMA NothingImplied == ASSUME NEW f, RowsIn(f), NEW c PROVE Implied(f, c, None, None) = None
<1> DEFINE home == {r.account : r \in Transfers(c, f)}
<1>1. None \notin home
  BY TransfersAreRows, RulesAssumption
<1>2. {None} # home
  BY <1>1
<1> HIDE DEF home
<1>3. Implied(f, c, None, None) = IF home = {} THEN None ELSE None
  BY <1>2, RulesAssumption DEF Implied, home
<1> QED BY <1>3

\* A direction the ends imply leaves no transfer on an end outside
LEMMA ImpliedSitsInside ==
  ASSUME NEW f, NEW c, NEW x, NEW y, NEW r \in Transfers(c, f), r.sign # "zero", ~(x = Outside /\ y = Outside),
         Implied(f, c, x, y) # None
  PROVE  (IF Points(r, Implied(f, c, x, y)) = "debit" THEN x ELSE y) # Outside
BY RulesAssumption DEF Implied, Points

\* One end outside implies a direction
LEMMA OutsideImplies ==
  ASSUME NEW f, NEW c, NEW x, NEW y, Transfers(c, f) # {}, x = Outside <=> y # Outside
  PROVE  Implied(f, c, x, y) # None
BY RulesAssumption DEF Implied

\* What a direction click or a render leaves of the ends
LEMMA SettledInside ==
  ASSUME NEW f, NEW c, NEW turn, NEW x, NEW side, NEW r \in Transfers(c, f), Points(r, turn) = side
  PROVE  Settled(x, f, c, turn, side) # Outside
BY RulesAssumption DEF Settled

\* Money goes out or comes in
LEMMA PointsSomewhere ==
  ASSUME NEW r \in Row, NEW turn \in Turns \cup {None} PROVE Points(r, turn) \in Directions
BY DEF Points, Row, Turns, Directions, Flip

\* After a control has set the direction anew, it is what the ends imply, or what the user picked while they imply nothing
LEMMA Redirected ==
  ASSUME ControlsOK, NEW f, f = rows', NEW c, c = category',
         direction' = NextDirection(Implied(f, c, from', to')),
         Transfers(c, f) = {} \/ ~(from' = Outside /\ to' = Outside)
  PROVE  DirectionInv' /\ direction' \in [value : Turns \cup {None}, source : {"implied", "user"}]
<1> DEFINE turn == Implied(f, c, from', to')
<1>1. direction' = (IF turn # None THEN [value |-> turn, source |-> "implied"]
                    ELSE IF direction.source = "user" THEN direction ELSE [value |-> None, source |-> "implied"])
  BY DEF NextDirection, Unset
<1>2. turn \in Turns \cup {None}
  BY ImpliedTurn
<1>3. ASSUME NEW r \in Transfers(c, f), r.sign # "zero"
      PROVE  (IF Points(r, direction'.value) = "debit" THEN from' ELSE to') # Outside
  <2>1. ~(from' = Outside /\ to' = Outside)
    BY <1>3
  <2>2. CASE turn # None
    <3>1. direction'.value = turn
      BY <1>1, <2>2
    <3> QED BY <1>3, <2>1, <2>2, <3>1, ImpliedSitsInside
  <2>3. CASE turn = None
    BY <1>3, <2>1, <2>3, OutsideImplies
  <2> QED BY <2>2, <2>3
<1>4. direction'.source = "implied" => direction'.value = turn
  BY <1>1
<1>5. direction' \in [value : Turns \cup {None}, source : {"implied", "user"}]
  BY <1>1, <1>2 DEF ControlsOK
<1>6. \A r \in Transfers(category', rows') : r.sign # "zero" => OwnSide(r)' # Outside
  BY <1>3 DEF OwnSide, Points
<1> QED BY <1>4, <1>5, <1>6 DEF DirectionInv

\* The render puts ends and direction right again
LEMMA CorrectedInv ==
  ASSUME ControlsOK, NEW f, f = rows', RowsIn(f), NEW c \in {None, "transfer", "other"}, c = category', Corrected(f, c),
         UNCHANGED <<merchant, other, account>>
  PROVE  ControlsOK' /\ DirectionInv'
<1>1. /\ from' = Settled(from, f, c, direction.value, "debit") /\ to' = Settled(to, f, c, direction.value, "credit")
      /\ direction' = NextDirection(Implied(f, c, from', to')) /\ direction.value \in Turns \cup {None}
  BY DEF Corrected, ControlsOK
<1>2. Transfers(c, f) = {} \/ ~(from' = Outside /\ to' = Outside)
  <2>1. ASSUME NEW r \in Transfers(c, f) PROVE ~(from' = Outside /\ to' = Outside)
    <3>1. Points(r, direction.value) \in {"debit", "credit"}
      BY <1>1, TransfersAreRows, PointsSomewhere DEF Directions
    <3> QED BY <1>1, <3>1, SettledInside
  <2> QED BY <2>1
<1>3. DirectionInv' /\ direction' \in [value : Turns \cup {None}, source : {"implied", "user"}]
  BY <1>1, <1>2, Redirected
<1>4. /\ from' \in Ends \cup {None} /\ to' \in Ends \cup {None}
      /\ from = None => from' = None
      /\ to = None => to' = None
  BY <1>1 DEF ControlsOK, Settled
<1> QED BY <1>3, <1>4 DEF ControlsOK

LEMMA PickCategoryInv == ASSUME PanelInv, NEW c \in {None, "transfer", "other"}, PickCategory(c) PROVE PanelInv'
<1>1. RowsOK'
  BY DEF PickCategory, PanelInv, RowsOK
<1>2. PICK f : f = rows
  OBVIOUS
<1>3. Corrected(f, c) /\ f = rows' /\ RowsIn(f) /\ c = category' /\ UNCHANGED <<merchant, other, account>>
  BY <1>2 DEF PickCategory, PanelInv, RowsOK
<1> QED BY <1>1, <1>3, CorrectedInv DEF PanelInv

LEMMA PickMoveInv == ASSUME PanelInv, NEW a \in Accounts \cup {None}, PickMove(a) PROVE PanelInv'
<1>1. RowsOK'
  BY DEF PickMove, PanelInv, RowsOK
<1>2. CASE a = None
  BY <1>1, <1>2 DEF PickMove, PanelInv, ControlsOK, DirectionInv, OwnSide, Points
<1>3. CASE a # None
  <2>1. PICK f, c : f = rows /\ c = category
    OBVIOUS
  <2>2. from' = None /\ to' = None /\ direction' = NextDirection(None) /\ f = rows' /\ c = category'
        /\ UNCHANGED <<merchant, other>> /\ account' = a
    BY <1>3, <2>1 DEF PickMove, EndsCleared
  <2>3. Implied(f, c, from', to') = None
    BY <2>1, <2>2, NothingImplied DEF PanelInv, RowsOK
  <2>4. DirectionInv' /\ direction' \in [value : Turns \cup {None}, source : {"implied", "user"}]
    BY <2>2, <2>3, Redirected, RulesAssumption DEF PanelInv
  <2> QED BY <1>1, <2>2, <2>4 DEF PanelInv, ControlsOK, PickMove
<1> QED BY <1>2, <1>3

LEMMA PickEndInv ==
  ASSUME PanelInv, NEW x \in Ends \cup {None}, NEW y \in Ends \cup {None}, NEW picked \in {"from", "to"}, PickEnd(x, y, picked)
  PROVE  PanelInv'
<1>1. RowsOK'
  BY DEF PickEnd, PanelInv, RowsOK
<1>2. PICK f, c : f = rows /\ c = category
  OBVIOUS
<1>3. /\ f = rows' /\ c = category' /\ UNCHANGED <<category, merchant, other, account>> /\ account = None
      /\ from' \in {x, None} /\ to' \in {y, None} /\ ~(from' = Outside /\ to' = Outside)
      /\ direction' = NextDirection(Implied(f, c, from', to'))
  BY <1>2, RulesAssumption DEF PickEnd
<1>4. DirectionInv' /\ direction' \in [value : Turns \cup {None}, source : {"implied", "user"}]
  BY <1>3, Redirected DEF PanelInv
<1> QED BY <1>1, <1>3, <1>4 DEF PanelInv, ControlsOK

LEMMA PickDirectionInv == ASSUME PanelInv, NEW turn \in Turns \cup {None}, PickDirection(turn) PROVE PanelInv'
<1>1. RowsOK'
  BY DEF PickDirection, PanelInv, RowsOK
<1>2. /\ from' = Settled(from, rows, category, turn, "debit") /\ to' = Settled(to, rows, category, turn, "credit")
      /\ direction' = [value |-> turn, source |-> "user"]
      /\ UNCHANGED <<rows, category, merchant, other, account>>
  BY DEF PickDirection
<1>3. ControlsOK'
  BY <1>2 DEF PanelInv, ControlsOK, Settled
<1>4. ASSUME NEW r \in Transfers(category, rows) PROVE (IF Points(r, turn) = "debit" THEN from' ELSE to') # Outside
  <2>1. r \in Row
    BY TransfersAreRows DEF PanelInv, RowsOK
  <2>2. Points(r, turn) \in {"debit", "credit"}
    BY <2>1, PointsSomewhere DEF Directions
  <2> QED BY <1>2, <2>2, SettledInside
<1>5. DirectionInv'
  <2>1. \A r \in Transfers(category', rows') : OwnSide(r)' # Outside
    BY <1>2, <1>4 DEF OwnSide, Points
  <2> QED BY <1>2, <2>1 DEF DirectionInv
<1> QED BY <1>1, <1>3, <1>5 DEF PanelInv

\* Rows with one key have the same accounts, categories and signs
LEMMA KeyTells ==
  ASSUME NEW f, NEW g, RowsIn(f), RowsIn(g), Key(f) = Key(g)
  PROVE  /\ DOMAIN f = DOMAIN g
         /\ \A i \in DOMAIN f : f[i].account = g[i].account /\ f[i].records = g[i].records /\ f[i].sign = g[i].sign
<1>1. DOMAIN f = DOMAIN g /\ \A i \in DOMAIN f : [f[i] EXCEPT !.merchant = TRUE] = [g[i] EXCEPT !.merchant = TRUE]
  BY DEF Key
<1>2. \A i \in DOMAIN f : f[i] \in Row /\ g[i] \in Row
  BY <1>1, EditAssumption DEF RowsIn
<1>3. ASSUME NEW p \in Row, NEW q \in Row, [p EXCEPT !.merchant = TRUE] = [q EXCEPT !.merchant = TRUE]
      PROVE  p.account = q.account /\ p.records = q.records /\ p.sign = q.sign
  BY <1>3 DEF Row
<1> QED BY <1>1, <1>2, <1>3

\* So the same directions are implied
LEMMA SameImplied ==
  ASSUME NEW f, NEW g, RowsIn(f), RowsIn(g), Key(f) = Key(g), NEW c, NEW x, NEW y
  PROVE  /\ Implied(f, c, x, y) = Implied(g, c, x, y)
         /\ \A r \in Transfers(c, f) : \E s \in Transfers(c, g) : r.sign = s.sign
<1>1. \A r \in Transfers(c, f) : \E s \in Transfers(c, g) : r.account = s.account /\ r.sign = s.sign
  BY KeyTells DEF Transfers, Selected, RecordsUnder
<1>2. \A s \in Transfers(c, g) : \E r \in Transfers(c, f) : r.account = s.account
  BY KeyTells DEF Transfers, Selected, RecordsUnder
<1>3. {r.account : r \in Transfers(c, f)} = {r.account : r \in Transfers(c, g)}
  BY <1>1, <1>2
<1> QED BY <1>1, <1>3 DEF Implied

\* The list shows other rows, the panel sets itself right where that matters
LEMMA ShowInv == ASSUME PanelInv, NEW f, RowsIn(f), Show(f) PROVE PanelInv'
<1>1. PICK g : g = rows'
  OBVIOUS
<1>2. /\ rows' = g /\ stored' = g /\ RowsIn(g) /\ UNCHANGED <<category, merchant, other, account>>
      /\ IF Key(g) # Key(rows) THEN Corrected(g, category) ELSE UNCHANGED <<from, to, direction>>
  BY <1>1 DEF Show, Ticked, RowsIn
<1>3. RowsOK'
  BY <1>2 DEF RowsOK, RowsIn
<1>4. CASE Key(g) # Key(rows)
  <2>1. PICK c \in {None, "transfer", "other"} : c = category
    BY DEF PanelInv, ControlsOK
  <2>2. Corrected(g, c) /\ c = category'
    BY <1>2, <1>4, <2>1
  <2> QED BY <1>2, <1>3, <2>2, CorrectedInv DEF PanelInv
<1>5. CASE Key(g) = Key(rows)
  <2>1. RowsIn(rows) /\ UNCHANGED <<from, to, direction>>
    BY <1>2, <1>5 DEF PanelInv, RowsOK
  <2>2. ControlsOK'
    BY <1>2, <2>1 DEF PanelInv, ControlsOK
  <2>3. Implied(g, category, from, to) = Implied(rows, category, from, to)
    BY <1>2, <1>5, <2>1, SameImplied
  <2>4. ASSUME NEW r \in Transfers(category, g), r.sign # "zero"
        PROVE  (IF Points(r, direction.value) = "debit" THEN from ELSE to) # Outside
    <3>1. PICK s \in Transfers(category, rows) : r.sign = s.sign
      BY <1>2, <1>5, <2>1, SameImplied
    <3> QED BY <2>4, <3>1 DEF PanelInv, DirectionInv, OwnSide, Points
  <2>5. DirectionInv'
    <3>1. \A r \in Transfers(category', rows') : r.sign # "zero" => OwnSide(r)' # Outside
      BY <1>2, <2>1, <2>4 DEF OwnSide, Points
    <3> QED BY <1>2, <2>1, <2>3, <3>1 DEF PanelInv, DirectionInv
  <2> QED BY <1>3, <2>2, <2>5 DEF PanelInv
<1> QED BY <1>4, <1>5

\* The panel and the rows it shows are as they were
LEMMA PanelKept ==
  ASSUME PanelInv, UNCHANGED <<rows, category, account, from, to, direction>>, RowsOK', merchant' \in BOOLEAN, other' \in BOOLEAN
  PROVE  PanelInv'
BY DEF PanelInv, ControlsOK, DirectionInv, OwnSide, Points

LEMMA InitPanel == Init => PanelInv
<1> SUFFICES ASSUME Init PROVE PanelInv
  OBVIOUS
<1>1. RowsOK
  BY DEF Init, RowsOK, RowsIn
<1>2. ControlsOK
  BY DEF Init, ControlsOK, Unset
<1>3. Implied(rows, category, from, to) = None
  BY <1>1, NothingImplied DEF Init, RowsOK
<1>4. DirectionInv
  BY <1>3, RulesAssumption DEF Init, DirectionInv, OwnSide, Unset
<1> QED BY <1>1, <1>2, <1>4 DEF PanelInv

LEMMA NextPanel == PanelInv /\ [Next]_vars => PanelInv'
<1> SUFFICES ASSUME PanelInv, [Next]_vars PROVE PanelInv'
  OBVIOUS
<1>1. from \in Ends \cup {None} /\ to \in Ends \cup {None} /\ merchant \in BOOLEAN /\ other \in BOOLEAN
  BY DEF PanelInv, ControlsOK
<1>2. CASE PickMerchant \/ PickOther
  <2>1. RowsOK' /\ merchant' \in BOOLEAN /\ other' \in BOOLEAN
    BY <1>1, <1>2 DEF PickMerchant, PickOther, PanelInv, RowsOK
  <2> QED BY <1>2, <2>1, PanelKept DEF PickMerchant, PickOther
<1>3. ASSUME NEW x \in Ends \cup {None}, PickEnd(x, to, "from") \/ PickEnd(from, x, "to") PROVE PanelInv'
  BY <1>1, <1>3, PickEndInv
<1>4. ASSUME NEW i \in DOMAIN stored, Drop(i) PROVE PanelInv'
  <2>1. RowsIn([j \in DOMAIN stored \ {i} |-> stored[j]])
    BY <1>4 DEF Drop, PanelInv, RowsOK, RowsIn
  <2> QED BY <1>4, <2>1, ShowInv DEF Drop
<1>5. ASSUME NEW i \in DOMAIN stored, NEW s \in Shapes, Change(i, s) PROVE PanelInv'
  <2>1. RowsOK'
    BY <1>5 DEF Change, PanelInv, RowsOK, RowsIn
  <2> QED BY <1>1, <1>5, <2>1, PanelKept DEF Change, panel
<1>6. CASE Refetch
  BY <1>6, ShowInv DEF Refetch, PanelInv, RowsOK
<1>7. CASE Apply
  <2>1. RowsOK'
    BY <1>7 DEF Apply, PanelInv, RowsOK, RowsIn
  <2> QED BY <1>1, <1>7, <2>1, PanelKept DEF Apply, panel
<1>8. CASE UNCHANGED vars
  <2>1. RowsOK'
    BY <1>8 DEF vars, PanelInv, RowsOK, RowsIn
  <2> QED BY <1>1, <1>8, <2>1, PanelKept DEF vars, panel
<1> QED BY <1>2, <1>3, <1>4, <1>5, <1>6, <1>7, <1>8, PickCategoryInv, PickMoveInv, PickDirectionInv DEF Next

LEMMA PanelInvariant == Spec => []PanelInv
BY InitPanel, NextPanel, PTL DEF Spec

\* The panel's fields make a request of the server's schema, and a move excludes ends.
THEOREM PanelTypes == Spec => []EditTypeOK
<1>1. PanelInv => EditTypeOK
  <2> SUFFICES ASSUME PanelInv PROVE EditTypeOK
    OBVIOUS
  <2>1. Effective \in Turns \cup {None}
    BY DEF PanelInv, ControlsOK, Effective
  <2>2. Fields \in Request
    BY <2>1 DEF PanelInv, ControlsOK, Fields, Request
  <2> QED BY <2>2 DEF PanelInv, RowsOK, RowsIn, ControlsOK, EditTypeOK, Selected
<1> QED BY <1>1, PanelInvariant, PTL

\* No sequence of picks and refetches leaves a transfer whose own account would be outside.
THEOREM OwnSidesInside == Spec => []NoneSitsOutside
<1>1. PanelInv => NoneSitsOutside
  <2> SUFFICES ASSUME PanelInv, NEW r \in Transfers(category, rows), r.sign # "zero" PROVE PanelOwn(r) # Outside
    BY DEF NoneSitsOutside
  <2>1. Effective = direction.value
    BY DEF Effective, Offered
  <2> QED BY <2>1 DEF PanelInv, DirectionInv, OwnSide, PanelOwn
<1> QED BY <1>1, PanelInvariant, PTL

\* A direction nobody picked is the one the ends on screen imply, whichever control moved last.
THEOREM ImpliedDirectionHolds == Spec => []ImpliedHolds
<1>1. PanelInv => ImpliedHolds
  BY DEF PanelInv, DirectionInv, ImpliedHolds
<1> QED BY <1>1, PanelInvariant, PTL

-----------------------------------------------------------------------------
(* The panel's copy of the rules and the server's *)

\* The request says what the controls hold
LEMMA FieldsHold ==
  ASSUME ControlsOK, NEW q, q = Fields
  PROVE  /\ q.category = category /\ q.merchant = merchant /\ q.other = other
         /\ q.account = (IF SendsAnEnd THEN None ELSE account)
         /\ q.from = (IF Offered THEN from ELSE None) /\ q.to = (IF Offered THEN to ELSE None)
         /\ q.direction = (IF direction.source = "user" THEN Effective ELSE None)
         /\ q.transferDirection = (IF direction.source = "user" THEN None ELSE Effective)
BY DEF Fields, ControlsOK

\* Panel and server see the same category, ends and direction for a row
LEMMA RowAgrees ==
  ASSUME ControlsOK, NEW r \in Row, r \in Selected(rows), NEW q, q = Fields
  PROVE  /\ Records(r, q) <=> RecordsUnder(category, r)
         /\ Records(r, q) => Offered /\ OwnEnd(r, q) = PanelOwn(r) /\ FarEnd(r, q) = PanelFar(r)
         /\ ~Records(r, q) => OwnEnd(r, q) = None /\ FarEnd(r, q) = None
         /\ Resulting(r, q) = (IF r.sign = "zero" THEN "zero" ELSE Points(r, Effective))
<1>1. Records(r, q) <=> RecordsUnder(category, r)
  BY FieldsHold DEF Records, RecordsUnder
<1>2. Records(r, q) => Offered
  BY <1>1 DEF Offered, Transfers
<1>3. (IF q.direction # None THEN q.direction ELSE q.transferDirection) = Effective
  BY FieldsHold DEF ControlsOK
<1>4. Resulting(r, q) = (IF r.sign = "zero" THEN "zero" ELSE Points(r, Effective))
  BY <1>3, RulesAssumption DEF Resulting, Turned, Points
<1>5. (Resulting(r, q) = "debit") <=> (Points(r, Effective) = "debit")
  BY <1>4 DEF Points
<1>6. Records(r, q) => OwnEnd(r, q) = PanelOwn(r) /\ FarEnd(r, q) = PanelFar(r)
  BY <1>2, <1>5, FieldsHold DEF OwnEnd, FarEnd, PanelOwn, PanelFar
<1>7. ~Records(r, q) => OwnEnd(r, q) = None /\ FarEnd(r, q) = None
  BY DEF OwnEnd, FarEnd
<1> QED BY <1>1, <1>2, <1>4, <1>6, <1>7

\* A move goes only to an account in the currency of every row
MoveInv ==
  /\ account # None => \A i \in DOMAIN rows : rows[i].currency = Currency[account]
  /\ answer # "taken" => \A i \in DOMAIN rows : rows[i].currency = stored[i].currency

NoneClosed == \A s \in Shapes : s.far \notin Closed

\* The request is well formed and reaches a row
LEMMA WellFormed ==
  ASSUME ControlsOK, HasChoice, NEW q, q = Fields
  PROVE  ~Malformed(q) /\ ~ReachesNoRow(Selected(rows), q)
<1>1. ~SetsNothing(q)
  BY DEF HasChoice
<1>2. q.account # None => q.from = None /\ q.to = None
  BY FieldsHold DEF SendsAnEnd
<1>3. q.direction = None \/ q.transferDirection = None
  BY FieldsHold
<1>4. ASSUME q.from # None \/ q.to # None \/ q.transferDirection # None PROVE Offered
  BY <1>4, FieldsHold DEF Effective, ControlsOK
<1>5. Offered => \E r \in Selected(rows) : Records(r, q)
  BY FieldsHold DEF Offered, Transfers, Records, RecordsUnder
<1> QED BY <1>1, <1>2, <1>3, <1>4, <1>5 DEF Malformed, ReachesNoRow

\* Where the account of a row goes
LEMMA AccountAgrees ==
  ASSUME ControlsOK, NEW r \in Row, r \in Selected(rows), NEW q, q = Fields
  PROVE  /\ Records(r, q) => AccountAfter(r, q) = PanelAccount(r)
         /\ ~Records(r, q) => AccountAfter(r, q) = (IF ~SendsAnEnd /\ account # None THEN account ELSE r.account)
<1>1. q.account = (IF SendsAnEnd THEN None ELSE account)
  BY FieldsHold
<1> QED BY <1>1, RowAgrees, RulesAssumption DEF AccountAfter, PanelAccount

\* The panel blocks a row for what the server refuses it for
LEMMA BlocksAsServer ==
  ASSUME ControlsOK, NEW r \in Row, r \in Selected(rows), r.far \notin Closed,
         account # None => r.currency = Currency[account], NEW q, q = Fields
  PROVE  Blocked(r) <=> Unavailable(r, q) \/ BreaksRule(r, q)
<1>1. /\ q.merchant = merchant /\ q.account = (IF SendsAnEnd THEN None ELSE account)
      /\ from \in Ends \cup {None} /\ to \in Ends \cup {None}
  BY FieldsHold DEF ControlsOK
<1>2. NotWritable(r) <=> r.account \notin Writable \/ (q.account # None /\ q.account \notin Writable)
  BY <1>1 DEF NotWritable
<1>3. CASE ~Records(r, q)
  <2>1. OwnEnd(r, q) = None /\ FarAfter(r, q) = Unanswered
    BY <1>3, RowAgrees DEF FarAfter
  <2>2. AccountAfter(r, q) \in {account, r.account} /\ (AccountAfter(r, q) = account => r.currency = Currency[account] \/ account = r.account)
    BY <1>3, AccountAgrees
  <2>3. ~RecordsUnder(category, r)
    BY <1>3, RowAgrees
  <2>4. ~(AccountAfter(r, q) # r.account /\ r.currency # Currency[AccountAfter(r, q)])
    BY <1>3, AccountAgrees
  <2> QED BY <1>1, <1>2, <1>3, <2>1, <2>3, <2>4, RulesAssumption DEF Blocked, Unavailable, BreaksRule, OwnAccountOnBothSides
<1>4. CASE Records(r, q)
  <2> DEFINE own == PanelOwn(r)
             far == IF PanelFar(r) = None THEN r.far ELSE PanelFar(r)
  <2>1. RecordsUnder(category, r) /\ OwnEnd(r, q) = own /\ FarAfter(r, q) = far /\ AccountAfter(r, q) = PanelAccount(r)
    BY <1>4, RowAgrees, AccountAgrees DEF FarAfter
  <2>2. PanelFar(r) \in Ends \cup {None} /\ own \in Ends \cup {None}
    BY <1>1 DEF PanelFar, PanelOwn
  <2>3. far = Unanswered <=> PanelFar(r) = None /\ r.far = Unanswered
    BY <2>2, RulesAssumption DEF Ends
  <2>4. far \notin Closed
    BY <2>2, RulesAssumption DEF Ends
  <2>5. CurrencyDiffers(r) <=> PanelAccount(r) # r.account /\ r.currency # Currency[PanelAccount(r)]
    BY DEF CurrencyDiffers, StaysPut, PanelAccount
  <2>6. TransferBlocked(r) <=> \/ own = Outside
                               \/ PanelAccount(r) # r.account /\ r.currency # Currency[PanelAccount(r)]
                               \/ own \in Accounts \ Writable \/ far = Unanswered \/ far = PanelAccount(r)
    BY <2>3, <2>5 DEF TransferBlocked
  <2> HIDE DEF own, far
  <2>7. Blocked(r) <=> (~r.merchant /\ ~merchant) \/ NotWritable(r) \/ TransferBlocked(r)
    BY <2>1 DEF Blocked
  <2>8. Unavailable(r, q) <=> NotWritable(r) \/ own \in Accounts \ Writable
    BY <1>2, <2>1 DEF Unavailable
  <2>9. BreaksRule(r, q) <=> \/ ~merchant /\ ~r.merchant
                             \/ PanelAccount(r) # r.account /\ r.currency # Currency[PanelAccount(r)]
                             \/ own = Outside \/ far = Unanswered \/ (own # Outside /\ far = PanelAccount(r))
    BY <1>1, <1>4, <2>1, <2>4 DEF BreaksRule, OwnAccountOnBothSides
  <2> QED BY <2>6, <2>7, <2>8, <2>9
<1> QED BY <1>3, <1>4

LEMMA InitMove == Init => MoveInv
BY DEF Init, MoveInv

\* Rows that stay keep their currency
LEMMA ShowMove ==
  ASSUME PanelInv, MoveInv, answer = "open", NEW f, DOMAIN f \subseteq DOMAIN stored, \A i \in DOMAIN f : f[i] = stored[i], Show(f)
  PROVE  MoveInv'
<1>1. DOMAIN rows' \subseteq DOMAIN rows /\ \A i \in DOMAIN rows' : rows'[i].currency = rows[i].currency
  BY DEF Show, Ticked, MoveInv, PanelInv, RowsOK
<1>2. rows' = stored' /\ account' = account
  BY DEF Show
<1> QED BY <1>1, <1>2 DEF MoveInv

LEMMA NextMove == PanelInv /\ MoveInv /\ [Next]_vars => MoveInv'
<1> SUFFICES ASSUME PanelInv, MoveInv, [Next]_vars PROVE MoveInv'
  OBVIOUS
<1>1. ASSUME NEW a, PickMove(a) PROVE MoveInv'
  <2>1. a # None => \A i \in DOMAIN rows : rows[i].currency = Currency[a]
    BY <1>1 DEF PickMove, MoveTargets, Selected
  <2> QED BY <1>1, <2>1 DEF PickMove, MoveInv
<1>2. ASSUME NEW i \in DOMAIN stored, Drop(i) PROVE MoveInv'
  BY <1>2, ShowMove DEF Drop
<1>3. CASE Refetch
  BY <1>3, ShowMove DEF Refetch
<1>4. ASSUME NEW i \in DOMAIN stored, NEW s \in Shapes, Change(i, s) PROVE MoveInv'
  BY <1>4 DEF Change, MoveInv, panel, PanelInv, RowsOK
<1>5. CASE Apply
  BY <1>5 DEF Apply, MoveInv, panel
<1>6. CASE UNCHANGED vars
  BY <1>6 DEF vars, panel, MoveInv
<1>7. CASE UNCHANGED <<rows, stored, account, answer>>
  BY <1>7 DEF MoveInv
<1> QED
  BY <1>1, <1>2, <1>3, <1>4, <1>5, <1>6, <1>7 DEF Next, PickCategory, PickMerchant, PickOther, PickEnd, PickDirection

LEMMA MoveInvariant == Spec => [](PanelInv /\ MoveInv)
BY InitPanel, NextPanel, InitMove, NextMove, PTL DEF Spec

\* What the panel knows of the rows it shows
LEMMA ShownRows ==
  ASSUME PanelInv, MoveInv, NEW r \in Selected(rows)
  PROVE  r \in Row /\ r \in Shapes /\ (account # None => r.currency = Currency[account])
BY EditAssumption DEF PanelInv, RowsOK, RowsIn, MoveInv, Selected

\* "The refusals it would answer with are counted here" (getBulkEditBlockers): where the panel knows the
\* rows as they are, and the other side of none is an account the user can no longer open, it holds back
\* exactly the edits the server would refuse.
THEOREM PanelJudgesAsServer == ASSUME NoneClosed PROVE Spec => []JudgesAsServer
<1>1. PanelInv /\ MoveInv => JudgesAsServer
  <2> SUFFICES ASSUME PanelInv, MoveInv, rows = stored, HasChoice
               PROVE  SomeBlocked <=> Refuses(Selected(stored), Fields)
    BY DEF JudgesAsServer
  <2>1. PICK q : q = Fields
    OBVIOUS
  <2>2. ControlsOK
    BY DEF PanelInv
  <2>3. ~Malformed(q) /\ ~ReachesNoRow(Selected(rows), q)
    BY <2>1, <2>2, WellFormed
  <2>4. \A r \in Selected(rows) : Blocked(r) <=> Unavailable(r, q) \/ BreaksRule(r, q)
    BY <2>1, <2>2, ShownRows, BlocksAsServer DEF NoneClosed
  <2>5. SomeBlocked <=> Refuses(Selected(rows), q)
    BY <2>3, <2>4 DEF SomeBlocked, Refuses
  <2> QED BY <2>1, <2>5
<1> QED BY <1>1, MoveInvariant, PTL

\* What the summary tells of a row is what the server writes, when nothing blocks the row
LEMMA ToldIsWritten ==
  ASSUME ControlsOK, NEW r \in Row, r \in Selected(rows), ~Blocked(r), NEW q, q = Fields
  PROVE  LET w == Written(r, q) IN
         /\ Told(r).moves <=> w.account # r.account
         /\ Told(r).records # None => w.far = Told(r).records
         /\ Told(r).records = None => w.far \in {r.far, Unanswered}
         /\ Told(r).turns <=> w.sign # r.sign
<1> DEFINE w == Written(r, q)
<1>1. w.account = AccountAfter(r, q) /\ w.far = FarAfter(r, q) /\ w.sign = SignAfter(r, q)
  BY DEF Written, Row
<1>2. /\ Records(r, q) <=> RecordsUnder(category, r)
      /\ Records(r, q) => Offered /\ OwnEnd(r, q) = PanelOwn(r) /\ FarEnd(r, q) = PanelFar(r)
                          /\ PanelOwn(r) # Outside /\ AccountAfter(r, q) = PanelAccount(r)
      /\ ~Records(r, q) => AccountAfter(r, q) = (IF ~SendsAnEnd /\ account # None THEN account ELSE r.account)
  BY RowAgrees, AccountAgrees DEF Blocked, TransferBlocked
<1>3. /\ PanelOwn(r) \in Ends \cup {None} /\ PanelFar(r) \in Ends \cup {None}
      /\ Offered /\ ~SendsAnEnd => PanelOwn(r) = None /\ PanelFar(r) = None
  BY DEF PanelOwn, PanelFar, SendsAnEnd, ControlsOK
<1>4. Told(r).moves <=> w.account # r.account
  <2>1. Told(r).moves <=> (IF SendsAnEnd THEN RecordsUnder(category, r) /\ PanelOwn(r) # None /\ PanelOwn(r) # r.account
                                        ELSE account \notin {None, r.account})
    BY DEF Told, StaysPut
  <2>2. CASE Records(r, q)
    <3>1. PanelAccount(r) = (IF PanelOwn(r) # None THEN PanelOwn(r) ELSE IF ~SendsAnEnd /\ account # None THEN account ELSE r.account)
      BY <1>2, <1>3, <2>2, RulesAssumption DEF PanelAccount, Ends
    <3> QED BY <1>1, <1>2, <1>3, <2>1, <2>2, <3>1
  <2>3. CASE ~Records(r, q)
    BY <1>1, <1>2, <2>1, <2>3
  <2> QED BY <2>2, <2>3
<1>5. Told(r).records = (IF SendsAnEnd /\ RecordsUnder(category, r) THEN PanelFar(r) ELSE None)
  BY DEF Told
<1>6. (Told(r).records # None => w.far = Told(r).records) /\ (Told(r).records = None => w.far \in {r.far, Unanswered})
  BY <1>1, <1>2, <1>3, <1>5 DEF FarAfter
<1>7. Told(r).turns <=> w.sign # r.sign
  <2>1. Told(r).turns <=> /\ r.sign # "zero" /\ Effective # None
                          /\ direction.source = "user" \/ RecordsUnder(category, r)
                          /\ Points(r, Effective) # r.sign
    BY DEF Told
  <2>2. Resulting(r, q) = (IF r.sign = "zero" THEN "zero" ELSE Points(r, Effective))
    BY RowAgrees
  <2>3. Effective = None /\ r.sign # "zero" => Points(r, Effective) = r.sign
    BY RulesAssumption DEF Points
  <2>4. q.direction = (IF direction.source = "user" THEN Effective ELSE None)
    BY FieldsHold
  <2>5. w.sign = IF q.direction # None \/ Records(r, q) THEN Resulting(r, q) ELSE r.sign
    BY <1>1 DEF SignAfter
  <2> HIDE DEF w
  <2> QED BY <1>2, <2>1, <2>2, <2>3, <2>4, <2>5
<1> QED BY <1>4, <1>6, <1>7

\* The summary the user confirms tells of every row whether it moves, what is recorded and whether it turns, as written.
THEOREM SummaryHolds == Spec => []SummaryIsTrue
<1>1. PanelInv /\ MoveInv => SummaryIsTrue
  <2> SUFFICES ASSUME PanelInv, MoveInv, ~SomeBlocked, NEW r \in Selected(rows)
               PROVE  LET u == Written(r, Fields) IN
                      /\ Told(r).moves <=> u.account # r.account
                      /\ Told(r).records # None => u.far = Told(r).records
                      /\ Told(r).records = None => u.far \in {r.far, Unanswered}
                      /\ Told(r).turns <=> u.sign # r.sign
    BY DEF SummaryIsTrue
  <2>1. PICK q : q = Fields
    OBVIOUS
  <2>2. ControlsOK /\ r \in Row /\ ~Blocked(r)
    BY ShownRows DEF PanelInv, SomeBlocked
  <2> QED BY <2>1, <2>2, ToldIsWritten
<1> QED BY <1>1, MoveInvariant, PTL
=============================================================================
