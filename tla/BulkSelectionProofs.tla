------------------------ MODULE BulkSelectionProofs ------------------------
(***************************************************************************)
(* What is ticked, lit and confirmed stays on screen and as it was shown,  *)
(* for any transactions, lists, limit and order of events.                 *)
(***************************************************************************)
EXTENDS BulkSelection, FiniteSetTheorems, TLAPS

-----------------------------------------------------------------------------
(* The inductive invariant *)

\* The row the hook takes the pointer to be on is the one it is on
PointerInv == LitWherePointerIs /\ (pointerRow # None => pointerRow = pointer)

TicksInv ==
  /\ settled => selected \subseteq Eligible(list, readOnly) /\ anchor \in Eligible(list, readOnly) \cup {None}
  /\ BaselineKept

\* An edit has rows, and a confirmation was opened for these
ConfirmInv ==
  /\ dialog \in {"edit", "confirm"} => selected # {}
  /\ dialog = "confirm" => frozen = Signature(selected, list, version)

SelectionInv == PointerInv /\ TicksInv /\ ConfirmInv

LEMMA InitInv == Init => SelectionInv
BY DEF Init, SelectionInv, PointerInv, LitWherePointerIs, TicksInv, BaselineKept, ConfirmInv

LEMMA FilledKeeps == ASSUME NEW base, NEW fresh PROVE base \subseteq Filled(base, fresh) /\ Filled(base, fresh) \subseteq base \cup fresh
BY DEF Filled

LEMMA SpanEligible == ASSUME NEW i, NEW j PROVE Span(i, j) \subseteq Eligible(list, readOnly)
BY DEF Span, Shown, Eligible

LEMMA DayEligible == ASSUME NEW d PROVE DayResult(d) \subseteq selected \cup Eligible(list, readOnly)
<1>1. OfDay(d) \subseteq Eligible(list, readOnly)
  BY DEF OfDay, Shown, Eligible
<1> QED BY <1>1, FilledKeeps DEF DayResult

-----------------------------------------------------------------------------
(* Parts a step leaves alone *)

LEMMA PointerStays ==
  ASSUME PointerInv, UNCHANGED <<pointerRow, shift, pointer>>, UNCHANGED <<hovered, hoveredDay>> \/ Unlit
  PROVE  PointerInv'
BY DEF PointerInv, LitWherePointerIs, Unlit

LEMMA TicksStay == TicksInv /\ UNCHANGED <<list, readOnly, settled, selected, anchor, baseline>> => TicksInv'
BY DEF TicksInv, BaselineKept, Eligible

LEMMA ConfirmStays == ConfirmInv /\ UNCHANGED <<list, version, selected, dialog, frozen>> => ConfirmInv'
BY DEF ConfirmInv, Signature

\* While no dialogue is open there is nothing to confirm
LEMMA NothingOpen == dialog = "none" /\ UNCHANGED dialog => ConfirmInv'
BY DEF ConfirmInv

-----------------------------------------------------------------------------
(* Clicks *)

LEMMA ToggleInv == ASSUME SelectionInv, NEW i \in Shown, dialog = "none", Toggle(i) PROVE SelectionInv'
<1>1. PointerInv'
  BY PointerStays DEF Toggle, SelectionInv
<1>2. ConfirmInv'
  BY NothingOpen DEF Toggle, confirmation
<1>3. CASE i \in Shown \ readOnly /\ Selectable(i)
  <2>1. /\ selected' \subseteq selected \cup {i} /\ anchor' = i /\ baseline' = selected'
        /\ UNCHANGED <<list, readOnly, settled>>
    BY <1>3 DEF Toggle, rows
  <2>2. i \in Eligible(list, readOnly)
    BY <1>3 DEF Shown, Eligible
  <2> QED BY <1>1, <1>2, <2>1, <2>2 DEF SelectionInv, TicksInv, BaselineKept, Eligible
<1>4. CASE ~(i \in Shown \ readOnly /\ Selectable(i))
  BY <1>1, <1>2, <1>4, TicksStay DEF Toggle, SelectionInv, rows, ticks
<1> QED BY <1>3, <1>4

LEMMA ExtendInv == ASSUME SelectionInv, NEW i \in Ids, dialog = "none", Extend(i) PROVE SelectionInv'
<1>1. PointerInv'
  BY PointerStays DEF Extend, SelectionInv
<1>2. ConfirmInv'
  BY NothingOpen DEF Extend, confirmation
<1>3. /\ baseline \subseteq selected' /\ selected' \subseteq baseline \cup Eligible(list, readOnly)
      /\ UNCHANGED <<list, readOnly, settled, anchor, baseline>>
  BY FilledKeeps, SpanEligible DEF Extend, rows
<1>4. TicksInv'
  BY <1>3 DEF SelectionInv, TicksInv, BaselineKept, Eligible
<1> QED BY <1>1, <1>2, <1>4 DEF SelectionInv

LEMMA ClickDayInv ==
  ASSUME SelectionInv, NEW d \in Days, NEW mouse \in BOOLEAN, ClickDay(d, mouse)
  PROVE  SelectionInv'
<1>1. PointerInv'
  BY DEF ClickDay, SelectionInv, PointerInv, LitWherePointerIs
<1>2. ConfirmInv'
  BY NothingOpen DEF ClickDay, Clicks, confirmation
<1>3. /\ selected' \subseteq selected \cup Eligible(list, readOnly) /\ baseline' = selected' /\ anchor' = None
      /\ UNCHANGED <<list, readOnly, settled>>
  BY DayEligible DEF ClickDay, Reanchored, rows
<1>4. TicksInv'
  BY <1>3 DEF SelectionInv, TicksInv, BaselineKept, Eligible
<1> QED BY <1>1, <1>2, <1>4 DEF SelectionInv

\* Pointer and keyboard
LEMMA PointingInv ==
  ASSUME SelectionInv,
         \/ \E i \in Ids : EnterRow(i)
         \/ \E d \in Days : MoveOverDay(d)
         \/ LeaveList \/ ShiftDown \/ ShiftUp \/ Blur
  PROVE  SelectionInv'
<1>1. PointerInv'
  <2>1. ASSUME NEW i \in Ids, EnterRow(i) PROVE PointerInv'
    BY <2>1 DEF EnterRow, SelectionInv, PointerInv, LitWherePointerIs
  <2>2. ASSUME NEW d \in Days, MoveOverDay(d) PROVE PointerInv'
    BY <2>2 DEF MoveOverDay, SelectionInv, PointerInv, LitWherePointerIs
  <2>3. CASE LeaveList \/ ShiftDown \/ ShiftUp \/ Blur
    BY <2>3 DEF LeaveList, ShiftDown, ShiftUp, Blur, Unlit, SelectionInv, PointerInv, LitWherePointerIs
  <2> QED BY <2>1, <2>2, <2>3
<1>2. UNCHANGED <<rows, selecting, ticks, confirmation>>
  BY DEF EnterRow, MoveOverDay, LeaveList, ShiftDown, ShiftUp, Blur
<1> QED BY <1>1, <1>2, TicksStay, ConfirmStays DEF SelectionInv, rows, ticks, confirmation

-----------------------------------------------------------------------------
(* The list changes underneath *)

LEMMA ShowInv ==
  ASSUME SelectionInv, NEW l, NEW ro, NEW ver, NEW st, settled => st, Show(l, ro, ver, st)
  PROVE  SelectionInv'
<1>1. PointerInv'
  BY PointerStays DEF Show, hover, SelectionInv
<1>2. TicksInv'
  <2>1. list' = l /\ readOnly' = ro /\ settled' = st /\ Keep(l, ro, st)
    BY DEF Show
  <2> QED BY <2>1 DEF Keep, SelectionInv, TicksInv, BaselineKept, Eligible
<1>3. ConfirmInv'
  <2>1. list' = l /\ version' = ver
    BY DEF Show
  <2>2. dialog' \in {"edit", "confirm"} => selected' # {}
    BY DEF Show, Dropped
  <2>3. dialog' = "confirm" => dialog = "confirm" /\ frozen' = frozen /\ frozen = Signature(selected', l, ver)
    BY DEF Show, Dropped
  <2> QED BY <2>1, <2>2, <2>3 DEF ConfirmInv, Signature
<1> QED BY <1>1, <1>2, <1>3 DEF SelectionInv

LEMMA ListInv ==
  ASSUME SelectionInv,
         \/ \E i \in Ids : Edited(i)
         \/ \E l \in Lists : Reload(l) \/ Settle(l)
         \/ \E ro \in ReadOnlies : Reaccess(ro)
  PROVE  SelectionInv'
<1>1. ASSUME NEW i \in Ids, Edited(i) PROVE SelectionInv'
  BY <1>1, ShowInv DEF Edited
<1>2. ASSUME NEW l \in Lists, Reload(l) \/ Settle(l) PROVE SelectionInv'
  BY <1>2, ShowInv DEF Reload, Settle
<1>3. ASSUME NEW ro \in ReadOnlies, Reaccess(ro) PROVE SelectionInv'
  BY <1>3, ShowInv DEF Reaccess
<1> QED BY <1>1, <1>2, <1>3

LEMMA FilterInv == ASSUME SelectionInv, NEW l \in Lists, NEW st \in BOOLEAN, Filter(l, st) PROVE SelectionInv'
<1>1. PointerInv'
  BY PointerStays DEF Filter, SelectionInv
<1>2. ConfirmInv'
  BY NothingOpen DEF Filter, confirmation
<1>3. TicksInv'
  BY DEF Filter, TicksInv, BaselineKept, Eligible
<1> QED BY <1>1, <1>2, <1>3 DEF SelectionInv

-----------------------------------------------------------------------------
(* Selection mode, the edit and its confirmation *)

LEMMA ClearedInv == ASSUME SelectionInv, Cleared PROVE SelectionInv'
BY DEF Cleared, Unlit, SelectionInv, PointerInv, LitWherePointerIs, TicksInv, BaselineKept, ConfirmInv, Eligible

LEMMA DialogueInv ==
  ASSUME SelectionInv, StartSelecting \/ OpenEdit \/ Cancel \/ Freeze \/ Confirm \/ Refused
  PROVE  SelectionInv'
<1>1. UNCHANGED <<rows, ticks, hover>>
  BY DEF StartSelecting, OpenEdit, Cancel, Freeze, Confirm, Refused
<1>2. PointerInv' /\ TicksInv'
  BY <1>1, PointerStays, TicksStay DEF SelectionInv, rows, ticks, hover
<1>3. UNCHANGED <<list, version, selected>>
  BY <1>1 DEF rows, ticks
<1>4. ASSUME StartSelecting PROVE ConfirmInv'
  BY <1>4, NothingOpen DEF StartSelecting, confirmation
<1>5. ASSUME OpenEdit \/ Cancel \/ Confirm PROVE ConfirmInv'
  BY <1>5, <1>3 DEF OpenEdit, Cancel, Confirm, SelectionInv, ConfirmInv
<1>6. ASSUME Freeze PROVE ConfirmInv'
  BY <1>6, <1>3 DEF Freeze, SelectionInv, ConfirmInv, Signature
<1>7. ASSUME Refused PROVE ConfirmInv'
  BY <1>7, <1>3 DEF Refused, SelectionInv, ConfirmInv, Signature
<1> QED BY <1>2, <1>4, <1>5, <1>6, <1>7 DEF SelectionInv

-----------------------------------------------------------------------------
LEMMA NextInv == SelectionInv /\ [Next]_vars => SelectionInv'
<1> SUFFICES ASSUME SelectionInv, [Next]_vars PROVE SelectionInv'
  OBVIOUS
<1>1. ASSUME NEW i \in Ids, ClickRow(i) \/ ShiftClickRow(i) PROVE SelectionInv'
  BY <1>1, ToggleInv, ExtendInv DEF ClickRow, ShiftClickRow, Clicks
<1>2. CASE UNCHANGED vars
  BY <1>2, PointerStays, TicksStay, ConfirmStays DEF vars, rows, ticks, hover, confirmation, SelectionInv
<1>3. CASE StopSelecting \/ Taken
  BY <1>3, ClearedInv DEF StopSelecting, Taken
<1> QED BY <1>1, <1>2, <1>3, ClickDayInv, PointingInv, ListInv, FilterInv, DialogueInv DEF Next

LEMMA SelectionInvariant == Spec => []SelectionInv
BY InitInv, NextInv, PTL DEF Spec

\* No tick, anchor or baseline outlives its row on a settled list, whatever reloads or loses access.
THEOREM TicksStayEligible == Spec => []OnlyEligible
<1>1. SelectionInv => OnlyEligible
  BY DEF SelectionInv, TicksInv, OnlyEligible, BaselineKept
<1> QED BY <1>1, SelectionInvariant, PTL

\* No range takes away a tick made before its anchor.
THEOREM BaselineStaysTicked == Spec => []BaselineKept
BY SelectionInvariant, PTL DEF SelectionInv, TicksInv

\* Nothing is lit where the pointer is not.
THEOREM PreviewFollowsPointer == Spec => []LitWherePointerIs
BY SelectionInvariant, PTL DEF SelectionInv, PointerInv

\* A confirmation stands only for rows that are ticked, on screen and as they were when it was opened.
THEOREM ConfirmationIsCurrent == Spec => []ConfirmsWhatIsShown
<1>1. ASSUME SelectionInv, dialog = "confirm" PROVE ConfirmsWhatIsShown
  <2>1. selected # {} /\ frozen = Signature(selected, list, version)
    BY <1>1 DEF SelectionInv, ConfirmInv
  <2>2. DOMAIN frozen = selected /\ \A i \in selected \cap Shown : frozen[i] = version[i]
    BY <2>1 DEF Signature, Shown
  <2>3. settled => selected \subseteq Shown \ readOnly
    BY <1>1 DEF SelectionInv, TicksInv, Eligible, Shown
  <2> QED BY <2>1, <2>2, <2>3 DEF ConfirmsWhatIsShown
<1>2. SelectionInv => ConfirmsWhatIsShown
  BY <1>1 DEF ConfirmsWhatIsShown
<1> QED BY <1>2, SelectionInvariant, PTL

-----------------------------------------------------------------------------
(* The limit *)

LEMMA ShownFinite == ASSUME list \in Seq(Ids) PROVE IsFiniteSet(Shown) /\ Shown \subseteq Ids
<1>1. list \in Surjection(DOMAIN list, Shown)
  BY DEF Surjection, Shown
<1>2. IsFiniteSet(DOMAIN list)
  BY FS_Interval
<1> QED BY <1>1, <1>2, FS_Surjection DEF Shown

LEMMA PositionShown ==
  ASSUME list \in Seq(Ids), NEW i \in Shown
  PROVE  Position(i) \in Nat /\ list[Position(i)] = i
<1>1. PICK k \in DOMAIN list : list[k] = i
  BY DEF Shown
<1> QED BY <1>1 DEF Position

\* Each new row has fewer new rows before it than the next one has, so they count up to what the limit leaves
LEMMA FilledFits ==
  ASSUME list \in Seq(Ids), NEW base, IsFiniteSet(base), Cardinality(base) <= Limit, NEW fresh \in SUBSET Shown
  PROVE  IsFiniteSet(Filled(base, fresh)) /\ Cardinality(Filled(base, fresh)) <= Limit
<1> DEFINE new == fresh \ base
           before(i) == {j \in new : Position(j) < Position(i)}
           room == Limit - Cardinality(base)
           added == {i \in new : Cardinality(base) + Cardinality(before(i)) < Limit}
           rank == [i \in added |-> Cardinality(before(i))]
<1>1. Cardinality(base) \in Nat /\ Limit \in Nat /\ room \in Nat
  BY FS_CardinalityType, SelectionAssumption
<1>2. IsFiniteSet(new)
  BY ShownFinite, FS_Subset
<1>3. ASSUME NEW i \in new PROVE IsFiniteSet(before(i)) /\ Cardinality(before(i)) \in Nat
  BY <1>2, FS_Subset, FS_CardinalityType
<1>4. ASSUME NEW i \in new, NEW j \in new, Position(i) < Position(j)
      PROVE  Cardinality(before(i)) # Cardinality(before(j))
  <2>1. Position(i) \in Nat /\ Position(j) \in Nat /\ \A k \in new : Position(k) \in Nat
    BY PositionShown
  <2>2. before(i) \in SUBSET before(j)
    BY <1>4, <2>1
  <2>3. i \in before(j) /\ i \notin before(i)
    BY <1>4, <2>1
  <2>4. before(i) # before(j)
    BY <2>3
  <2> HIDE DEF before
  <2> QED BY <1>3, <2>2, <2>4, FS_Subset
<1>5. ASSUME NEW i \in new, NEW j \in new, i # j PROVE Cardinality(before(i)) # Cardinality(before(j))
  <2>1. Position(i) \in Nat /\ Position(j) \in Nat /\ Position(i) # Position(j)
    BY <1>5, PositionShown
  <2>2. Position(i) < Position(j) \/ Position(j) < Position(i)
    BY <2>1
  <2> HIDE DEF before
  <2> QED BY <1>4, <2>2
<1>6. rank \in Injection(added, 0..(room - 1))
  <2>1. ASSUME NEW i \in added PROVE Cardinality(before(i)) \in 0..(room - 1)
    <3>1. i \in new /\ Cardinality(base) + Cardinality(before(i)) < Limit
      OBVIOUS
    <3>2. Cardinality(before(i)) \in Nat
      BY <3>1, <1>3
    <3> HIDE DEF before
    <3> QED BY <1>1, <3>1, <3>2
  <2>2. \A i, j \in added : rank[i] = rank[j] => i = j
    BY <1>5
  <2>3. rank \in [added -> 0..(room - 1)]
    <3> HIDE DEF before, added, room
    <3> QED BY <2>1
  <2>4. DOMAIN rank = added
    OBVIOUS
  <2> HIDE DEF rank, added, room
  <2> QED BY <2>2, <2>3, <2>4 DEF Injection, IsInjective
<1>7. IsFiniteSet(0..(room - 1)) /\ Cardinality(0..(room - 1)) = room
  <2> HIDE DEF room
  <2>1. 0 \in Int /\ room - 1 \in Int
    BY <1>1
  <2>2. \A a, b \in Int : IsFiniteSet(a..b) /\ Cardinality(a..b) = IF a > b THEN 0 ELSE b - a + 1
    BY FS_Interval
  <2>3. /\ IsFiniteSet(0..(room - 1))
        /\ Cardinality(0..(room - 1)) = IF 0 > room - 1 THEN 0 ELSE (room - 1) - 0 + 1
    BY <2>1, <2>2, Zenon
  <2> QED BY <1>1, <2>3
<1>8. IsFiniteSet(added) /\ Cardinality(added) \in Nat /\ Cardinality(added) <= room
  <2> HIDE DEF rank, added, room
  <2>1. IsFiniteSet(added) /\ Cardinality(added) <= Cardinality(0..(room - 1))
    BY <1>6, <1>7, FS_Injection
  <2> QED BY <1>7, <2>1, FS_CardinalityType
<1>9. base \cap added = {}
  OBVIOUS
<1>10. IsFiniteSet(base \cup added) /\ Cardinality(base \cup added) = Cardinality(base) + Cardinality(added)
  <2>1. Cardinality(base \cap added) = 0
    BY <1>9, FS_EmptySet
  <2> HIDE DEF added
  <2>2. /\ IsFiniteSet(base \cup added)
        /\ Cardinality(base \cup added) = Cardinality(base) + Cardinality(added) - Cardinality(base \cap added)
    BY <1>8, FS_Union
  <2> QED BY <1>1, <1>8, <2>1, <2>2
<1>11. Filled(base, fresh) = base \cup added
  BY DEF Filled
<1> HIDE DEF added
<1> QED BY <1>1, <1>8, <1>10, <1>11

-----------------------------------------------------------------------------
(* Types and the limit are kept *)

Within == IsFiniteSet(selected) /\ Cardinality(selected) <= Limit

RowsInv ==
  /\ list \in Lists /\ readOnly \in ReadOnlies /\ version \in [Ids -> 0..MaxVersion]
  /\ settled \in BOOLEAN /\ selecting \in BOOLEAN /\ shift \in BOOLEAN

TickedInv == selected \subseteq Ids /\ anchor \in Ids \cup {None} /\ Within

Signatures == UNION {[S -> (0..MaxVersion) \cup {None}] : S \in (SUBSET Ids) \ {{}}}

\* A confirmation, sent or not, was opened for some rows
FrozenInv ==
  /\ dialog \in {"none", "edit", "confirm", "sending"}
  /\ IF dialog \in {"confirm", "sending"} THEN frozen \in Signatures ELSE frozen = None

LimitInv == SelectionInv /\ RowsInv /\ TickedInv /\ FrozenInv

LEMMA ListShown == ASSUME RowsInv PROVE list \in Seq(Ids) /\ Shown \subseteq Ids
<1>1. list \in Seq(Ids)
  BY SelectionAssumption DEF RowsInv
<1> QED BY <1>1, ShownFinite

LEMMA FewerFit == ASSUME Within, NEW S \in SUBSET selected PROVE IsFiniteSet(S) /\ Cardinality(S) <= Limit
<1>1. IsFiniteSet(S) /\ Cardinality(S) <= Cardinality(selected)
  BY FS_Subset DEF Within
<1>2. Cardinality(S) \in Nat /\ Cardinality(selected) \in Nat /\ Limit \in Nat
  BY <1>1, FS_CardinalityType, SelectionAssumption DEF Within
<1> QED BY <1>1, <1>2 DEF Within

LEMMA NothingFits == IsFiniteSet({}) /\ Cardinality({}) <= Limit
BY FS_EmptySet, SelectionAssumption

LEMMA SignatureTyped ==
  ASSUME RowsInv, NEW S \in (SUBSET Ids) \ {{}}
  PROVE  Signature(S, list, version) \in Signatures
<1>1. Signature(S, list, version) \in [S -> (0..MaxVersion) \cup {None}]
  BY DEF Signature, RowsInv
<1> QED BY <1>1 DEF Signatures

LEMMA NoneIsNoSignature == None \notin Signatures
BY SelectionAssumption DEF Signatures

LEMMA InitLimit == Init => LimitInv
<1> SUFFICES ASSUME Init PROVE LimitInv
  OBVIOUS
<1>1. RowsInv
  <2>1. MaxVersion \in Nat
    BY SelectionAssumption
  <2>2. [i \in Ids |-> 0] \in [Ids -> 0..MaxVersion]
    BY <2>1
  <2> QED BY <2>2 DEF Init, RowsInv
<1>2. TickedInv
  BY NothingFits DEF Init, TickedInv, Within
<1>3. FrozenInv
  BY DEF Init, FrozenInv
<1> QED BY <1>1, <1>2, <1>3, InitInv DEF LimitInv

\* Clicks
LEMMA ToggleLimit == ASSUME LimitInv, NEW i \in Shown, Toggle(i) PROVE TickedInv'
<1>1. CASE i \in Shown \ readOnly /\ Selectable(i)
  <2>1. /\ selected' = (IF i \in selected THEN selected \ {i} ELSE selected \cup {i})
        /\ anchor' = i /\ i \in Ids
    BY <1>1, ListShown DEF Toggle, LimitInv
  <2>2. CASE i \in selected
    BY <2>1, <2>2, FewerFit DEF LimitInv, TickedInv, Within
  <2>3. CASE i \notin selected
    <3>1. Cardinality(selected) < Limit /\ Cardinality(selected) \in Nat /\ Limit \in Nat
      BY <1>1, <2>3, FS_CardinalityType, SelectionAssumption DEF Selectable, AtLimit, LimitInv, TickedInv, Within
    <3>2. IsFiniteSet(selected \cup {i}) /\ Cardinality(selected \cup {i}) = Cardinality(selected) + 1
      BY <2>3, FS_AddElement DEF LimitInv, TickedInv, Within
    <3> QED BY <2>1, <2>3, <3>1, <3>2 DEF LimitInv, TickedInv, Within
  <2> QED BY <2>2, <2>3
<1>2. CASE ~(i \in Shown \ readOnly /\ Selectable(i))
  BY <1>2 DEF Toggle, ticks, LimitInv, TickedInv, Within
<1> QED BY <1>1, <1>2

LEMMA ExtendLimit == ASSUME LimitInv, NEW i \in Ids, Extend(i) PROVE TickedInv'
<1>1. baseline \subseteq selected /\ IsFiniteSet(baseline) /\ Cardinality(baseline) <= Limit
  BY FewerFit DEF LimitInv, SelectionInv, TicksInv, BaselineKept, TickedInv
<1>2. Span(anchor, i) \in SUBSET Shown
  BY DEF Span
<1>3. /\ IsFiniteSet(Filled(baseline, Span(anchor, i))) /\ Cardinality(Filled(baseline, Span(anchor, i))) <= Limit
  BY <1>1, <1>2, ListShown, FilledFits DEF LimitInv
<1>4. Filled(baseline, Span(anchor, i)) \subseteq Ids
  BY <1>1, <1>2, ListShown, FilledKeeps DEF LimitInv, TickedInv
<1> QED BY <1>3, <1>4 DEF Extend, LimitInv, TickedInv, Within

LEMMA DayLimit == ASSUME LimitInv, NEW d \in Days, NEW mouse \in BOOLEAN, ClickDay(d, mouse) PROVE TickedInv'
<1>1. OfDay(d) \in SUBSET Shown
  BY DEF OfDay
<1>2. IsFiniteSet(selected) /\ Cardinality(selected) <= Limit
  BY DEF LimitInv, TickedInv, Within
<1>3. /\ IsFiniteSet(Filled(selected, OfDay(d))) /\ Cardinality(Filled(selected, OfDay(d))) <= Limit
      /\ Filled(selected, OfDay(d)) \subseteq Ids
  BY <1>1, <1>2, ListShown, FilledFits, FilledKeeps DEF LimitInv, TickedInv
<1>4. IsFiniteSet(selected \ OfDay(d)) /\ Cardinality(selected \ OfDay(d)) <= Limit
  BY FewerFit DEF LimitInv, TickedInv
<1>5. IsFiniteSet(DayResult(d)) /\ Cardinality(DayResult(d)) <= Limit /\ DayResult(d) \subseteq Ids
  BY <1>2, <1>3, <1>4 DEF DayResult, LimitInv, TickedInv
<1> QED BY <1>5 DEF ClickDay, Reanchored, TickedInv, Within

\* The list changes
LEMMA ShowLimit ==
  ASSUME LimitInv, NEW l \in Lists, NEW ro \in ReadOnlies, NEW ver \in [Ids -> 0..MaxVersion], NEW st \in BOOLEAN,
         Show(l, ro, ver, st)
  PROVE  RowsInv' /\ TickedInv' /\ FrozenInv'
<1>1. RowsInv'
  BY DEF Show, hover, LimitInv, RowsInv
<1>2. TickedInv'
  <2>1. selected' \in SUBSET selected /\ anchor' \in {anchor, None}
    BY DEF Show, Keep
  <2> QED BY <2>1, FewerFit DEF LimitInv, TickedInv, Within
<1>3. FrozenInv'
  <2>1. PICK dropped \in BOOLEAN, ended \in BOOLEAN :
          /\ dialog' = (IF ended THEN "none" ELSE IF dropped THEN "edit" ELSE dialog)
          /\ frozen' = (IF ended \/ dropped THEN None ELSE frozen)
    BY DEF Show, Dropped
  <2> QED BY <2>1 DEF LimitInv, FrozenInv
<1> QED BY <1>1, <1>2, <1>3

LEMMA ListLimit ==
  ASSUME LimitInv,
         \/ \E i \in Ids : Edited(i)
         \/ \E l \in Lists : Reload(l) \/ Settle(l)
         \/ \E ro \in ReadOnlies : Reaccess(ro)
  PROVE  RowsInv' /\ TickedInv' /\ FrozenInv'
<1>1. RowsInv /\ MaxVersion \in Nat
  BY SelectionAssumption DEF LimitInv
<1>2. ASSUME NEW i \in Ids, Edited(i) PROVE RowsInv' /\ TickedInv' /\ FrozenInv'
  <2>1. [version EXCEPT ![i] = @ + 1] \in [Ids -> 0..MaxVersion]
    BY <1>1, <1>2 DEF Edited, RowsInv
  <2> QED BY <1>1, <1>2, <2>1, ShowLimit DEF Edited, RowsInv
<1>3. ASSUME NEW l \in Lists, Reload(l) \/ Settle(l) PROVE RowsInv' /\ TickedInv' /\ FrozenInv'
  BY <1>1, <1>3, ShowLimit DEF Reload, Settle, RowsInv
<1>4. ASSUME NEW ro \in ReadOnlies, Reaccess(ro) PROVE RowsInv' /\ TickedInv' /\ FrozenInv'
  BY <1>1, <1>4, ShowLimit DEF Reaccess, RowsInv
<1> QED BY <1>2, <1>3, <1>4

LEMMA FilterLimit ==
  ASSUME LimitInv, NEW l \in Lists, NEW st \in BOOLEAN, Filter(l, st)
  PROVE  RowsInv' /\ TickedInv' /\ FrozenInv'
BY NothingFits DEF Filter, confirmation, LimitInv, RowsInv, TickedInv, Within, FrozenInv

\* The dialogues, and the end of selecting
LEMMA ClearedLimit == ASSUME LimitInv, Cleared PROVE RowsInv' /\ TickedInv' /\ FrozenInv'
BY NothingFits DEF Cleared, rows, LimitInv, RowsInv, TickedInv, Within, FrozenInv

LEMMA DialogueLimit ==
  ASSUME LimitInv, StartSelecting \/ OpenEdit \/ Cancel \/ Freeze \/ Confirm \/ Refused
  PROVE  RowsInv' /\ TickedInv' /\ FrozenInv'
<1>1. UNCHANGED <<rows, ticks, hover>> /\ selecting' \in {selecting, TRUE}
  BY DEF StartSelecting, OpenEdit, Cancel, Freeze, Confirm, Refused
<1>2. RowsInv' /\ TickedInv'
  BY <1>1 DEF rows, ticks, hover, LimitInv, RowsInv, TickedInv, Within
<1>3. ASSUME StartSelecting \/ OpenEdit \/ Cancel \/ Confirm PROVE FrozenInv'
  BY <1>3 DEF StartSelecting, OpenEdit, Cancel, Confirm, Clicks, confirmation, LimitInv, FrozenInv
<1>4. ASSUME Freeze PROVE FrozenInv'
  <2>1. selected \in (SUBSET Ids) \ {{}}
    BY <1>4 DEF Freeze, LimitInv, SelectionInv, ConfirmInv, TickedInv
  <2>2. frozen' \in Signatures
    BY <1>4, <2>1, SignatureTyped DEF Freeze, LimitInv
  <2> QED BY <1>4, <2>2 DEF Freeze, FrozenInv
<1>5. ASSUME Refused PROVE FrozenInv'
  <2>1. frozen \in Signatures
    BY <1>5 DEF Refused, LimitInv, FrozenInv
  <2>2. selected = {} => frozen # Signature(selected, list, version)
    BY <2>1 DEF Signatures, Signature
  <2> QED BY <1>5, <2>1, <2>2 DEF Refused, FrozenInv
<1> QED BY <1>2, <1>3, <1>4, <1>5

LEMMA NextLimit == LimitInv /\ [Next]_vars => LimitInv'
<1> SUFFICES ASSUME LimitInv, [Next]_vars PROVE RowsInv' /\ TickedInv' /\ FrozenInv'
  BY NextInv DEF LimitInv
<1>1. ASSUME UNCHANGED <<rows, selecting, confirmation>>, shift' \in BOOLEAN, TickedInv' PROVE RowsInv' /\ FrozenInv'
  BY <1>1 DEF rows, confirmation, LimitInv, RowsInv, FrozenInv
<1>2. shift \in BOOLEAN
  BY DEF LimitInv, RowsInv
<1>3. ASSUME NEW i \in Ids, ClickRow(i) \/ ShiftClickRow(i) PROVE RowsInv' /\ TickedInv' /\ FrozenInv'
  <2>1. TickedInv'
    BY <1>3, ToggleLimit, ExtendLimit DEF ClickRow, ShiftClickRow
  <2>2. UNCHANGED <<rows, selecting, confirmation, shift>>
    BY <1>3 DEF ClickRow, ShiftClickRow, Toggle, Extend
  <2> QED BY <1>1, <1>2, <2>1, <2>2
<1>4. ASSUME NEW d \in Days, NEW mouse \in BOOLEAN, ClickDay(d, mouse) PROVE RowsInv' /\ TickedInv' /\ FrozenInv'
  <2>1. UNCHANGED <<rows, selecting, confirmation, shift>>
    BY <1>4 DEF ClickDay
  <2> QED BY <1>1, <1>2, <1>4, <2>1, DayLimit
<1>5. ASSUME \/ \E i \in Ids : EnterRow(i)
             \/ \E d \in Days : MoveOverDay(d)
             \/ LeaveList \/ ShiftDown \/ ShiftUp \/ Blur \/ UNCHANGED vars
      PROVE  RowsInv' /\ TickedInv' /\ FrozenInv'
  <2>1. UNCHANGED <<rows, selecting, ticks, confirmation>> /\ shift' \in BOOLEAN
    BY <1>2, <1>5 DEF EnterRow, MoveOverDay, LeaveList, ShiftDown, ShiftUp, Blur, vars, hover
  <2>2. TickedInv'
    BY <2>1 DEF ticks, LimitInv, TickedInv, Within
  <2> QED BY <1>1, <2>1, <2>2
<1>6. CASE StopSelecting \/ Taken
  BY <1>6, ClearedLimit DEF StopSelecting, Taken
<1> QED BY <1>3, <1>4, <1>5, <1>6, ListLimit, FilterLimit, DialogueLimit DEF Next

\* No sequence of ticks, ranges, day ticks and changes to the list covers more rows than one edit may.
THEOREM TicksFitTheLimit == Spec => []SelectionTypeOK
<1>1. LimitInv => SelectionTypeOK
  BY NoneIsNoSignature DEF LimitInv, RowsInv, TickedInv, Within, FrozenInv, SelectionTypeOK
<1>2. Spec => []LimitInv
  BY InitLimit, NextLimit, PTL DEF Spec
<1> QED BY <1>1, <1>2, PTL
=============================================================================
