---------------------------- MODULE BulkSelection ----------------------------
(***************************************************************************)
(* Which transactions a bulk edit covers: ticks, shift-ranges and day      *)
(* ticks over a list that pages, filters and refetches underneath them,    *)
(* and the confirmation that freezes what is to be written.                *)
(*                                                                         *)
(*   frontend/src/components/transactions/bulk-edit/selection.ts           *)
(*   frontend/src/components/transactions/bulk-edit/useBulkSelection.ts    *)
(*   frontend/src/components/transactions/ListSection.tsx                  *)
(*                                                                         *)
(* A render and the effects it runs are one step: no event comes between.  *)
(***************************************************************************)
EXTENDS Naturals, Sequences, FiniteSets

CONSTANTS
  Ids,         \* transactions
  Day,         \* the heading each is shown under
  Lists,       \* what the list may show: sequences without repeats
  ReadOnlies,  \* the sets of rows the app may not let the user edit
  Limit,       \* MAX_BULK_EDIT_TRANSACTIONS
  MaxVersion,  \* bound: once a row was edited elsewhere this often, none is any more
  None

ASSUME SelectionAssumption ==
  /\ Lists \subseteq Seq(Ids) /\ ReadOnlies \subseteq SUBSET Ids
  /\ Limit \in Nat \ {0} /\ MaxVersion \in Nat /\ None \notin Ids
  /\ \A S \in SUBSET Ids : None \notin [S -> (0..MaxVersion) \cup {None}]

VARIABLES
  list, readOnly, version,  \* the rows on screen, and their stored values
  settled,                  \* FALSE while a filter loads and the old rows stay
  selecting,
  selected, anchor, baseline, hovered, hoveredDay,  \* the reducer's state
  pointerRow, shift,        \* what the hook's refs say of pointer and keyboard
  pointer,                  \* where the pointer last was seen: a row, a heading, or away
  dialog,                   \* none, edit, confirm, or sending
  frozen                    \* ids and values the confirmation was opened for, or None

rows == <<list, readOnly, version, settled>>
ticks == <<selected, anchor, baseline>>
hover == <<hovered, hoveredDay, pointerRow, shift, pointer>>
confirmation == <<dialog, frozen>>
vars == <<rows, selecting, ticks, hover, confirmation>>

Days == {Day[i] : i \in Ids}
Shown == {list[k] : k \in DOMAIN list}
Eligible(l, ro) == {l[k] : k \in DOMAIN l} \ ro

Init ==
  /\ list \in Lists /\ readOnly \in ReadOnlies /\ version = [i \in Ids |-> 0] /\ settled = TRUE
  /\ selecting = FALSE /\ selected = {} /\ anchor = None /\ baseline = {}
  /\ hovered = None /\ hoveredDay = None /\ pointerRow = None /\ shift = FALSE /\ pointer = None
  /\ dialog = "none" /\ frozen = None

-----------------------------------------------------------------------------
(* The reducer *)

\* Fault: a range takes all its rows
FilledWhole(base, fresh) == base \cup fresh

Position(i) == CHOOSE k \in DOMAIN list : list[k] = i

\* base and as many of the fresh rows, in list order, as the limit leaves room for
Filled(base, fresh) ==
  LET before(i) == {j \in fresh \ base : Position(j) < Position(i)}
  IN base \cup {i \in fresh \ base : Cardinality(base) + Cardinality(before(i)) < Limit}

\* spanBetween: the editable rows from one row on screen to another
Span(i, j) ==
  LET between(x, lo, hi) == Position(lo) <= Position(x) /\ Position(x) <= Position(hi)
  IN IF {i, j} \subseteq Shown THEN {x \in Shown \ readOnly : between(x, i, j) \/ between(x, j, i)} ELSE {}

\* editableGroupIds
OfDay(d) == {i \in Shown \ readOnly : Day[i] = d}

AtLimit == Cardinality(selected) >= Limit

\* groupResultingSelection: what a day's tick leaves, the same set if it does nothing
DayResult(d) ==
  IF OfDay(d) \subseteq selected \/ (AtLimit /\ OfDay(d) \cap selected # {}) THEN selected \ OfDay(d)
  ELSE IF AtLimit THEN selected ELSE Filled(selected, OfDay(d))

\* groupSelectionMark
Mark(d) ==
  IF OfDay(d) = {} THEN "unselectable" ELSE IF OfDay(d) \subseteq selected THEN "all"
  ELSE IF OfDay(d) \cap selected # {} THEN "some" ELSE IF AtLimit THEN "unselectable" ELSE "none"

\* isRowSelectable
Selectable(i) == i \notin readOnly /\ (i \in selected \/ ~AtLimit)

Unlit == hovered' = None /\ hoveredDay' = None

\* toggle.  The row becomes the anchor whichever way it went
Toggle(i) ==
  /\ IF i \in Shown \ readOnly /\ Selectable(i)
       THEN /\ selected' = IF i \in selected THEN selected \ {i} ELSE selected \cup {i}
            /\ anchor' = i /\ baseline' = selected' /\ Unlit
       ELSE UNCHANGED <<ticks, hovered, hoveredDay>>
  /\ UNCHANGED <<rows, selecting, pointerRow, shift, pointer, confirmation>>

\* extend.  Built from the baseline, so a second range re-aims the first
Extend(i) ==
  /\ anchor # None
  /\ selected' = Filled(baseline, Span(anchor, i)) /\ Unlit
  /\ UNCHANGED <<rows, selecting, anchor, baseline, pointerRow, shift, pointer, confirmation>>

Clicks == selecting /\ dialog = "none"

ClickRow(i) == Clicks /\ i \in Shown /\ Selectable(i) /\ Toggle(i)

ShiftClickRow(i) == Clicks /\ i \in Shown /\ IF anchor = None THEN Toggle(i) ELSE Extend(i)

\* Fault: a day's tick leaves the last range's anchor and baseline
Unanchored(d) == UNCHANGED <<anchor, baseline>>

\* No single row was clicked, so no range can run from it
Reanchored(d) == anchor' = None /\ baseline' = DayResult(d)

\* toggleGroup.  Only a mouse leaves a pointer on the heading
ClickDay(d, mouse) ==
  /\ Clicks /\ Mark(d) # "unselectable" /\ (mouse => pointer = d)
  /\ selected' = DayResult(d) /\ Reanchored(d)
  /\ hovered' = None /\ hoveredDay' = IF mouse THEN d ELSE None
  /\ UNCHANGED <<rows, selecting, pointerRow, shift, pointer, confirmation>>

-----------------------------------------------------------------------------
(* Pointer and shift *)

\* handlePointerEnter
EnterRow(i) ==
  /\ Clicks /\ i \in Shown /\ pointer # i
  /\ pointer' = i /\ pointerRow' = i
  /\ hovered' = IF shift THEN i ELSE hovered
  /\ hoveredDay' = None  \* the heading's own leave, or hover
  /\ UNCHANGED <<rows, selecting, ticks, shift, confirmation>>

\* Fault: the row the pointer has left is kept
MoveOverDayOnly(d) ==
  /\ Clicks /\ d \in {Day[i] : i \in Shown} /\ pointer # d
  /\ pointer' = d /\ hoveredDay' = d /\ hovered' = None
  /\ UNCHANGED <<rows, selecting, ticks, pointerRow, shift, confirmation>>

\* handleGroupPointerMove
MoveOverDay(d) ==
  /\ Clicks /\ d \in {Day[i] : i \in Shown} /\ pointer # d
  /\ pointer' = d /\ pointerRow' = None /\ hoveredDay' = d /\ hovered' = None
  /\ UNCHANGED <<rows, selecting, ticks, shift, confirmation>>

\* handlePointerLeaveList
LeaveList ==
  /\ pointer # None /\ dialog = "none"
  /\ pointer' = None /\ pointerRow' = None /\ Unlit
  /\ UNCHANGED <<rows, selecting, ticks, shift, confirmation>>

\* handleKeyDown.  In a field or under a dialogue shift means something else
ShiftDown ==
  /\ ~shift /\ dialog = "none"
  /\ shift' = TRUE
  /\ IF pointerRow # None THEN hovered' = pointerRow /\ hoveredDay' = None ELSE UNCHANGED <<hovered, hoveredDay>>
  /\ UNCHANGED <<rows, selecting, ticks, pointerRow, pointer, confirmation>>

ShiftUp ==
  /\ shift /\ shift' = FALSE /\ hovered' = None
  /\ UNCHANGED <<rows, selecting, ticks, hoveredDay, pointerRow, pointer, confirmation>>

\* The window loses the focus, or the page is hidden: clearEveryPreview
Blur ==
  /\ shift \/ hoveredDay # None
  /\ shift' = FALSE /\ Unlit
  /\ UNCHANGED <<rows, selecting, ticks, pointerRow, pointer, confirmation>>

-----------------------------------------------------------------------------
(* The list changes underneath *)

\* selectedTransactionsSignature: a selected row that is gone stays in it, as None
Signature(ids, l, ver) ==
  [i \in ids |-> IF \E k \in DOMAIN l : l[k] = i THEN ver[i] ELSE None]

\* Fault: the baseline is left as it was
KeepTicksOnly(l, ro, st) ==
  /\ selected' = IF st THEN selected \cap Eligible(l, ro) ELSE selected
  /\ anchor' = IF st /\ anchor \notin Eligible(l, ro) THEN None ELSE anchor
  /\ UNCHANGED baseline

\* keepDisplayed
Keep(l, ro, st) ==
  /\ selected' = IF st THEN selected \cap Eligible(l, ro) ELSE selected
  /\ baseline' = IF st THEN baseline \cap Eligible(l, ro) ELSE baseline
  /\ anchor' = IF st /\ anchor \notin Eligible(l, ro) THEN None ELSE anchor

\* Fault: only the ticks are compared
DroppedByTicks(ids, l, ver) == dialog = "confirm" /\ DOMAIN frozen # ids

\* A confirmation whose rows have changed goes, unless it has been sent
Dropped(ids, l, ver) == dialog = "confirm" /\ frozen # Signature(ids, l, ver)

\* A render with rows l: first with the ticks there were, then with those that are kept
Show(l, ro, ver, st) ==
  /\ list' = l /\ readOnly' = ro /\ version' = ver /\ settled' = st
  /\ Keep(l, ro, st)
  /\ LET dropped == Dropped(selected, l, ver) \/ Dropped(selected', l, ver)
         ended == dialog \in {"edit", "confirm"} /\ selected' = {}
     IN /\ dialog' = IF ended THEN "none" ELSE IF dropped THEN "edit" ELSE dialog
        /\ frozen' = IF ended \/ dropped THEN None ELSE frozen
  /\ UNCHANGED <<selecting, hover>>

\* A page is loaded, or the rows are fetched again; the old rows are held while a filter loads
Reload(l) == settled /\ l # list /\ Show(l, readOnly, version, TRUE)

\* A row is edited elsewhere
Edited(i) ==
  /\ settled /\ i \in Shown /\ \A j \in Ids : version[j] < MaxVersion
  /\ Show(list, readOnly, [version EXCEPT ![i] = @ + 1], TRUE)

\* An account is archived, shared or taken away
Reaccess(ro) == ro # readOnly /\ Show(list, ro, version, settled)

\* The filter has loaded
Settle(l) == ~settled /\ Show(l, readOnly, version, TRUE)

\* The request's key changes: the ticks go.  The rows are held, or shown at once
Filter(l, st) ==
  /\ dialog = "none" /\ (~st => l = list)
  /\ list' = l /\ settled' = st
  /\ selected' = {} /\ anchor' = None /\ baseline' = {} /\ Unlit
  /\ UNCHANGED <<readOnly, version, selecting, pointerRow, shift, pointer, confirmation>>

-----------------------------------------------------------------------------
(* Selection mode, the edit and its confirmation *)

StartSelecting ==
  /\ ~selecting /\ dialog = "none" /\ selecting' = TRUE
  /\ UNCHANGED <<rows, ticks, hover, confirmation>>

\* clear, and stopSelecting's own
Cleared ==
  /\ selecting' = FALSE /\ dialog' = "none" /\ frozen' = None
  /\ selected' = {} /\ anchor' = None /\ baseline' = {}
  /\ Unlit /\ pointerRow' = None /\ shift' = FALSE
  /\ UNCHANGED <<rows, pointer>>

StopSelecting == selecting /\ dialog = "none" /\ Cleared

OpenEdit ==
  /\ Clicks /\ selected # {} /\ dialog' = "edit"
  /\ UNCHANGED <<rows, selecting, ticks, hover, frozen>>

\* The panel is closed, or the confirmation cancelled
Cancel ==
  /\ dialog \in {"edit", "confirm"}
  /\ dialog' = (IF dialog = "confirm" THEN "edit" ELSE "none") /\ frozen' = None
  /\ UNCHANGED <<rows, selecting, ticks, hover>>

\* applyBulkEdit: freezes what the panel was showing
Freeze ==
  /\ dialog = "edit" /\ dialog' = "confirm"
  /\ frozen' = Signature(selected, list, version)
  /\ UNCHANGED <<rows, selecting, ticks, hover>>

\* applyPendingChange
Confirm ==
  /\ dialog = "confirm" /\ dialog' = "sending"
  /\ UNCHANGED <<rows, selecting, ticks, hover, frozen>>

Taken == dialog = "sending" /\ Cleared

\* The render after a refusal: what changed while the request was out now counts
Refused ==
  /\ dialog = "sending"
  /\ LET stale == frozen # Signature(selected, list, version) IN
     /\ dialog' = IF selected = {} THEN "none" ELSE IF stale THEN "edit" ELSE "confirm"
     /\ frozen' = IF stale THEN None ELSE frozen
  /\ UNCHANGED <<rows, selecting, ticks, hover>>

Next ==
  \/ \E i \in Ids : ClickRow(i) \/ ShiftClickRow(i) \/ EnterRow(i) \/ Edited(i)
  \/ \E d \in Days : MoveOverDay(d) \/ \E mouse \in BOOLEAN : ClickDay(d, mouse)
  \/ LeaveList \/ ShiftDown \/ ShiftUp \/ Blur
  \/ \E l \in Lists : Reload(l) \/ Settle(l) \/ \E st \in BOOLEAN : Filter(l, st)
  \/ \E ro \in ReadOnlies : Reaccess(ro)
  \/ StartSelecting \/ StopSelecting \/ OpenEdit \/ Cancel \/ Freeze \/ Confirm \/ Taken \/ Refused

Spec == Init /\ [][Next]_vars

-----------------------------------------------------------------------------
(* No sequence of ticks, ranges and day ticks passes the limit, which every
   change to the ticks counts for itself *)
SelectionTypeOK ==
  /\ list \in Lists /\ readOnly \in ReadOnlies /\ version \in [Ids -> 0..MaxVersion]
  /\ {settled, selecting, shift} \subseteq BOOLEAN
  /\ selected \subseteq Ids /\ anchor \in Ids \cup {None} /\ Cardinality(selected) <= Limit
  /\ dialog \in {"none", "edit", "confirm", "sending"} /\ (frozen = None <=> dialog \in {"none", "edit"})

(* Once a list has settled, ticks, the anchor and what a range builds on are
   rows on screen that may be edited: no later shift-click brings back a row
   that has gone *)
OnlyEligible ==
  settled => (selected \cup baseline \cup {anchor}) \ {None} \subseteq Eligible(list, readOnly)

(* A range never takes away a tick made before its anchor, so re-aiming it
   loses only what it had added itself *)
BaselineKept == baseline \subseteq selected

(* A range is lit only up to the row the pointer is on, and never together
   with a day *)
LitWherePointerIs ==
  /\ hovered # None => shift /\ hovered = pointer /\ hoveredDay = None
  /\ hoveredDay # None => hoveredDay = pointer

(* What a confirmation is about to write is what is ticked and on screen, as
   it stood when it was asked for *)
ConfirmsWhatIsShown ==
  dialog = "confirm" =>
    /\ DOMAIN frozen = selected /\ selected # {}
    /\ \A i \in selected \cap Shown : frozen[i] = version[i]
    /\ settled => selected \subseteq Shown \ readOnly
=============================================================================
