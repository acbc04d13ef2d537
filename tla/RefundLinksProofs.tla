-------------------------- MODULE RefundLinksProofs --------------------------
(***************************************************************************)
(* Every committed link joins a refund to an expense, for any number of    *)
(* requests and transactions and any rows.                                 *)
(***************************************************************************)
EXTENDS RefundLinks, SumProofs

-----------------------------------------------------------------------------
(* The inductive invariant *)

\* The row of t is the request's own
Rewritten(r, t) ==
  /\ t \in chosen[r]
  /\ \/ job[r] = "create"
     \/ job[r] \in {"edit", "bulk"} /\ pc[r] \in {"totalling", "committing"}
     \/ job[r] = "delete" /\ pc[r] = "committing"

\* What an edit stores still serves the links on the side it is on
SidesKept(r) ==
  \A t \in chosen[r] :
    /\ links[t] # NoTxn => Refunds(draft[r][t])
    /\ RefundsOf(t) # {} => Refundable(draft[r][t])

\* A request holds what it has locked, and its checks still hold of it
RequestInv(r) ==
  /\ pc[r] = "idle" => job[r] = "none"
  /\ pc[r] = "holding" => \A t \in chosen[r] : t \in wanted[r] \/ rowLock[t] = r
  /\ pc[r] \in {"pairing", "totalling", "committing"} => \A t \in chosen[r] : rowLock[t] = r
  /\ pc[r] = "pairing" => Linking(r) /\ (partner[r] \in wanted[r] \/ rowLock[partner[r]] = r)
  /\ pc[r] = "totalling" => job[r] \in {"edit", "bulk"}
  /\ pc[r] # "idle" /\ Linking(r) => partner[r] \in TxnIds
  /\ job[r] = "create" => \A t \in chosen[r] : rowLock[t] = r /\ txns[t] = NoTxn
  /\ \A t \in TxnIds : rowLock[t] = r => Rewritten(r, t) \/ draft[r][t] = txns[t]
  /\ pc[r] \in {"totalling", "committing"} /\ job[r] \in {"edit", "bulk"} => SidesKept(r)
  /\ pc[r] = "committing" /\ Linking(r) =>
       /\ rowLock[partner[r]] = r
       /\ \A t \in chosen[r] : t # partner[r] /\ Refunds(draft[r][t]) /\ Refundable(draft[r][partner[r]])
  /\ pc[r] = "committing" /\ job[r] = "delete" => \A t \in chosen[r] : draft[r][t] = NoTxn

RefundInv == TypeOK /\ LinksJoin /\ \A r \in Requests : RequestInv(r)

\* What a client stores under an id is a row
LEMMA RowsAreStored == \A t \in TxnIds : \A row \in RowsOf[t] : row \in Rows
BY DEF Rows

\* Nothing is linked yet
LEMMA InitInv == Init => RefundInv
<1> SUFFICES ASSUME Init PROVE RefundInv
  OBVIOUS
<1>1. TypeOK
  BY DEF Init, TypeOK, NoLinks
<1>2. LinksJoin
  BY DEF Init, LinksJoin, NoLinks
<1>3. \A r \in Requests : RequestInv(r)
  BY RefundAssumption DEF Init, RequestInv, Rewritten, Linking
<1> QED BY <1>1, <1>2, <1>3 DEF RefundInv

\* A row that is not there is on no side of a link
LEMMA MissingRowsUnlinked ==
  ASSUME TypeOK, LinksJoin, NEW t \in TxnIds, txns[t] = NoTxn
  PROVE  links[t] = NoTxn /\ RefundsOf(t) = {}
BY RefundAssumption DEF TypeOK, LinksJoin, Refunds, Refundable, RefundsOf

-----------------------------------------------------------------------------
(* Steps that change nothing another request sees *)

\* What a request holds is left to it
SameFor(s) ==
  /\ pc'[s] = pc[s] /\ job'[s] = job[s] /\ chosen'[s] = chosen[s] /\ partner'[s] = partner[s]
  /\ wanted'[s] = wanted[s] /\ draft'[s] = draft[s]
  /\ \A t \in TxnIds : rowLock[t] = s <=> rowLock'[t] = s

\* A request no step touches keeps its invariant
LEMMA OthersKeep ==
  ASSUME TypeOK, NEW s \in Requests, RequestInv(s), SameFor(s), UNCHANGED committed
  PROVE  RequestInv(s)'
BY DEF RequestInv, SameFor, committed, Rewritten, SidesKept, RefundsOf, Linking, TypeOK

\* Links join as long as nothing is committed
LEMMA SameLinksJoin == ASSUME LinksJoin, UNCHANGED committed PROVE LinksJoin'
BY DEF LinksJoin, committed

\* A request that ends
LEMMA ReleaseKeeps ==
  ASSUME TypeOK, NEW r \in Requests, Release(r)
  PROVE  /\ RequestInv(r)'
         /\ \A s \in Requests \ {r} : SameFor(s)
<1>1. RequestInv(r)'
  BY RefundAssumption DEF Release, RequestInv, TypeOK, Rewritten, Linking
<1>2. ASSUME NEW s \in Requests \ {r} PROVE SameFor(s)
  BY RefundAssumption DEF Release, SameFor, TypeOK
<1> QED BY <1>1, <1>2

\* Its variables keep their types
LEMMA ReleaseType ==
  ASSUME TypeOK, NEW r \in Requests, Release(r)
  PROVE  /\ rowLock' \in [TxnIds -> Requests \union {NoRequest}]
         /\ pc' \in [Requests -> {"idle", "holding", "pairing", "totalling", "committing"}]
         /\ job' \in [Requests -> {"none", "link", "create", "unlink", "edit", "bulk", "delete"}]
         /\ chosen' \in [Requests -> SUBSET TxnIds]
         /\ partner' \in [Requests -> TxnIds \union {NoTxn}]
         /\ wanted' \in [Requests -> SUBSET TxnIds]
         /\ draft' \in [Requests -> [TxnIds -> Rows \union {NoTxn}]]
         /\ \A s \in Requests : pc'[s] \in {"idle", "committing"} => wanted'[s] = {}
BY DEF TypeOK, Release, NoLinks

\* A request that ends without a change leaves everything as it was
LEMMA EndingInv == ASSUME RefundInv, NEW r \in Requests, Release(r), UNCHANGED committed PROVE RefundInv'
<1>1. TypeOK'
  BY ReleaseType DEF RefundInv, TypeOK, committed
<1>2. \A s \in Requests : RequestInv(s)'
  BY ReleaseKeeps, OthersKeep DEF RefundInv
<1> QED BY <1>1, <1>2, SameLinksJoin DEF RefundInv

\* A transaction of its own
LEMMA CreateInv ==
  ASSUME RefundInv, NEW t \in TxnIds, NEW row \in Rows, Create(t, row) PROVE RefundInv'
<1> USE DEF Create, request
<1>1. TypeOK'
  BY DEF RefundInv, TypeOK
<1>2. LinksJoin'
  BY MissingRowsUnlinked DEF RefundInv, LinksJoin, TypeOK, RefundsOf
<1>3. ASSUME NEW s \in Requests PROVE RequestInv(s)'
  BY RefundAssumption DEF RefundInv, TypeOK, RequestInv, Rewritten, SidesKept, RefundsOf, Linking
<1> QED BY <1>1, <1>2, <1>3 DEF RefundInv

\* A request begins with nothing of what it wants
LEMMA BeginInv ==
  ASSUME RefundInv, NEW r \in Requests, NEW j \in {"link", "unlink", "edit", "bulk", "delete"},
         NEW ts \in SUBSET TxnIds, NEW o \in TxnIds \union {NoTxn}, j = "link" => o \in TxnIds,
         Begin(r, j, ts, o)
  PROVE  RefundInv'
<1> USE DEF Begin
<1>1. TypeOK'
  BY DEF RefundInv, TypeOK, committed
<1>2. RequestInv(r)'
  <2>1. pc'[r] = "holding" /\ job'[r] = j /\ chosen'[r] = ts /\ partner'[r] = o /\ wanted'[r] = ts
    BY DEF RefundInv, TypeOK
  <2>2. ASSUME NEW t \in TxnIds, rowLock'[t] = r PROVE draft'[r][t] = txns'[t]
    BY <2>2 DEF RefundInv, RequestInv, Rewritten, committed
  <2> QED BY <2>1, <2>2 DEF RequestInv, Linking
<1>3. ASSUME NEW s \in Requests, s # r PROVE RequestInv(s)'
  BY <1>3, OthersKeep DEF RefundInv, TypeOK, SameFor
<1> QED BY <1>1, <1>2, <1>3, SameLinksJoin DEF RefundInv

\* A new refund is held from its insert
LEMMA BeginRefundInv ==
  ASSUME RefundInv, NEW r \in Requests, NEW t \in TxnIds, NEW row \in Rows, NEW o \in TxnIds,
         BeginRefund(r, t, row, o)
  PROVE  RefundInv'
<1> USE DEF BeginRefund
<1>1. TypeOK'
  BY DEF RefundInv, TypeOK, committed
<1>2. RequestInv(r)'
  BY DEF RefundInv, TypeOK, RequestInv, Rewritten, Linking, committed
<1>3. ASSUME NEW s \in Requests, s # r PROVE RequestInv(s)'
  BY <1>3, OthersKeep, RefundAssumption DEF RefundInv, TypeOK, SameFor
<1> QED BY <1>1, <1>2, <1>3, SameLinksJoin DEF RefundInv

\* A row is held as it was last committed
LEMMA HoldInv == ASSUME RefundInv, NEW r \in Requests, Hold(r) PROVE RefundInv'
<1> DEFINE t == FirstWanted(r)
<1>0. /\ wanted[r] # {} /\ rowLock[t] = NoRequest
      /\ rowLock' = [rowLock EXCEPT ![t] = r] /\ draft' = [draft EXCEPT ![r][t] = txns[t]]
      /\ wanted' = [wanted EXCEPT ![r] = @ \ {t}] /\ UNCHANGED <<committed, pc, job, chosen, partner>>
  BY DEF Hold
<1> HIDE DEF t
<1>1. TypeOK'
  BY <1>0 DEF RefundInv, TypeOK, committed
<1>2. RequestInv(r)'
  BY <1>0, RefundAssumption DEF RefundInv, TypeOK, RequestInv, Rewritten, SidesKept, RefundsOf, Linking, committed
<1>3. ASSUME NEW s \in Requests, s # r PROVE RequestInv(s)'
  BY <1>0, <1>3, OthersKeep, RefundAssumption DEF RefundInv, TypeOK, SameFor
<1> QED BY <1>0, <1>1, <1>2, <1>3, SameLinksJoin DEF RefundInv

\* A deleted expense is passed over
LEMMA PassOverInv == ASSUME RefundInv, NEW r \in Requests, PassOver(r) PROVE RefundInv'
<1> USE DEF PassOver
<1>1. TypeOK'
  BY DEF RefundInv, TypeOK, committed
<1>2. RequestInv(r)'
  BY RefundAssumption DEF RefundInv, TypeOK, RequestInv, Rewritten, SidesKept, RefundsOf, Linking, committed
<1>3. ASSUME NEW s \in Requests, s # r PROVE RequestInv(s)'
  BY <1>3, OthersKeep DEF RefundInv, TypeOK, SameFor
<1>4. UNCHANGED committed
  OBVIOUS
<1> QED BY <1>1, <1>2, <1>3, <1>4, SameLinksJoin DEF RefundInv

\* The held refund goes on to its expense
LEMMA HoldExpenseInv == ASSUME RefundInv, NEW r \in Requests, HoldExpense(r) PROVE RefundInv'
<1> USE DEF HoldExpense, Advance, Ready
<1>0. partner[r] \in TxnIds
  BY DEF RefundInv, RequestInv, Linking
<1>1. TypeOK'
  BY <1>0 DEF RefundInv, TypeOK, committed
<1>2. RequestInv(r)'
  BY <1>0, RefundAssumption DEF RefundInv, TypeOK, RequestInv, Rewritten, SidesKept, RefundsOf, Linking, committed, Linkable
<1>3. ASSUME NEW s \in Requests, s # r PROVE RequestInv(s)'
  BY <1>3, OthersKeep DEF RefundInv, TypeOK, SameFor
<1>4. UNCHANGED committed
  OBVIOUS
<1> QED BY <1>1, <1>2, <1>3, <1>4, SameLinksJoin DEF RefundInv

\* A pairing that passes holds both rows as it judged them
LEMMA PairInv == ASSUME RefundInv, NEW r \in Requests, Pair(r) PROVE RefundInv'
<1> USE DEF Pair, Advance, Ready
<1>1. TypeOK'
  BY DEF RefundInv, TypeOK, committed
<1>2. RequestInv(r)'
  <2>1. /\ TypeOK /\ RequestInv(r) /\ Linking(r) /\ partner[r] \in TxnIds /\ rowLock[partner[r]] = r
        /\ \A t \in chosen[r] : rowLock[t] = r
    BY DEF RefundInv, RequestInv
  <2>2. \A t \in chosen[r] : Refunds(draft[r][t]) /\ Refundable(draft[r][partner[r]])
    BY <2>1 DEF Pairable, View, TypeOK
  <2>3. \A t \in chosen[r] : t # partner[r]
    <3> SUFFICES ASSUME NEW t \in chosen[r], t = partner[r] PROVE FALSE
      OBVIOUS
    <3>1. draft[r][t] \in Rows /\ Refunds(draft[r][t]) /\ Refundable(draft[r][t])
      BY <2>1, <2>2 DEF TypeOK, Refunds
    <3> QED BY <3>1, RefundAssumption DEF Refunds, Refundable
  <2> QED BY <2>1, <2>2, <2>3 DEF RequestInv, TypeOK, Rewritten, Linking, committed
<1>3. ASSUME NEW s \in Requests, s # r PROVE RequestInv(s)'
  BY <1>3, OthersKeep DEF RefundInv, TypeOK, SameFor
<1>4. UNCHANGED committed
  OBVIOUS
<1> QED BY <1>1, <1>2, <1>3, <1>4, SameLinksJoin DEF RefundInv

\* An unlink holds the refund
LEMMA UnlinkInv == ASSUME RefundInv, NEW r \in Requests, Unlink(r) PROVE RefundInv'
<1> USE DEF Unlink, Advance, Ready
<1>1. TypeOK'
  BY DEF RefundInv, TypeOK, committed
<1>2. RequestInv(r)'
  BY RefundAssumption DEF RefundInv, TypeOK, RequestInv, Rewritten, SidesKept, RefundsOf, Linking, committed
<1>3. ASSUME NEW s \in Requests, s # r PROVE RequestInv(s)'
  BY <1>3, OthersKeep DEF RefundInv, TypeOK, SameFor
<1>4. UNCHANGED committed
  OBVIOUS
<1> QED BY <1>1, <1>2, <1>3, <1>4, SameLinksJoin DEF RefundInv

\* A delete holds what it deletes
LEMMA DeleteInv == ASSUME RefundInv, NEW r \in Requests, Delete(r) PROVE RefundInv'
<1> USE DEF Delete, Advance, Ready
<1>1. TypeOK'
  BY DEF RefundInv, TypeOK, committed
<1>2. RequestInv(r)'
  BY RefundAssumption DEF RefundInv, TypeOK, RequestInv, Rewritten, SidesKept, RefundsOf, Linking, committed
<1>3. ASSUME NEW s \in Requests, s # r PROVE RequestInv(s)'
  BY <1>3, OthersKeep DEF RefundInv, TypeOK, SameFor
<1>4. UNCHANGED committed
  OBVIOUS
<1> QED BY <1>1, <1>2, <1>3, <1>4, SameLinksJoin DEF RefundInv

\* Counting changes nothing
LEMMA TotalInv == ASSUME RefundInv, NEW r \in Requests, Total(r) PROVE RefundInv'
<1> USE DEF Total, Advance, Ready
<1>1. TypeOK'
  BY DEF RefundInv, TypeOK, committed
<1>2. RequestInv(r)'
  BY RefundAssumption DEF RefundInv, TypeOK, RequestInv, Rewritten, SidesKept, RefundsOf, Linking, committed
<1>3. ASSUME NEW s \in Requests, s # r PROVE RequestInv(s)'
  BY <1>3, OthersKeep DEF RefundInv, TypeOK, SameFor
<1>4. UNCHANGED committed
  OBVIOUS
<1> QED BY <1>1, <1>2, <1>3, <1>4, SameLinksJoin DEF RefundInv

\* An edit that passes refuse_broken_links leaves every link of its rows a refund and an expense
LEMMA WriteInv == ASSUME RefundInv, NEW r \in Requests, Write(r) PROVE RefundInv'
<1> USE DEF Advance, Ready
<1>0. PICK new \in [chosen[r] -> Rows] :
        /\ ~Broken([t \in TxnIds |-> IF t \in chosen[r] THEN new[t] ELSE txns[t]], chosen[r])
        /\ draft' = [draft EXCEPT ![r] = [t \in TxnIds |-> IF t \in chosen[r] THEN new[t] ELSE @[t]]]
  BY DEF Write
<1>1. /\ TypeOK /\ RequestInv(r) /\ pc[r] = "holding" /\ wanted[r] = {} /\ job[r] \in {"edit", "bulk"}
      /\ wanted' = [wanted EXCEPT ![r] = ToLock(r)] /\ pc' = [pc EXCEPT ![r] = "totalling"]
      /\ UNCHANGED <<committed, rowLock, job, chosen, partner>>
  BY DEF RefundInv, Write
<1>2. ToLock(r) \in SUBSET TxnIds
  BY <1>1 DEF ToLock, TouchedOriginals, TypeOK
<1>3. TypeOK'
  BY <1>0, <1>1, <1>2 DEF TypeOK, committed
<1>4. \A t \in chosen[r] : draft'[r][t] = new[t]
  BY <1>0, <1>1 DEF TypeOK
<1>5. SidesKept(r)'
  <2> SUFFICES ASSUME NEW t \in chosen[r]
               PROVE  /\ links[t] # NoTxn => Refunds(new[t])
                      /\ RefundsOf(t) # {} => Refundable(new[t])
    BY <1>1, <1>4 DEF SidesKept, committed, RefundsOf
  <2> DEFINE view == [u \in TxnIds |-> IF u \in chosen[r] THEN new[u] ELSE txns[u]]
  <2>1. t \in TxnIds /\ t # NoTxn /\ view[t] = new[t]
    BY <1>1, RefundAssumption DEF TypeOK
  <2>2. ASSUME links[t] # NoTxn PROVE Refunds(new[t])
    BY <1>0, <2>1, <2>2 DEF Broken
  <2>3. ASSUME RefundsOf(t) # {} PROVE Refundable(new[t])
    <3>1. PICK u \in TxnIds : links[u] = t
      BY <2>3 DEF RefundsOf
    <3> QED BY <1>0, <2>1, <3>1 DEF Broken
  <2> QED BY <2>2, <2>3
<1>6. RequestInv(r)'
  BY <1>0, <1>1, <1>5 DEF RequestInv, TypeOK, Rewritten, Linking, committed
<1>7. ASSUME NEW s \in Requests, s # r PROVE RequestInv(s)'
  BY <1>0, <1>1, <1>7, OthersKeep DEF RefundInv, TypeOK, SameFor
<1> QED BY <1>1, <1>3, <1>6, <1>7, SameLinksJoin DEF RefundInv

-----------------------------------------------------------------------------
(* Committing *)

\* A commit leaves the rows and the sides of links other requests hold as they are
LEMMA CommitKeepsOthers ==
  ASSUME RefundInv, NEW r \in Requests, Commit(r), NEW s \in Requests, s # r PROVE RequestInv(s)'
<1>1. TypeOK /\ LinksJoin /\ RequestInv(r) /\ RequestInv(s) /\ pc[r] = "committing" /\ Release(r)
  BY DEF RefundInv, Commit
<1>2. SameFor(s)
  BY <1>1, ReleaseKeeps
<1>3. \A t \in TxnIds : rowLock[t] = s => txns'[t] = txns[t]
  BY <1>1 DEF Commit, View, TypeOK
<1>4. \A t \in chosen[r] : rowLock[t] = r
  BY <1>1 DEF RequestInv
<1>5. Linking(r) => partner[r] \in TxnIds /\ rowLock[partner[r]] = r
  BY <1>1 DEF RequestInv
<1>6. \A t \in TxnIds : links'[t] = links[t] \/ links'[t] = NoTxn \/ (Linking(r) /\ t \in chosen[r] /\ links'[t] = partner[r])
  BY DEF Commit
<1>7. \A t \in TxnIds : rowLock[t] = s => /\ links'[t] = links[t] \/ links'[t] = NoTxn
                                          /\ RefundsOf(t)' \subseteq RefundsOf(t)
  BY <1>1, <1>4, <1>5, <1>6, RefundAssumption DEF RefundsOf
<1>8. pc[s] \in {"totalling", "committing"} /\ job[s] \in {"edit", "bulk"} => SidesKept(s)'
  BY <1>1, <1>2, <1>7 DEF RequestInv, SidesKept, SameFor, TypeOK
<1> QED BY <1>1, <1>2, <1>3, <1>8 DEF RequestInv, SameFor, Rewritten, Linking, TypeOK

\* What a commit publishes joins
LEMMA CommitJoins == ASSUME RefundInv, NEW r \in Requests, Commit(r) PROVE LinksJoin'
<1>1. /\ TypeOK /\ LinksJoin /\ RequestInv(r) /\ pc[r] = "committing"
      /\ txns' = View(r) /\ \A t \in chosen[r] : rowLock[t] = r
  BY DEF RefundInv, RequestInv, Commit
<1> SUFFICES ASSUME NEW t \in TxnIds, links'[t] # NoTxn
             PROVE  Refunds(View(r)[t]) /\ Refundable(View(r)[links'[t]])
  BY <1>1 DEF LinksJoin
<1>2. \A u \in TxnIds : View(r)[u] = IF rowLock[u] = r THEN draft[r][u] ELSE txns[u]
  BY DEF View
<1>3. CASE t \in chosen[r] /\ Linking(r)
  BY <1>1, <1>2, <1>3 DEF RequestInv, Commit
<1>4. CASE ~(t \in chosen[r] /\ Linking(r))
  <2>1. /\ links'[t] = links[t] /\ links[t] \in TxnIds /\ ~(job[r] \in {"unlink", "delete"} /\ t \in chosen[r])
        /\ ~(job[r] = "delete" /\ links[t] \in chosen[r])
    BY <1>1, <1>4 DEF Commit, TypeOK
  <2>2. Refunds(txns[t]) /\ Refundable(txns[links[t]]) /\ RefundsOf(links[t]) # {}
    BY <1>1, <2>1 DEF LinksJoin, RefundsOf
  <2>3. ~Rewritten(r, t) => View(r)[t] = txns[t]
    BY <1>1, <1>2 DEF RequestInv
  <2>4. ~Rewritten(r, links[t]) => View(r)[links[t]] = txns[links[t]]
    BY <1>1, <1>2, <2>1 DEF RequestInv
  <2>5. txns[t] # NoTxn /\ txns[links[t]] # NoTxn
    BY <2>2 DEF Refunds, Refundable
  <2>6. Rewritten(r, t) => job[r] \in {"edit", "bulk"} /\ t \in chosen[r]
    BY <1>1, <2>1, <2>5 DEF Rewritten, RequestInv
  <2>7. Rewritten(r, links[t]) => job[r] \in {"edit", "bulk"} /\ links[t] \in chosen[r]
    BY <1>1, <2>1, <2>5 DEF Rewritten, RequestInv
  <2>8. job[r] \in {"edit", "bulk"} => SidesKept(r)
    BY <1>1 DEF RequestInv
  <2>9. Refunds(View(r)[t])
    BY <1>1, <1>2, <2>1, <2>2, <2>3, <2>6, <2>8 DEF SidesKept
  <2>10. Refundable(View(r)[links[t]])
    BY <1>1, <1>2, <2>1, <2>2, <2>4, <2>7, <2>8 DEF SidesKept
  <2> QED BY <2>1, <2>9, <2>10
<1> QED BY <1>3, <1>4

\* A commit keeps the invariant
LEMMA CommitInv == ASSUME RefundInv, NEW r \in Requests, Commit(r) PROVE RefundInv'
<1>1. TypeOK /\ RequestInv(r) /\ Release(r) /\ txns' = View(r)
  BY DEF RefundInv, Commit
<1>2. txns' \in [TxnIds -> Rows \union {NoTxn}]
  BY <1>1 DEF View, TypeOK
<1>3. links' \in [TxnIds -> TxnIds \union {NoTxn}]
  BY <1>1 DEF Commit, TypeOK
<1>4. TypeOK'
  BY <1>1, <1>2, <1>3, ReleaseType DEF TypeOK
<1>5. \A s \in Requests : RequestInv(s)'
  BY <1>1, ReleaseKeeps, CommitKeepsOthers
<1> QED BY <1>4, <1>5, CommitJoins DEF RefundInv

-----------------------------------------------------------------------------
(* Every step *)

\* Starting a request
LEMMA StartInv == ASSUME RefundInv, NEW r \in Requests, Start(r) PROVE RefundInv'
<1>1. CASE \E t, o \in TxnIds : Begin(r, "link", {t}, o)
  BY <1>1, BeginInv
<1>2. CASE \E t, o \in TxnIds : \E row \in RowsOf[t] : BeginRefund(r, t, row, o)
  BY <1>2, BeginRefundInv, RowsAreStored
<1>3. CASE \E t \in TxnIds, j \in {"unlink", "edit", "delete"} : Begin(r, j, {t}, NoTxn)
  BY <1>3, BeginInv
<1>4. CASE \E ts \in Several, j \in {"bulk", "delete"} : Begin(r, j, ts, NoTxn)
  BY <1>4, BeginInv DEF Several
<1> QED BY <1>1, <1>2, <1>3, <1>4 DEF Start

\* Any step of a handler
LEMMA ProceedInv == ASSUME RefundInv, NEW r \in Requests, Proceed(r) PROVE RefundInv'
<1>1. CASE GiveUp(r) \/ NotFound(r) \/ Refuse(r)
  BY <1>1, EndingInv DEF GiveUp, NotFound, Refuse
<1> QED BY <1>1, HoldInv, PassOverInv, HoldExpenseInv, PairInv, UnlinkInv, DeleteInv, WriteInv, TotalInv, CommitInv
        DEF Proceed

\* Every step keeps the invariant
LEMMA NextInv == RefundInv /\ [Next]_vars => RefundInv'
<1> SUFFICES ASSUME RefundInv, [Next]_vars PROVE RefundInv'
  OBVIOUS
<1>1. CASE \E t \in TxnIds : \E row \in RowsOf[t] : Create(t, row)
  <2>1. PICK t \in TxnIds : \E row \in RowsOf[t] : Create(t, row)
    BY <1>1
  <2>2. PICK row \in Rows : Create(t, row)
    BY <2>1, RowsAreStored
  <2> QED BY <2>2, CreateInv
<1>2. CASE \E r \in Requests : Start(r) \/ Proceed(r) \/ Rollback(r)
  BY <1>2, StartInv, ProceedInv, EndingInv DEF Rollback
<1>3. CASE UNCHANGED vars
  <2>1. UNCHANGED committed /\ TypeOK' /\ \A s \in Requests : SameFor(s)
    BY <1>3 DEF RefundInv, TypeOK, vars, request, committed, SameFor
  <2> QED BY <2>1, OthersKeep, SameLinksJoin DEF RefundInv
<1> QED BY <1>1, <1>2, <1>3 DEF Next

\* The invariant holds throughout
LEMMA RefundInvariant == Spec => []RefundInv
BY InitInv, NextInv, PTL DEF Spec

\* Every variable keeps its type, and nothing is committed while a lock is waited for.
THEOREM RefundLinksTypeOK == Spec => []TypeOK
BY RefundInvariant, PTL DEF RefundInv

\* Every committed link joins a refund to an expense, whatever edits, links and deletions race.
THEOREM LinksAlwaysJoin == Spec => []LinksJoin
BY RefundInvariant, PTL DEF RefundInv

-----------------------------------------------------------------------------
(* What refunds total *)

\* The refunds ts are more than the expense o
Over(view, o, ts) == Refunded(view, ts) > -view[o].amount

\* A request past its check holds the expenses whose total it may move, and their refunds still fit
FitInv(r) ==
  /\ pc[r] = "totalling" => \A o \in TouchedOriginals(chosen[r]) : o \in wanted[r] \/ rowLock[o] = r
  /\ pc[r] = "committing" /\ job[r] \in {"edit", "bulk"} =>
       \A o \in TouchedOriginals(chosen[r]) : rowLock[o] = r /\ ~Over(View(r), o, RefundsOf(o))
  /\ pc[r] # "idle" /\ Linking(r) => \E t \in TxnIds : chosen[r] = {t}
  /\ pc[r] = "committing" /\ Linking(r) =>
       \A t \in chosen[r] : ~Over(View(r), partner[r], RefundsOf(partner[r]) \union {t})

FitsInv == RefundsFit /\ \A r \in Requests : FitInv(r)

LEMMA OverIsOver == \A view, o : OverRefunded(view, o) <=> Over(view, o, RefundsOf(o))
BY DEF OverRefunded, Over

\* The refunds of an expense are among the transactions, so there are finitely many
LEMMA RefundsFinite == \A o : IsFiniteSet(RefundsOf(o)) /\ RefundsOf(o) \in SUBSET TxnIds
BY RefundAssumption, FS_Subset DEF RefundsOf

\* Only the rows concerned count
LEMMA SameOver ==
  ASSUME NEW v, NEW w, NEW o, NEW ts, w[o] = v[o], \A t \in ts : w[t] = v[t]
  PROVE  Over(w, o, ts) <=> Over(v, o, ts)
<1>1. [t \in ts |-> w[t].amount] = [t \in ts |-> v[t].amount]
  OBVIOUS
<1> QED BY <1>1 DEF Over, Refunded

\* Fewer refunds total no more
LEMMA FewerFit ==
  ASSUME NEW v, NEW o, NEW ts, IsFiniteSet(ts), NEW us \in SUBSET ts,
         v[o].amount \in Int, \A t \in ts : v[t].amount \in Nat, ~Over(v, o, ts)
  PROVE  ~Over(v, o, us)
<1> DEFINE f == [t \in ts |-> v[t].amount]
<1>1. f \in [ts -> Nat]
  OBVIOUS
<1>2. [t \in us |-> f[t]] = [t \in us |-> v[t].amount]
  OBVIOUS
<1>3. us \in SUBSET ts /\ IsFiniteSet(us) /\ [t \in us |-> f[t]] \in [us -> Nat]
  BY FS_Subset
<1>4. ~(SumOf(f) > -v[o].amount)
  BY DEF Over, Refunded
<1> HIDE DEF f
<1>5. SumOf([t \in us |-> f[t]]) <= SumOf(f)
  BY <1>1, SumPart
<1>6. SumOf(f) \in Nat /\ SumOf([t \in us |-> f[t]]) \in Nat
  BY <1>1, <1>3, SumNat
<1>7. ~(SumOf([t \in us |-> f[t]]) > -v[o].amount)
  BY <1>4, <1>5, <1>6
<1> QED BY <1>2, <1>7 DEF Over, Refunded

\* A refund's amount is positive
LEMMA RefundAmount == \A row \in Rows \union {NoTxn} : Refunds(row) => row.amount \in Nat
BY RefundAssumption DEF Refunds

\* An expense has an amount
LEMMA ExpenseAmount == \A row \in Rows \union {NoTxn} : Refundable(row) => row.amount \in Int
BY RefundAssumption DEF Refundable

\* A request's view of rows
LEMMA ViewType == ASSUME TypeOK, NEW r \in Requests PROVE View(r) \in [TxnIds -> Rows \union {NoTxn}]
BY DEF TypeOK, View

\* Until it deletes, a request sees each link join a refund to an expense
LEMMA LinksJoinInView ==
  ASSUME RefundInv, NEW r \in Requests, ~(pc[r] = "committing" /\ job[r] = "delete"),
         NEW t \in TxnIds, links[t] # NoTxn
  PROVE  Refunds(View(r)[t]) /\ Refundable(View(r)[links[t]])
<1>1. TypeOK /\ LinksJoin /\ RequestInv(r) /\ links[t] \in TxnIds
  BY DEF RefundInv, TypeOK
<1>2. Refunds(txns[t]) /\ Refundable(txns[links[t]]) /\ RefundsOf(links[t]) # {}
  BY <1>1 DEF LinksJoin, RefundsOf
<1>3. txns[t] # NoTxn /\ txns[links[t]] # NoTxn
  BY <1>2 DEF Refunds, Refundable
<1>4. ASSUME NEW u \in {t, links[t]} PROVE View(r)[u] = txns[u] \/ (Rewritten(r, u) /\ View(r)[u] = draft[r][u])
  BY <1>1 DEF RequestInv, View
<1>5. ASSUME NEW u \in {t, links[t]}, Rewritten(r, u)
      PROVE  job[r] \in {"edit", "bulk"} /\ pc[r] \in {"totalling", "committing"} /\ u \in chosen[r]
  BY <1>1, <1>3, <1>5 DEF Rewritten, RequestInv
<1>6. job[r] \in {"edit", "bulk"} /\ pc[r] \in {"totalling", "committing"} => SidesKept(r)
  BY <1>1 DEF RequestInv
<1>7. Refunds(View(r)[t])
  BY <1>2, <1>4, <1>5, <1>6 DEF SidesKept
<1>8. Refundable(View(r)[links[t]])
  BY <1>2, <1>4, <1>5, <1>6 DEF SidesKept
<1> QED BY <1>7, <1>8

-----------------------------------------------------------------------------
(* Steps that move no total another request has checked *)

\* What another request has checked stays so
LEMMA OthersKeepFit ==
  ASSUME TypeOK, NEW s \in Requests, FitInv(s), SameFor(s), UNCHANGED committed
  PROVE  FitInv(s)'
<1>1. /\ TouchedOriginals(chosen[s])' = TouchedOriginals(chosen[s]) /\ Linking(s)' = Linking(s)
      /\ pc'[s] = pc[s] /\ job'[s] = job[s] /\ chosen'[s] = chosen[s] /\ partner'[s] = partner[s] /\ wanted'[s] = wanted[s]
  BY DEF SameFor, committed, TouchedOriginals, Linking
<1>2. View(s)' = View(s)
  BY DEF View, SameFor, committed
<1>3. \A o : RefundsOf(o)' = RefundsOf(o)
  BY DEF RefundsOf, committed
<1>4. \A o, ts : Over(View(s), o, ts)' <=> Over(View(s), o, ts)
  BY <1>2 DEF Over, Refunded
<1>5. \A o \in TxnIds : rowLock'[o] = s <=> rowLock[o] = s
  BY DEF SameFor
<1>6. TouchedOriginals(chosen[s]) \in SUBSET TxnIds
  BY DEF TypeOK, TouchedOriginals
<1> QED BY <1>1, <1>3, <1>4, <1>5, <1>6 DEF FitInv

\* Nothing is committed, so the committed refunds still fit
LEMMA SameRefundsFit == ASSUME RefundsFit, UNCHANGED committed PROVE RefundsFit'
BY DEF RefundsFit, RefundsOf, OverRefunded, Refunded, committed

\* A step of r alone that commits nothing
LEMMA QuietFit ==
  ASSUME RefundInv, FitsInv, NEW r \in Requests, UNCHANGED committed, FitInv(r)',
         \A s \in Requests \ {r} : SameFor(s)
  PROVE  FitsInv'
BY OthersKeepFit, SameRefundsFit DEF FitsInv, RefundInv

\* A request that ends has checked nothing
LEMMA EndingFit ==
  ASSUME RefundInv, FitsInv, NEW r \in Requests, Release(r), UNCHANGED committed PROVE FitsInv'
<1>1. pc'[r] = "idle"
  BY DEF Release, RefundInv, TypeOK
<1>2. FitInv(r)'
  BY <1>1 DEF FitInv
<1> QED BY <1>2, QuietFit, ReleaseKeeps DEF RefundInv

\* A new transaction is in no total
LEMMA CreateFit ==
  ASSUME RefundInv, FitsInv, NEW t \in TxnIds, NEW row \in Rows, Create(t, row) PROVE FitsInv'
<1>1. /\ TypeOK /\ LinksJoin /\ txns[t] = NoTxn /\ rowLock[t] = NoRequest
      /\ txns' = [txns EXCEPT ![t] = row] /\ UNCHANGED <<links, rowLock, request>>
  BY DEF RefundInv, Create
<1>2. links[t] = NoTxn /\ RefundsOf(t) = {}
  BY <1>1, MissingRowsUnlinked
<1>3. \A o : RefundsOf(o)' = RefundsOf(o)
  BY <1>1 DEF RefundsOf
<1>4. \A u \in TxnIds \ {t} : txns'[u] = txns[u]
  BY <1>1 DEF TypeOK
<1>5. \A o \in TxnIds : RefundsOf(o) # {} => o # t /\ t \notin RefundsOf(o)
  BY <1>2, RefundAssumption DEF RefundsOf
<1>6. RefundsFit'
  <2> SUFFICES ASSUME NEW o \in TxnIds, RefundsOf(o) # {} PROVE ~Over(txns', o, RefundsOf(o))
    BY <1>3, OverIsOver DEF RefundsFit, OverRefunded, Over, Refunded
  <2>1. ~Over(txns, o, RefundsOf(o))
    BY OverIsOver DEF FitsInv, RefundsFit
  <2>2. txns'[o] = txns[o] /\ \A u \in RefundsOf(o) : txns'[u] = txns[u]
    BY <1>4, <1>5, RefundsFinite
  <2> QED BY <2>1, <2>2, SameOver
<1>7. ASSUME NEW s \in Requests PROVE FitInv(s)'
  <2>1. FitInv(s) /\ RequestInv(s)
    BY DEF FitsInv, RefundInv
  <2>2. \A u \in TxnIds \ {t} : View(s)'[u] = View(s)[u]
    BY <1>1, <1>4 DEF View, request
  <2>3. \A o \in TxnIds \ {t}, ts \in SUBSET (TxnIds \ {t}) : Over(View(s), o, ts)' <=> Over(View(s), o, ts)
    <3> SUFFICES ASSUME NEW o \in TxnIds \ {t}, NEW ts \in SUBSET (TxnIds \ {t})
                 PROVE  Over(View(s)', o, ts) <=> Over(View(s), o, ts)
      BY DEF Over, Refunded
    <3>1. View(s)'[o] = View(s)[o] /\ \A u \in ts : View(s)'[u] = View(s)[u]
      BY <2>2
    <3> QED BY <3>1, SameOver
  <2>4. /\ pc'[s] = pc[s] /\ job'[s] = job[s] /\ chosen'[s] = chosen[s] /\ partner'[s] = partner[s]
        /\ wanted'[s] = wanted[s] /\ rowLock' = rowLock
        /\ TouchedOriginals(chosen[s])' = TouchedOriginals(chosen[s]) /\ Linking(s)' = Linking(s)
    BY <1>1 DEF request, TouchedOriginals, Linking
  <2>5. \A o \in TouchedOriginals(chosen[s]) : o \in TxnIds /\ RefundsOf(o) # {}
    BY <1>1 DEF TouchedOriginals, RefundsOf, TypeOK
  <2>6. \A o : t \notin RefundsOf(o) \/ o = NoTxn
    BY <1>2 DEF RefundsOf
  <2>7. rowLock[t] # s
    BY <1>1, RefundAssumption
  <2>8. \A o \in TouchedOriginals(chosen[s]) : o \in TxnIds \ {t} /\ RefundsOf(o) \in SUBSET (TxnIds \ {t})
    BY <1>5, <2>5, RefundsFinite
  <2>9. pc[s] = "committing" /\ Linking(s) =>
          /\ partner[s] \in TxnIds \ {t}
          /\ \A u \in chosen[s] : RefundsOf(partner[s]) \union {u} \in SUBSET (TxnIds \ {t})
    BY <1>1, <2>1, <2>6, <2>7, RefundsFinite, RefundAssumption DEF RequestInv, TypeOK
  <2>10. /\ pc[s] = "committing" /\ job[s] \in {"edit", "bulk"} =>
               \A o \in TouchedOriginals(chosen[s]) : rowLock[o] = s /\ ~Over(View(s), o, RefundsOf(o))'
         /\ pc[s] = "committing" /\ Linking(s) =>
               \A u \in chosen[s] : ~Over(View(s), partner[s], RefundsOf(partner[s]) \union {u})'
    <3>1. CASE pc[s] = "committing" /\ job[s] \in {"edit", "bulk"}
      <4>1. ~Linking(s)
        BY <3>1 DEF Linking
      <4> QED BY <1>3, <2>1, <2>3, <2>4, <2>8, <3>1, <4>1 DEF FitInv
    <3>2. CASE pc[s] = "committing" /\ Linking(s)
      <4>1. job[s] \notin {"edit", "bulk"}
        BY <3>2 DEF Linking
      <4> QED BY <1>3, <2>1, <2>3, <2>4, <2>9, <3>2, <4>1 DEF FitInv
    <3> QED BY <3>1, <3>2
  <2> QED BY <1>3, <2>1, <2>4, <2>10 DEF FitInv
<1> QED BY <1>6, <1>7 DEF FitsInv

\* A request begins with nothing checked
LEMMA BeginFit ==
  ASSUME RefundInv, FitsInv, NEW r \in Requests, NEW j \in {"link", "unlink", "edit", "bulk", "delete"},
         NEW ts \in SUBSET TxnIds, NEW o \in TxnIds \union {NoTxn},
         j = "link" => \E t \in TxnIds : ts = {t}, Begin(r, j, ts, o)
  PROVE  FitsInv'
<1>1. TypeOK /\ UNCHANGED committed
  BY DEF RefundInv, Begin
<1>2. pc'[r] = "holding" /\ job'[r] = j /\ chosen'[r] = ts
  BY <1>1 DEF Begin, TypeOK
<1>3. FitInv(r)'
  BY <1>2 DEF FitInv, Linking
<1>4. \A s \in Requests \ {r} : SameFor(s)
  BY <1>1 DEF Begin, TypeOK, SameFor
<1> QED BY <1>1, <1>3, <1>4, QuietFit

\* So does one that stores a new refund
LEMMA BeginRefundFit ==
  ASSUME RefundInv, FitsInv, NEW r \in Requests, NEW t \in TxnIds, NEW row \in Rows, NEW o \in TxnIds,
         BeginRefund(r, t, row, o)
  PROVE  FitsInv'
<1>1. TypeOK /\ UNCHANGED committed
  BY DEF RefundInv, BeginRefund
<1>2. pc'[r] = "pairing" /\ chosen'[r] = {t}
  BY <1>1 DEF BeginRefund, TypeOK
<1>3. FitInv(r)'
  BY <1>2 DEF FitInv
<1>4. \A s \in Requests \ {r} : SameFor(s)
  BY <1>1, RefundAssumption DEF BeginRefund, TypeOK, SameFor
<1> QED BY <1>1, <1>3, <1>4, QuietFit

\* A row that is held is wanted no more
LEMMA HoldFit == ASSUME RefundInv, FitsInv, NEW r \in Requests, Hold(r) PROVE FitsInv'
<1> DEFINE t == FirstWanted(r)
<1>1. /\ TypeOK /\ FitInv(r) /\ wanted[r] # {} /\ rowLock[t] = NoRequest
      /\ rowLock' = [rowLock EXCEPT ![t] = r] /\ draft' = [draft EXCEPT ![r][t] = txns[t]]
      /\ wanted' = [wanted EXCEPT ![r] = @ \ {t}] /\ UNCHANGED <<committed, pc, job, chosen, partner>>
  BY DEF Hold, RefundInv, FitsInv
<1> HIDE DEF t
<1>2. pc[r] # "committing"
  BY <1>1 DEF TypeOK
<1>3. /\ TouchedOriginals(chosen[r])' = TouchedOriginals(chosen[r]) /\ Linking(r)' = Linking(r)
      /\ wanted'[r] = wanted[r] \ {t}
  BY <1>1 DEF TouchedOriginals, Linking, committed, TypeOK
<1>4. \A o \in TouchedOriginals(chosen[r]) : o \in TxnIds
  BY <1>1 DEF TouchedOriginals, TypeOK
<1>5. \A o \in TxnIds : (rowLock[o] = r => rowLock'[o] = r) /\ (o = t => rowLock'[o] = r)
  BY <1>1 DEF TypeOK
<1>6. FitInv(r)'
  BY <1>1, <1>2, <1>3, <1>4, <1>5 DEF FitInv
<1>7. \A s \in Requests \ {r} : SameFor(s)
  BY <1>1, RefundAssumption DEF TypeOK, SameFor
<1> QED BY <1>1, <1>6, <1>7, QuietFit

\* A deleted expense has no refunds left to total
LEMMA PassOverFit == ASSUME RefundInv, FitsInv, NEW r \in Requests, PassOver(r) PROVE FitsInv'
<1> DEFINE t == FirstWanted(r)
<1>1. /\ TypeOK /\ LinksJoin /\ FitInv(r) /\ txns[t] = NoTxn /\ pc[r] = "totalling"
      /\ wanted' = [wanted EXCEPT ![r] = @ \ {t}] /\ UNCHANGED <<committed, rowLock, pc, job, chosen, partner, draft>>
  BY DEF PassOver, RefundInv, FitsInv
<1> HIDE DEF t
<1>2. /\ TouchedOriginals(chosen[r])' = TouchedOriginals(chosen[r]) /\ Linking(r)' = Linking(r)
      /\ wanted'[r] = wanted[r] \ {t}
  BY <1>1 DEF TouchedOriginals, Linking, committed, TypeOK
<1>3. \A o \in TouchedOriginals(chosen[r]) : o \in TxnIds /\ RefundsOf(o) # {}
  BY <1>1 DEF TouchedOriginals, RefundsOf, TypeOK
<1>4. t \notin TouchedOriginals(chosen[r])
  BY <1>1, <1>3, MissingRowsUnlinked
<1>5. FitInv(r)'
  BY <1>1, <1>2, <1>4 DEF FitInv
<1>6. \A s \in Requests \ {r} : SameFor(s)
  BY <1>1 DEF TypeOK, SameFor
<1> QED BY <1>1, <1>5, <1>6, QuietFit

\* The refund is held, and nothing totalled yet
LEMMA HoldExpenseFit == ASSUME RefundInv, FitsInv, NEW r \in Requests, HoldExpense(r) PROVE FitsInv'
<1>1. /\ TypeOK /\ FitInv(r) /\ job[r] = "link" /\ pc[r] = "holding" /\ pc'[r] = "pairing"
      /\ UNCHANGED <<committed, rowLock, job, chosen, partner, draft>>
  BY DEF HoldExpense, Advance, Ready, RefundInv, FitsInv, TypeOK
<1>2. FitInv(r)'
  BY <1>1 DEF FitInv, Linking
<1>3. \A s \in Requests \ {r} : SameFor(s)
  BY <1>1 DEF HoldExpense, Advance, TypeOK, SameFor
<1> QED BY <1>1, <1>2, <1>3, QuietFit

\* A pairing passes when the refunds with the new one fit the expense
LEMMA PairFit == ASSUME RefundInv, FitsInv, NEW r \in Requests, Pair(r) PROVE FitsInv'
<1>1. /\ TypeOK /\ FitInv(r) /\ RequestInv(r) /\ pc[r] = "pairing" /\ pc'[r] = "committing" /\ Pairable(r)
      /\ UNCHANGED <<committed, rowLock, job, chosen, partner, wanted, draft>>
  BY DEF Pair, Advance, Ready, RefundInv, FitsInv, TypeOK
<1>2. Linking(r) /\ partner[r] \in TxnIds /\ chosen[r] \in SUBSET TxnIds /\ job[r] \notin {"edit", "bulk"}
  BY <1>1 DEF RequestInv, Linking, TypeOK
<1>3. ASSUME NEW t \in chosen[r] PROVE ~Over(View(r), partner[r], RefundsOf(partner[r]) \union {t})
  <2> DEFINE o == partner[r]
             ts == RefundsOf(o) \union {t}
             f == [u \in ts |-> View(r)[u].amount]
  <2>1. Refundable(View(r)[o]) /\ Refunds(View(r)[t]) /\ Refunded(View(r), ts) <= -View(r)[o].amount
    BY <1>1 DEF Pairable
  <2>2. View(r) \in [TxnIds -> Rows \union {NoTxn}] /\ o \in TxnIds /\ t \in TxnIds
    BY <1>1, <1>2, ViewType
  <2>3. ASSUME NEW u \in ts PROVE View(r)[u].amount \in Nat
    <3>1. u \in TxnIds /\ Refunds(View(r)[u])
      BY <1>1, <1>2, <2>1, <2>2, LinksJoinInView, RefundsFinite, RefundAssumption DEF RefundsOf
    <3> QED BY <2>2, <3>1, RefundAmount
  <2>4. IsFiniteSet(ts) /\ f \in [ts -> Nat]
    BY <2>3, RefundsFinite, FS_AddElement
  <2>5. View(r)[o].amount \in Int
    BY <2>1, <2>2, ExpenseAmount
  <2>6. SumOf(f) <= -View(r)[o].amount
    BY <2>1 DEF Refunded
  <2> HIDE DEF f
  <2>7. ~(SumOf(f) > -View(r)[o].amount)
    BY <2>4, <2>5, <2>6, SumNat
  <2> QED BY <2>7 DEF f, Over, Refunded
<1>4. /\ Linking(r)' /\ job'[r] \notin {"edit", "bulk"} /\ \E t \in TxnIds : chosen'[r] = {t}
  BY <1>1, <1>2 DEF FitInv, Linking
<1>5. /\ View(r)' = View(r) /\ partner' = partner /\ chosen' = chosen /\ \A o : RefundsOf(o)' = RefundsOf(o)
  BY <1>1 DEF View, RefundsOf, committed
<1>6. \A t \in chosen'[r] : ~Over(View(r), partner[r], RefundsOf(partner[r]) \union {t})'
  BY <1>3, <1>5 DEF Over, Refunded
<1>7. FitInv(r)'
  BY <1>1, <1>4, <1>6 DEF FitInv
<1>8. \A s \in Requests \ {r} : SameFor(s)
  BY <1>1 DEF Pair, Advance, TypeOK, SameFor
<1> QED BY <1>1, <1>7, <1>8, QuietFit

\* An unlink and a delete move no total up
LEMMA UnlinkDeleteFit ==
  ASSUME RefundInv, FitsInv, NEW r \in Requests, Unlink(r) \/ Delete(r) PROVE FitsInv'
<1>1. /\ TypeOK /\ job[r] \in {"unlink", "delete"} /\ job' = job /\ UNCHANGED committed
  BY DEF Unlink, Delete, Advance, RefundInv
<1>2. pc'[r] = "committing"
  BY <1>1 DEF Unlink, Delete, Advance, TypeOK
<1>3. FitInv(r)'
  BY <1>1, <1>2 DEF FitInv, Linking
<1>4. \A s \in Requests \ {r} : SameFor(s)
  BY <1>1 DEF Unlink, Delete, Advance, TypeOK, SameFor
<1> QED BY <1>1, <1>3, <1>4, QuietFit

\* An edit goes on to lock the expenses it does not hold
LEMMA WriteFit == ASSUME RefundInv, FitsInv, NEW r \in Requests, Write(r) PROVE FitsInv'
<1>1. /\ TypeOK /\ RequestInv(r) /\ pc[r] = "holding" /\ wanted[r] = {} /\ job[r] \in {"edit", "bulk"}
      /\ wanted' = [wanted EXCEPT ![r] = ToLock(r)] /\ pc' = [pc EXCEPT ![r] = "totalling"]
      /\ UNCHANGED <<committed, rowLock, job, chosen, partner>>
  BY DEF RefundInv, Write, Ready, Advance
<1>2. pc'[r] = "totalling" /\ wanted'[r] = ToLock(r) /\ ~Linking(r)'
  BY <1>1 DEF TypeOK, Linking
<1>3. TouchedOriginals(chosen[r])' = TouchedOriginals(chosen[r])
  BY <1>1 DEF TouchedOriginals, committed
<1>4. \A o \in chosen[r] : rowLock[o] = r
  BY <1>1 DEF RequestInv
<1>5. FitInv(r)'
  BY <1>1, <1>2, <1>3, <1>4 DEF FitInv, ToLock
<1>6. ASSUME NEW s \in Requests \ {r} PROVE SameFor(s)
  <2>1. draft'[s] = draft[s]
    BY <1>1 DEF Write, TypeOK
  <2> QED BY <1>1, <2>1 DEF SameFor, TypeOK
<1> QED BY <1>1, <1>5, <1>6, QuietFit

\* A total that passes is of expenses all held
LEMMA TotalFit == ASSUME RefundInv, FitsInv, NEW r \in Requests, Total(r) PROVE FitsInv'
<1>1. /\ TypeOK /\ RequestInv(r) /\ FitInv(r) /\ pc[r] = "totalling" /\ wanted[r] = {} /\ Totalled(r)
      /\ pc'[r] = "committing" /\ UNCHANGED <<committed, rowLock, job, chosen, partner, wanted, draft>>
  BY DEF RefundInv, FitsInv, Total, Ready, Advance, TypeOK
<1>2. job[r] \in {"edit", "bulk"} /\ ~Linking(r)
  BY <1>1 DEF RequestInv, Linking
<1>3. \A o \in TouchedOriginals(chosen[r]) : rowLock[o] = r /\ ~Over(View(r), o, RefundsOf(o))
  BY <1>1, OverIsOver DEF FitInv, Totalled
<1>4. /\ TouchedOriginals(chosen[r])' = TouchedOriginals(chosen[r]) /\ View(r)' = View(r)
      /\ \A o : RefundsOf(o)' = RefundsOf(o)
  BY <1>1 DEF TouchedOriginals, View, RefundsOf, committed
<1>5. \A o \in TouchedOriginals(chosen[r])' : rowLock'[o] = r /\ ~Over(View(r), o, RefundsOf(o))'
  BY <1>1, <1>3, <1>4 DEF Over, Refunded
<1>6. FitInv(r)'
  BY <1>1, <1>2, <1>5 DEF FitInv, Linking
<1>7. \A s \in Requests \ {r} : SameFor(s)
  BY <1>1 DEF Total, Advance, TypeOK, SameFor
<1> QED BY <1>1, <1>6, <1>7, QuietFit

-----------------------------------------------------------------------------
(* Committing *)

\* What a commit leaves of the refunds of an expense nobody else holds
LEMMA CommitShrinks ==
  ASSUME RefundInv, NEW r \in Requests, Commit(r), NEW o \in TxnIds, ~Linking(r) \/ o # partner[r]
  PROVE  RefundsOf(o)' \in SUBSET RefundsOf(o)
<1>1. ASSUME NEW t \in TxnIds, links'[t] = o PROVE links[t] = o
  BY <1>1, RefundAssumption DEF Commit
<1> QED BY <1>1 DEF RefundsOf

\* A commit by one request leaves what another has totalled, which holds the expense, fitting
LEMMA CommitKeepsTotal ==
  ASSUME RefundInv, FitsInv, NEW r \in Requests, Commit(r), NEW s \in Requests, s # r,
         pc[s] = "committing", job[s] # "delete", NEW o \in TxnIds, rowLock[o] = s, NEW ts \in SUBSET TxnIds,
         \A t \in ts : rowLock[t] = s /\ Refunds(View(s)[t]),
         Refundable(View(s)[o]),
         ~Over(View(s), o, RefundsOf(o) \union ts)
  PROVE  ~Over(View(s)', o, RefundsOf(o)' \union ts)
<1>1. TypeOK /\ LinksJoin /\ RequestInv(r) /\ FitInv(r) /\ pc[r] = "committing" /\ txns' = View(r) /\ Release(r)
  BY DEF RefundInv, FitsInv, Commit
<1>2. SameFor(s) /\ \A u \in chosen[r] : u \in TxnIds /\ rowLock[u] = r
  BY <1>1, ReleaseKeeps DEF RequestInv, TypeOK
<1>3. RefundsOf(o)' \in SUBSET RefundsOf(o)
  BY <1>1, CommitShrinks DEF RequestInv
<1>4. ASSUME NEW u \in TxnIds PROVE View(s)'[u] = IF rowLock[u] = s THEN draft[s][u] ELSE View(r)[u]
  BY <1>1, <1>2 DEF View, SameFor
<1>5. ASSUME NEW u \in RefundsOf(o)', rowLock[u] # s PROVE View(r)[u] = txns[u]
  <2>1. u \in TxnIds /\ links[u] = o /\ o # NoTxn
    BY <1>3, RefundAssumption DEF RefundsOf
  <2>2. ~(Rewritten(r, u) /\ rowLock[u] = r)
    <3> SUFFICES ASSUME Rewritten(r, u) PROVE FALSE
      OBVIOUS
    <3>1. CASE job[r] = "create"
      <4>1. txns[u] = NoTxn
        BY <1>1, <3>1 DEF Rewritten, RequestInv
      <4> QED BY <1>1, <2>1, <4>1, MissingRowsUnlinked
    <3>2. CASE job[r] \in {"edit", "bulk"}
      <4>1. o \in TouchedOriginals(chosen[r])
        BY <2>1 DEF Rewritten, TouchedOriginals
      <4> QED BY <1>1, <3>2, <4>1 DEF FitInv
    <3>3. CASE job[r] = "delete"
      <4>1. links'[u] = NoTxn
        BY <2>1, <3>3 DEF Rewritten, Commit, Linking
      <4> QED BY <2>1, <4>1 DEF RefundsOf
    <3> QED BY <3>1, <3>2, <3>3 DEF Rewritten
  <2> QED BY <1>1, <2>1, <2>2 DEF RequestInv, View
<1>6. \A u \in RefundsOf(o)' \union ts : View(s)'[u] = View(s)[u]
  BY <1>3, <1>4, <1>5, RefundsFinite DEF View
<1>7. View(s)'[o] = View(s)[o]
  BY <1>4 DEF View
<1>8. View(s) \in [TxnIds -> Rows \union {NoTxn}]
  BY <1>1, ViewType
<1>9. ASSUME NEW u \in RefundsOf(o) \union ts PROVE View(s)[u].amount \in Nat
  <2>1. u \in TxnIds /\ Refunds(View(s)[u])
    BY LinksJoinInView, RefundAssumption DEF RefundsOf
  <2> QED BY <1>8, <2>1, RefundAmount
<1>10. View(s)[o].amount \in Int
  BY <1>8, ExpenseAmount
<1>11. IsFiniteSet(RefundsOf(o) \union ts) /\ RefundsOf(o)' \union ts \in SUBSET (RefundsOf(o) \union ts)
  BY <1>3, RefundsFinite, RefundAssumption, FS_Subset
<1>12. ~Over(View(s), o, RefundsOf(o)' \union ts)
  BY <1>9, <1>10, <1>11, FewerFit
<1> QED BY <1>6, <1>7, <1>12, SameOver

\* The originals another request has still to lock or holds are no more than before
LEMMA CommitTouches ==
  ASSUME RefundInv, NEW r \in Requests, Commit(r), NEW s \in Requests, s # r,
         pc[s] \in {"totalling", "committing"}
  PROVE  TouchedOriginals(chosen[s])' \in SUBSET TouchedOriginals(chosen[s])
<1>1. TypeOK /\ RequestInv(r) /\ RequestInv(s) /\ pc[r] = "committing" /\ chosen'[s] = chosen[s]
  BY ReleaseKeeps DEF RefundInv, Commit, SameFor
<1>2. \A u \in chosen[s] : rowLock[u] = s
  BY <1>1 DEF RequestInv
<1>3. \A u \in chosen[r] : rowLock[u] = r
  BY <1>1 DEF RequestInv
<1>4. Linking(r) => rowLock[partner[r]] = r
  BY <1>1 DEF RequestInv
<1>5. ASSUME NEW t \in TxnIds, links'[t] # NoTxn, t \in chosen[s] \/ links'[t] \in chosen[s]
      PROVE  links'[t] = links[t]
  BY <1>2, <1>3, <1>4, <1>5 DEF Commit
<1> QED BY <1>1, <1>5 DEF TouchedOriginals

\* A commit keeps what every other request has checked
LEMMA CommitKeepsFit ==
  ASSUME RefundInv, FitsInv, NEW r \in Requests, Commit(r), NEW s \in Requests, s # r PROVE FitInv(s)'
<1>1. TypeOK /\ RequestInv(s) /\ FitInv(s) /\ Release(r)
  BY DEF RefundInv, FitsInv, Commit
<1>2. SameFor(s) /\ Linking(s)' = Linking(s)
  BY <1>1, ReleaseKeeps DEF SameFor, Linking
<1>3. \A o \in TxnIds : rowLock'[o] = s <=> rowLock[o] = s
  BY <1>2 DEF SameFor
<1>4. \A o, ts : Over(View(s), o, ts)' <=> Over(View(s)', o, ts)
  BY DEF Over, Refunded
<1>5. ASSUME pc[s] = "totalling" PROVE \A o \in TouchedOriginals(chosen[s])' : o \in wanted[s] \/ rowLock'[o] = s
  <2>1. TouchedOriginals(chosen[s]) \in SUBSET TxnIds
    BY <1>1 DEF TouchedOriginals, TypeOK
  <2> QED BY <1>1, <1>3, <1>5, <2>1, CommitTouches DEF FitInv
<1>6. ASSUME pc[s] = "committing", job[s] \in {"edit", "bulk"}, NEW o \in TouchedOriginals(chosen[s])'
      PROVE  rowLock'[o] = s /\ ~Over(View(s)', o, RefundsOf(o)')
  <2>1. o \in TouchedOriginals(chosen[s])
    BY <1>6, CommitTouches
  <2>2. PICK t \in TxnIds : links[t] = o /\ o # NoTxn
    BY <2>1 DEF TouchedOriginals
  <2>3. o \in TxnIds /\ rowLock[o] = s /\ ~Over(View(s), o, RefundsOf(o))
    BY <1>1, <1>6, <2>1, <2>2 DEF FitInv, TypeOK
  <2>4. Refundable(View(s)[o])
    BY <1>6, <2>2, LinksJoinInView
  <2>5. RefundsOf(o) \union {} = RefundsOf(o) /\ RefundsOf(o)' \union {} = RefundsOf(o)'
    OBVIOUS
  <2>6. ~Over(View(s)', o, RefundsOf(o)' \union {})
    BY <1>6, <2>3, <2>4, <2>5, CommitKeepsTotal
  <2> QED BY <1>3, <2>3, <2>5, <2>6
<1>7. ASSUME pc[s] = "committing", Linking(s), NEW t \in chosen[s], NEW o \in TxnIds, o = partner[s]
      PROVE  ~Over(View(s)', o, RefundsOf(o)' \union {t})
  <2>1. /\ rowLock[o] = s /\ t \in TxnIds /\ rowLock[t] = s
        /\ Refunds(draft[s][t]) /\ Refundable(draft[s][o]) /\ job[s] # "delete"
    BY <1>1, <1>7 DEF RequestInv, TypeOK, Linking
  <2>2. Refunds(View(s)[t]) /\ Refundable(View(s)[o])
    BY <2>1 DEF View
  <2>3. ~Over(View(s), o, RefundsOf(o) \union {t})
    BY <1>1, <1>7 DEF FitInv
  <2> DEFINE ts == {t}
  <2>4. ts \in SUBSET TxnIds /\ \A u \in ts : rowLock[u] = s /\ Refunds(View(s)[u])
    BY <2>1, <2>2
  <2>5. ~Over(View(s), o, RefundsOf(o) \union ts)
    BY <2>3
  <2> HIDE DEF ts
  <2>6. ~Over(View(s)', o, RefundsOf(o)' \union ts)
    BY <1>7, <2>1, <2>2, <2>4, <2>5, CommitKeepsTotal
  <2> QED BY <2>6 DEF ts
<1>8. /\ pc'[s] = pc[s] /\ job'[s] = job[s] /\ chosen'[s] = chosen[s] /\ partner'[s] = partner[s] /\ wanted'[s] = wanted[s]
  BY <1>2 DEF SameFor
<1>9. pc'[s] # "idle" /\ Linking(s)' => \E t \in TxnIds : chosen'[s] = {t}
  BY <1>1, <1>2, <1>8 DEF FitInv
<1>10. \A o : RefundsOf(o)' = {t \in TxnIds : links'[t] = o}
  BY DEF RefundsOf
<1>11. pc[s] = "committing" /\ Linking(s) => partner[s] \in TxnIds
  BY <1>1 DEF RequestInv, TypeOK
<1> QED BY <1>2, <1>4, <1>5, <1>6, <1>7, <1>8, <1>9, <1>10, <1>11 DEF FitInv

\* What a commit publishes fits
LEMMA CommitFits == ASSUME RefundInv, FitsInv, NEW r \in Requests, Commit(r) PROVE RefundsFit'
<1>1. TypeOK /\ LinksJoin /\ RequestInv(r) /\ FitInv(r) /\ pc[r] = "committing" /\ txns' = View(r)
  BY DEF RefundInv, FitsInv, Commit
<1> SUFFICES ASSUME NEW o \in TxnIds, RefundsOf(o)' # {} PROVE ~Over(View(r), o, RefundsOf(o)')
  BY <1>1, OverIsOver DEF RefundsFit, OverRefunded, Over, Refunded
<1>2. \A u \in TxnIds : View(r)[u] = IF rowLock[u] = r THEN draft[r][u] ELSE txns[u]
  BY DEF View
<1>3. CASE Linking(r) /\ o = partner[r]
  <2>1. PICK t \in TxnIds : chosen[r] = {t}
    BY <1>1, <1>3 DEF FitInv
  <2> DEFINE ts == RefundsOf(o) \union {t}
  <2>2. RefundsOf(o)' \in SUBSET ts
    <3>1. ASSUME NEW u \in TxnIds, links'[u] = o PROVE u = t \/ links[u] = o
      <4>1. o # NoTxn /\ job[r] # "delete" /\ job[r] # "unlink"
        BY <1>3, RefundAssumption DEF Linking
      <4> QED BY <1>3, <2>1, <3>1, <4>1 DEF Commit
    <3> QED BY <3>1 DEF RefundsOf
  <2>3. ~Over(View(r), o, ts) /\ job[r] # "delete"
    BY <1>1, <1>3, <2>1 DEF FitInv, Linking
  <2>4. Refunds(View(r)[t]) /\ Refundable(View(r)[o])
    BY <1>1, <1>2, <1>3, <2>1 DEF RequestInv
  <2>5. View(r) \in [TxnIds -> Rows \union {NoTxn}]
    BY <1>1, ViewType
  <2>6. ASSUME NEW u \in ts PROVE View(r)[u].amount \in Nat
    <3>1. u \in TxnIds /\ Refunds(View(r)[u])
      BY <2>3, <2>4, LinksJoinInView, RefundAssumption DEF RefundsOf
    <3> QED BY <2>5, <3>1, RefundAmount
  <2>7. View(r)[o].amount \in Int
    BY <2>4, <2>5, ExpenseAmount
  <2>8. IsFiniteSet(ts)
    BY RefundsFinite, FS_AddElement
  <2> HIDE DEF ts
  <2> QED BY <2>2, <2>3, <2>6, <2>7, <2>8, FewerFit
<1>4. CASE job[r] \in {"edit", "bulk"} /\ o \in TouchedOriginals(chosen[r])
  <2>1. links' = links
    BY <1>1, <1>4 DEF Commit, TypeOK, Linking
  <2> QED BY <1>1, <1>4, <2>1 DEF FitInv, RefundsOf
<1>5. CASE ~(Linking(r) /\ o = partner[r]) /\ ~(job[r] \in {"edit", "bulk"} /\ o \in TouchedOriginals(chosen[r]))
  <2>1. RefundsOf(o)' \in SUBSET RefundsOf(o)
    BY <1>5, CommitShrinks
  <2>2. PICK t \in TxnIds : links'[t] = o /\ links[t] = o /\ o # NoTxn
    BY <2>1, RefundAssumption DEF RefundsOf
  <2>3. Refunds(txns[t]) /\ Refundable(txns[o]) /\ txns[o] # NoTxn
    BY <1>1, <2>2 DEF LinksJoin, Refundable
  <2>4. \A u \in RefundsOf(o) : u \in TxnIds /\ links[u] = o /\ Refunds(txns[u]) /\ txns[u] # NoTxn
    BY <1>1, <2>2 DEF LinksJoin, RefundsOf, Refunds
  <2>5. ~Rewritten(r, o)
    <3> SUFFICES ASSUME Rewritten(r, o) PROVE FALSE
      OBVIOUS
    <3>1. job[r] # "create"
      BY <1>1, <2>3 DEF Rewritten, RequestInv
    <3>2. job[r] \notin {"edit", "bulk"}
      BY <1>5, <2>2 DEF Rewritten, TouchedOriginals
    <3>3. job[r] # "delete"
      BY <2>2 DEF Rewritten, Commit, Linking
    <3> QED BY <3>1, <3>2, <3>3 DEF Rewritten
  <2>6. ASSUME NEW u \in RefundsOf(o)' PROVE ~Rewritten(r, u)
    <3> SUFFICES ASSUME Rewritten(r, u) PROVE FALSE
      OBVIOUS
    <3>1. u \in TxnIds /\ links[u] = o /\ links'[u] = o /\ txns[u] # NoTxn
      BY <2>1, <2>4 DEF RefundsOf
    <3>2. job[r] # "create"
      BY <1>1, <3>1 DEF Rewritten, RequestInv
    <3>3. job[r] \notin {"edit", "bulk"}
      BY <1>5, <2>2, <3>1 DEF Rewritten, TouchedOriginals
    <3>4. job[r] # "delete"
      BY <2>2, <3>1 DEF Rewritten, Commit, Linking
    <3> QED BY <3>2, <3>3, <3>4 DEF Rewritten
  <2>7. View(r)[o] = txns[o] /\ \A u \in RefundsOf(o)' : View(r)[u] = txns[u]
    BY <1>1, <1>2, <2>1, <2>4, <2>5, <2>6 DEF RequestInv
  <2>8. ~Over(txns, o, RefundsOf(o))
    BY <2>1, OverIsOver DEF FitsInv, RefundsFit
  <2>9. txns[o].amount \in Int /\ \A u \in RefundsOf(o) : txns[u].amount \in Nat
    BY <1>1, <2>3, <2>4, ExpenseAmount, RefundAmount DEF TypeOK
  <2>10. ~Over(txns, o, RefundsOf(o)')
    BY <2>1, <2>8, <2>9, RefundsFinite, FewerFit
  <2> QED BY <2>7, <2>10, SameOver
<1> QED BY <1>3, <1>4, <1>5

\* A commit keeps every total
LEMMA CommitFit == ASSUME RefundInv, FitsInv, NEW r \in Requests, Commit(r) PROVE FitsInv'
<1>1. pc'[r] = "idle"
  BY DEF RefundInv, TypeOK, Commit, Release
<1>2. FitInv(r)'
  BY <1>1 DEF FitInv
<1> QED BY <1>2, CommitFits, CommitKeepsFit DEF FitsInv

\* Starting a request
LEMMA StartFit == ASSUME RefundInv, FitsInv, NEW r \in Requests, Start(r) PROVE FitsInv'
<1>1. CASE \E t, o \in TxnIds : Begin(r, "link", {t}, o)
  BY <1>1, BeginFit
<1>2. CASE \E t, o \in TxnIds : \E row \in RowsOf[t] : BeginRefund(r, t, row, o)
  BY <1>2, BeginRefundFit, RowsAreStored
<1>3. CASE \E t \in TxnIds, j \in {"unlink", "edit", "delete"} : Begin(r, j, {t}, NoTxn)
  BY <1>3, BeginFit
<1>4. CASE \E ts \in Several, j \in {"bulk", "delete"} : Begin(r, j, ts, NoTxn)
  BY <1>4, BeginFit DEF Several
<1> QED BY <1>1, <1>2, <1>3, <1>4 DEF Start

\* Every step keeps what refunds total
LEMMA NextFits == RefundInv /\ FitsInv /\ [Next]_vars => FitsInv'
<1> SUFFICES ASSUME RefundInv, FitsInv, [Next]_vars PROVE FitsInv'
  OBVIOUS
<1>1. CASE \E t \in TxnIds : \E row \in RowsOf[t] : Create(t, row)
  <2>1. PICK t \in TxnIds : \E row \in RowsOf[t] : Create(t, row)
    BY <1>1
  <2>2. PICK row \in Rows : Create(t, row)
    BY <2>1, RowsAreStored
  <2> QED BY <2>2, CreateFit
<1>2. ASSUME NEW r \in Requests, Proceed(r) PROVE FitsInv'
  <2>1. CASE GiveUp(r) \/ NotFound(r) \/ Refuse(r)
    BY <2>1, EndingFit DEF GiveUp, NotFound, Refuse
  <2> QED BY <1>2, <2>1, HoldFit, PassOverFit, HoldExpenseFit, PairFit, UnlinkDeleteFit, WriteFit, TotalFit, CommitFit
          DEF Proceed
<1>3. CASE \E r \in Requests : Start(r) \/ Proceed(r) \/ Rollback(r)
  BY <1>2, <1>3, StartFit, EndingFit DEF Rollback
<1>4. CASE UNCHANGED vars
  <2>1. UNCHANGED committed /\ \A s \in Requests : SameFor(s)
    BY <1>4 DEF vars, request, committed, SameFor
  <2> QED BY <2>1, OthersKeepFit, SameRefundsFit DEF FitsInv, RefundInv
<1> QED BY <1>1, <1>3, <1>4 DEF Next

\* Nothing is linked yet, so nothing is refunded
LEMMA InitFits == Init => FitsInv
<1> SUFFICES ASSUME Init PROVE FitsInv
  OBVIOUS
<1>1. RefundsFit
  BY RefundAssumption DEF Init, NoLinks, RefundsFit, RefundsOf
<1>2. \A r \in Requests : FitInv(r)
  BY DEF Init, FitInv
<1> QED BY <1>1, <1>2 DEF FitsInv

\* The refunds of an expense never total more than it, whatever new refunds, edits of refunds, edits of the
\* expense and deletions race (refuse_broken_links and validate_refund_original, which total under the
\* expense's lock).
THEOREM RefundsAlwaysFit == Spec => []RefundsFit
<1>1. Init => FitsInv
  BY InitFits
<1>2. RefundInv /\ FitsInv /\ [Next]_vars => FitsInv'
  BY NextFits
<1>3. FitsInv => RefundsFit
  BY DEF FitsInv
<1> QED BY <1>1, <1>2, <1>3, RefundInvariant, PTL DEF Spec

=============================================================================
