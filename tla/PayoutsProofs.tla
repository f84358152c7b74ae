---------------------------- MODULE PayoutsProofs ----------------------------
(***************************************************************************)
(* Withdrawal requests and settlements, for any number of them: paying is  *)
(* one more booked row, so the ledger's invariant and its promise carry    *)
(* over; that a payable is paid once needs the invariant that the row      *)
(* which paid it is applied, hence can never be the fresh row of a second  *)
(* payment.                                                                *)
(***************************************************************************)
EXTENDS Payouts, WalletLedgerProofs

PayoutInv == PayoutTypeOK /\ IInv /\ PaidOnce

(* One payable's part of PaidOnce.                                         *)
PaidBy(p) ==
  IF PayableRow(p).status = "PAID"
  THEN \E t \in TxId :
         /\ paidRows[p] = {t}
         /\ tx[t].status \in Applied
         /\ tx[t].wallet = PayableRow(p).wallet
         /\ tx[t].amount = PayableRow(p).amount
         /\ tx[t].kind \in {"WITHDRAW", "SETTLEMENT"}
  ELSE paidRows[p] = {}

LEMMA PaidOnceParts ==
  PaidOnce <=> /\ \A p \in Payable : PaidBy(p)
               /\ \A p, q \in Payable : p # q => paidRows[p] \cap paidRows[q] = {}
BY DEF PaidOnce, PaidBy

(* A request or settlement row, if there is one, has typed columns.        *)
LEMMA PayableTyped ==
  ASSUME PayoutTypeOK, NEW p \in Payable
  PROVE  /\ PayableRow(p) = NoRow <=> PayableRow(p).status = "ABSENT"
         /\ PayableRow(p) # NoRow =>
              /\ PayableRow(p).wallet \in Wallet
              /\ PayableRow(p).amount \in Int
              /\ PayableRow(p).status \in PayableStatus
<1>1. Amount \subseteq Int /\ SettlementAmount \subseteq Int
  BY AmountAssumption, SettlementAmountAssumption
<1>2. CASE p \in Request
  <2>1. PayableRow(p) = request[p] /\ request[p] \in RequestRow \cup {NoRow}
    BY <1>2 DEF PayableRow, PayoutTypeOK
  <2>2. CASE request[p] \in RequestRow
    <3>1. /\ request[p].wallet \in Wallet /\ request[p].amount \in Int
          /\ request[p].status \in PayableStatus
      BY <1>1, <2>2 DEF RequestRow
    <3>2. request[p].status # "ABSENT"
      BY <3>1 DEF PayableStatus
    <3> QED
      BY <2>1, <3>1, <3>2 DEF NoRow
  <2>3. CASE request[p] = NoRow
    BY <2>1, <2>3 DEF NoRow
  <2> QED
    BY <2>1, <2>2, <2>3
<1>3. CASE p \notin Request
  <2>1. /\ PayableRow(p) = settlement[p]
        /\ settlement[p] \in SettlementRow \cup {NoRow}
    BY <1>3 DEF PayableRow, PayoutTypeOK, Payable
  <2>2. CASE settlement[p] \in SettlementRow
    <3>1. /\ settlement[p].wallet \in Wallet /\ settlement[p].amount \in Int
          /\ settlement[p].status \in PayableStatus
      BY <1>1, <2>2 DEF SettlementRow
    <3>2. settlement[p].status # "ABSENT"
      BY <3>1 DEF PayableStatus
    <3> QED
      BY <2>1, <3>1, <3>2 DEF NoRow
  <2>3. CASE settlement[p] = NoRow
    BY <2>1, <2>3 DEF NoRow
  <2> QED
    BY <2>1, <2>2, <2>3
<1> QED
  BY <1>2, <1>3

-----------------------------------------------------------------------------
(* Steps that pay nothing *)

(* An applied row keeps the columns PaidBy looks at.                       *)
LEMMA AppliedKept ==
  ASSUME NEW t \in TxId, tx[t].status \in Applied, RowStep(t)
  PROVE  /\ tx'[t].status \in Applied
         /\ <<tx'[t].wallet, tx'[t].kind, tx'[t].amount>>
              = <<tx[t].wallet, tx[t].kind, tx[t].amount>>
BY DEF RowStep, Applied, AllowedTransitions

(* The ledger's own calls leave payables and paidRows alone.               *)
LEMMA LedgerPayoutStep ==
  ASSUME PayoutInv, [LedgerNext]_ledgerVars, UNCHANGED payoutVars
  PROVE  /\ PayoutInv' /\ LedgerStep
         /\ \A t \in TxId : RowStep(t)
         /\ \A p \in Payable : PayableStep(p)
<1>1. IInv' /\ LedgerStep /\ \A t \in TxId : RowStep(t)
  BY NextInvariant, StutterInvariant DEF PayoutInv
<1>2. /\ request' = request /\ settlement' = settlement /\ paidRows' = paidRows
      /\ \A p \in Payable : PayableRow(p)' = PayableRow(p)
  BY DEF payoutVars, PayableRow
<1>3. PayoutTypeOK'
  BY <1>1, <1>2 DEF PayoutInv, PayoutTypeOK, IInv
<1>4. \A p \in Payable : PaidBy(p)'
  <2> SUFFICES ASSUME NEW p \in Payable PROVE PaidBy(p)'
    OBVIOUS
  <2>1. PaidBy(p)
    BY PaidOnceParts DEF PayoutInv
  <2> QED
    BY <1>1, <1>2, <2>1, AppliedKept DEF PaidBy
<1>5. PaidOnce'
  BY <1>2, <1>4, PaidOnceParts DEF PayoutInv, PaidOnce, PaidBy
<1>6. \A p \in Payable : PayableStep(p)
  BY <1>2, PayableTyped DEF PayoutInv, PayableStep
<1> QED
  BY <1>1, <1>3, <1>5, <1>6 DEF PayoutInv

(* Opening or reviewing one payable pays nothing, provided its status      *)
(* before and after is not PAID.                                           *)
LEMMA ReviewStep ==
  ASSUME PayoutInv, NEW p \in Payable,
         UNCHANGED <<ledgerVars, paidRows>>,
         PayoutTypeOK',
         \A q \in Payable \ {p} : PayableRow(q)' = PayableRow(q),
         PayableRow(p).status # "PAID", PayableRow(p)'.status # "PAID",
         PayableStep(p)
  PROVE  /\ PayoutInv' /\ LedgerStep
         /\ \A t \in TxId : RowStep(t)
         /\ \A q \in Payable : PayableStep(q)
<1>1. IInv' /\ LedgerStep /\ \A t \in TxId : RowStep(t)
  BY StutterInvariant DEF PayoutInv
<1>2. \A q \in Payable : PaidBy(q)'
  <2> SUFFICES ASSUME NEW q \in Payable PROVE PaidBy(q)'
    OBVIOUS
  <2>1. PaidBy(q)
    BY PaidOnceParts DEF PayoutInv
  <2> QED
    BY <2>1 DEF PaidBy, ledgerVars
<1>3. PaidOnce'
  BY <1>2 DEF PayoutInv, PaidOnce, PaidBy
<1>4. \A q \in Payable : PayableStep(q)
  BY PayableTyped DEF PayoutInv, PayableStep
<1> QED
  BY <1>1, <1>3, <1>4 DEF PayoutInv

-----------------------------------------------------------------------------
(* Paying *)

(* Paying p books one row that no payable was paid by.                     *)
LEMMA PayStep ==
  ASSUME PayoutInv, NEW p \in Payable, NEW t \in TxId,
         NEW k \in {"WITHDRAW", "SETTLEMENT"},
         PayableRow(p).status = "APPROVED",
         Debit(PayableRow(p).wallet, t, k, PayableRow(p).amount),
         PayableRow(p)' = [PayableRow(p) EXCEPT !.status = "PAID"],
         \A q \in Payable \ {p} : PayableRow(q)' = PayableRow(q),
         paidRows' = [paidRows EXCEPT ![p] = @ \cup {t}],
         request' \in [Request -> RequestRow \cup {NoRow}],
         settlement' \in [Settlement -> SettlementRow \cup {NoRow}]
  PROVE  /\ PayoutInv' /\ LedgerStep
         /\ \A u \in TxId : RowStep(u)
         /\ \A q \in Payable : PayableStep(q)
<1> DEFINE w == PayableRow(p).wallet
           a == PayableRow(p).amount
<1>1. w \in Wallet /\ a \in Int /\ PayableRow(p) # NoRow
  BY PayableTyped DEF PayoutInv, NoRow
<1>2. /\ Fresh(t)
      /\ Book(w, t, k, a, balance[w] - a)
      /\ tx' = [tx EXCEPT
                  ![t] = NewRow(w, k, a, balance[w], balance[w] - a,
                                "SUCCESS", NoTx)]
  BY DEF Debit, Book
<1>3. IInv' /\ LedgerStep /\ \A u \in TxId : RowStep(u)
  <2>1. balance[w] \in Nat
    BY <1>1 DEF PayoutInv, IInv, TypeOK
  <2>2. Effect([kind |-> k, amount |-> a]) = -a
    BY DEF Effect
  <2>3. k \in Kind \ TransferKind
    BY DEF Kind, TransferKind
  <2> HIDE DEF w, a
  <2> QED
    BY <1>1, <1>2, <2>1, <2>2, <2>3, BookStep DEF PayoutInv
<1>4. /\ tx'[t].status \in Applied /\ tx'[t].wallet = w
      /\ tx'[t].amount = a /\ tx'[t].kind = k
  BY <1>2 DEF NewRow, Applied, PayoutInv, IInv, TypeOK
<1>5. /\ paidRows[p] = {}
      /\ \A q \in Payable : t \notin paidRows[q]
  <2>1. PaidBy(p) /\ \A q \in Payable : PaidBy(q)
    BY PaidOnceParts DEF PayoutInv
  <2> QED
    BY <1>2, <2>1 DEF PaidBy, Fresh, Applied
<1>6. /\ paidRows'[p] = {t}
      /\ \A q \in Payable \ {p} : paidRows'[q] = paidRows[q]
  BY <1>5 DEF PayoutInv, PayoutTypeOK
<1>7. PayoutTypeOK'
  BY <1>3 DEF PayoutInv, PayoutTypeOK, IInv
<1>8. /\ PayableRow(p)'.status = "PAID"
      /\ PayableRow(p)'.wallet = w /\ PayableRow(p)'.amount = a
      /\ PayableRow(p)' # NoRow
  BY <1>1, PayableTyped
     DEF PayoutInv, PayoutTypeOK, PayableRow, Payable, RequestRow,
         SettlementRow, NoRow
<1>9. \A q \in Payable : PaidBy(q)'
  <2>1. PaidBy(p)'
    BY <1>4, <1>6, <1>8 DEF PaidBy
  <2>2. ASSUME NEW q \in Payable \ {p} PROVE PaidBy(q)'
    <3>1. PaidBy(q)
      BY PaidOnceParts DEF PayoutInv
    <3> QED
      BY <1>3, <1>6, <3>1, AppliedKept DEF PaidBy
  <2> QED
    BY <2>1, <2>2
<1>10. \A q, r \in Payable : q # r => paidRows'[q] \cap paidRows'[r] = {}
  BY <1>5, <1>6 DEF PayoutInv, PaidOnce
<1>11. PaidOnce'
  BY <1>9, <1>10 DEF PaidOnce, PaidBy
<1>12. \A q \in Payable : PayableStep(q)
  BY <1>1, <1>8 DEF PayableStep
<1> QED
  BY <1>3, <1>7, <1>11, <1>12 DEF PayoutInv

-----------------------------------------------------------------------------
(* The specification *)

LEMMA PayoutInitInvariant == PayoutInit => PayoutInv
<1> SUFFICES ASSUME PayoutInit PROVE PayoutInv
  OBVIOUS
<1>1. IInv
  BY InitInvariant DEF PayoutInit
<1>2. PayoutTypeOK
  BY <1>1 DEF PayoutInit, PayoutTypeOK, IInv
<1>3. \A p \in Payable : PayableRow(p) = NoRow /\ paidRows[p] = {}
  BY DEF PayoutInit, PayableRow, Payable
<1>4. PaidOnce
  BY <1>3 DEF PaidOnce, NoRow
<1> QED
  BY <1>1, <1>2, <1>4 DEF PayoutInv

(* One case per operation; the conclusions are those of the three lemmas   *)
(* above.                                                                  *)
LEMMA PayoutNextInvariant ==
  ASSUME PayoutInv, Next
  PROVE  /\ PayoutInv' /\ LedgerStep
         /\ \A u \in TxId : RowStep(u)
         /\ \A p \in Payable : PayableStep(p)
<1>0. PayoutTypeOK /\ TypeOK
  BY DEF PayoutInv, PayoutTypeOK
<1>1. CASE LedgerNext /\ UNCHANGED payoutVars
  BY <1>1, LedgerPayoutStep
<1>2. ASSUME NEW r \in Request, NEW w \in Wallet, NEW a \in Amount,
             CreateRequest(r, w, a)
      PROVE  /\ PayoutInv' /\ LedgerStep
             /\ \A u \in TxId : RowStep(u)
             /\ \A p \in Payable : PayableStep(p)
  <2> DEFINE row == [wallet |-> w, amount |-> a, status |-> "PENDING"]
  <2>1. /\ request[r] = NoRow
        /\ request' = [request EXCEPT ![r] = row]
        /\ UNCHANGED <<ledgerVars, settlement, paidRows>>
    BY <1>2 DEF CreateRequest
  <2>2. row \in RequestRow
    BY DEF RequestRow, PayableStatus
  <2>3. r \in Payable /\ PayableRow(r) = NoRow /\ PayableRow(r)' = row
    BY <1>0, <2>1 DEF Payable, PayableRow, PayoutTypeOK
  <2>4. \A q \in Payable \ {r} : PayableRow(q)' = PayableRow(q)
    BY <1>0, <2>1 DEF PayableRow, PayoutTypeOK
  <2>5. PayoutTypeOK'
    BY <1>0, <2>1, <2>2 DEF PayoutTypeOK, ledgerVars, TypeOK
  <2>6. PayableStep(r)
    BY <2>3 DEF PayableStep
  <2>7. PayableRow(r).status # "PAID" /\ PayableRow(r)'.status # "PAID"
    BY <2>3 DEF NoRow
  <2> QED
    BY <2>1, <2>3, <2>4, <2>5, <2>6, <2>7, ReviewStep
<1>3. ASSUME NEW r \in Request, NEW verdict \in {"APPROVED", "REJECTED"},
             ReviewRequest(r, verdict)
      PROVE  /\ PayoutInv' /\ LedgerStep
             /\ \A u \in TxId : RowStep(u)
             /\ \A p \in Payable : PayableStep(p)
  <2> DEFINE row == [request[r] EXCEPT !.status = verdict]
  <2>1. /\ request[r].status = "PENDING"
        /\ request' = [request EXCEPT ![r] = row]
        /\ UNCHANGED <<ledgerVars, settlement, paidRows>>
    BY <1>3 DEF ReviewRequest
  <2>2. request[r] \in RequestRow
    BY <1>0, <2>1 DEF PayoutTypeOK, NoRow
  <2>3. /\ row \in RequestRow /\ row.status = verdict
        /\ row.wallet = request[r].wallet /\ row.amount = request[r].amount
        /\ row # NoRow
    BY <2>2 DEF RequestRow, PayableStatus, NoRow
  <2>4. r \in Payable /\ PayableRow(r) = request[r] /\ PayableRow(r)' = row
    BY <1>0, <2>1 DEF Payable, PayableRow, PayoutTypeOK
  <2>5. \A q \in Payable \ {r} : PayableRow(q)' = PayableRow(q)
    BY <1>0, <2>1 DEF PayableRow, PayoutTypeOK
  <2>6. PayoutTypeOK'
    BY <1>0, <2>1, <2>3 DEF PayoutTypeOK, ledgerVars, TypeOK
  <2> HIDE DEF row
  <2>7. PayableStep(r)
    BY <2>1, <2>3, <2>4 DEF PayableStep
  <2>8. PayableRow(r).status # "PAID" /\ PayableRow(r)'.status # "PAID"
    BY <2>1, <2>3, <2>4
  <2> QED
    BY <2>1, <2>4, <2>5, <2>6, <2>7, <2>8, ReviewStep
<1>4. ASSUME NEW r \in Request, NEW t \in TxId, PayRequest(r, t)
      PROVE  /\ PayoutInv' /\ LedgerStep
             /\ \A u \in TxId : RowStep(u)
             /\ \A p \in Payable : PayableStep(p)
  <2> DEFINE row == [request[r] EXCEPT !.status = "PAID"]
  <2>1. /\ request[r].status = "APPROVED"
        /\ Debit(request[r].wallet, t, "WITHDRAW", request[r].amount)
        /\ request' = [request EXCEPT ![r] = row]
        /\ paidRows' = [paidRows EXCEPT ![r] = @ \cup {t}]
        /\ settlement' = settlement
    BY <1>4 DEF PayRequest
  <2>2. row \in RequestRow
    BY <1>0, <2>1 DEF PayoutTypeOK, NoRow, RequestRow, PayableStatus
  <2>3. r \in Payable /\ PayableRow(r) = request[r] /\ PayableRow(r)' = row
    BY <1>0, <2>1 DEF Payable, PayableRow, PayoutTypeOK
  <2>4. \A q \in Payable \ {r} : PayableRow(q)' = PayableRow(q)
    BY <1>0, <2>1 DEF PayableRow, PayoutTypeOK
  <2>5. /\ request' \in [Request -> RequestRow \cup {NoRow}]
        /\ settlement' \in [Settlement -> SettlementRow \cup {NoRow}]
    BY <1>0, <2>1, <2>2 DEF PayoutTypeOK
  <2> QED
    BY <2>1, <2>3, <2>4, <2>5, PayStep
<1>5. ASSUME NEW s \in Settlement, NEW w \in Wallet,
             NEW a \in SettlementAmount, RequestSettlement(s, w, a)
      PROVE  /\ PayoutInv' /\ LedgerStep
             /\ \A u \in TxId : RowStep(u)
             /\ \A p \in Payable : PayableStep(p)
  <2> DEFINE row == [wallet |-> w, amount |-> a, status |-> "PENDING"]
  <2>1. /\ settlement[s] = NoRow
        /\ settlement' = [settlement EXCEPT ![s] = row]
        /\ UNCHANGED <<ledgerVars, request, paidRows>>
    BY <1>5 DEF RequestSettlement
  <2>2. row \in SettlementRow
    BY DEF SettlementRow, PayableStatus
  <2>3. s \in Payable /\ PayableRow(s) = NoRow /\ PayableRow(s)' = row
    BY <1>0, <2>1, PayableAssumption DEF Payable, PayableRow, PayoutTypeOK
  <2>4. \A q \in Payable \ {s} : PayableRow(q)' = PayableRow(q)
    BY <1>0, <2>1 DEF PayableRow, PayoutTypeOK, Payable
  <2>5. PayoutTypeOK'
    BY <1>0, <2>1, <2>2 DEF PayoutTypeOK, ledgerVars, TypeOK
  <2>6. PayableStep(s)
    BY <2>3 DEF PayableStep
  <2>7. PayableRow(s).status # "PAID" /\ PayableRow(s)'.status # "PAID"
    BY <2>3 DEF NoRow
  <2> QED
    BY <2>1, <2>3, <2>4, <2>5, <2>6, <2>7, ReviewStep
<1>6. ASSUME NEW s \in Settlement, ApproveSettlement(s)
      PROVE  /\ PayoutInv' /\ LedgerStep
             /\ \A u \in TxId : RowStep(u)
             /\ \A p \in Payable : PayableStep(p)
  <2> DEFINE row == [settlement[s] EXCEPT !.status = "APPROVED"]
  <2>1. /\ settlement[s].status = "PENDING"
        /\ settlement' = [settlement EXCEPT ![s] = row]
        /\ UNCHANGED <<ledgerVars, request, paidRows>>
    BY <1>6 DEF ApproveSettlement
  <2>2. settlement[s] \in SettlementRow
    BY <1>0, <2>1 DEF PayoutTypeOK, NoRow
  <2>3. /\ row \in SettlementRow /\ row.status = "APPROVED"
        /\ row.wallet = settlement[s].wallet
        /\ row.amount = settlement[s].amount /\ row # NoRow
    BY <2>2 DEF SettlementRow, PayableStatus, NoRow
  <2>4. /\ s \in Payable
        /\ PayableRow(s) = settlement[s] /\ PayableRow(s)' = row
    BY <1>0, <2>1, PayableAssumption DEF Payable, PayableRow, PayoutTypeOK
  <2>5. \A q \in Payable \ {s} : PayableRow(q)' = PayableRow(q)
    BY <1>0, <2>1 DEF PayableRow, PayoutTypeOK, Payable
  <2>6. PayoutTypeOK'
    BY <1>0, <2>1, <2>3 DEF PayoutTypeOK, ledgerVars, TypeOK
  <2> HIDE DEF row
  <2>7. PayableStep(s)
    BY <2>1, <2>3, <2>4 DEF PayableStep
  <2>8. PayableRow(s).status # "PAID" /\ PayableRow(s)'.status # "PAID"
    BY <2>1, <2>3, <2>4
  <2> QED
    BY <2>1, <2>4, <2>5, <2>6, <2>7, <2>8, ReviewStep
<1>7. ASSUME NEW s \in Settlement, NEW t \in TxId, PaySettlement(s, t)
      PROVE  /\ PayoutInv' /\ LedgerStep
             /\ \A u \in TxId : RowStep(u)
             /\ \A p \in Payable : PayableStep(p)
  <2> DEFINE row == [settlement[s] EXCEPT !.status = "PAID"]
  <2>1. /\ settlement[s].status = "APPROVED"
        /\ Debit(settlement[s].wallet, t, "SETTLEMENT", settlement[s].amount)
        /\ settlement' = [settlement EXCEPT ![s] = row]
        /\ paidRows' = [paidRows EXCEPT ![s] = @ \cup {t}]
        /\ request' = request
    BY <1>7 DEF PaySettlement
  <2>2. row \in SettlementRow
    BY <1>0, <2>1 DEF PayoutTypeOK, NoRow, SettlementRow, PayableStatus
  <2>3. /\ s \in Payable
        /\ PayableRow(s) = settlement[s] /\ PayableRow(s)' = row
    BY <1>0, <2>1, PayableAssumption DEF Payable, PayableRow, PayoutTypeOK
  <2>4. \A q \in Payable \ {s} : PayableRow(q)' = PayableRow(q)
    BY <1>0, <2>1 DEF PayableRow, PayoutTypeOK, Payable
  <2>5. /\ request' \in [Request -> RequestRow \cup {NoRow}]
        /\ settlement' \in [Settlement -> SettlementRow \cup {NoRow}]
    BY <1>0, <2>1, <2>2 DEF PayoutTypeOK
  <2> QED
    BY <2>1, <2>3, <2>4, <2>5, PayStep
<1> QED
  BY <1>1, <1>2, <1>3, <1>4, <1>5, <1>6, <1>7
     DEF Next, PayoutNext, ApproveRequest, RejectRequest

LEMMA PayoutStutter ==
  ASSUME PayoutInv, UNCHANGED vars
  PROVE  /\ PayoutInv' /\ LedgerStep
         /\ \A u \in TxId : RowStep(u)
         /\ \A p \in Payable : PayableStep(p)
BY LedgerPayoutStep DEF vars, ledgerVars, payoutVars

THEOREM PayoutInvariant == Spec => []PayoutInv
<1>1. PayoutInit => PayoutInv
  BY PayoutInitInvariant
<1>2. PayoutInv /\ [Next]_vars => PayoutInv'
  BY PayoutNextInvariant, PayoutStutter
<1> QED
  BY <1>1, <1>2, PTL DEF Spec

(* Requests, settlements and the ledger keep their types.                  *)
THEOREM PayoutTypes == Spec => []PayoutTypeOK
<1>1. PayoutInv => PayoutTypeOK
  BY DEF PayoutInv
<1> QED
  BY <1>1, PayoutInvariant, PTL

(* However often pay is called, a request or settlement is paid by one     *)
(* row, and none is paid without its row.                                  *)
THEOREM PayoutsPaidOnce == Spec => []PaidOnce
<1>1. PayoutInv => PaidOnce
  BY DEF PayoutInv
<1> QED
  BY <1>1, PayoutInvariant, PTL

(* With payouts running beside the ledger's own calls, the rows still      *)
(* explain every balance.                                                  *)
THEOREM PayoutsChained == Spec => [](LedgerChain /\ RowArithmetic)
<1>1. PayoutInv => LedgerChain /\ RowArithmetic
  BY DEF PayoutInv, IInv
<1> QED
  BY <1>1, PayoutInvariant, PTL

(* Payables are approved before they are paid and never reopened.          *)
THEOREM PayoutsLifecycle == Spec => PayableLifecycle
<1>1. PayoutInv /\ [Next]_vars => [\A p \in Payable : PayableStep(p)]_vars
  BY PayoutNextInvariant, PayoutStutter
<1> QED
  BY <1>1, PayoutInvariant, PTL DEF Spec, PayableLifecycle

(* Payouts are entries of the promised book.                               *)
THEOREM PayoutsImplementAccountBook == Spec => ImplementsAccountBook
<1>1. PayoutInit => Promise!Init
  BY InitPromise DEF PayoutInit
<1>2. PayoutInv /\ PayoutInv' /\ [Next]_vars => [Promise!Next]_Promise!vars
  BY PayoutNextInvariant, PayoutStutter, StepPromise DEF PayoutInv, IInv
<1> QED
  BY <1>1, <1>2, PayoutInvariant, PTL
     DEF Spec, ImplementsAccountBook, Promise!Spec
=============================================================================
