------------------------- MODULE WalletLedgerProofs -------------------------
(***************************************************************************)
(* The safety of WalletLedger for any set of wallets, rows and amounts.    *)
(*                                                                         *)
(* The argument: every committed call is a LedgerStep, a step that leaves  *)
(* a wallet alone or appends to its history one newly applied row that     *)
(* starts from the wallet's balance and ends at its new one, and that      *)
(* never touches the booked columns of a row applied earlier.  LedgerChain *)
(* and AppliedOnce survive every LedgerStep, whatever call took it;        *)
(* RowArithmetic and TransfersPaired are preserved call by call and need   *)
(* to know that only deposits, withdrawals and payments are ever pending.  *)
(***************************************************************************)
EXTENDS WalletLedger, SequenceTheorems, TLAPS

(* create_pending_transaction never opens a transfer, refund or            *)
(* settlement row.                                                         *)
PendingKinds ==
  \A t \in TxId : tx[t].status = "PENDING" => tx[t].kind \in PendingKind

IInv ==
  /\ TypeOK
  /\ PendingKinds
  /\ LedgerChain
  /\ AppliedOnce
  /\ RowArithmetic
  /\ TransfersPaired

-----------------------------------------------------------------------------
(* The shape of a step *)

Rests(w) == history'[w] = history[w] /\ balance'[w] = balance[w]

(* Wallet w moves to its new balance, booked by row t.                     *)
Moves(w, t) ==
  /\ history'[w] = Append(history[w], t)
  /\ tx[t].status \notin Applied
  /\ tx'[t].status \in Applied
  /\ tx'[t].wallet = w
  /\ tx'[t].before = balance[w]
  /\ tx'[t].after = balance'[w]

(* A row applied before the step is still applied, with the same columns.  *)
Kept(t) ==
  tx[t].status \in Applied =>
    /\ tx'[t].status \in Applied
    /\ <<tx'[t].wallet, tx'[t].before, tx'[t].after>>
         = <<tx[t].wallet, tx[t].before, tx[t].after>>

NoEntry == \A w \in Wallet : Rests(w)

OneEntry ==
  \E w \in Wallet :
    /\ \E t \in TxId : Moves(w, t)
    /\ \A v \in Wallet \ {w} : Rests(v)

(* Two wallets exchange money; nothing is created or lost.                 *)
TwoEntries ==
  \E s, d \in Wallet :
    /\ s # d
    /\ \E t \in TxId : Moves(s, t)
    /\ \E t \in TxId : Moves(d, t)
    /\ \A v \in Wallet \ {s, d} : Rests(v)
    /\ balance'[s] < balance[s]
    /\ balance[s] + balance[d] = balance'[s] + balance'[d]

LedgerStep ==
  /\ NoEntry \/ OneEntry \/ TwoEntries
  /\ \A t \in TxId : Kept(t)
  /\ \A t \in TxId :
       tx[t].status \notin Applied /\ tx'[t].status \in Applied =>
         \E w \in Wallet : Moves(w, t)

-----------------------------------------------------------------------------
(* What a LedgerStep preserves *)

LEMMA StepWallets ==
  ASSUME LedgerStep, NEW w \in Wallet
  PROVE  Rests(w) \/ \E t \in TxId : Moves(w, t)
BY DEF LedgerStep, NoEntry, OneEntry, TwoEntries

(* A history's last row is the one the step appended or the old last one,  *)
(* and links that were unbroken stay so: LedgerChain survives.             *)
LEMMA StepChain ==
  ASSUME TypeOK, LedgerChain, AppliedOnce, LedgerStep
  PROVE  LedgerChain'
<1>1. SUFFICES ASSUME NEW w \in Wallet
               PROVE  LET h == history'[w] IN
                 /\ h = << >> => balance'[w] = 0
                 /\ h # << >> => /\ tx'[h[1]].before = 0
                                 /\ tx'[h[Len(h)]].after = balance'[w]
                 /\ \A i \in 1..(Len(h) - 1) :
                      tx'[h[i + 1]].before = tx'[h[i]].after
  BY DEF LedgerChain
<1> DEFINE h == history[w]
<1>2. h \in Seq(TxId)
  BY DEF TypeOK
<1>3. \A i \in 1..Len(h) :
        /\ h[i] \in TxId
        /\ tx'[h[i]].before = tx[h[i]].before
        /\ tx'[h[i]].after = tx[h[i]].after
  BY <1>2 DEF AppliedOnce, LedgerStep, Kept
<1>4. /\ h = << >> => balance[w] = 0
      /\ h # << >> => tx[h[1]].before = 0 /\ tx[h[Len(h)]].after = balance[w]
      /\ \A i \in 1..(Len(h) - 1) : tx[h[i + 1]].before = tx[h[i]].after
  BY DEF LedgerChain
<1>5. CASE Rests(w)
  <2>1. history'[w] = h /\ balance'[w] = balance[w]
    BY <1>5 DEF Rests
  <2>2. h # << >> => 1 \in 1..Len(h) /\ Len(h) \in 1..Len(h)
    BY <1>2
  <2>3. \A i \in 1..(Len(h) - 1) : i \in 1..Len(h) /\ i + 1 \in 1..Len(h)
    BY <1>2
  <2> QED
    BY <1>3, <1>4, <2>1, <2>2, <2>3
<1>6. CASE \E t \in TxId : Moves(w, t)
  <2>1. PICK t \in TxId : Moves(w, t)
    BY <1>6
  <2> DEFINE g == Append(h, t)
  <2>2. /\ history'[w] = g
        /\ tx'[t].before = balance[w]
        /\ tx'[t].after = balance'[w]
    BY <2>1 DEF Moves
  <2>3. /\ Len(g) = Len(h) + 1
        /\ g[Len(h) + 1] = t
        /\ \A i \in 1..Len(h) : g[i] = h[i]
        /\ g # << >>
    BY <1>2, AppendProperties
  <2>4. Len(h) \in Nat /\ (Len(h) = 0 <=> h = << >>)
    BY <1>2
  <2>5. tx'[g[1]].before = 0
    <3>1. CASE h = << >>
      BY <3>1, <1>4, <2>2, <2>3, <2>4
    <3>2. CASE h # << >>
      <4>1. 1 \in 1..Len(h)
        BY <3>2, <2>4
      <4> QED
        BY <3>2, <4>1, <1>3, <1>4, <2>3
    <3> QED
      BY <3>1, <3>2
  <2>6. ASSUME NEW i \in 1..(Len(g) - 1)
        PROVE  tx'[g[i + 1]].before = tx'[g[i]].after
    <3>1. i \in 1..Len(h) /\ h # << >>
      BY <2>3, <2>4
    <3>2. g[i] = h[i] /\ tx'[g[i]].after = tx[h[i]].after
      BY <3>1, <2>3, <1>3
    <3>3. CASE i = Len(h)
      BY <3>1, <3>2, <3>3, <1>4, <2>2, <2>3
    <3>4. CASE i # Len(h)
      <4>1. i \in 1..(Len(h) - 1) /\ i + 1 \in 1..Len(h)
        BY <3>1, <3>4, <2>4
      <4> QED
        BY <4>1, <3>2, <1>3, <1>4, <2>3
    <3> QED
      BY <3>3, <3>4
  <2> HIDE DEF g, h
  <2> QED
    BY <2>2, <2>3, <2>5, <2>6
<1> QED
  BY <1>5, <1>6, StepWallets

(* The appended row was in no history, since it had not been applied; the  *)
(* rows in the histories keep their wallets: AppliedOnce survives.         *)
LEMMA StepOnce ==
  ASSUME TypeOK, AppliedOnce, LedgerStep
  PROVE  AppliedOnce'
<1>1. ASSUME NEW w \in Wallet, NEW i \in 1..Len(history'[w])
      PROVE  /\ tx'[history'[w][i]].wallet = w
             /\ tx'[history'[w][i]].status \in Applied
             /\ \A j \in 1..Len(history'[w]) :
                  history'[w][i] = history'[w][j] => i = j
  <2> DEFINE h == history[w]
  <2>1. h \in Seq(TxId) /\ Len(h) \in Nat
    BY DEF TypeOK
  <2>2. \A k \in 1..Len(h) :
          /\ h[k] \in TxId
          /\ tx[h[k]].wallet = w /\ tx[h[k]].status \in Applied
          /\ tx'[h[k]].wallet = w /\ tx'[h[k]].status \in Applied
          /\ \A j \in 1..Len(h) : h[k] = h[j] => k = j
    BY <2>1 DEF AppliedOnce, LedgerStep, Kept
  <2>3. CASE Rests(w)
    BY <2>2, <2>3 DEF Rests
  <2>4. CASE \E t \in TxId : Moves(w, t)
    <3>1. PICK t \in TxId : Moves(w, t)
      BY <2>4
    <3>2. /\ tx[t].status \notin Applied
          /\ tx'[t].status \in Applied
          /\ tx'[t].wallet = w
      BY <3>1 DEF Moves
    <3>3. \A k \in 1..Len(h) : h[k] # t
      BY <2>2, <3>2
    <3>4. /\ history'[w] = Append(h, t)
          /\ Len(Append(h, t)) = Len(h) + 1
          /\ Append(h, t)[Len(h) + 1] = t
          /\ \A k \in 1..Len(h) : Append(h, t)[k] = h[k]
      BY <2>1, <3>1, AppendProperties DEF Moves
    <3>5. \A k \in 1..Len(history'[w]) : k \in 1..Len(h) \/ k = Len(h) + 1
      BY <2>1, <3>4
    <3> HIDE DEF h
    <3> QED
      BY <2>1, <2>2, <3>2, <3>3, <3>4, <3>5
  <2> QED
    BY <2>3, <2>4, StepWallets
<1>2. ASSUME NEW t \in TxId, tx'[t].status \in Applied
      PROVE  \E i \in 1..Len(history'[tx'[t].wallet]) :
               history'[tx'[t].wallet][i] = t
  <2>1. CASE tx[t].status \in Applied
    <3> DEFINE w == tx[t].wallet
    <3>1. tx[t] \in Row /\ w \in Wallet
      BY <2>1 DEF TypeOK, Row, NoRow, Applied
    <3>2. tx'[t].wallet = w
      BY <2>1 DEF LedgerStep, Kept
    <3>3. PICK i \in 1..Len(history[w]) : history[w][i] = t
      BY <2>1 DEF AppliedOnce
    <3>4. history[w] \in Seq(TxId) /\ Len(history[w]) \in Nat
      BY <3>1 DEF TypeOK
    <3>5. CASE Rests(w)
      BY <3>2, <3>3, <3>5 DEF Rests
    <3>6. CASE \E u \in TxId : Moves(w, u)
      <4>1. PICK u \in TxId : history'[w] = Append(history[w], u)
        BY <3>6 DEF Moves
      <4>2. i \in 1..Len(history'[w]) /\ history'[w][i] = t
        BY <4>1, <3>3, <3>4, AppendProperties
      <4> QED
        BY <4>2, <3>2
    <3> QED
      BY <3>1, <3>5, <3>6, StepWallets
  <2>2. CASE tx[t].status \notin Applied
    <3>1. PICK w \in Wallet : Moves(w, t)
      BY <1>2, <2>2 DEF LedgerStep
    <3>2. /\ history[w] \in Seq(TxId) /\ Len(history[w]) \in Nat
          /\ history'[w] = Append(history[w], t)
          /\ tx'[t].wallet = w
      BY <3>1 DEF TypeOK, Moves
    <3>3. /\ Len(history[w]) + 1 \in 1..Len(history'[w])
          /\ history'[w][Len(history[w]) + 1] = t
      BY <3>2, AppendProperties
    <3> QED
      BY <3>2, <3>3
  <2> QED
    BY <2>1, <2>2
<1> QED
  BY <1>1, <1>2 DEF AppliedOnce

(* LedgerStep carries the two history invariants, so a call is left to     *)
(* show the other four parts.                                              *)
LEMMA StepInvariant ==
  ASSUME IInv, LedgerStep,
         TypeOK', PendingKinds', RowArithmetic', TransfersPaired'
  PROVE  IInv'
BY StepChain, StepOnce DEF IInv

-----------------------------------------------------------------------------
(* Facts about rows *)

(* A primary key is either unused or holds a row with typed columns.       *)
LEMMA RowTyped ==
  ASSUME TypeOK, NEW t \in TxId
  PROVE  /\ Fresh(t) <=> tx[t] = NoRow
         /\ ~Fresh(t) =>
              /\ tx[t] \in Row
              /\ tx[t].wallet \in Wallet /\ tx[t].kind \in Kind
              /\ tx[t].amount \in Int /\ tx[t].before \in Nat
              /\ tx[t].after \in Nat /\ tx[t].status \in Status
              /\ tx[t].ref \in TxId \cup {NoTx}
BY DEF TypeOK, Row, NoRow, Status, Fresh

(* A balance some caller may still hold is a balance.                      *)
LEMMA SeenTyped ==
  ASSUME TypeOK, AppliedOnce, NEW w \in Wallet
  PROVE  SeenBalances(w) \subseteq Nat
<1>1. ASSUME NEW i \in 1..Len(history[w])
      PROVE  tx[history[w][i]].after \in Nat
  <2>1. history[w][i] \in TxId
    BY DEF TypeOK
  <2>2. ~Fresh(history[w][i])
    BY DEF AppliedOnce, Applied, Fresh
  <2> QED
    BY <2>1, <2>2, RowTyped
<1> QED
  BY <1>1 DEF SeenBalances, TypeOK

-----------------------------------------------------------------------------
(* The calls *)

(* Deposits, withdrawals, manual refunds and payouts: one new SUCCESS row  *)
(* of a kind that is no transfer leg, whose effect the new balance shows.  *)
LEMMA BookStep ==
  ASSUME IInv,
         NEW w \in Wallet, NEW t \in TxId, NEW k \in Kind \ TransferKind,
         NEW a \in Int, NEW after \in Int,
         after = balance[w] + Effect([kind |-> k, amount |-> a]),
         Book(w, t, k, a, after)
  PROVE  IInv' /\ LedgerStep /\ \A u \in TxId : RowStep(u)
<1> DEFINE row == NewRow(w, k, a, balance[w], after, "SUCCESS", NoTx)
<1>1. /\ tx[t].status = "ABSENT"
      /\ after \in Nat /\ balance[w] \in Nat
      /\ balance' = [balance EXCEPT ![w] = after]
      /\ tx' = [tx EXCEPT ![t] = row]
      /\ history' = [history EXCEPT ![w] = Append(@, t)]
  BY DEF Book, Fresh, IInv, TypeOK
<1>2. row \in Row
  BY <1>1 DEF NewRow, Row, Status
<1>3. tx'[t] = row /\ \A u \in TxId \ {t} : tx'[u] = tx[u]
  BY <1>1 DEF IInv, TypeOK
<1>4. /\ row.wallet = w /\ row.kind = k /\ row.amount = a
      /\ row.before = balance[w] /\ row.after = after
      /\ row.status = "SUCCESS"
  BY DEF NewRow
<1> HIDE DEF row
<1>5. TypeOK'
  <2>1. history' \in [Wallet -> Seq(TxId)]
    BY <1>1, AppendProperties DEF IInv, TypeOK
  <2> QED
    BY <1>1, <1>2, <2>1 DEF IInv, TypeOK
<1>6. LedgerStep
  <2>1. Moves(w, t)
    BY <1>1, <1>3, <1>4 DEF Moves, Applied, IInv, TypeOK
  <2>2. \A v \in Wallet \ {w} : Rests(v)
    BY <1>1 DEF Rests, IInv, TypeOK
  <2>3. \A u \in TxId : Kept(u)
    BY <1>1, <1>3 DEF Kept, Applied
  <2> QED
    BY <1>3, <2>1, <2>2, <2>3 DEF LedgerStep, OneEntry
<1>7. PendingKinds'
  BY <1>3, <1>4 DEF IInv, PendingKinds
<1>8. RowArithmetic'
  <2>1. row.after = row.before + Effect(row)
    BY <1>1, <1>4 DEF Effect
  <2> QED
    BY <1>3, <2>1 DEF IInv, RowArithmetic, Effect
<1>9. TransfersPaired'
  <2> SUFFICES ASSUME NEW u \in TxId, tx'[u].status \in Applied,
                      tx'[u].kind \in TransferKind
               PROVE  Paired(u)'
    BY DEF TransfersPaired, Paired
  <2>1. u # t /\ tx'[u] = tx[u]
    BY <1>3, <1>4 DEF TransferKind
  <2>2. tx[u].ref # t
    BY <1>1, <2>1 DEF IInv, TransfersPaired, Paired, Applied
  <2> QED
    BY <1>3, <2>1, <2>2 DEF IInv, TransfersPaired, Paired
<1>10. \A u \in TxId : RowStep(u)
  BY <1>1, <1>3 DEF RowStep, Applied
<1> QED
  BY <1>5, <1>6, <1>7, <1>8, <1>9, <1>10, StepInvariant

(* A transfer moves both wallets; its two rows pair with each other.       *)
LEMMA TransferStep ==
  ASSUME IInv,
         NEW s \in Wallet, NEW d \in Wallet, NEW out \in TxId,
         NEW in \in TxId, NEW a \in Amount,
         Transfer(s, d, out, in, a)
  PROVE  IInv' /\ LedgerStep /\ \A u \in TxId : RowStep(u)
<1> DEFINE src == NewRow(s, "TRANSFER_OUT", a, balance[s], balance[s] - a,
                         "SUCCESS", in)
           dst == NewRow(d, "TRANSFER_IN", a, balance[d], balance[d] + a,
                         "SUCCESS", out)
<1>1. /\ s # d /\ out # in
      /\ tx[out].status = "ABSENT" /\ tx[in].status = "ABSENT"
      /\ balance' = [balance EXCEPT ![s] = @ - a, ![d] = @ + a]
      /\ tx' = [tx EXCEPT ![out] = src, ![in] = dst]
      /\ history' = [history EXCEPT ![s] = Append(@, out),
                                    ![d] = Append(@, in)]
  BY DEF Transfer, Fresh
<1>2. /\ a \in Nat /\ a > 0
      /\ balance[s] \in Nat /\ balance[s] - a \in Nat
      /\ balance[d] \in Nat /\ balance[d] + a \in Nat
  BY AmountAssumption DEF Transfer, IInv, TypeOK
<1>3. src \in Row /\ dst \in Row
  BY <1>2 DEF NewRow, Row, Status, Kind
<1>4. /\ tx'[out] = src /\ tx'[in] = dst
      /\ \A u \in TxId \ {out, in} : tx'[u] = tx[u]
  BY <1>1 DEF IInv, TypeOK
<1>5. /\ src.wallet = s /\ src.kind = "TRANSFER_OUT" /\ src.amount = a
      /\ src.before = balance[s] /\ src.after = balance[s] - a
      /\ src.status = "SUCCESS" /\ src.ref = in
      /\ dst.wallet = d /\ dst.kind = "TRANSFER_IN" /\ dst.amount = a
      /\ dst.before = balance[d] /\ dst.after = balance[d] + a
      /\ dst.status = "SUCCESS" /\ dst.ref = out
  BY DEF NewRow
<1> HIDE DEF src, dst
<1>6. TypeOK'
  <2>1. history' \in [Wallet -> Seq(TxId)]
    BY <1>1, AppendProperties DEF IInv, TypeOK
  <2> QED
    BY <1>1, <1>2, <1>3, <2>1 DEF IInv, TypeOK
<1>7. LedgerStep
  <2>1. Moves(s, out) /\ Moves(d, in)
    BY <1>1, <1>4, <1>5 DEF Moves, Applied, IInv, TypeOK
  <2>2. \A v \in Wallet \ {s, d} : Rests(v)
    BY <1>1 DEF Rests, IInv, TypeOK
  <2>3. \A u \in TxId : Kept(u)
    BY <1>1, <1>4 DEF Kept, Applied
  <2>4. /\ balance'[s] < balance[s]
        /\ balance[s] + balance[d] = balance'[s] + balance'[d]
    BY <1>1, <1>2 DEF IInv, TypeOK
  <2>5. TwoEntries
    BY <1>1, <2>1, <2>2, <2>4 DEF TwoEntries
  <2> QED
    BY <1>4, <2>1, <2>3, <2>5 DEF LedgerStep
<1>8. PendingKinds'
  BY <1>4, <1>5 DEF IInv, PendingKinds
<1>9. RowArithmetic'
  <2>1. src.after = src.before + Effect(src) /\ dst.after = dst.before + Effect(dst)
    BY <1>2, <1>5 DEF Effect
  <2> QED
    BY <1>4, <2>1 DEF IInv, RowArithmetic, Effect
<1>10. TransfersPaired'
  <2> SUFFICES ASSUME NEW u \in TxId, tx'[u].status \in Applied,
                      tx'[u].kind \in TransferKind
               PROVE  Paired(u)'
    BY DEF TransfersPaired, Paired
  <2>1. CASE u \in {out, in}
    BY <1>1, <1>4, <1>5, <2>1 DEF Applied, Paired, TransferKind
  <2>2. CASE u \notin {out, in}
    <3>1. tx'[u] = tx[u]
      BY <1>4, <2>2
    <3>2. tx[u].ref \notin {out, in}
      BY <1>1, <3>1 DEF IInv, TransfersPaired, Paired, Applied
    <3> QED
      BY <1>4, <3>1, <3>2 DEF IInv, TransfersPaired, Paired
  <2> QED
    BY <2>1, <2>2
<1>11. \A u \in TxId : RowStep(u)
  BY <1>1, <1>4 DEF RowStep, Applied
<1> QED
  BY <1>6, <1>7, <1>8, <1>9, <1>10, <1>11, StepInvariant

(* A step that leaves every wallet alone and changes one row that neither  *)
(* was nor becomes applied.                                                *)
LEMMA QuietStep ==
  ASSUME IInv,
         NEW t \in TxId, NEW row \in Row,
         tx' = [tx EXCEPT ![t] = row],
         UNCHANGED <<balance, history>>,
         tx[t].status \notin Applied, row.status \notin Applied,
         row.status = "PENDING" => row.kind \in PendingKind
  PROVE  IInv' /\ LedgerStep
<1>1. tx'[t] = row /\ \A u \in TxId \ {t} : tx'[u] = tx[u]
  BY DEF IInv, TypeOK
<1>2. TypeOK'
  BY DEF IInv, TypeOK
<1>3. LedgerStep
  BY <1>1 DEF LedgerStep, NoEntry, Rests, Kept
<1>4. PendingKinds'
  BY <1>1 DEF IInv, PendingKinds
<1>5. RowArithmetic'
  BY <1>1 DEF IInv, RowArithmetic, Effect
<1>6. TransfersPaired'
  <2> SUFFICES ASSUME NEW u \in TxId, tx'[u].status \in Applied,
                      tx'[u].kind \in TransferKind
               PROVE  Paired(u)'
    BY DEF TransfersPaired, Paired
  <2>1. tx'[u] = tx[u] /\ Paired(u)
    BY <1>1 DEF IInv, TransfersPaired
  <2>2. tx[u].ref # t
    BY <2>1 DEF Paired
  <2> QED
    BY <1>1, <2>1, <2>2 DEF Paired
<1> QED
  BY <1>2, <1>3, <1>4, <1>5, <1>6, StepInvariant

LEMMA CreatePendingStep ==
  ASSUME IInv,
         NEW w \in Wallet, NEW t \in TxId, NEW k \in PendingKind,
         NEW a \in Amount, CreatePending(w, t, k, a)
  PROVE  IInv' /\ LedgerStep /\ \A u \in TxId : RowStep(u)
<1>1. PICK b \in SeenBalances(w) :
        tx' = [tx EXCEPT ![t] = NewRow(w, k, a, b, b, "PENDING", NoTx)]
  BY DEF CreatePending
<1> DEFINE row == NewRow(w, k, a, b, b, "PENDING", NoTx)
<1>2. row \in Row /\ row.status = "PENDING" /\ row.kind = k
  <2>1. b \in Nat /\ a \in Int
    BY SeenTyped, AmountAssumption DEF IInv
  <2> QED
    BY <2>1 DEF NewRow, Row, Kind, PendingKind, Status
<1>3. tx[t].status = "ABSENT" /\ UNCHANGED <<balance, history>>
  BY DEF CreatePending, Fresh
<1>4. tx' = [tx EXCEPT ![t] = row]
  BY <1>1
<1> HIDE DEF row
<1>5. IInv' /\ LedgerStep
  BY <1>2, <1>3, <1>4, QuietStep DEF Applied
<1>6. \A u \in TxId : RowStep(u)
  BY <1>3, <1>4 DEF RowStep, Applied, IInv, TypeOK
<1> QED
  BY <1>5, <1>6

LEMMA FailPendingStep ==
  ASSUME IInv, NEW t \in TxId, NEW s \in Failure, FailPending(t, s)
  PROVE  IInv' /\ LedgerStep /\ \A u \in TxId : RowStep(u)
<1> DEFINE row == [tx[t] EXCEPT !.status = s]
<1>1. /\ tx[t] \in Row /\ tx[t].status = "PENDING"
      /\ UNCHANGED <<balance, history>>
  BY RowTyped DEF FailPending, IInv, Fresh
<1>2. row \in Row /\ row.status = s /\ row.kind = tx[t].kind
  BY <1>1 DEF Row, Failure, Status
<1>3. tx' = [tx EXCEPT ![t] = row]
  BY DEF FailPending, IInv, TypeOK
<1>4. /\ row.wallet = tx[t].wallet /\ row.amount = tx[t].amount
      /\ row.ref = tx[t].ref
  BY <1>1 DEF Row
<1> HIDE DEF row
<1>5. IInv' /\ LedgerStep
  BY <1>1, <1>2, <1>3, QuietStep DEF Applied, Failure
<1>6. \A u \in TxId : RowStep(u)
  <2>1. RowStep(t)
    <3>1. tx'[t] = row
      BY <1>3 DEF IInv, TypeOK
    <3> QED
      BY <1>1, <1>2, <1>4, <3>1
         DEF RowStep, Applied, Failure, AllowedTransitions
  <2>2. \A u \in TxId \ {t} : RowStep(u)
    BY <1>3 DEF RowStep, IInv, TypeOK
  <2> QED
    BY <2>1, <2>2
<1> QED
  BY <1>5, <1>6

(* A pending row is applied from the balance the wallet has now; its kind  *)
(* is a PendingKind, so it is no transfer leg and SettledBalance agrees    *)
(* with its Effect.                                                        *)
LEMMA SettlePendingStep ==
  ASSUME IInv, NEW t \in TxId, SettlePending(t)
  PROVE  IInv' /\ LedgerStep /\ \A u \in TxId : RowStep(u)
<1> DEFINE w == tx[t].wallet
           row == [tx[t] EXCEPT !.before = balance[w],
                                !.after = SettledBalance(t),
                                !.status = "SUCCESS"]
<1>1. /\ tx[t] \in Row /\ tx[t].status = "PENDING"
      /\ tx[t].kind \in PendingKind
      /\ w \in Wallet /\ tx[t].amount \in Int /\ balance[w] \in Nat
  BY RowTyped DEF SettlePending, IInv, Fresh, PendingKinds, TypeOK
<1>2. SettledBalance(t) = balance[w] + Effect(tx[t])
  BY <1>1 DEF SettledBalance, Effect, PendingKind
<1>3. Effect(tx[t]) \in Int
  BY <1>1 DEF Effect, PendingKind
<1>4. SettledBalance(t) \in Nat
  BY <1>1, <1>2, <1>3 DEF SettlePending
<1>5. /\ balance' = [balance EXCEPT ![w] = SettledBalance(t)]
      /\ tx' = [tx EXCEPT ![t] = row]
      /\ history' = [history EXCEPT ![w] = Append(@, t)]
  BY <1>1 DEF SettlePending, SettleRow, IInv, TypeOK
<1>6. /\ row \in Row
      /\ row.wallet = w /\ row.kind = tx[t].kind /\ row.amount = tx[t].amount
      /\ row.ref = tx[t].ref /\ row.before = balance[w]
      /\ row.after = SettledBalance(t) /\ row.status = "SUCCESS"
  BY <1>1, <1>4 DEF Row, Status
<1> HIDE DEF row
<1>7. tx'[t] = row /\ \A u \in TxId \ {t} : tx'[u] = tx[u]
  BY <1>5 DEF IInv, TypeOK
<1>8. TypeOK'
  <2>1. history' \in [Wallet -> Seq(TxId)]
    BY <1>1, <1>5, AppendProperties DEF IInv, TypeOK
  <2> QED
    BY <1>4, <1>5, <1>6, <2>1 DEF IInv, TypeOK
<1>9. LedgerStep
  <2>1. Moves(w, t)
    BY <1>1, <1>5, <1>6, <1>7 DEF Moves, Applied, IInv, TypeOK
  <2>2. \A v \in Wallet \ {w} : Rests(v)
    BY <1>5 DEF Rests, IInv, TypeOK
  <2>3. \A u \in TxId : Kept(u)
    BY <1>1, <1>7 DEF Kept, Applied
  <2> QED
    BY <1>1, <1>7, <2>1, <2>2, <2>3 DEF LedgerStep, OneEntry
<1>10. PendingKinds'
  BY <1>6, <1>7 DEF IInv, PendingKinds
<1>11. RowArithmetic'
  <2>1. Effect(row) = Effect(tx[t])
    BY <1>6 DEF Effect
  <2>2. row.after = row.before + Effect(row)
    BY <1>2, <1>6, <2>1
  <2> QED
    BY <1>7, <2>2 DEF IInv, RowArithmetic, Effect
<1>12. TransfersPaired'
  <2> SUFFICES ASSUME NEW u \in TxId, tx'[u].status \in Applied,
                      tx'[u].kind \in TransferKind
               PROVE  Paired(u)'
    BY DEF TransfersPaired, Paired
  <2>1. u # t
    BY <1>1, <1>6, <1>7 DEF PendingKind, TransferKind
  <2>2. tx'[u] = tx[u] /\ Paired(u) /\ tx[u].ref # t
    BY <1>1, <1>7, <2>1 DEF IInv, TransfersPaired, Paired, Applied
  <2> QED
    BY <1>7, <2>2 DEF Paired
<1>13. \A u \in TxId : RowStep(u)
  BY <1>1, <1>6, <1>7 DEF RowStep, Applied, AllowedTransitions
<1> QED
  BY <1>8, <1>9, <1>10, <1>11, <1>12, <1>13, StepInvariant

(* A refund books a new row and retires its source, which stays applied.   *)
LEMMA RefundSourceStep ==
  ASSUME IInv,
         NEW src \in TxId, NEW w \in Wallet, NEW t \in TxId, NEW a \in Amount,
         RefundSource(src, w, t, a)
  PROVE  IInv' /\ LedgerStep /\ \A u \in TxId : RowStep(u)
<1> DEFINE row == NewRow(w, "REFUND", a, balance[w], balance[w] + a,
                         "SUCCESS", NoTx)
           old == [tx[src] EXCEPT !.status = "REFUNDED"]
<1>1. /\ tx[src] \in Row /\ tx[src].status = "SUCCESS"
      /\ tx[t].status = "ABSENT" /\ src # t
      /\ balance[w] \in Nat /\ a \in Nat
      /\ balance' = [balance EXCEPT ![w] = balance[w] + a]
      /\ history' = [history EXCEPT ![w] = Append(@, t)]
  BY RowTyped, AmountAssumption DEF RefundSource, IInv, Fresh, TypeOK
<1>2. tx' = [tx EXCEPT ![t] = row, ![src] = old]
  BY <1>1 DEF RefundSource, IInv, TypeOK
<1>3. row \in Row /\ old \in Row
  BY <1>1 DEF Row, NewRow, Status, Kind
<1>4. /\ row.wallet = w /\ row.kind = "REFUND" /\ row.amount = a
      /\ row.before = balance[w] /\ row.after = balance[w] + a
      /\ row.status = "SUCCESS"
      /\ old.wallet = tx[src].wallet /\ old.kind = tx[src].kind
      /\ old.amount = tx[src].amount /\ old.ref = tx[src].ref
      /\ old.before = tx[src].before /\ old.after = tx[src].after
      /\ old.status = "REFUNDED"
  BY <1>1 DEF NewRow, Row
<1> HIDE DEF row, old
<1>5. /\ tx'[t] = row /\ tx'[src] = old
      /\ \A u \in TxId \ {t, src} : tx'[u] = tx[u]
  BY <1>1, <1>2 DEF IInv, TypeOK
<1>6. TypeOK'
  <2>1. history' \in [Wallet -> Seq(TxId)]
    BY <1>1, AppendProperties DEF IInv, TypeOK
  <2>2. balance' \in [Wallet -> Nat]
    BY <1>1 DEF IInv, TypeOK
  <2>3. tx' \in [TxId -> Row \cup {NoRow}]
    BY <1>2, <1>3 DEF IInv, TypeOK
  <2> QED
    BY <2>1, <2>2, <2>3 DEF TypeOK
<1>7. LedgerStep
  <2>1. Moves(w, t)
    BY <1>1, <1>4, <1>5 DEF Moves, Applied, IInv, TypeOK
  <2>2. \A v \in Wallet \ {w} : Rests(v)
    BY <1>1 DEF Rests, IInv, TypeOK
  <2>3. \A u \in TxId : Kept(u)
    BY <1>1, <1>4, <1>5 DEF Kept, Applied
  <2> QED
    BY <1>1, <1>5, <2>1, <2>2, <2>3 DEF LedgerStep, OneEntry, Applied
<1>8. PendingKinds'
  BY <1>4, <1>5 DEF IInv, PendingKinds
<1>9. RowArithmetic'
  <2>1. row.after = row.before + Effect(row)
    BY <1>1, <1>4 DEF Effect
  <2>2. old.after = old.before + Effect(old)
    <3>1. Effect(old) = Effect(tx[src])
      BY <1>4 DEF Effect
    <3>2. tx[src].after = tx[src].before + Effect(tx[src])
      BY <1>1 DEF IInv, RowArithmetic, Applied
    <3> QED
      BY <1>4, <3>1, <3>2
  <2> QED
    BY <1>5, <2>1, <2>2 DEF IInv, RowArithmetic, Effect
<1>10. TransfersPaired'
  <2> SUFFICES ASSUME NEW u \in TxId, tx'[u].status \in Applied,
                      tx'[u].kind \in TransferKind
               PROVE  Paired(u)'
    BY DEF TransfersPaired, Paired
  <2>1. /\ u # t
        /\ tx[u].status \in Applied
        /\ <<tx'[u].wallet, tx'[u].kind, tx'[u].amount, tx'[u].ref>>
             = <<tx[u].wallet, tx[u].kind, tx[u].amount, tx[u].ref>>
    BY <1>1, <1>4, <1>5 DEF TransferKind, Applied
  <2>2. Paired(u) /\ tx[u].kind \in TransferKind
    BY <2>1 DEF IInv, TransfersPaired
  <2> DEFINE v == tx[u].ref
  <2>3. v \in TxId /\ v # t /\ tx[v].status \in Applied
    BY <1>1, <2>1, <2>2 DEF Paired, Applied
  <2>4. /\ tx'[v].status \in Applied
        /\ <<tx'[v].wallet, tx'[v].kind, tx'[v].amount, tx'[v].ref>>
             = <<tx[v].wallet, tx[v].kind, tx[v].amount, tx[v].ref>>
    BY <1>1, <1>4, <1>5, <2>3 DEF Applied
  <2> QED
    BY <2>1, <2>2, <2>3, <2>4 DEF Paired
<1>11. \A u \in TxId : RowStep(u)
  BY <1>1, <1>4, <1>5 DEF RowStep, Applied, AllowedTransitions
<1> QED
  BY <1>6, <1>7, <1>8, <1>9, <1>10, <1>11, StepInvariant

-----------------------------------------------------------------------------
(* The specification *)

LEMMA InitInvariant == Init => IInv
<1> SUFFICES ASSUME Init PROVE IInv
  OBVIOUS
<1>1. \A t \in TxId : tx[t].status = "ABSENT"
  BY DEF Init, NoRow
<1>2. TypeOK
  <2>1. << >> \in Seq(TxId)
    OBVIOUS
  <2> QED
    BY <2>1 DEF Init, TypeOK
<1>3. LedgerChain /\ AppliedOnce
  BY <1>1 DEF Init, LedgerChain, AppliedOnce, Applied
<1>4. PendingKinds
  BY <1>1 DEF PendingKinds
<1>5. RowArithmetic
  BY <1>1 DEF RowArithmetic, Applied
<1>6. TransfersPaired
  BY <1>1 DEF TransfersPaired, Paired, Applied
<1> QED
  BY <1>2, <1>3, <1>4, <1>5, <1>6 DEF IInv

(* Every call preserves the invariant and moves every row along its life   *)
(* cycle.                                                                  *)
LEMMA NextInvariant ==
  ASSUME IInv, LedgerNext
  PROVE  IInv' /\ LedgerStep /\ \A u \in TxId : RowStep(u)
<1>1. CASE \E w \in Wallet, t \in TxId, a \in Amount :
             Deposit(w, t, a) \/ RefundManual(w, t, a)
  <2>1. PICK w \in Wallet, t \in TxId, a \in Amount :
          Deposit(w, t, a) \/ RefundManual(w, t, a)
    BY <1>1
  <2>2. PICK k \in {"DEPOSIT", "REFUND"} : Book(w, t, k, a, balance[w] + a)
    BY <2>1 DEF Deposit, RefundManual, Credit
  <2>3. balance[w] \in Nat /\ a \in Nat
    BY AmountAssumption DEF IInv, TypeOK
  <2>4. Effect([kind |-> k, amount |-> a]) = a
    BY DEF Effect
  <2>5. k \in Kind \ TransferKind
    BY DEF Kind, TransferKind
  <2> QED
    BY <2>2, <2>3, <2>4, <2>5, BookStep
<1>2. CASE \E w \in Wallet, t \in TxId, a \in Amount : Withdraw(w, t, a)
  <2>1. PICK w \in Wallet, t \in TxId, a \in Amount : Withdraw(w, t, a)
    BY <1>2
  <2>2. Book(w, t, "WITHDRAW", a, balance[w] - a)
    BY <2>1 DEF Withdraw, Debit
  <2>3. balance[w] \in Nat /\ a \in Nat
    BY AmountAssumption DEF IInv, TypeOK
  <2>4. Effect([kind |-> "WITHDRAW", amount |-> a]) = -a
    BY DEF Effect
  <2>5. "WITHDRAW" \in Kind \ TransferKind
    BY DEF Kind, TransferKind
  <2> QED
    BY <2>2, <2>3, <2>4, <2>5, BookStep
<1>3. CASE \E w \in Wallet, t \in TxId, a \in Amount, k \in PendingKind :
             CreatePending(w, t, k, a)
  BY <1>3, CreatePendingStep
<1>4. CASE \E w \in Wallet, t \in TxId, a \in Amount, src \in TxId :
             RefundSource(src, w, t, a)
  BY <1>4, RefundSourceStep
<1>5. CASE \E s, d \in Wallet, out, in \in TxId, a \in Amount :
             Transfer(s, d, out, in, a)
  BY <1>5, TransferStep
<1>6. CASE \E t \in TxId : SettlePending(t)
  BY <1>6, SettlePendingStep
<1>7. CASE \E t \in TxId, s \in Failure : FailPending(t, s)
  BY <1>7, FailPendingStep
<1> QED
  BY <1>1, <1>2, <1>3, <1>4, <1>5, <1>6, <1>7 DEF LedgerNext

(* A step that changes nothing.                                            *)
LEMMA StutterInvariant ==
  ASSUME IInv, UNCHANGED ledgerVars
  PROVE  IInv' /\ LedgerStep /\ \A u \in TxId : RowStep(u)
<1>1. TypeOK' /\ PendingKinds'
  BY DEF IInv, ledgerVars, TypeOK, PendingKinds
<1>2. LedgerChain' /\ AppliedOnce'
  BY DEF IInv, ledgerVars, LedgerChain, AppliedOnce
<1>3. RowArithmetic'
  BY DEF IInv, ledgerVars, RowArithmetic, Effect
<1>4. TransfersPaired'
  BY DEF IInv, ledgerVars, TransfersPaired, Paired
<1>5. LedgerStep
  BY DEF ledgerVars, LedgerStep, NoEntry, Rests, Kept
<1>6. \A u \in TxId : RowStep(u)
  BY DEF ledgerVars, RowStep
<1> QED
  BY <1>1, <1>2, <1>3, <1>4, <1>5, <1>6 DEF IInv

(* The whole invariant, for every reachable state of the ledger.           *)
THEOREM LedgerInvariant == LedgerSpec => []IInv
<1>1. Init => IInv
  BY InitInvariant
<1>2. IInv /\ [LedgerNext]_ledgerVars => IInv'
  BY NextInvariant, StutterInvariant
<1> QED
  BY <1>1, <1>2, PTL DEF LedgerSpec

(* Balances never become negative and every column keeps its type:         *)
(* Wallet.clean's "balance cannot be negative" without the database's      *)
(* help.                                                                   *)
THEOREM LedgerTypes == LedgerSpec => []TypeOK
<1>1. IInv => TypeOK
  BY DEF IInv
<1> QED
  BY <1>1, LedgerInvariant, PTL

(* The rows of a wallet explain its balance without a gap.                 *)
THEOREM LedgerChained == LedgerSpec => []LedgerChain
<1>1. IInv => LedgerChain
  BY DEF IInv
<1> QED
  BY <1>1, LedgerInvariant, PTL

(* No call, however often repeated, applies a row twice.                   *)
THEOREM LedgerAppliedOnce == LedgerSpec => []AppliedOnce
<1>1. IInv => AppliedOnce
  BY DEF IInv
<1> QED
  BY <1>1, LedgerInvariant, PTL

(* before and after differ by the amount, in the kind's direction.         *)
THEOREM LedgerArithmetic == LedgerSpec => []RowArithmetic
<1>1. IInv => RowArithmetic
  BY DEF IInv
<1> QED
  BY <1>1, LedgerInvariant, PTL

(* Transfers are booked on both wallets or on neither.                     *)
THEOREM LedgerTransfersPaired == LedgerSpec => []TransfersPaired
<1>1. IInv => TransfersPaired
  BY DEF IInv
<1> QED
  BY <1>1, LedgerInvariant, PTL

(* Rows follow ALLOWED_TRANSITIONS and keep what was booked.               *)
THEOREM LedgerRowLifecycle == LedgerSpec => RowLifecycle
<1>1. IInv /\ [LedgerNext]_ledgerVars => [\A t \in TxId : RowStep(t)]_ledgerVars
  BY NextInvariant, StutterInvariant
<1> QED
  BY <1>1, LedgerInvariant, PTL DEF LedgerSpec, RowLifecycle

-----------------------------------------------------------------------------
(* The promise *)

(* Append, seen as a function.                                             *)
LEMMA AppendFunction ==
  ASSUME NEW S, NEW n \in Nat, NEW f \in [1..n -> S], NEW e \in S
  PROVE  Append(f, e) = [i \in 1..(n + 1) |-> IF i = n + 1 THEN e ELSE f[i]]
<1>1. f \in Seq(S)
  BY SeqDef
<1>2. Len(f) = n
  BY <1>1, LenProperties
<1>3. /\ Append(f, e) \in [1..(n + 1) -> S]
      /\ Append(f, e)[n + 1] = e
      /\ \A i \in 1..n : Append(f, e)[i] = f[i]
  <2>1. /\ Append(f, e) \in Seq(S)
        /\ Len(Append(f, e)) = n + 1
        /\ Append(f, e)[n + 1] = e
        /\ \A i \in 1..n : Append(f, e)[i] = f[i]
    BY <1>1, <1>2, AppendProperties
  <2> QED
    BY <2>1, LenProperties
<1>4. \A i \in 1..(n + 1) : i \in 1..n \/ i = n + 1
  OBVIOUS
<1> QED
  BY <1>3, <1>4

(* A LedgerStep appends to the books of the wallets that move the entry    *)
(* the promise prescribes, and leaves every other book alone.              *)
LEMMA StepBook ==
  ASSUME TypeOK, TypeOK', AppliedOnce, LedgerStep, NEW w \in Wallet
  PROVE  /\ Rests(w) => BookOf'[w] = BookOf[w]
         /\ (\E t \in TxId : Moves(w, t)) =>
              BookOf'[w] = Append(BookOf[w], Promise!EntryFor(w, balance'))
<1> DEFINE h == history[w]
           entry(r) == [before |-> r.before, after |-> r.after]
<1>1. h \in Seq(TxId) /\ Len(h) \in Nat
  BY DEF TypeOK
<1>2. \A i \in 1..Len(h) : entry(tx'[h[i]]) = entry(tx[h[i]])
  BY <1>1 DEF AppliedOnce, LedgerStep, Kept
<1>3. BookOf[w] = [i \in 1..Len(h) |-> entry(tx[h[i]])]
  BY DEF BookOf
<1>4. BookOf'[w] = [i \in 1..Len(history'[w]) |-> entry(tx'[history'[w][i]])]
  BY DEF BookOf
<1>5. ASSUME Rests(w) PROVE BookOf'[w] = BookOf[w]
  BY <1>2, <1>3, <1>4, <1>5 DEF Rests
<1>6. ASSUME NEW t \in TxId, Moves(w, t)
      PROVE  BookOf'[w] = Append(BookOf[w], Promise!EntryFor(w, balance'))
  <2> DEFINE e == [before |-> balance[w], after |-> balance'[w]]
             b == [i \in 1..Len(h) |-> entry(tx[h[i]])]
             g == Append(h, t)
  <2>1. /\ history'[w] = g
        /\ entry(tx'[t]) = e
    BY <1>6 DEF Moves
  <2>2. /\ Len(g) = Len(h) + 1
        /\ g[Len(h) + 1] = t
        /\ \A i \in 1..Len(h) : g[i] = h[i]
    BY <1>1, AppendProperties
  <2>3. Promise!EntryFor(w, balance') = e
    BY DEF Promise!EntryFor
  <2>4. Append(b, e) =
          [i \in 1..(Len(h) + 1) |-> IF i = Len(h) + 1 THEN e ELSE b[i]]
    <3> DEFINE S == {b[j] : j \in 1..Len(h)} \cup {e}
    <3>1. b \in [1..Len(h) -> S] /\ e \in S
      OBVIOUS
    <3> HIDE DEF b, e, S
    <3> QED
      BY <1>1, <3>1, AppendFunction
  <2>5. BookOf'[w] = [i \in 1..(Len(h) + 1) |-> entry(tx'[g[i]])]
    BY <1>4, <2>1, <2>2
  <2>6. \A i \in 1..(Len(h) + 1) :
          entry(tx'[g[i]]) = IF i = Len(h) + 1 THEN e ELSE b[i]
    <3>1. \A i \in 1..Len(h) : entry(tx'[g[i]]) = b[i]
      <4>1. \A i \in 1..Len(h) : b[i] = entry(tx[h[i]])
        OBVIOUS
      <4> HIDE DEF b, e, g, entry
      <4> QED
        BY <1>2, <2>2, <4>1
    <3>2. entry(tx'[g[Len(h) + 1]]) = e
      <4> HIDE DEF b, e, g, entry
      <4> QED
        BY <2>1, <2>2
    <3> HIDE DEF b, e, g, entry
    <3> QED
      BY <1>1, <3>1, <3>2
  <2>7. BookOf'[w] = Append(b, e)
    <3> HIDE DEF b, e, g, entry
    <3> QED
      BY <2>4, <2>5, <2>6
  <2> QED
    BY <1>3, <2>3, <2>7
<1> QED
  BY <1>5, <1>6

LEMMA InitPromise == Init => Promise!Init
<1> SUFFICES ASSUME Init PROVE Promise!Init
  OBVIOUS
<1>1. \A w \in Wallet : Len(history[w]) = 0
  BY DEF Init
<1>2. BookOf = [w \in Wallet |-> << >>]
  BY <1>1 DEF BookOf
<1> QED
  BY <1>2 DEF Init, Promise!Init

LEMMA StepPromise ==
  ASSUME TypeOK, TypeOK', AppliedOnce, LedgerStep
  PROVE  [Promise!Next]_Promise!vars
<1>1. /\ BookOf = [w \in Wallet |-> BookOf[w]]
      /\ BookOf' = [w \in Wallet |-> BookOf'[w]]
  BY DEF BookOf
<1>2. /\ balance = [w \in Wallet |-> balance[w]]
      /\ balance' = [w \in Wallet |-> balance'[w]]
      /\ balance' \in [Wallet -> Nat]
  BY DEF TypeOK
<1>3. CASE NoEntry
  <2>1. BookOf' = BookOf /\ balance' = balance
    BY <1>1, <1>2, <1>3, StepBook DEF NoEntry, Rests
  <2> QED
    BY <2>1 DEF Promise!vars
<1>4. CASE OneEntry
  <2>1. PICK w \in Wallet : /\ \E t \in TxId : Moves(w, t)
                            /\ \A v \in Wallet \ {w} : Rests(v)
    BY <1>4 DEF OneEntry
  <2>2. BookOf' = [BookOf EXCEPT ![w] =
                     Append(@, Promise!EntryFor(w, balance'))]
    BY <1>1, <2>1, StepBook
  <2>3. Promise!Post(w)
    BY <1>2, <2>1, <2>2 DEF Promise!Post, Rests
  <2> QED
    BY <2>3 DEF Promise!Next
<1>5. CASE TwoEntries
  <2>1. PICK s \in Wallet, d \in Wallet :
          /\ s # d
          /\ \E t \in TxId : Moves(s, t)
          /\ \E t \in TxId : Moves(d, t)
          /\ \A v \in Wallet \ {s, d} : Rests(v)
          /\ balance'[s] < balance[s]
          /\ balance[s] + balance[d] = balance'[s] + balance'[d]
    BY <1>5 DEF TwoEntries
  <2>2. BookOf' = [BookOf EXCEPT
          ![s] = Append(@, Promise!EntryFor(s, balance')),
          ![d] = Append(@, Promise!EntryFor(d, balance'))]
    BY <1>1, <2>1, StepBook
  <2>3. Promise!Move(s, d)
    BY <1>2, <2>1, <2>2 DEF Promise!Move, Rests
  <2> QED
    BY <2>1, <2>3 DEF Promise!Next
<1> QED
  BY <1>3, <1>4, <1>5 DEF LedgerStep

(* The services keep the book wallets/models.py promises.                  *)
THEOREM LedgerImplementsAccountBook == LedgerSpec => ImplementsAccountBook
<1>1. Init => Promise!Init
  BY InitPromise
<1>2. IInv /\ IInv' /\ [LedgerNext]_ledgerVars => [Promise!Next]_Promise!vars
  BY NextInvariant, StutterInvariant, StepPromise DEF IInv
<1> QED
  BY <1>1, <1>2, LedgerInvariant, PTL
     DEF LedgerSpec, ImplementsAccountBook, Promise!Spec
=============================================================================
