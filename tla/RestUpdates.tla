----------------------------- MODULE RestUpdates -----------------------------
(***************************************************************************)
(* WalletViewSet, SettlementViewSet and WithdrawalRequestViewSet are       *)
(* ModelViewSets: besides the service actions they route PUT and PATCH.    *)
(* Such an update loads the row without a lock, assigns the serializer's   *)
(* writable columns and saves every column, those it may not edit as they  *)
(* were when it loaded them.  This module adds the updates to Payouts, as  *)
(* two steps each; one update per row is in flight at a time.              *)
(***************************************************************************)
EXTENDS Payouts

VARIABLES loadedWallet,    \* the balance in an update's wallet instance
          loadedPayable    \* the row in an update's request or settlement

restVars == <<vars, loadedWallet, loadedPayable>>

RestInit ==
  /\ PayoutInit
  /\ loadedWallet = [w \in Wallet |-> NoRow]
  /\ loadedPayable = [p \in Payable |-> NoRow]

(* UpdateModelMixin.update: get_object() ...                               *)
LoadWallet(w) ==
  /\ loadedWallet[w] = NoRow
  /\ loadedWallet' = [loadedWallet EXCEPT ![w] = [balance |-> balance[w]]]
  /\ UNCHANGED <<vars, loadedPayable>>

(* ... and serializer.save(): WalletSerializer's writable columns (type,   *)
(* owner, is_active) are abstracted, balance is written back as loaded.    *)
SaveWallet(w) ==
  /\ loadedWallet[w] # NoRow
  /\ balance' = [balance EXCEPT ![w] = loadedWallet[w].balance]
  /\ loadedWallet' = [loadedWallet EXCEPT ![w] = NoRow]
  /\ UNCHANGED <<tx, history, payoutVars, loadedPayable>>

LoadPayable(p) ==
  /\ PayableRow(p) # NoRow
  /\ loadedPayable[p] = NoRow
  /\ loadedPayable' = [loadedPayable EXCEPT ![p] = PayableRow(p)]
  /\ UNCHANGED <<vars, loadedWallet>>

(* WithdrawalRequestSerializer keeps wallet, amount and status read-only:  *)
(* all three are written back as loaded.                                   *)
SaveRequest(r) ==
  /\ loadedPayable[r] # NoRow
  /\ request' = [request EXCEPT ![r] = loadedPayable[r]]
  /\ loadedPayable' = [loadedPayable EXCEPT ![r] = NoRow]
  /\ UNCHANGED <<ledgerVars, settlement, paidRows, loadedWallet>>

(* SettlementSerializer leaves wallet and amount writable.                 *)
SaveSettlement(s, w, a) ==
  /\ loadedPayable[s] # NoRow
  /\ settlement' = [settlement EXCEPT
       ![s] = [wallet |-> w, amount |-> a,
               status |-> loadedPayable[s].status]]
  /\ loadedPayable' = [loadedPayable EXCEPT ![s] = NoRow]
  /\ UNCHANGED <<ledgerVars, request, paidRows, loadedWallet>>

RestNext ==
  \/ Next /\ UNCHANGED <<loadedWallet, loadedPayable>>
  \/ \E w \in Wallet : LoadWallet(w) \/ SaveWallet(w)
  \/ \E p \in Payable : LoadPayable(p)
  \/ \E r \in Request : SaveRequest(r)
  \/ \E s \in Settlement, w \in Wallet, a \in SettlementAmount :
       SaveSettlement(s, w, a)

RestSpec == RestInit /\ [][RestNext]_restVars

-----------------------------------------------------------------------------
(* Safety *)

(* "WalletTransaction is the single source of truth for every balance      *)
(* change" (wallets/models.py): a wallet whose rows are untouched keeps    *)
(* its balance.                                                            *)
EveryChangeBooked ==
  [][\A w \in Wallet : balance'[w] # balance[w] => history'[w] # history[w]]_restVars
=============================================================================
