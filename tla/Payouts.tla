------------------------------- MODULE Payouts -------------------------------
(***************************************************************************)
(* Money leaving the system: WithdrawalService (a resident's request) and  *)
(* SettlementService (a township wallet's settlement), on top of the       *)
(* ledger.  Each call locks its request or settlement row first, so, like  *)
(* the ledger's operations, it is one step.                                *)
(***************************************************************************)
EXTENDS WalletLedger

CONSTANTS Resident,           \* wallets create_request finds: RESIDENT, active
          Request,            \* primary keys of WithdrawalRequest
          Settlement,         \* primary keys of Settlement
          SettlementAmount    \* amounts a settlement is opened with

ASSUME ResidentAssumption == Resident \subseteq Wallet
ASSUME SettlementAmountAssumption == SettlementAmount \subseteq Int
ASSUME PayableAssumption == Request \cap Settlement = {}

VARIABLES request,      \* WithdrawalRequest, by primary key
          settlement,   \* Settlement, by primary key
          paidRows      \* the rows whose description names the payable

payoutVars == <<request, settlement, paidRows>>
vars == <<balance, tx, history, request, settlement, paidRows>>

Payable == Request \cup Settlement

PayableStatus == {"PENDING", "APPROVED", "REJECTED", "PAID"}

RequestRow == [wallet : Wallet, amount : Amount, status : PayableStatus]
SettlementRow == [wallet : Wallet, amount : SettlementAmount,
                  status : PayableStatus]

PayoutTypeOK ==
  /\ TypeOK
  /\ request \in [Request -> RequestRow \cup {NoRow}]
  /\ settlement \in [Settlement -> SettlementRow \cup {NoRow}]
  /\ paidRows \in [Payable -> SUBSET TxId]

PayoutInit ==
  /\ Init
  /\ request = [r \in Request |-> NoRow]
  /\ settlement = [s \in Settlement |-> NoRow]
  /\ paidRows = [p \in Payable |-> {}]

-----------------------------------------------------------------------------
(* WithdrawalService *)

(* create_request checks the balance but reserves nothing.                 *)
CreateRequest(r, w, a) ==
  /\ request[r] = NoRow
  /\ w \in Resident
  /\ a <= balance[w]
  /\ request' = [request EXCEPT
       ![r] = [wallet |-> w, amount |-> a, status |-> "PENDING"]]
  /\ UNCHANGED <<ledgerVars, settlement, paidRows>>

ReviewRequest(r, verdict) ==
  /\ request[r].status = "PENDING"
  /\ request' = [request EXCEPT ![r].status = verdict]
  /\ UNCHANGED <<ledgerVars, settlement, paidRows>>

ApproveRequest(r) == ReviewRequest(r, "APPROVED")

RejectRequest(r) == ReviewRequest(r, "REJECTED")

(* Mutant of PayRequest: a paid request is paid again.                     *)
PayAgain(r, t) ==
  /\ request[r].status \in {"APPROVED", "PAID"}
  /\ Debit(request[r].wallet, t, "WITHDRAW", request[r].amount)
  /\ request' = [request EXCEPT ![r].status = "PAID"]
  /\ paidRows' = [paidRows EXCEPT ![r] = @ \cup {t}]
  /\ UNCHANGED settlement

PayRequest(r, t) ==
  /\ request[r].status = "APPROVED"
  /\ Debit(request[r].wallet, t, "WITHDRAW", request[r].amount)
  /\ request' = [request EXCEPT ![r].status = "PAID"]
  /\ paidRows' = [paidRows EXCEPT ![r] = @ \cup {t}]
  /\ UNCHANGED settlement

-----------------------------------------------------------------------------
(* SettlementService *)

(* request validates neither the amount nor the balance.                   *)
RequestSettlement(s, w, a) ==
  /\ settlement[s] = NoRow
  /\ settlement' = [settlement EXCEPT
       ![s] = [wallet |-> w, amount |-> a, status |-> "PENDING"]]
  /\ UNCHANGED <<ledgerVars, request, paidRows>>

ApproveSettlement(s) ==
  /\ settlement[s].status = "PENDING"
  /\ settlement' = [settlement EXCEPT ![s].status = "APPROVED"]
  /\ UNCHANGED <<ledgerVars, request, paidRows>>

(* Mutant of PaySettlement: the balance changes and no transaction row does.*)
PayUnbooked(s, t) ==
  /\ settlement[s].status = "APPROVED"
  /\ balance[settlement[s].wallet] >= settlement[s].amount
  /\ balance' = [balance EXCEPT
       ![settlement[s].wallet] = @ - settlement[s].amount]
  /\ settlement' = [settlement EXCEPT ![s].status = "PAID"]
  /\ UNCHANGED <<tx, history, request, paidRows>>

PaySettlement(s, t) ==
  /\ settlement[s].status = "APPROVED"
  /\ Debit(settlement[s].wallet, t, "SETTLEMENT", settlement[s].amount)
  /\ settlement' = [settlement EXCEPT ![s].status = "PAID"]
  /\ paidRows' = [paidRows EXCEPT ![s] = @ \cup {t}]
  /\ UNCHANGED request

PayoutNext ==
  \/ \E r \in Request, w \in Wallet, a \in Amount : CreateRequest(r, w, a)
  \/ \E r \in Request :
       \/ ApproveRequest(r)
       \/ RejectRequest(r)
       \/ \E t \in TxId : PayRequest(r, t)
  \/ \E s \in Settlement, w \in Wallet, a \in SettlementAmount :
       RequestSettlement(s, w, a)
  \/ \E s \in Settlement :
       \/ ApproveSettlement(s)
       \/ \E t \in TxId : PaySettlement(s, t)

Next ==
  \/ LedgerNext /\ UNCHANGED payoutVars
  \/ PayoutNext

Spec == PayoutInit /\ [][Next]_vars

-----------------------------------------------------------------------------
(* Safety *)

(* The payable's record, whichever of the two tables it is in.             *)
PayableRow(p) == IF p \in Request THEN request[p] ELSE settlement[p]

(* A payable is PAID exactly if one row paid it, from its own wallet and   *)
(* for its own amount, and no row pays two payables: however often pay is  *)
(* retried, and whichever requests compete for one balance, each approval  *)
(* takes the money once.                                                   *)
PaidOnce ==
  /\ \A p \in Payable :
       IF PayableRow(p).status = "PAID"
       THEN \E t \in TxId :
              /\ paidRows[p] = {t}
              /\ tx[t].status \in Applied
              /\ tx[t].wallet = PayableRow(p).wallet
              /\ tx[t].amount = PayableRow(p).amount
              /\ tx[t].kind \in {"WITHDRAW", "SETTLEMENT"}
       ELSE paidRows[p] = {}
  /\ \A p, q \in Payable : p # q => paidRows[p] \cap paidRows[q] = {}

(* A payable is paid only after an approval, a decision is never taken     *)
(* back, and wallet and amount stay what was reviewed.                     *)
PayableStep(p) ==
  LET o == PayableRow(p)
      n == PayableRow(p)'
  IN  o # NoRow =>
        /\ n # NoRow
        /\ n.wallet = o.wallet /\ n.amount = o.amount
        /\ n.status # o.status =>
             <<o.status, n.status>> \in {<<"PENDING", "APPROVED">>,
               <<"PENDING", "REJECTED">>, <<"APPROVED", "PAID">>}

PayableLifecycle == [][\A p \in Payable : PayableStep(p)]_vars
=============================================================================
