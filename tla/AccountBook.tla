----------------------------- MODULE AccountBook -----------------------------
(***************************************************************************)
(* What the wallet application promises its callers, with nothing said of  *)
(* how: every wallet has a balance and a book, the book only grows, each   *)
(* new entry starts from the balance the previous one left, and money      *)
(* moves between two wallets in a single step or not at all.               *)
(*                                                                         *)
(* wallets/models.py states the promise: "WalletTransaction is the single  *)
(* source of truth for every balance change".  WalletLedger and Payouts    *)
(* are checked, and proved, to implement it; WalletLocking is checked to   *)
(* implement WalletLedger.                                                 *)
(***************************************************************************)
EXTENDS Integers, Sequences

CONSTANT Wallet

VARIABLES balance,   \* the balance column of every wallet
          book       \* per wallet, the entries that moved it, oldest first

vars == <<balance, book>>

Entry == [before : Nat, after : Nat]

TypeOK ==
  /\ balance \in [Wallet -> Nat]
  /\ book \in [Wallet -> Seq(Entry)]

Init ==
  /\ balance = [w \in Wallet |-> 0]
  /\ book = [w \in Wallet |-> << >>]

(* The entry a wallet's book gains when its balance becomes new[w].        *)
EntryFor(w, new) == [before |-> balance[w], after |-> new[w]]

(* One wallet moves to a new non-negative balance (or is booked with no    *)
(* effect on it); no other wallet is touched.                              *)
Post(w) ==
  /\ balance' \in [Wallet -> Nat]
  /\ \A v \in Wallet \ {w} : balance'[v] = balance[v]
  /\ book' = [book EXCEPT ![w] = Append(@, EntryFor(w, balance'))]

(* Two wallets move together and nothing is created or lost.               *)
Move(s, d) ==
  /\ balance' \in [Wallet -> Nat]
  /\ balance'[s] < balance[s]
  /\ balance[s] + balance[d] = balance'[s] + balance'[d]
  /\ \A v \in Wallet \ {s, d} : balance'[v] = balance[v]
  /\ book' = [book EXCEPT ![s] = Append(@, EntryFor(s, balance')),
                          ![d] = Append(@, EntryFor(d, balance'))]

Next ==
  \/ \E w \in Wallet : Post(w)
  \/ \E s, d \in Wallet : s # d /\ Move(s, d)

Spec == Init /\ [][Next]_vars
=============================================================================
