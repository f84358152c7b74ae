------------------------------ MODULE MCBilling ------------------------------
(***************************************************************************)
(* TLC instance of billing: one invoice, and the task that makes invoices  *)
(* of a cycle.  They share no variable; focus picks one of them.           *)
(***************************************************************************)
EXTENDS Invoicing, TLC

VARIABLE focus          \* the component that runs

FocusInit == InvoicingInit /\ focus \in {"invoice", "cycle"}

FocusNext ==
    \/ focus = "invoice" /\ InvoiceMoves /\ UNCHANGED focus
    \/ focus = "cycle" /\ CycleMoves /\ UNCHANGED focus

FocusSpec == FocusInit /\ [][FocusNext]_<<invoicingVars, focus>>

\* A sum counted in units is the sum a fold computes.
ASSUME SumsAreFolds ==
    \A n \in 0 .. 3 : \A f \in [1 .. n -> 0 .. 3] :
       SumOf(f) = MapThenSumSet(LAMBDA x : f[x], 1 .. n)

Same == Permutations(Jobs) \cup Permutations(Payments)

=============================================================================
