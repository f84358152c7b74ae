------------------------------ MODULE Invoicing ------------------------------
(***************************************************************************)
(* Billing as a whole: an invoice with its payments, and the task that     *)
(* makes invoices of a cycle.  The invoice followed is one that no run of  *)
(* the task touches again, so that a step is a step of one of the two.     *)
(***************************************************************************)
EXTENDS Billing, BillingRun

invoicingVars == <<billVars, runVars>>

InvoicingInit == BillInit /\ RunInit

InvoiceMoves == BillNext /\ UNCHANGED runVars
CycleMoves == RunNext /\ UNCHANGED billVars

InvoicingNext == InvoiceMoves \/ CycleMoves

InvoicingSpec == InvoicingInit /\ [][InvoicingNext]_invoicingVars

\* The type invariants of the two modules.
BillingTypeOK == BillTypeOK /\ RunTypeOK

=============================================================================
