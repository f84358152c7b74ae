----------------------------- MODULE BillingRun -----------------------------
(***************************************************************************)
(* The task that turns a billing cycle into invoices                       *)
(* (BillingCycleService.run_due_cycles and NumberGenerator).               *)
(*                                                                         *)
(* A run takes the cycle if it is due, makes one invoice per billable      *)
(* residence, each in a transaction of its own, and then moves             *)
(* next_run_date on.  Nothing encloses the whole: a run that dies or meets *)
(* an error leaves its invoices and a cycle that is still due.  Invoice    *)
(* numbers are the last one plus one; the column is unique.                *)
(***************************************************************************)
EXTENDS Naturals, Sequences, FiniteSets

CONSTANTS Residences,    \* active residences of active villas
          Runs,          \* task processes that may run at once
          MaxDay,        \* bound on the days, one period each
          MaxInvoices    \* bound on the invoice numbers

ASSUME RunAssumption == /\ MaxDay \in Nat
                        /\ MaxInvoices \in Nat

VARIABLES today,         \* the date, counted in periods
          nextRun,       \* BillingCycle.next_run_date
          issued,        \* for each number used: the residence and the period it bills
          uncomputable,  \* residences whose charge raises (a formula, a missing area)
          run,           \* what each run under way has read
          troubled       \* history: periods of which a run broke off, or ran beside another

runVars == <<today, nextRun, issued, uncomputable, run, troubled>>

Days == 0 .. MaxDay
AtRest == [pc |-> "rest"]
Nobody == "nobody"

RunInit == /\ today = 0
           /\ nextRun = 0
           /\ issued = << >>
           /\ uncomputable \in SUBSET Residences
           /\ run = [w \in Runs |-> AtRest]
           /\ troubled = {}

-----------------------------------------------------------------------------
Working(w) == run[w] # AtRest
Beside(w) == {v \in Runs \ {w} : Working(v)}
BreaksOff(w) == /\ run' = [run EXCEPT ![w] = AtRest]
                /\ troubled' = troubled \cup {run[w].period}

due_for_generation == nextRun <= today

\* The cycle is loaded and the residences are listed.
run_due_cycles(w) ==
    /\ ~Working(w)
    /\ due_for_generation
    /\ run' = [run EXCEPT ![w] = [pc |-> "loop", period |-> nextRun, todo |-> Residences,
                                  for |-> Nobody, number |-> 0]]
    /\ troubled' = troubled \cup {run[v].period : v \in Beside(w)}
                            \cup (IF Beside(w) = {} THEN {} ELSE {nextRun})
    /\ UNCHANGED <<today, nextRun, issued, uncomputable>>

\* The next residence in no particular order: its amount, and the number of its invoice.
next_invoice_number(w) ==
    /\ run[w].pc = "loop"
    /\ \E r \in run[w].todo \ uncomputable :
          run' = [run EXCEPT ![w].pc = "numbered", ![w].for = r, ![w].number = Len(issued) + 1]
    /\ UNCHANGED <<today, nextRun, issued, troubled, uncomputable>>

\* The invoice with its item, issued.
generate_invoice_for_residence(w) ==
    /\ run[w].pc = "numbered"
    /\ run[w].number \notin DOMAIN issued
    /\ Len(issued) < MaxInvoices
    /\ issued' = Append(issued, [residence |-> run[w].for, period |-> run[w].period])
    /\ run' = [run EXCEPT ![w].pc = "loop", ![w].for = Nobody, ![w].number = 0,
                          ![w].todo = @ \ {run[w].for}]
    /\ UNCHANGED <<today, nextRun, troubled, uncomputable>>

\* The number was taken meanwhile: an IntegrityError ends the run.
NumberTaken(w) ==
    /\ run[w].pc = "numbered"
    /\ run[w].number \in DOMAIN issued
    /\ BreaksOff(w)
    /\ UNCHANGED <<today, nextRun, issued, uncomputable>>

\* A residence whose charge cannot be computed ends the run too.
ChargeFails(w) ==
    /\ run[w].pc = "loop"
    /\ run[w].todo \cap uncomputable # {}
    /\ BreaksOff(w)
    /\ UNCHANGED <<today, nextRun, issued, uncomputable>>

\* Mutant of advance_next_run_date: the cycle moves on although residences are left.
AdvanceEarly(w) ==
    /\ run[w].pc = "loop"
    /\ nextRun' = run[w].period + 1
    /\ run' = [run EXCEPT ![w] = AtRest]
    /\ UNCHANGED <<today, issued, troubled, uncomputable>>
\* From the next_run_date the run has loaded.
advance_next_run_date(w) ==
    /\ run[w].pc = "loop"
    /\ run[w].todo = {}
    /\ nextRun' = run[w].period + 1
    /\ run' = [run EXCEPT ![w] = AtRest]
    /\ UNCHANGED <<today, issued, troubled, uncomputable>>

\* The process dies; an invoice not yet committed is undone.
RunDies(w) ==
    /\ Working(w)
    /\ BreaksOff(w)
    /\ UNCHANGED <<today, nextRun, issued, uncomputable>>

NewPeriod == /\ today < MaxDay
             /\ today' = today + 1
             /\ UNCHANGED <<nextRun, issued, run, troubled, uncomputable>>

RunNext == \/ \E w \in Runs : \/ run_due_cycles(w)
                              \/ next_invoice_number(w)
                              \/ generate_invoice_for_residence(w)
                              \/ NumberTaken(w)
                              \/ ChargeFails(w)
                              \/ advance_next_run_date(w)
                              \/ RunDies(w)
           \/ NewPeriod

RunSpec == RunInit /\ [][RunNext]_runVars

-----------------------------------------------------------------------------
\* The shape of the cycle, the invoices and the runs.
RunTypeOK ==
    /\ today \in Days
    /\ nextRun \in 0 .. MaxDay + 1
    /\ issued \in Seq([residence : Residences, period : Days])
    /\ uncomputable \subseteq Residences
    /\ run \in [Runs -> [pc : {"loop", "numbered"}, period : Days, todo : SUBSET Residences,
                         for : Residences \cup {Nobody}, number : 0 .. MaxInvoices + 1] \cup {AtRest}]
    /\ troubled \subseteq Days

InvoicesOf(r, k) == {n \in 1 .. Len(issued) : issued[n].residence = r /\ issued[n].period = k}

(***************************************************************************)
(* The cycle never moves past a period in which some residence was not     *)
(* billed, whatever dies or runs twice; and a residence is billed twice    *)
(* for a period only if a run of it broke off or ran beside another.       *)
(***************************************************************************)
EveryPeriodBilled ==
    \A r \in Residences, k \in Days :
       /\ k < nextRun => InvoicesOf(r, k) # {}
       /\ k \notin troubled => Cardinality(InvoicesOf(r, k)) <= 1

=============================================================================
