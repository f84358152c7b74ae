---------------------------- MODULE OneTimeCode ----------------------------
(***************************************************************************)
(* One-time codes and text messages of one mobile number (sms/services.py).*)
(*                                                                         *)
(* verify_otp is a transaction without a lock: what it reads and what it   *)
(* writes are two steps.  send_sms calls the provider inside its           *)
(* transaction: when the process dies after the call, or the provider      *)
(* raises, the row is undone and the text may have gone out.               *)
(***************************************************************************)
EXTENDS Naturals, Sequences

CONSTANTS CodeValues,    \* values random.randint may return
          Verifiers,     \* verifications under way at once
          MaxCodes,      \* bound on the codes generated
          Lifetime,      \* how long a code lives
          MaxClock       \* bound on the time

ASSUME CodeAssumption == MaxCodes \in Nat /\ Lifetime \in Nat /\ MaxClock \in Nat

VARIABLES clock,         \* timezone.now()
          otp,           \* the codes, oldest first
          verifier,      \* what each verification has read
          accepted,      \* how often each code was accepted
          shared,        \* history: codes two verifications held at once
          sms,           \* the status of the message's row, or "none"
          provider       \* what the provider has done with it

codeVars == <<clock, otp, verifier, accepted, shared, sms, provider>>

Off == [code |-> 0]

CodeInit == /\ clock = 0
            /\ otp = << >>
            /\ verifier = [v \in Verifiers |-> Off]
            /\ accepted = [c \in 1 .. MaxCodes |-> 0]
            /\ shared = {}
            /\ sms = "none"
            /\ provider = "uncalled"

-----------------------------------------------------------------------------
generate_otp ==
    /\ Len(otp) < MaxCodes
    /\ \E x \in CodeValues :
          otp' = Append(otp, [value |-> x, is_used |-> FALSE, expires |-> clock + Lifetime])
    /\ UNCHANGED <<clock, verifier, accepted, shared, sms, provider>>

\* Mutant of Matching: a used code matches too.
UsedToo(x) == {c \in 1 .. Len(otp) : otp[c].value = x}
Matching(x) == {c \in 1 .. Len(otp) : otp[c].value = x /\ ~otp[c].is_used}

\* The newest match, which must not have expired.  Anything else is refused.
ReadCode(v) ==
    /\ verifier[v] = Off
    /\ \E x \in CodeValues : \E c \in Matching(x) :
          /\ \A d \in Matching(x) : d <= c
          /\ otp[c].expires >= clock
          /\ verifier' = [verifier EXCEPT ![v] = [code |-> c, at |-> clock]]
          /\ shared' = IF \E w \in Verifiers : verifier[w].code = c
                      THEN shared \cup {c} ELSE shared
    /\ UNCHANGED <<clock, otp, accepted, sms, provider>>

verify_otp(v) ==
    /\ verifier[v] # Off
    /\ LET c == verifier[v].code
       IN  /\ otp' = [otp EXCEPT ![c].is_used = TRUE]
           /\ accepted' = [accepted EXCEPT ![c] = @ + 1]
    /\ verifier' = [verifier EXCEPT ![v] = Off]
    /\ UNCHANGED <<clock, shared, sms, provider>>

\* The transaction is rolled back: nothing was accepted.
VerifyDies(v) ==
    /\ verifier[v] # Off
    /\ verifier' = [verifier EXCEPT ![v] = Off]
    /\ UNCHANGED <<clock, otp, accepted, shared, sms, provider>>

-----------------------------------------------------------------------------
\* create_message and the call, inside the transaction: the row is not yet to be seen.
send_sms ==
    /\ provider = "uncalled"
    /\ provider' \in {"sending", "refusing", "raising"}
    /\ UNCHANGED <<clock, otp, verifier, accepted, shared, sms>>

mark_sent == /\ provider = "sending"
             /\ provider' = "took"
             /\ sms' = "SENT"
             /\ UNCHANGED <<clock, otp, verifier, accepted, shared>>

mark_failed == /\ provider = "refusing"
               /\ provider' = "refused"
               /\ sms' = "FAILED"
               /\ UNCHANGED <<clock, otp, verifier, accepted, shared>>

\* An exception or the death of the process: the row is undone, the text is not.
SendDies == /\ provider \in {"sending", "refusing", "raising"}
            /\ provider' = IF provider = "sending" THEN "took" ELSE "refused"
            /\ UNCHANGED <<clock, otp, verifier, accepted, shared, sms>>

ClockTick == /\ clock < MaxClock
             /\ clock' = clock + 1
             /\ UNCHANGED <<otp, verifier, accepted, shared, sms, provider>>

CodeNext == \/ generate_otp
            \/ \E v \in Verifiers : ReadCode(v) \/ verify_otp(v) \/ VerifyDies(v)
            \/ send_sms \/ mark_sent \/ mark_failed \/ SendDies
            \/ ClockTick

CodeSpec == CodeInit /\ [][CodeNext]_codeVars

-----------------------------------------------------------------------------
\* The shape of the codes, the verifications and the message.
CodeTypeOK ==
    /\ clock \in 0 .. MaxClock
    /\ otp \in Seq([value : CodeValues, is_used : BOOLEAN, expires : Nat])
    /\ verifier \in [Verifiers -> [code : 1 .. MaxCodes, at : 0 .. MaxClock] \cup {Off}]
    /\ accepted \in [1 .. MaxCodes -> Nat]
    /\ shared \subseteq 1 .. MaxCodes
    /\ sms \in {"none", "SENT", "FAILED"}
    /\ provider \in {"uncalled", "sending", "refusing", "raising", "took", "refused"}

(***************************************************************************)
(* A code is accepted at most once, unless two verifications held it at    *)
(* the same moment (nothing locks the row); an accepted code stays used;   *)
(* and a verification under way holds a code that was alive when it read   *)
(* it.                                                                     *)
(***************************************************************************)
CodeAcceptedOnce ==
    /\ \A c \in 1 .. Len(otp) : /\ c \notin shared => accepted[c] <= 1
                                /\ accepted[c] > 0 <=> otp[c].is_used
    /\ \A v \in Verifiers : verifier[v] # Off => verifier[v].at <= otp[verifier[v].code].expires

=============================================================================
