--------------------------- MODULE AttemptLedger ---------------------------
(***************************************************************************)
(* What the persistence layer promises about a job, whoever calls it and   *)
(* in whatever order: a job is submitted once, each start opens a new      *)
(* numbered attempt, an attempt is closed at most once and keeps its       *)
(* verdict for ever, and a job that succeeded is never touched again.      *)
(* JobStore implements this specification.                                 *)
(***************************************************************************)
EXTENDS Naturals

CONSTANTS Job,          \* job identifiers
          MaxAttempt    \* bound on the attempts of one job

VARIABLES phase,        \* phase[j]: where job j stands
          tries,        \* tries[j]: attempts opened so far
          ledger        \* ledger[j][a]: verdict of attempt a, once it has one

ledgerVars == <<phase, tries, ledger>>

Phase == {"absent", "waiting", "active", "stopped", "succeeded"}
Verdict == {"pending", "success", "failure", "cancelled"}
Attempt == 1..MaxAttempt

LedgerTypeOK ==
    /\ phase \in [Job -> Phase]
    /\ tries \in [Job -> 0..MaxAttempt]
    /\ ledger \in [Job -> [Attempt -> Verdict]]

LedgerInit ==
    /\ phase = [j \in Job |-> "absent"]
    /\ tries = [j \in Job |-> 0]
    /\ ledger = [j \in Job |-> [a \in Attempt |-> "pending"]]

Submit(j) ==
    /\ phase[j] = "absent"
    /\ phase' = [phase EXCEPT ![j] = "waiting"]
    /\ UNCHANGED <<tries, ledger>>

Begin(j) ==
    /\ phase[j] = "waiting"
    /\ tries[j] < MaxAttempt
    /\ phase' = [phase EXCEPT ![j] = "active"]
    /\ tries' = [tries EXCEPT ![j] = @ + 1]
    /\ UNCHANGED ledger

\* The running attempt gets its verdict; only a success is final.
Settle(j, verdict) ==
    /\ phase[j] = "active"
    /\ ledger[j][tries[j]] = "pending"
    /\ phase' = [phase EXCEPT ![j] = IF verdict = "success" THEN "succeeded" ELSE "stopped"]
    /\ ledger' = [ledger EXCEPT ![j][tries[j]] = verdict]
    /\ UNCHANGED tries

\* A cancellation closes some attempts that have no verdict yet, and no other.
Stop(j) ==
    /\ phase[j] \in {"waiting", "active"}
    /\ phase' = [phase EXCEPT ![j] = "stopped"]
    /\ \E closed \in SUBSET {a \in Attempt : a <= tries[j] /\ ledger[j][a] = "pending"} :
          ledger' = [ledger EXCEPT ![j] =
                        [a \in Attempt |-> IF a \in closed THEN "cancelled" ELSE @[a]]]
    /\ UNCHANGED tries

Reopen(j) ==
    /\ phase[j] = "stopped"
    /\ phase' = [phase EXCEPT ![j] = "waiting"]
    /\ UNCHANGED <<tries, ledger>>

LedgerNext ==
    \E j \in Job :
        \/ Submit(j)
        \/ Begin(j)
        \/ \E verdict \in {"success", "failure"} : Settle(j, verdict)
        \/ Stop(j)
        \/ Reopen(j)

LedgerSpec == LedgerInit /\ [][LedgerNext]_ledgerVars
=============================================================================
