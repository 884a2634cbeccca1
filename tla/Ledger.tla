-------------------------------- MODULE Ledger --------------------------------
(***************************************************************************)
(* What billing promises its callers, with no connection, no statement and *)
(* no lock in sight: a request is charged at most once, balance and        *)
(* transaction table move together, and the answer says which it was.      *)
(* Credits are loaded in one step and marked as completed in a second one. *)
(* The one departure is explicit: a top-up made from a stale account       *)
(* object (Overwrite) leaves the books of that account wrong for good.     *)
(***************************************************************************)
EXTENDS Integers

CONSTANTS Accounts, Requests, AccountOf, Costs, OpeningBalance

VARIABLES
  balance,      \* what the account holds
  ledger,       \* sum of the Completed transactions
  unfinished,   \* sum of the loaded but Pending ones
  stale_save,   \* an overwrite happened
  charged,      \* the requests with a transaction
  told          \* what each caller knows

vars == <<balance, ledger, unfinished, stale_save, charged, told>>

Init ==
  /\ balance = OpeningBalance
  /\ ledger = [a \in Accounts |-> 0]
  /\ unfinished = [a \in Accounts |-> 0]
  /\ stale_save = [a \in Accounts |-> FALSE]
  /\ charged = {}
  /\ told = [r \in Requests |-> "nothing"]

Charge(r) ==
  LET a == AccountOf[r]
  IN  /\ r \notin charged /\ told[r] = "nothing" /\ a \in Accounts
      /\ \E cost \in Costs :
           /\ balance' = [balance EXCEPT ![a] = @ - cost]
           /\ ledger'  = [ledger EXCEPT ![a] = @ - cost]
      /\ charged' = charged \cup {r}
      /\ UNCHANGED <<unfinished, stale_save, told>>

Answer(r) ==
  /\ told[r] = "nothing"
  /\ told' = [told EXCEPT ![r] = IF r \in charged THEN "charged" ELSE "not charged"]
  /\ UNCHANGED <<balance, ledger, unfinished, stale_save, charged>>

\* Any amount is added to the balance and to the rows that are still Pending.
LoadCredits(a) ==
  /\ balance' = [balance EXCEPT ![a] = balance'[a]]
  /\ unfinished' = [unfinished EXCEPT ![a] = @ + (balance'[a] - balance[a])]
  /\ UNCHANGED <<ledger, stale_save, charged, told>>

\* Rows of account a go from Pending to Completed.
CompleteLoad(a) ==
  /\ unfinished' = [unfinished EXCEPT ![a] = unfinished'[a]]
  /\ ledger' = [ledger EXCEPT ![a] = @ + (unfinished[a] - unfinished'[a])]
  /\ UNCHANGED <<balance, stale_save, charged, told>>

Overwrite(a) ==
  /\ balance' = [balance EXCEPT ![a] = balance'[a]]
  /\ unfinished' = [unfinished EXCEPT ![a] = unfinished'[a]]
  /\ stale_save' = [stale_save EXCEPT ![a] = TRUE]
  /\ UNCHANGED <<ledger, charged, told>>

Next == \/ \E r \in Requests : Charge(r) \/ Answer(r)
        \/ \E a \in Accounts : LoadCredits(a) \/ CompleteLoad(a) \/ Overwrite(a)

Spec == Init /\ [][Next]_vars
=============================================================================
