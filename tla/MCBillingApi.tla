----------------------------- MODULE MCBillingApi -----------------------------
(* TLC instances of BillingApi: which POSTs are inbound or of an unknown     *)
(* account is given by sets, the rest by the .cfg of each run.               *)
EXTENDS BillingApi, TLC

CONSTANTS Inbounds, Strangers, a1, Balance, LastTopup, Amount

MCAccountOf == [r \in Requests |-> IF r \in Strangers THEN "no row" ELSE a1]
MCDirectionOf == [r \in Requests |-> IF r \in Inbounds THEN "Inbound" ELSE "Outbound"]
MCOpeningBalance == [a \in Accounts |-> Balance]
MCOpeningTopup == [a \in Accounts |-> LastTopup]
MCTopUpAccount == [t \in TopUps |-> a1]
MCTopUpAmount == [t \in TopUps |-> Amount]

NoLevels  == <<>>
TwoLevels == <<50, 80>>

Alike == Permutations((Requests \ Inbounds) \ (Strangers \cup Malformed))
=============================================================================
