--------------------------- MODULE MCBillingSystem ---------------------------
(* TLC instances of BillingSystem: the messages of one account, by direction *)
(* and session; each may be POSTed twice.                                    *)
EXTENDS BillingSystem, TLC

CONSTANTS Inbounds, InSession, Strangers, Balance, LastTopup, Amount, a1

MCRequests == Messages \X {1, 2}
MCAccountOf == [r \in MCRequests |-> IF r[1] \in Strangers THEN "no row" ELSE a1]
MCDirectionOf == [r \in MCRequests |-> IF r[1] \in Inbounds THEN "Inbound" ELSE "Outbound"]
MCSessionOf == [m \in Messages |-> IF m \in InSession THEN "resume" ELSE "none"]
MCOpeningBalance == [a \in Accounts |-> Balance]
MCOpeningTopup == [a \in Accounts |-> LastTopup]
MCTopUpAccount == [t \in TopUps |-> a1]
MCTopUpAmount == [t \in TopUps |-> Amount]

TwoLevels == <<50, 80>>
=============================================================================
