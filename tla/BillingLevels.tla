---------------------------- MODULE BillingLevels ----------------------------
(***************************************************************************)
(* The percentage arithmetic of go/billing/api.py: the low-credit levels   *)
(* an operator configures, the level a balance is at, the level a charge   *)
(* crosses and the credit cutoff.  Amounts are integers (one unit is the   *)
(* smallest Decimal the tables hold), and the Python expression            *)
(* int(math.ceil(num * 100 / den)) is integer division rounded upwards.    *)
(***************************************************************************)
EXTENDS Integers, Sequences

CONSTANT NoLevel       \* Python's None where a level is expected

ASSUME BillingLevelsAssumption == NoLevel \notin Int

\* A configured LOW_CREDIT_NOTIFICATION_PERCENTAGES after sorted(int(i) ...).
IsSorted(levels) == \A i, j \in 1..Len(levels) : i < j => levels[i] <= levels[j]

\* _ceil_percent, for any den # 0: last_topup_balance goes negative when credits
\* are loaded into an account that stays overdrawn.
CeilPercent(num, den) ==
  IF den > 0 THEN -((-(num * 100)) \div den) ELSE -((num * 100) \div (-den))

\* The loop of _create_notification_mapping.  level_idx[i] is the (1-based)
\* position the loop appends at percentage i: it moves on after a percentage
\* that is itself a level.
CreateNotificationMapping(levels) ==
  IF levels = <<>> THEN <<>>
  ELSE LET lo == levels[1]
           hi == levels[Len(levels)]
           level_idx[i \in lo..hi] ==
             IF i = lo THEN 1
             ELSE LET previous == level_idx[i - 1]
                  IN  IF levels[previous] = i - 1 THEN previous + 1 ELSE previous
       IN  [i \in lo..hi |-> levels[level_idx[i]]]

Lowest(mapping)  == CHOOSE i \in DOMAIN mapping : \A j \in DOMAIN mapping : i <= j
Highest(mapping) == CHOOSE i \in DOMAIN mapping : \A j \in DOMAIN mapping : j <= i

\* _get_notification_level
GetNotificationLevel(mapping, percentage) ==
  IF DOMAIN mapping = {} THEN NoLevel
  ELSE IF percentage < mapping[Lowest(mapping)] THEN mapping[Lowest(mapping)]
  ELSE IF percentage > mapping[Highest(mapping)] THEN NoLevel
  ELSE mapping[percentage]

\* check_all_low_credit_thresholds: the level to notify after a charge of
\* `amount' that left `balance', or NoLevel.  A last_topup_balance of zero (or
\* NULL) switches the check off.
CheckAllLowCreditThresholds(mapping, balance, amount, last_topup) ==
  IF last_topup = 0 THEN NoLevel
  ELSE LET current  == GetNotificationLevel(mapping, CeilPercent(balance, last_topup))
           previous == GetNotificationLevel(mapping,
                                            CeilPercent(balance + amount, last_topup))
       IN  IF current # previous THEN current ELSE NoLevel

\* The comparison both cutoff checks of create_transaction_interaction make.
CutoffReached(mapping, balance, last_topup) ==
  /\ last_topup # 0
  /\ CeilPercent(balance, last_topup) < mapping[Lowest(mapping)]
=============================================================================
