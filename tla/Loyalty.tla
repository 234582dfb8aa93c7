------------------------------ MODULE Loyalty ------------------------------
(***************************************************************************)
(* One member's prepaid wallet and points, as concurrent transactions see  *)
(* them: each account is an append-only ledger and a running total cached  *)
(* on the customers row.                                                   *)
(*   services/stored_value_service.py  top_up, spend                       *)
(*   services/customers_service.py     redeem_points                       *)
(*   services/orders_service.py        _accrue_points_and_notify           *)
(*   services/membership_service.py    _grant_once                         *)
(*   services/ugc_service.py           approve                             *)
(*   services/referral_service.py      qualify_referral                    *)
(*   jobs/points_expire.py             the nightly expiry                  *)
(* Every one reads the total, adds to what it read and writes it back with *)
(* its ledger rows.  Most lock the row FOR UPDATE before they read; the    *)
(* accrual of a closed order and the lifecycle gifts do not.               *)
(***************************************************************************)
EXTENDS Integers, Sequences, FiniteSets, Functions, SequencesExt

CONSTANTS
  Clients,     \* concurrent transactions
  Ops,         \* the operations that are called
  Sources,     \* UGC submissions and referrals that may earn a reward
  Points,      \* points earned, granted or redeemed at once
  Amounts,     \* wallet amounts, in cents
  MaxEntries,  \* bound: ledger rows
  None

Locking == {"top_up", "spend", "redeem", "reward", "expire"}
Unlocked == {"accrue", "gift"}
Accounts == {"points", "wallet"}

ASSUME LoyaltyAssumption ==
  /\ Ops \subseteq Locking \cup Unlocked
  /\ Points \subseteq Nat \ {0} /\ Amounts \subseteq Nat \ {0}
  /\ MaxEntries \in Nat /\ None \notin Clients \cup Sources \cup Locking \cup Unlocked

VARIABLES
  balance,    \* Customer.points_balance and .stored_value_balance
  ledger,     \* customer_points_ledger and customer_stored_value_ledger
  pending,    \* sources still to be reviewed or qualified
  locks,      \* who holds the customers row, and each source row, FOR UPDATE
  req,        \* the transactions
  clobbered   \* history: an unlocked write went over a newer points total

vars == <<balance, ledger, pending, locks, req, clobbered>>

Reasons == {"topup", "topup.bonus", "spend", "redeem", "reward", "order.earn", "gift",
            "expire.batch"}

\* source is what a reward was for, original the row that an expiry reverses.
Entry == [account : Accounts, reason : Reasons, delta : Int,
          source : Sources \cup {None}, original : Nat]
Request == [op : Locking \cup Unlocked \cup {None},
            phase : {"idle", "review", "lock", "write"},
            source : Sources \cup {None}, view : [Accounts -> Int], found : SUBSET Nat]

NoView == [a \in Accounts |-> 0]
Idle == [op |-> None, phase |-> "idle", source |-> None, view |-> NoView, found |-> {}]
Rows == Sources \cup {"customer"}

Init ==
  /\ balance = NoView /\ ledger = <<>> /\ pending = Sources
  /\ locks = [r \in Rows |-> None]
  /\ req = [c \in Clients |-> Idle]
  /\ clobbered = FALSE
-----------------------------------------------------------------------------
EntryOf(account, reason, delta) ==
  [account |-> account, reason |-> reason, delta |-> delta, source |-> None, original |-> 0]

\* The sum of some rows, and the rows of some reasons.
Sum(rows) == SumFunctionOnSet([i \in DOMAIN ledger |-> ledger[i].delta], rows)
Booked(reasons) == {i \in DOMAIN ledger : ledger[i].reason \in reasons}

\* The markers of the expiry rows.
Reversed == {ledger[i].original : i \in DOMAIN ledger}

\* Slip: the markers of earlier runs are not looked up.
Earned == Booked({"order.earn"})

\* Rows that points_expire would still reverse: earned ones without a marker.
Reversible == Booked({"order.earn"}) \ Reversed

\* bonus_for: the rate of the highest threshold reached, down to whole dollars.
BonusFor(amount) ==
  LET rate == IF amount >= 300000 THEN 25 ELSE IF amount >= 100000 THEN 20
              ELSE IF amount >= 50000 THEN 10 ELSE 0
  IN  ((amount * rate) \div 10000) * 100
-----------------------------------------------------------------------------
(***************************************************************************)
(* Reading.                                                                *)
(***************************************************************************)
Begin(c, op, fields) ==
  /\ op \in Ops
  /\ req[c].phase = "idle"
  /\ req' = [req EXCEPT ![c] = fields]
  /\ UNCHANGED <<balance, ledger, pending, locks, clobbered>>

\* The accrual of close_order and the lifecycle gifts read the total unlocked.
CallUnlocked(c) ==
  \E op \in Unlocked :
    Begin(c, op, [Idle EXCEPT !.op = op, !.phase = "write", !.view = balance])

CallLocking(c) ==
  \E op \in {"top_up", "spend", "redeem"} : Begin(c, op, [Idle EXCEPT !.op = op, !.phase = "lock"])

\* approve and qualify_referral lock their source before the member.
CallReward(c) ==
  \E s \in Sources :
    Begin(c, "reward", [Idle EXCEPT !.op = "reward", !.phase = "review", !.source = s])

\* The nightly job reads its candidates (whichever are due) and the markers before
\* it locks anything; the scheduler runs one instance of it.
CallExpire(c) ==
  /\ \A d \in Clients : req[d].op # "expire"
  /\ \E found \in (SUBSET Reversible) \ {{}} :
       Begin(c, "expire", [Idle EXCEPT !.op = "expire", !.phase = "lock", !.found = found])

\* Slip: a SELECT without FOR UPDATE.
Select(c, row, phase, fields) ==
  /\ req[c].phase = phase
  /\ req' = [req EXCEPT ![c] = fields]
  /\ UNCHANGED <<balance, ledger, pending, locks, clobbered>>

\* A row lock is granted when its holder's transaction ends; what is read under it
\* is the newest committed version.
Lock(c, row, phase, fields) ==
  /\ req[c].phase = phase
  /\ locks[row] = None
  /\ locks' = [locks EXCEPT ![row] = c]
  /\ req' = [req EXCEPT ![c] = fields]
  /\ UNCHANGED <<balance, ledger, pending, clobbered>>

\* One-shot: only a source that is still pending goes on.
Review(c) ==
  /\ req[c].source \in pending
  /\ Lock(c, req[c].source, "review", [req[c] EXCEPT !.phase = "lock"])

LockCustomer(c) == Lock(c, "customer", "lock", [req[c] EXCEPT !.phase = "write", !.view = balance])
-----------------------------------------------------------------------------
(***************************************************************************)
(* Writing: the ledger rows, and the total as read plus their sum.  An     *)
(* UPDATE without a lock of its own waits for the lock of another.         *)
(***************************************************************************)
Released(c) == [r \in Rows |-> IF locks[r] = c THEN None ELSE locks[r]]

Commit(c, op) ==
  /\ req[c].op = op /\ req[c].phase = "write"
  /\ locks["customer"] \in {None, c}
  /\ locks' = Released(c)
  /\ req' = [req EXCEPT ![c] = Idle]

Post(c, account, entries, total) ==
  /\ Len(ledger) + Len(entries) <= MaxEntries
  /\ ledger' = ledger \o entries
  /\ balance' = [balance EXCEPT ![account] = total]
  /\ clobbered' = (clobbered \/ (req[c].op \in Unlocked
                                  /\ req[c].view[account] # balance[account]))

TopUp(c) ==
  /\ Commit(c, "top_up")
  /\ \E amount \in Amounts :
       LET bonus == BonusFor(amount)
           rows == <<EntryOf("wallet", "topup", amount)>>
                     \o (IF bonus > 0 THEN <<EntryOf("wallet", "topup.bonus", bonus)>> ELSE <<>>)
       IN  Post(c, "wallet", rows, req[c].view["wallet"] + amount + bonus)
  /\ UNCHANGED pending

Spend(c) ==
  /\ Commit(c, "spend")
  /\ \E amount \in Amounts :
       /\ req[c].view["wallet"] >= amount
       /\ Post(c, "wallet", <<EntryOf("wallet", "spend", -amount)>>,
               req[c].view["wallet"] - amount)
  /\ UNCHANGED pending

Redeem(c) ==
  /\ Commit(c, "redeem")
  /\ \E points \in Points :
       /\ req[c].view["points"] >= points
       /\ Post(c, "points", <<EntryOf("points", "redeem", -points)>>,
               req[c].view["points"] - points)
  /\ UNCHANGED pending

Reward(c) ==
  /\ Commit(c, "reward")
  /\ pending' = pending \ {req[c].source}
  /\ \E points \in Points :
       Post(c, "points", <<[EntryOf("points", "reward", points) EXCEPT !.source = req[c].source]>>,
            req[c].view["points"] + points)

Accrue(c) ==
  /\ Commit(c, "accrue")
  /\ \E points \in Points :
       Post(c, "points", <<EntryOf("points", "order.earn", points)>>,
            req[c].view["points"] + points)
  /\ UNCHANGED pending

\* _grant_once: the unique index refuses a second gift and nothing is added.
Gift(c) ==
  /\ Commit(c, "gift")
  /\ IF Booked({"gift"}) # {}
       THEN UNCHANGED <<balance, ledger, clobbered>>
       ELSE \E points \in Points :
              Post(c, "points", <<EntryOf("points", "gift", points)>>,
                   req[c].view["points"] + points)
  /\ UNCHANGED pending

\* What is left of the total: each reversal takes at most what is there.
Left(view, removed) == IF removed < view THEN view - removed ELSE 0

\* Every candidate is reversed in full in the ledger, with its marker; the query gives
\* them in no particular order.
Expire(c) ==
  /\ Commit(c, "expire")
  /\ \E found \in SetToSeqs(req[c].found) :
       LET Reversal(i) ==
             [EntryOf("points", "expire.batch", -ledger[i].delta) EXCEPT !.original = i]
       IN  Post(c, "points", [k \in DOMAIN found |-> Reversal(found[k])],
                Left(req[c].view["points"], Sum(req[c].found)))
  /\ UNCHANGED pending

Rollback(c) ==
  /\ req[c].phase # "idle"
  /\ locks' = Released(c)
  /\ req' = [req EXCEPT ![c] = Idle]
  /\ UNCHANGED <<balance, ledger, pending, clobbered>>

Next ==
  \E c \in Clients :
    \/ CallUnlocked(c) \/ CallLocking(c) \/ CallReward(c) \/ CallExpire(c)
    \/ Review(c) \/ LockCustomer(c)
    \/ TopUp(c) \/ Spend(c) \/ Redeem(c) \/ Reward(c) \/ Accrue(c) \/ Gift(c) \/ Expire(c)
    \/ Rollback(c)

Spec == Init /\ [][Next]_vars
-----------------------------------------------------------------------------
\* Every variable has its type, and neither account is ever overdrawn.
TypeOK ==
  /\ balance \in [Accounts -> Nat]
  /\ ledger \in Seq(Entry) /\ Len(ledger) <= MaxEntries
  /\ pending \in SUBSET Sources
  /\ locks \in [Rows -> Clients \cup {None}]
  /\ req \in [Clients -> Request]
  /\ clobbered \in BOOLEAN

PointsReasons == {"redeem", "reward", "order.earn", "gift", "expire.batch"}
Grants == {"reward", "order.earn", "gift"}

\* Stored value: the cached total is the sum of its ledger, so terminals that spend
\* and top up at the same time neither lose nor create money.
WalletBacked == balance["wallet"] = Sum(Booked({"topup", "topup.bonus", "spend"}))

\* Points: unless an unlocked write went over a newer total, the cached total is
\* the sum of its ledger, or above it once expiry has reversed points that were
\* already spent.
PointsBacked ==
  ~clobbered => /\ balance["points"] >= Sum(Booked(PointsReasons))
                /\ Booked({"expire.batch"}) = {} =>
                     balance["points"] = Sum(Booked(PointsReasons))

\* Either account is backed by its ledger, and neither is ever overdrawn.
AccountsBacked == WalletBacked /\ PointsBacked /\ \A a \in Accounts : balance[a] >= 0

\* A submission or referral is rewarded once, an earned row is reversed once and a
\* gift is given once, however reviews, sweeps and retries interleave.
GrantedOnce ==
  /\ \A i, j \in Booked({"reward"}) : ledger[i].source = ledger[j].source => i = j
  /\ \A i, j \in Booked({"expire.batch"}) : ledger[i].original = ledger[j].original => i = j
  /\ Cardinality(Booked({"gift"})) <= 1

\* redeem_points: concurrent requests never redeem more than was granted.
NoDoubleSpend == -Sum(Booked({"redeem"})) <= Sum(Booked(Grants))
=============================================================================
