---------------------------- MODULE MCTableBill ----------------------------
(* Small instances of TableBill.  Money in cents, ratios in hundredths. *)
EXTENDS TableBill, TLC

CONSTANTS t1, t2, s1, s2, s3, o1, o2, o3, l1, l2, l3, c1, c2

Off(kind, value) == [kind |-> kind, value |-> value, auto |-> FALSE]

\* Manual discounts: half the bill (which leaves half a cent), or an amount.
MCHalf   == {Off("percent", 50)}
MCAmount == {Off("amount", 7)}

\* Automatic rules: the happy hour is in force at some hours only; the better
\* one needs a minimum bill.
MCRatioRules == {[kind |-> "percent", value |-> 10, min |-> 0, windowed |-> TRUE],
                 [kind |-> "percent", value |-> 20, min |-> 10, windowed |-> FALSE]}

\* An amount rule whose threshold covers it.
MCAmountRules == {[kind |-> "amount", value |-> 5, min |-> 9, windowed |-> FALSE]}
MCNoRules == {}

Ids == Permutations(Tables) \cup Permutations(Sessions) \cup Permutations(Orders)
         \cup Permutations(Lines) \cup Permutations(Clients)
=============================================================================
