---------------------------- MODULE VoucherBook ----------------------------
(***************************************************************************)
(* What the book of a campaign's vouchers promises, whoever redeems them   *)
(* and whatever runs at night (models/campaigns.py, VoucherStatus): a      *)
(* voucher is redeemed once, on a day of its window, and at most one per   *)
(* member and day; or it expires after its window; neither is undone.      *)
(***************************************************************************)
EXTENDS Integers, Sequences

VARIABLES
  book,   \* the vouchers: member, window, state and day of redemption
  clock   \* the day

Init == book = <<>>

Issue ==
  /\ Len(book') = Len(book) + 1
  /\ \A v \in DOMAIN book : book'[v] = book[v]
  /\ LET new == book'[Len(book')] IN new.state = "active" /\ new.from < new.until

Redeem(v) ==
  LET day == book'[v].on IN
  /\ book[v].state = "active"
  /\ day \in book[v].from .. book[v].until
  /\ \A w \in DOMAIN book : book[w].state = "redeemed" /\ book[w].member = book[v].member
       => book[w].on # day
  /\ book' = [book EXCEPT ![v].state = "redeemed", ![v].on = day]

Expire(late) ==
  /\ \A v \in late : book[v].state = "active" /\ book[v].until < clock
  /\ book' = [v \in DOMAIN book |->
                IF v \in late THEN [book[v] EXCEPT !.state = "expired"] ELSE book[v]]

Next ==
  \/ Issue
  \/ \E v \in DOMAIN book : Redeem(v)
  \/ \E late \in SUBSET DOMAIN book : Expire(late)

Spec == Init /\ [][Next]_book
=============================================================================
