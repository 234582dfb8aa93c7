------------------------------- MODULE Bill -------------------------------
(***************************************************************************)
(* What the till promises about a bill, without lines, discounts, sessions *)
(* or requests (services/pos_order_service.py, module docstring and        *)
(* _guard_not_below_paid): the price of an open bill moves freely but not  *)
(* below what was collected, a collection never exceeds what is owed and   *)
(* closes the bill exactly when it covers it, and a closed bill can only   *)
(* be voided.                                                              *)
(***************************************************************************)
EXTENDS Integers

CONSTANT Bills

VARIABLE bill  \* state, price and the amount collected of every bill

States == {"none", "open", "closed", "voided"}

Init == bill = [b \in Bills |-> [state |-> "none", due |-> 0, paid |-> 0]]

\* An open bill, new or old, whose new price covers what was collected.
Priced(b) ==
  /\ bill[b].state \in {"none", "open"}
  /\ bill'[b].state = "open"
  /\ bill'[b].paid = bill[b].paid
  /\ bill'[b].due >= bill[b].paid

Price(b) ==
  /\ Priced(b)
  /\ bill' = [bill EXCEPT ![b] = bill'[b]]

\* The first collection may come with a last change of price (auto discount).
Collect(b) ==
  /\ bill[b].state = "open"
  /\ bill' = [bill EXCEPT ![b] = bill'[b]]
  /\ bill'[b].due = bill[b].due \/ bill[b].paid = 0
  /\ bill[b].paid <= bill'[b].paid /\ bill'[b].paid <= bill'[b].due
  /\ bill'[b].state = (IF bill'[b].paid = bill'[b].due THEN "closed" ELSE "open")

\* Closing without a collection, as the order API allows.
Close(b) ==
  /\ bill[b].state = "open"
  /\ bill' = [bill EXCEPT ![b].state = "closed"]

Void(b) ==
  /\ bill[b].state \in {"open", "closed"}
  /\ bill' = [bill EXCEPT ![b].state = "voided", ![b].due = 0]

\* b is folded into a: nothing was collected on b, and a carries on.
Fold(a, b) ==
  /\ bill[b].state = "open" /\ bill[b].paid = 0
  /\ Priced(a)
  /\ bill' = [bill EXCEPT ![a] = bill'[a], ![b].state = "voided", ![b].due = 0]

Next ==
  \/ \E b \in Bills : Price(b) \/ Collect(b) \/ Close(b) \/ Void(b)
  \/ \E a, b \in Bills : a # b /\ Fold(a, b)

Spec == Init /\ [][Next]_bill
=============================================================================
