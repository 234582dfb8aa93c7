----------------------------- MODULE MCStoreDay -----------------------------
(***************************************************************************)
(* StoreDay on a small instance.                                           *)
(***************************************************************************)
EXTENDS StoreDay, TLC

CONSTANTS r1, r2, r3, r4, r5

TheQueue == <<r1, r2, r3, r4, r5>>

At(h) == 200 * h  \* in the units of LaborHours

\* Day 1 is a holiday and day 2 is not: in at one and at ten in the evening of the first
\* and at nine of the second; out at nine, at eight the next morning and at eight that night.
TheIns == {At(25), At(46), At(57)}
TheOuts == {At(33), At(56), At(68)}

Doc(kind, key, number, issuer, of, qty) ==
  [kind |-> kind, key |-> key, number |-> number, issuer |-> issuer, of |-> of, qty |-> qty]

\* A dish of rice and an egg, and one whose recipe was never entered.
TheRecipes == "bowl" :> ("rice" :> 2 @@ "egg" :> 1) @@ "special" :> [i \in {} |-> 0]

\* Number 1 of the store's day, with a key and without one; number 1 of a supplier, of another
\* and of one that is not told; a count, and forms that have a key only.
TheDocs ==
  {Doc("order", None, 1, "day", "special", 2), Doc("order", "k", 1, "day", "bowl", 2)}
    \cup {Doc("purchase", None, 1, issuer, "rice", 5) : issuer \in {"s1", "s2", None}}
    \cup {Doc("purchase", "k", 1, "s1", "rice", 5)}
    \cup {Doc("adjustment", None, None, None, "rice", -1),
          Doc("waste", "k", None, None, "egg", 1),
          Doc("staff_meal", "k", None, None, "bowl", 1),
          Doc("staff_meal", "k", None, None, "special", 1)}

Row(sku, opens, closes) ==
  [sku |-> sku, price |-> 1, opens |-> opens, closes |-> closes, category |-> None,
   words |-> {}, live |-> TRUE]

\* A tea with a choice of sugar, one option of which costs one more, and a bun beside it.
TheMenu == "tea" :> Row("t", 0, 1)
TheGroups == [g \in {"sugar", "ice"} |-> [item |-> "tea", min |-> 1, max |-> 1]]
TheParts == "beside" :> [combo |-> "tea", item |-> "bun"]
              @@ "with" :> [combo |-> "bun", item |-> "tea"]
TheOptions == "less" :> "sugar" @@ "more" :> "sugar" @@ "cold" :> "ice"
TheDeltas == "less" :> 0 @@ "more" :> 1 @@ "cold" :> 0

TheJobs ==
  LET Job(op, on, fields) == [op |-> op, on |-> on, fields |-> fields]
  IN  {Job("create", "bun", [Row("b", None, None) EXCEPT !.category = "drinks"])}
        \cup {Job("patch", "tea", f) :
                f \in {[sku |-> "b"], [price |-> 2], [opens |-> 2],
                       [opens |-> None, closes |-> None]}}
        \cup {Job("translate", "tea", lang) : lang \in {"en", "ja"}}
        \cup {Job("delete", "tea", None)}
        \cup {Job("offer", o, None) : o \in {"ice", "with", "drinks"}}
        \cup {Job("withdraw", o, None) : o \in {"sugar", "beside", "drinks"}}
        \cup {Job("order", "tea", options) :
                 options \in {{}, {"less"}, {"less", "more"}, {"more", "cold"}}}

\* An hourly and a salaried employee, who comes a day later.
ThePay == "ann" :> [wage |-> 2, salary |-> 0, hired |-> 0]
            @@ "bo" :> [wage |-> 0, salary |-> 40, hired |-> 1]
TheBills == {[gross |-> 21, discount |-> 4, rate |-> 10, cogs |-> 5]}
TheWork == {[regular |-> 8, tier1 |-> 2, tier2 |-> 0, holiday |-> 1]}

\* A member the store knows by phone; who comes may be that member, or only share a LINE id
\* with a row that took both.
TheMembers == "cy" :> [phone |-> "p1", line |-> None]
TheHandles == {[phone |-> "p1", line |-> "l1"], [phone |-> None, line |-> "l1"]}
=============================================================================
