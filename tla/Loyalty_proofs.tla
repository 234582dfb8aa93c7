--------------------------- MODULE Loyalty_proofs ---------------------------
(***************************************************************************)
(* Theorems about Loyalty, for any number of transactions, sources and     *)
(* ledger rows.                                                            *)
(***************************************************************************)
EXTENDS Loyalty, Sums, TLAPS

-----------------------------------------------------------------------------
(***************************************************************************)
(* The inductive invariant.                                                *)
(***************************************************************************)

\* A transaction under way: one that locks has read the newest total and keeps it to itself;
\* a reward holds its source, which is still pending; what the expiry found is still to be
\* reversed.
Entitled(c, r) ==
  /\ r.view \in [Accounts -> Nat]
  /\ r.phase = "review" => r.op = "reward"
  /\ r.phase = "lock" => r.op \in Locking
  /\ r.phase = "write" /\ r.op \in Locking => locks["customer"] = c /\ r.view = balance
  /\ r.op = "reward" =>
       /\ r.source \in Sources
       /\ r.phase \in {"lock", "write"} => r.source \in pending /\ locks[r.source] = c
  /\ r.op = "expire" => r.found # {} /\ r.found \subseteq Reversible

RequestsEntitled == \A c \in Clients : Entitled(c, req[c])

\* The scheduler runs one expiry at a time.
OneExpiry ==
  \A c, d \in Clients : req[c].op = "expire" /\ req[d].op = "expire" => c = d

\* What was rewarded is no longer pending, and nothing is granted or reversed twice.
RewardsReviewed == \A i \in Booked({"reward"}) : ledger[i].source \in Sources \ pending
Granted ==
  /\ RewardsReviewed
  /\ \A i, j \in Booked({"reward"}) : ledger[i].source = ledger[j].source => i = j
  /\ \A i, j \in Booked({"expire.batch"}) : ledger[i].original = ledger[j].original => i = j
  /\ \A i, j \in Booked({"gift"}) : i = j

Inv ==
  TypeOK /\ RequestsEntitled /\ OneExpiry /\ WalletBacked /\ PointsBacked /\ Granted

-----------------------------------------------------------------------------
(***************************************************************************)
(* What a ledger adds up to.                                               *)
(***************************************************************************)
WalletReasons == {"topup", "topup.bonus", "spend"}
RowsOf(l, reasons) == {i \in DOMAIN l : l[i].reason \in reasons}
Deltas(l) == [i \in DOMAIN l |-> l[i].delta]
SumOf(l, reasons) == SumFunctionOnSet(Deltas(l), RowsOf(l, reasons))

\* The rows of a ledger are finitely many, and theirs are whole numbers.
LEMMA LedgerFinite ==
  ASSUME NEW l \in Seq(Entry), NEW reasons
  PROVE  /\ IsFiniteSet(DOMAIN l) /\ IsFiniteSet(RowsOf(l, reasons))
         /\ \A i \in DOMAIN l : Deltas(l)[i] \in Int /\ Deltas(l)[i] = l[i].delta
         /\ SumOf(l, reasons) \in Int
<1>1. IsFiniteSet(DOMAIN l)
  <2>1. DOMAIN l = 1 .. Len(l) /\ Len(l) \in Nat
    OBVIOUS
  <2> QED
    BY <2>1, FS_Interval
<1>2. RowsOf(l, reasons) \subseteq DOMAIN l
  BY DEF RowsOf
<1>3. IsFiniteSet(RowsOf(l, reasons))
  BY <1>1, <1>2, FS_Subset
<1>4. \A i \in DOMAIN l : Deltas(l)[i] \in Int /\ Deltas(l)[i] = l[i].delta
  <2>1. \A i \in DOMAIN l : l[i] \in Entry
    OBVIOUS
  <2>2. \A e \in Entry : e.delta \in Int
    BY DEF Entry
  <2> QED
    BY <2>1, <2>2 DEF Deltas
<1>5. SumOf(l, reasons) \in Int
  BY <1>2, <1>3, <1>4, SumType DEF SumOf
<1> QED
  BY <1>1, <1>3, <1>4, <1>5

\* Rows written below a ledger add to it what they add up to.
LEMMA SumConcat ==
  ASSUME NEW l \in Seq(Entry), NEW m \in Seq(Entry), NEW reasons
  PROVE  /\ l \o m \in Seq(Entry)
         /\ SumOf(l \o m, reasons) = SumOf(l, reasons) + SumOf(m, reasons)
<1> DEFINE n == Len(l)
           k == l \o m
           A == RowsOf(l, reasons)
           B == RowsOf(m, reasons)
           g == [j \in B |-> n + j]
           C == {g[j] : j \in B}
<1>0. n \in Nat /\ Len(m) \in Nat /\ DOMAIN l = 1 .. n /\ DOMAIN m = 1 .. Len(m)
  OBVIOUS
<1>1. /\ k \in Seq(Entry) /\ DOMAIN k = 1 .. n + Len(m)
      /\ \A i \in DOMAIN k : k[i] = IF i <= n THEN l[i] ELSE m[i - n]
  BY <1>0
<1> HIDE DEF n, k
<1>2. IsFiniteSet(A) /\ IsFiniteSet(B) /\ SumOf(m, reasons) \in Int
  BY LedgerFinite
<1>3. g \in [B -> C] /\ \A x, y \in B : g[x] = g[y] => x = y
  BY <1>0 DEF RowsOf
<1>4. \A j \in B : g[j] \in DOMAIN k /\ k[g[j]] = m[j] /\ g[j] \notin A
  BY <1>0, <1>1 DEF RowsOf
<1>5. A \cap C = {}
  BY <1>4
<1>6. RowsOf(k, reasons) = A \cup C
  <2>1. ASSUME NEW i \in RowsOf(k, reasons) PROVE i \in A \cup C
    <3>1. i \in DOMAIN k /\ k[i].reason \in reasons
      BY DEF RowsOf
    <3>2. CASE i <= n
      BY <1>0, <1>1, <3>1, <3>2 DEF RowsOf
    <3>3. CASE ~(i <= n)
      <4>1. i - n \in B /\ g[i - n] = i
        BY <1>0, <1>1, <3>1, <3>3 DEF RowsOf
      <4> QED
        BY <4>1
    <3> QED
      BY <3>2, <3>3
  <2>2. A \subseteq RowsOf(k, reasons)
    BY <1>0, <1>1 DEF RowsOf
  <2>3. C \subseteq RowsOf(k, reasons)
    BY <1>4 DEF RowsOf
  <2> QED
    BY <2>1, <2>2, <2>3
<1>7. \A i \in DOMAIN k : Deltas(k)[i] \in Int /\ Deltas(k)[i] = k[i].delta
  BY <1>1, LedgerFinite
<1>8. \A i \in DOMAIN l : Deltas(l)[i] \in Int /\ Deltas(l)[i] = l[i].delta
  BY LedgerFinite
<1>9. \A i \in DOMAIN m : Deltas(m)[i] \in Int /\ Deltas(m)[i] = m[i].delta
  BY LedgerFinite
<1>10. SumFunctionOnSet(Deltas(m), B) = SumFunctionOnSet(Deltas(k), C)
  <2>1. \A j \in B : Deltas(k)[g[j]] \in Int /\ Deltas(m)[j] = Deltas(k)[g[j]]
    <3>1. B \subseteq DOMAIN m
      BY DEF RowsOf
    <3> HIDE DEF g, B
    <3> QED
      BY <1>4, <1>7, <1>9, <3>1
  <2>2. \A y \in C : \E j \in B : g[j] = y
    OBVIOUS
  <2> HIDE DEF g, B, C
  <2> QED
    BY <1>2, <1>3, <2>1, <2>2, SumImage
<1>11. SumFunctionOnSet(Deltas(k), A) = SumFunctionOnSet(Deltas(l), A)
  <2>1. \A i \in A : Deltas(l)[i] \in Int /\ Deltas(k)[i] = Deltas(l)[i]
    BY <1>0, <1>1, <1>7, <1>8 DEF RowsOf
  <2> HIDE DEF A
  <2> QED
    BY <1>2, <2>1, SumSame
<1>12. IsFiniteSet(C)
  <2>1. C \subseteq RowsOf(k, reasons) /\ IsFiniteSet(RowsOf(k, reasons))
    BY <1>1, <1>6, LedgerFinite
  <2> QED
    BY <2>1, FS_Subset
<1>13. SumFunctionOnSet(Deltas(k), A \cup C)
         = SumFunctionOnSet(Deltas(k), A) + SumFunctionOnSet(Deltas(k), C)
  <2>1. \A i \in A \cup C : Deltas(k)[i] \in Int
    BY <1>6, <1>7 DEF RowsOf
  <2> HIDE DEF A, C
  <2> QED
    BY <1>2, <1>5, <1>12, <2>1, SumUnion
<1> QED
  BY <1>1, <1>6, <1>10, <1>11, <1>13 DEF SumOf, k

\* What a single row adds up to.
LEMMA SumOne ==
  ASSUME NEW e \in Entry, NEW reasons
  PROVE  /\ <<e>> \in Seq(Entry)
         /\ SumOf(<<e>>, reasons) = IF e.reason \in reasons THEN e.delta ELSE 0
<1>1. <<e>> \in Seq(Entry) /\ DOMAIN <<e>> = {1} /\ <<e>>[1] = e
  OBVIOUS
<1>2. Deltas(<<e>>)[1] = e.delta /\ e.delta \in Int
  BY <1>1 DEF Deltas, Entry
<1>3. CASE e.reason \in reasons
  <2>1. RowsOf(<<e>>, reasons) = {1}
    BY <1>1, <1>3 DEF RowsOf
  <2>2. IsFiniteSet({}) /\ {} \cup {1} = {1}
    BY FS_EmptySet
  <2>3. SumFunctionOnSet(Deltas(<<e>>), {} \cup {1})
          = Deltas(<<e>>)[1] + SumFunctionOnSet(Deltas(<<e>>), {})
    <3>1. 1 \notin {} /\ \A y \in {} \cup {1} : Deltas(<<e>>)[y] \in Int
      BY <1>2
    <3> QED
      BY <2>2, <3>1, SumAdd
  <2>4. SumOf(<<e>>, reasons) = SumFunctionOnSet(Deltas(<<e>>), {} \cup {1})
    BY <2>1, <2>2, Zenon DEF SumOf
  <2> QED
    BY <1>1, <1>2, <1>3, <2>3, <2>4, SumEmpty
<1>4. CASE e.reason \notin reasons
  <2>1. RowsOf(<<e>>, reasons) = {}
    BY <1>1, <1>4 DEF RowsOf
  <2> QED
    BY <1>1, <1>4, <2>1, SumEmpty DEF SumOf
<1> QED
  BY <1>3, <1>4

\* Reversing some rows of a ledger takes off what they add up to.
LEMMA SumReversals ==
  ASSUME NEW l \in Seq(Entry), NEW S \in SUBSET DOMAIN l, NEW f \in SetToSeqs(S),
         NEW m \in Seq(Entry), DOMAIN m = DOMAIN f,
         \A k \in DOMAIN m : m[k].reason = "expire.batch" /\ m[k].delta = -l[f[k]].delta,
         NEW reasons, "expire.batch" \in reasons
  PROVE  SumOf(m, reasons) = -SumFunctionOnSet(Deltas(l), S)
<1> DEFINE h == [k \in DOMAIN f |-> Deltas(l)[f[k]]]
<1>1. IsFiniteSet(S) /\ \A i \in S : Deltas(l)[i] \in Int /\ Deltas(l)[i] = l[i].delta
  BY LedgerFinite, FS_Subset
<1>2. /\ f \in [DOMAIN f -> S] /\ \A i, j \in DOMAIN f : f[i] = f[j] => i = j
      /\ \A i \in S : \E k \in DOMAIN f : f[k] = i
      /\ IsFiniteSet(DOMAIN f)
  BY <1>1, Enumerates, FS_CardinalityType, FS_Interval
<1>3. \A k \in DOMAIN f : h[k] = Deltas(l)[f[k]] /\ Deltas(l)[f[k]] \in Int
  BY <1>1, <1>2
<1> HIDE DEF h
<1>4. SumFunctionOnSet(h, DOMAIN f) = SumFunctionOnSet(Deltas(l), S)
  <2>1. PICK T, d, g : T = DOMAIN f /\ d = Deltas(l) /\ g = f
    OBVIOUS
  <2>2. /\ IsFiniteSet(T) /\ g \in [T -> S]
        /\ \A i, j \in T : g[i] = g[j] => i = j
        /\ \A i \in S : \E k \in T : g[k] = i
    BY <1>2, <2>1
  <2>3. \A k \in T : d[g[k]] \in Int /\ h[k] = d[g[k]]
    BY <1>3, <2>1
  <2>4. SumFunctionOnSet(h, T) = SumFunctionOnSet(d, S)
    BY <2>2, <2>3, SumImage
  <2> QED
    BY <2>1, <2>4
<1>5. \A k \in DOMAIN f : h[k] \in Int /\ Deltas(m)[k] = -h[k]
  <2>1. \A k \in DOMAIN m : Deltas(m)[k] = m[k].delta
    BY LedgerFinite
  <2> QED
    BY <1>1, <1>2, <1>3, <2>1
<1>6. SumFunctionOnSet(Deltas(m), DOMAIN f) = -SumFunctionOnSet(h, DOMAIN f)
  BY <1>2, <1>5, SumNegate
<1>7. RowsOf(m, reasons) = DOMAIN f
  BY DEF RowsOf
<1> QED
  BY <1>4, <1>6, <1>7 DEF SumOf

-----------------------------------------------------------------------------
(***************************************************************************)
(* A ledger that grows.                                                    *)
(***************************************************************************)

\* The two ways to speak of the same sum.
LEMMA SumIsSumOf ==
  \A reasons : /\ Sum(Booked(reasons)) = SumOf(ledger, reasons)
               /\ Sum(Booked(reasons))' = SumOf(ledger', reasons)
BY Zenon DEF Sum, Booked, SumOf, Deltas, RowsOf

\* The rows that were there stay, the new ones follow them.
LEMMA Appended ==
  ASSUME NEW l \in Seq(Entry), NEW m \in Seq(Entry)
  PROVE  /\ l \o m \in Seq(Entry) /\ Len(l \o m) = Len(l) + Len(m)
         /\ \A i \in DOMAIN l : i \in DOMAIN (l \o m) /\ (l \o m)[i] = l[i]
         /\ \A i \in DOMAIN (l \o m) \ DOMAIN l :
              i - Len(l) \in DOMAIN m /\ (l \o m)[i] = m[i - Len(l)]
OBVIOUS

\* Unless rows are reversed, what an expiry found is still to be reversed.
LEMMA StillReversible ==
  ASSUME ledger \in Seq(Entry), NEW m \in Seq(Entry), ledger' = ledger \o m,
         \A k \in DOMAIN m : m[k].original = 0
  PROVE  Reversible \subseteq Reversible'
<1>1. PICK l \in Seq(Entry) : l = ledger
  OBVIOUS
<1>2. PICK k \in Seq(Entry) : k = ledger' /\ k = l \o m
  BY <1>1, Appended
<1>3. \A i \in DOMAIN l : i \in DOMAIN k /\ k[i] = l[i]
  BY <1>2, Appended
<1>4. \A i \in DOMAIN k \ DOMAIN l : k[i].original = 0
  BY <1>2, Appended
<1>5. \A i \in DOMAIN l : i # 0
  OBVIOUS
<1> QED
  BY <1>1, <1>2, <1>3, <1>4, <1>5 DEF Reversible, Booked, Reversed

\* Nothing is granted or reversed twice as long as what is written is neither.
LEMMA GrantedKept ==
  ASSUME ledger \in Seq(Entry), Granted, NEW m \in Seq(Entry), ledger' = ledger \o m,
         pending' \subseteq pending,
         \A k \in DOMAIN m : m[k].reason \in {"reward", "gift"} => Len(m) = 1,
         \A k \in DOMAIN m :
           m[k].reason = "reward" => m[k].source \in (pending \cap Sources) \ pending',
         \A k \in DOMAIN m : m[k].reason = "gift" => Booked({"gift"}) = {},
         \A k \in DOMAIN m : m[k].reason = "expire.batch" => m[k].original \notin Reversed,
         \A j, k \in DOMAIN m : m[j].reason = "expire.batch" /\ m[k].reason = "expire.batch"
                                /\ m[j].original = m[k].original => j = k
  PROVE  Granted'
<1>1. PICK l \in Seq(Entry) : l = ledger
  OBVIOUS
<1>2. PICK n \in Seq(Entry) : n = ledger' /\ n = l \o m
  BY <1>1, Appended
<1>3. \A i \in DOMAIN l : i \in DOMAIN n /\ n[i] = l[i]
  BY <1>2, Appended
<1>4. \A i \in DOMAIN n \ DOMAIN l : i - Len(l) \in DOMAIN m /\ n[i] = m[i - Len(l)]
  BY <1>2, Appended
<1>5. Len(l) \in Nat /\ DOMAIN n \subseteq Nat /\ (Len(m) = 1 => DOMAIN m = {1})
  OBVIOUS
<1>6. \A i, j \in DOMAIN n \ DOMAIN l :
        /\ i - Len(l) = j - Len(l) => i = j
        /\ Len(m) = 1 => i = j
  BY <1>4, <1>5
<1>7. Granted =>
        /\ \A i \in DOMAIN l : l[i].reason = "reward" => l[i].source \in Sources \ pending
        /\ \A i, j \in DOMAIN l : l[i].reason = "reward" /\ l[j].reason = "reward"
                                  /\ l[i].source = l[j].source => i = j
        /\ \A i, j \in DOMAIN l : l[i].reason = "expire.batch" /\ l[j].reason = "expire.batch"
                                  /\ l[i].original = l[j].original => i = j
        /\ \A i, j \in DOMAIN l : l[i].reason = "gift" /\ l[j].reason = "gift" => i = j
  BY <1>1 DEF Granted, RewardsReviewed, Booked
<1>8. \A i \in DOMAIN l : l[i].original \in Reversed
  BY <1>1 DEF Reversed
<1>9. Booked({"gift"}) = {} => \A i \in DOMAIN l : l[i].reason # "gift"
  BY <1>1 DEF Booked
<1>10. /\ \A i \in DOMAIN n : n[i].reason = "reward" => n[i].source \in Sources \ pending'
       /\ \A i, j \in DOMAIN n : n[i].reason = "reward" /\ n[j].reason = "reward"
                                  /\ n[i].source = n[j].source => i = j
  <2>1. \A i \in DOMAIN n \ DOMAIN l : n[i].reason = "reward" =>
          Len(m) = 1 /\ n[i].source \in (pending \cap Sources) \ pending'
    BY <1>4
  <2> QED
    BY <1>3, <1>6, <1>7, <2>1
<1>11. \A i, j \in DOMAIN n : n[i].reason = "expire.batch" /\ n[j].reason = "expire.batch"
                              /\ n[i].original = n[j].original => i = j
  <2>1. \A i \in DOMAIN n \ DOMAIN l :
          n[i].reason = "expire.batch" => n[i].original \notin Reversed
    BY <1>4
  <2>2. \A i, j \in DOMAIN n \ DOMAIN l :
          n[i].reason = "expire.batch" /\ n[j].reason = "expire.batch"
          /\ n[i].original = n[j].original => i = j
    BY <1>4, <1>6
  <2> QED
    BY <1>3, <1>7, <1>8, <2>1, <2>2
<1>12. \A i, j \in DOMAIN n : n[i].reason = "gift" /\ n[j].reason = "gift" => i = j
  <2>1. \A i \in DOMAIN n \ DOMAIN l :
          n[i].reason = "gift" => Len(m) = 1 /\ Booked({"gift"}) = {}
    BY <1>4
  <2> QED
    BY <1>3, <1>6, <1>7, <1>9, <2>1
<1> QED
  BY <1>2, <1>10, <1>11, <1>12 DEF Granted, RewardsReviewed, Booked

-----------------------------------------------------------------------------
(***************************************************************************)
(* What the others may still count on.                                     *)
(***************************************************************************)

\* A transaction keeps what it was entitled to while its locks hold off the others.
LEMMA EntitledKept ==
  ASSUME NEW c \in Clients, NEW r, Entitled(c, r),
         \A row \in Rows : locks[row] = c => locks'[row] = c,
         locks["customer"] = c => balance' = balance,
         \A s \in pending : locks[s] = c => s \in pending',
         r.op = "expire" => Reversible \subseteq Reversible'
  PROVE  Entitled(c, r)'
<1>1. "customer" \in Rows /\ Sources \subseteq Rows
  BY DEF Rows
<1>2. r.phase = "write" /\ r.op \in Locking => locks'["customer"] = c /\ r.view = balance'
  BY <1>1 DEF Entitled
<1>3. r.op = "reward" =>
        /\ r.source \in Sources
        /\ r.phase \in {"lock", "write"} => r.source \in pending' /\ locks'[r.source] = c
  BY <1>1 DEF Entitled
<1>4. r.op = "expire" => r.found # {} /\ r.found \subseteq Reversible'
  BY DEF Entitled
<1> QED
  BY <1>2, <1>3, <1>4 DEF Entitled

\* So do all but the one that takes a step.
LEMMA OthersEntitled ==
  ASSUME RequestsEntitled, NEW c \in Clients,
         \A d \in Clients \ {c} :
           /\ req'[d] = req[d]
           /\ \A row \in Rows : locks[row] = d => locks'[row] = d
           /\ locks["customer"] = d => balance' = balance
           /\ \A s \in pending : locks[s] = d => s \in pending'
           /\ req[d].op = "expire" => Reversible \subseteq Reversible',
         Entitled(c, req[c])'
  PROVE  RequestsEntitled'
<1>1. ASSUME NEW d \in Clients, d # c PROVE Entitled(d, req[d])'
  <2>1. PICK r : r = req[d] /\ r = req'[d]
    BY <1>1
  <2>2. Entitled(d, r)
    BY <2>1 DEF RequestsEntitled
  <2>3. Entitled(d, r)'
    BY <1>1, <2>1, <2>2, EntitledKept
  <2> QED
    BY <2>1, <2>3
<1> QED
  BY <1>1 DEF RequestsEntitled

\* A reading step: it changes its own transaction and may take a lock that is free.
LEMMA Reads ==
  ASSUME LoyaltyAssumption, Inv, NEW c \in Clients, NEW fields \in Request,
         req' = [req EXCEPT ![c] = fields],
         UNCHANGED <<balance, ledger, pending, clobbered>>,
         locks' \in [Rows -> Clients \cup {None}],
         \A row \in Rows : locks[row] # None => locks'[row] = locks[row],
         Entitled(c, fields)',
         fields.op = "expire" => \A d \in Clients \ {c} : req[d].op # "expire"
  PROVE  Inv'
<1>0. None \notin Clients
  BY DEF LoyaltyAssumption
<1>1. TypeOK'
  BY DEF Inv, TypeOK
<1>2. req'[c] = fields /\ \A d \in Clients \ {c} : req'[d] = req[d]
  BY DEF Inv, TypeOK
<1>3. Reversible' = Reversible
  BY DEF Reversible, Booked, Reversed
<1>4. Entitled(c, req[c])'
  BY <1>2
<1>5. RequestsEntitled'
  <2>1. RequestsEntitled
    BY DEF Inv
  <2> QED
    BY <1>0, <1>2, <1>3, <1>4, <2>1, OthersEntitled
<1>6. OneExpiry'
  BY <1>2 DEF Inv, OneExpiry
<1>7. (WalletBacked /\ PointsBacked /\ Granted)'
  BY DEF Inv, WalletBacked, PointsBacked, Granted, RewardsReviewed, Booked, Sum
<1> QED
  BY <1>1, <1>5, <1>6, <1>7 DEF Inv

\* A transaction that ends, having written some rows or none: what is left to show is what
\* its rows add up to and that they grant nothing twice.
LEMMA Ends ==
  ASSUME LoyaltyAssumption, Inv, NEW c \in Clients,
         req' = [req EXCEPT ![c] = Idle], locks' = Released(c),
         locks["customer"] \in {None, c} \/ balance' = balance,
         balance' \in [Accounts -> Nat], clobbered' \in BOOLEAN,
         NEW m \in Seq(Entry), ledger' = ledger \o m, Len(ledger) + Len(m) <= MaxEntries,
         pending' \subseteq pending, \A s \in pending \ pending' : locks[s] = c,
         req[c].op # "expire" => \A k \in DOMAIN m : m[k].original = 0
  PROVE  TypeOK' /\ RequestsEntitled' /\ OneExpiry'
<1>0. None \notin Clients /\ None \notin Locking \cup Unlocked
  BY DEF LoyaltyAssumption
<1>1. TypeOK'
  <2>1. TypeOK
    BY DEF Inv
  <2>2. ledger' \in Seq(Entry) /\ Len(ledger') <= MaxEntries
    BY <2>1, Appended DEF TypeOK
  <2>3. locks' \in [Rows -> Clients \cup {None}]
    BY <2>1 DEF TypeOK, Released
  <2>4. Idle \in Request
    BY DEF Idle, Request, NoView
  <2>5. req' \in [Clients -> Request]
    BY <2>1, <2>4 DEF TypeOK
  <2>6. pending' \in SUBSET Sources
    BY <2>1 DEF TypeOK
  <2> QED
    BY <2>2, <2>3, <2>5, <2>6 DEF TypeOK
<1>2. req'[c] = Idle /\ \A d \in Clients \ {c} : req'[d] = req[d]
  BY DEF Inv, TypeOK
<1>3. Entitled(c, Idle)'
  <2>1. Idle.phase = "idle" /\ Idle.op = None /\ Idle.view = NoView
    BY DEF Idle
  <2>2. None \notin {"reward", "expire"}
    BY <1>0 DEF Locking
  <2> QED
    BY <2>1, <2>2 DEF Entitled, NoView
<1>4. \A d \in Clients \ {c} : req[d].op = "expire" => Reversible \subseteq Reversible'
  <2> SUFFICES ASSUME NEW d \in Clients \ {c}, req[d].op = "expire"
               PROVE  Reversible \subseteq Reversible'
    OBVIOUS
  <2>1. req[c].op # "expire"
    BY DEF Inv, OneExpiry
  <2> QED
    BY <2>1, StillReversible DEF Inv, TypeOK
<1>5. RequestsEntitled'
  <2>1. \A d \in Clients \ {c} :
          /\ \A row \in Rows : locks[row] = d => locks'[row] = d
          /\ locks["customer"] = d => balance' = balance
          /\ \A s \in pending : locks[s] = d => s \in pending'
    BY <1>0 DEF Released
  <2>2. Entitled(c, req[c])'
    BY <1>2, <1>3
  <2>3. RequestsEntitled
    BY DEF Inv
  <2> QED
    BY <1>2, <1>4, <2>1, <2>2, <2>3, OthersEntitled
<1>6. OneExpiry'
  <2>1. Idle.op # "expire"
    BY <1>0 DEF Idle, Locking
  <2> QED
    BY <1>2, <2>1 DEF Inv, OneExpiry
<1> QED
  BY <1>1, <1>5, <1>6

-----------------------------------------------------------------------------
(***************************************************************************)
(* Every step preserves the invariant: reading.                            *)
(***************************************************************************)

\* A transaction begins in the state it says, whatever it has read.
LEMMA BeginStep ==
  ASSUME LoyaltyAssumption, Inv, NEW c \in Clients, NEW op, NEW fields \in Request,
         Begin(c, op, fields), Entitled(c, fields),
         fields.op = "expire" => \A d \in Clients \ {c} : req[d].op # "expire"
  PROVE  Inv'
<1>1. /\ req' = [req EXCEPT ![c] = fields]
      /\ UNCHANGED <<balance, ledger, pending, locks, clobbered>>
  BY DEF Begin
<1>2. locks' \in [Rows -> Clients \cup {None}]
  BY <1>1 DEF Inv, TypeOK
<1>3. Entitled(c, fields)'
  BY <1>1 DEF Entitled, Reversible, Booked, Reversed
<1> QED
  BY <1>1, <1>2, <1>3, Reads

\* The accrual of a closed order and a lifecycle gift read the totals, unlocked.
LEMMA CallUnlockedStep ==
  ASSUME LoyaltyAssumption, Inv, NEW c \in Clients, CallUnlocked(c)
  PROVE  Inv'
<1>1. PICK op \in Unlocked :
        Begin(c, op, [Idle EXCEPT !.op = op, !.phase = "write", !.view = balance])
  BY DEF CallUnlocked
<1>2. PICK f : f = [Idle EXCEPT !.op = op, !.phase = "write", !.view = balance]
  OBVIOUS
<1>3. /\ f.op = op /\ f.phase = "write" /\ f.view = balance
      /\ f.source = None /\ f.found = {}
      /\ f = [op |-> f.op, phase |-> f.phase, source |-> f.source, view |-> f.view,
              found |-> f.found]
  BY <1>2 DEF Idle
<1>4. f \in Request
  BY <1>3 DEF Request, Inv, TypeOK
<1>5. op \notin Locking /\ op \notin {"reward", "expire"}
  BY DEF Locking, Unlocked
<1>6. Entitled(c, f)
  BY <1>3, <1>5 DEF Entitled, Inv, TypeOK
<1> QED
  BY <1>1, <1>2, <1>3, <1>4, <1>5, <1>6, BeginStep

\* A top-up, a purchase or a redemption waits for the member's row.
LEMMA CallLockingStep ==
  ASSUME LoyaltyAssumption, Inv, NEW c \in Clients, CallLocking(c)
  PROVE  Inv'
<1>1. PICK op \in {"top_up", "spend", "redeem"} :
        Begin(c, op, [Idle EXCEPT !.op = op, !.phase = "lock"])
  BY DEF CallLocking
<1>2. PICK f : f = [Idle EXCEPT !.op = op, !.phase = "lock"]
  OBVIOUS
<1>3. /\ f.op = op /\ f.phase = "lock" /\ f.view = NoView
      /\ f.source = None /\ f.found = {}
      /\ f = [op |-> f.op, phase |-> f.phase, source |-> f.source, view |-> f.view,
              found |-> f.found]
  BY <1>2 DEF Idle
<1>4. f \in Request
  BY <1>3 DEF Request, NoView, Locking
<1>5. op \in Locking /\ op \notin {"reward", "expire"}
  BY DEF Locking
<1>6. Entitled(c, f)
  BY <1>3, <1>5 DEF Entitled, NoView
<1> QED
  BY <1>1, <1>2, <1>3, <1>4, <1>5, <1>6, BeginStep

\* A review waits for its source.
LEMMA CallRewardStep ==
  ASSUME LoyaltyAssumption, Inv, NEW c \in Clients, CallReward(c)
  PROVE  Inv'
<1>1. PICK s \in Sources :
        Begin(c, "reward", [Idle EXCEPT !.op = "reward", !.phase = "review", !.source = s])
  BY DEF CallReward
<1>2. PICK f : f = [Idle EXCEPT !.op = "reward", !.phase = "review", !.source = s]
  OBVIOUS
<1>3. /\ f.op = "reward" /\ f.phase = "review" /\ f.view = NoView
      /\ f.source = s /\ f.found = {}
      /\ f = [op |-> f.op, phase |-> f.phase, source |-> f.source, view |-> f.view,
              found |-> f.found]
  BY <1>2 DEF Idle
<1>4. f \in Request
  BY <1>3 DEF Request, NoView, Locking
<1>6. Entitled(c, f)
  BY <1>3 DEF Entitled, NoView
<1> QED
  BY <1>1, <1>2, <1>3, <1>4, <1>6, BeginStep

\* The nightly job has its candidates.
LEMMA CallExpireStep ==
  ASSUME LoyaltyAssumption, Inv, NEW c \in Clients, CallExpire(c)
  PROVE  Inv'
<1>1. /\ \A d \in Clients : req[d].op # "expire"
      /\ \E found \in (SUBSET Reversible) \ {{}} :
           Begin(c, "expire", [Idle EXCEPT !.op = "expire", !.phase = "lock", !.found = found])
  BY DEF CallExpire
<1>2. PICK found \in (SUBSET Reversible) \ {{}} :
        Begin(c, "expire", [Idle EXCEPT !.op = "expire", !.phase = "lock", !.found = found])
  BY <1>1
<1>3. PICK f : f = [Idle EXCEPT !.op = "expire", !.phase = "lock", !.found = found]
  OBVIOUS
<1>4. /\ f.op = "expire" /\ f.phase = "lock" /\ f.view = NoView
      /\ f.source = None /\ f.found = found
      /\ f = [op |-> f.op, phase |-> f.phase, source |-> f.source, view |-> f.view,
              found |-> f.found]
  BY <1>3 DEF Idle
<1>5. Reversible \subseteq Nat
  BY DEF Reversible, Booked, Inv, TypeOK
<1>6. f \in Request
  BY <1>4, <1>5 DEF Request, NoView, Locking
<1>7. Entitled(c, f)
  BY <1>4 DEF Entitled, NoView, Locking
<1> QED
  BY <1>1, <1>2, <1>3, <1>4, <1>6, <1>7, BeginStep

\* A pending source is locked for review.
LEMMA ReviewStep ==
  ASSUME LoyaltyAssumption, Inv, NEW c \in Clients, Review(c)
  PROVE  Inv'
<1>1. PICK f : f = [req[c] EXCEPT !.phase = "lock"]
  OBVIOUS
<1>2. /\ req[c].source \in pending /\ req[c].phase = "review"
      /\ locks[req[c].source] = None
      /\ locks' = [locks EXCEPT ![req[c].source] = c]
      /\ req' = [req EXCEPT ![c] = f]
      /\ UNCHANGED <<balance, ledger, pending, clobbered>>
  BY <1>1 DEF Review, Lock
<1>3. PICK r \in Request : r = req[c]
  BY DEF Inv, TypeOK
<1>4. /\ f.op = r.op /\ f.phase = "lock" /\ f.view = r.view
      /\ f.source = r.source /\ f.found = r.found
      /\ f = [op |-> f.op, phase |-> f.phase, source |-> f.source, view |-> f.view,
              found |-> f.found]
  BY <1>1, <1>3 DEF Request
<1>5. f \in Request
  BY <1>3, <1>4 DEF Request
<1>6. Entitled(c, r)
  BY <1>3 DEF Inv, RequestsEntitled
<1>7. r.op = "reward" /\ r.source \in pending /\ r.source \in Rows
  BY <1>2, <1>3, <1>6 DEF Entitled, Rows
<1>8. /\ locks' \in [Rows -> Clients \cup {None}] /\ locks'[r.source] = c
      /\ \A row \in Rows : locks[row] # None => locks'[row] = locks[row]
  BY <1>2, <1>3, <1>7 DEF Inv, TypeOK
<1>9. Entitled(c, f)'
  BY <1>2, <1>4, <1>6, <1>7, <1>8 DEF Entitled, Locking
<1> QED
  BY <1>2, <1>4, <1>5, <1>7, <1>8, <1>9, Reads

\* The member's row is locked, and its totals are read.
LEMMA LockCustomerStep ==
  ASSUME LoyaltyAssumption, Inv, NEW c \in Clients, LockCustomer(c)
  PROVE  Inv'
<1>1. PICK f : f = [req[c] EXCEPT !.phase = "write", !.view = balance]
  OBVIOUS
<1>2. /\ req[c].phase = "lock" /\ locks["customer"] = None
      /\ locks' = [locks EXCEPT !["customer"] = c]
      /\ req' = [req EXCEPT ![c] = f]
      /\ UNCHANGED <<balance, ledger, pending, clobbered>>
  BY <1>1 DEF LockCustomer, Lock
<1>3. PICK r \in Request : r = req[c]
  BY DEF Inv, TypeOK
<1>4. /\ f.op = r.op /\ f.phase = "write" /\ f.view = balance
      /\ f.source = r.source /\ f.found = r.found
      /\ f = [op |-> f.op, phase |-> f.phase, source |-> f.source, view |-> f.view,
              found |-> f.found]
  BY <1>1, <1>3 DEF Request
<1>5. balance \in [Accounts -> Nat]
  BY DEF Inv, TypeOK
<1>6. f \in Request
  BY <1>3, <1>4, <1>5 DEF Request
<1>7. Entitled(c, r)
  BY <1>3 DEF Inv, RequestsEntitled
<1>8. /\ locks' \in [Rows -> Clients \cup {None}] /\ locks'["customer"] = c
      /\ \A row \in Rows : locks[row] # None => locks'[row] = locks[row]
      /\ \A row \in Rows : locks[row] = c => locks'[row] = c
  BY <1>2 DEF Inv, TypeOK, Rows
<1>9. f.op = "reward" =>
        f.source \in Sources /\ f.source \in pending' /\ locks'[f.source] = c
  <2>1. Sources \subseteq Rows
    BY DEF Rows
  <2> QED
    BY <1>2, <1>3, <1>4, <1>7, <1>8, <2>1 DEF Entitled
<1>10. f.op = "expire" => f.found # {} /\ f.found \subseteq Reversible'
  BY <1>2, <1>4, <1>7 DEF Entitled, Reversible, Booked, Reversed
<1>11. Entitled(c, f)'
  BY <1>2, <1>4, <1>5, <1>8, <1>9, <1>10 DEF Entitled
<1>12. f.op = "expire" => \A d \in Clients \ {c} : req[d].op # "expire"
  BY <1>3, <1>4 DEF Inv, OneExpiry
<1> QED
  BY <1>2, <1>6, <1>8, <1>11, <1>12, Reads

-----------------------------------------------------------------------------
(***************************************************************************)
(* Every step preserves the invariant: writing.                            *)
(***************************************************************************)

\* Rows of other reasons add nothing.
LEMMA SumNone ==
  ASSUME NEW m \in Seq(Entry), NEW reasons, \A k \in DOMAIN m : m[k].reason \notin reasons
  PROVE  SumOf(m, reasons) = 0
<1>1. RowsOf(m, reasons) = {}
  BY DEF RowsOf
<1> QED
  BY <1>1, SumEmpty, Zenon DEF SumOf

\* Whoever writes has the totals it read; one that locks has the newest, and nobody has
\* locked the member's row against it.
LEMMA WriterSees ==
  ASSUME Inv, NEW c \in Clients, NEW op, Commit(c, op)
  PROVE  /\ req[c].op = op /\ req[c].view \in [Accounts -> Nat]
         /\ op \in Locking => req[c].view = balance
         /\ locks["customer"] \in {None, c}
         /\ locks' = Released(c) /\ req' = [req EXCEPT ![c] = Idle]
BY DEF Inv, Commit, RequestsEntitled, Entitled

\* Rows of the points other than reversals: what they add up to is added to the total.
LEMMA PointsPosted ==
  ASSUME LoyaltyAssumption, Inv, NEW c \in Clients, NEW op \in Locking \cup Unlocked,
         Commit(c, op), NEW e \in Entry,
         e.reason \in {"redeem", "reward", "order.earn", "gift"}, e.original = 0,
         req[c].view["points"] + e.delta >= 0,
         Post(c, "points", <<e>>, req[c].view["points"] + e.delta),
         pending' \subseteq pending, \A s \in pending \ pending' : locks[s] = c,
         e.reason = "reward" => e.source \in (pending \cap Sources) \ pending',
         e.reason = "gift" => Booked({"gift"}) = {}
  PROVE  Inv'
<1>1. PICK m \in Seq(Entry) : m = <<e>> /\ Len(m) = 1 /\ DOMAIN m = {1} /\ m[1] = e
  <2>1. <<e>> \in Seq(Entry) /\ Len(<<e>>) = 1 /\ DOMAIN <<e>> = {1} /\ <<e>>[1] = e
    BY SumOne
  <2> QED
    BY <2>1
<1>2. /\ Len(ledger) + Len(m) <= MaxEntries
      /\ ledger' = ledger \o m
      /\ balance' = [balance EXCEPT !["points"] = req[c].view["points"] + e.delta]
      /\ clobbered' = (clobbered \/ (req[c].op \in Unlocked
                                      /\ req[c].view["points"] # balance["points"]))
  BY <1>1 DEF Post
<1>3. /\ req[c].op = op /\ req[c].view \in [Accounts -> Nat]
      /\ op \in Locking => req[c].view = balance
      /\ locks["customer"] \in {None, c}
      /\ locks' = Released(c) /\ req' = [req EXCEPT ![c] = Idle]
  BY WriterSees
<1>4. /\ ledger \in Seq(Entry) /\ balance \in [Accounts -> Nat] /\ clobbered \in BOOLEAN
      /\ "points" \in Accounts /\ "wallet" \in Accounts /\ e.delta \in Int
  BY DEF Inv, TypeOK, Accounts, Entry
<1>5. /\ balance' \in [Accounts -> Nat]
      /\ balance'["wallet"] = balance["wallet"]
      /\ balance'["points"] = req[c].view["points"] + e.delta
  <2>1. req[c].view["points"] + e.delta \in Nat
    BY SMTT(30), <1>3, <1>4
  <2> QED
    BY <1>2, <1>4, <2>1
<1>6. TypeOK' /\ RequestsEntitled' /\ OneExpiry'
  <2>1. clobbered' \in BOOLEAN
    BY <1>2, <1>4
  <2>2. \A k \in DOMAIN m : m[k].original = 0
    BY <1>1
  <2> QED
    BY <1>2, <1>3, <1>5, <2>1, <2>2, Ends
<1>7. /\ SumOf(ledger', WalletReasons) = SumOf(ledger, WalletReasons)
      /\ SumOf(ledger', PointsReasons) = SumOf(ledger, PointsReasons) + e.delta
      /\ SumOf(ledger, PointsReasons) \in Int
  <2>1. e.reason \notin WalletReasons /\ e.reason \in PointsReasons
    BY DEF WalletReasons, PointsReasons
  <2>2. SumOf(m, WalletReasons) = 0 /\ SumOf(m, PointsReasons) = e.delta
    BY <1>1, <2>1, SumOne
  <2>3. /\ SumOf(ledger, WalletReasons) \in Int /\ SumOf(ledger, PointsReasons) \in Int
    BY <1>4, LedgerFinite
  <2> QED
    BY <1>2, <1>4, <2>2, <2>3, SumConcat
<1>8. WalletBacked'
  BY <1>5, <1>7, SumIsSumOf DEF Inv, WalletBacked, WalletReasons
<1>9. PointsBacked'
  <2> SUFFICES ASSUME ~clobbered'
               PROVE  /\ balance'["points"] >= SumOf(ledger', PointsReasons)
                      /\ Booked({"expire.batch"})' = {} =>
                           balance'["points"] = SumOf(ledger', PointsReasons)
    BY SumIsSumOf DEF PointsBacked
  <2>1. ~clobbered /\ req[c].view["points"] = balance["points"]
    BY <1>2, <1>3, <1>4
  <2>2. /\ balance["points"] >= SumOf(ledger, PointsReasons)
        /\ Booked({"expire.batch"}) = {} => balance["points"] = SumOf(ledger, PointsReasons)
    BY <2>1, SumIsSumOf DEF Inv, PointsBacked
  <2>3. Booked({"expire.batch"}) \subseteq Booked({"expire.batch"})'
    BY <1>2, <1>4, Appended DEF Booked
  <2>4. balance["points"] \in Int
    BY <1>4
  <2> QED
    BY <1>4, <1>5, <1>7, <2>1, <2>2, <2>3, <2>4
<1>10. Granted'
  BY <1>1, <1>2, <1>4, GrantedKept DEF Inv
<1> QED
  BY <1>6, <1>8, <1>9, <1>10 DEF Inv

\* Rows of the wallet: only transactions that lock write them.
LEMMA WalletPosted ==
  ASSUME LoyaltyAssumption, Inv, NEW c \in Clients, NEW op \in {"top_up", "spend"},
         Commit(c, op), NEW m \in Seq(Entry),
         \A k \in DOMAIN m : m[k].reason \in WalletReasons /\ m[k].original = 0,
         req[c].view["wallet"] + SumOf(m, WalletReasons) >= 0,
         Post(c, "wallet", m, req[c].view["wallet"] + SumOf(m, WalletReasons)),
         UNCHANGED pending
  PROVE  Inv'
<1>1. /\ Len(ledger) + Len(m) <= MaxEntries
      /\ ledger' = ledger \o m
      /\ balance' = [balance EXCEPT !["wallet"] = req[c].view["wallet"] + SumOf(m, WalletReasons)]
      /\ clobbered' = (clobbered \/ (req[c].op \in Unlocked
                                      /\ req[c].view["wallet"] # balance["wallet"]))
  BY DEF Post
<1>2. /\ req[c].op = op /\ req[c].view = balance
      /\ locks["customer"] \in {None, c}
      /\ locks' = Released(c) /\ req' = [req EXCEPT ![c] = Idle]
  BY WriterSees DEF Locking
<1>3. /\ ledger \in Seq(Entry) /\ balance \in [Accounts -> Nat] /\ clobbered \in BOOLEAN
      /\ "points" \in Accounts /\ "wallet" \in Accounts
  BY DEF Inv, TypeOK, Accounts
<1>4. SumOf(m, WalletReasons) \in Int /\ SumOf(ledger, PointsReasons) \in Int
      /\ SumOf(ledger, WalletReasons) \in Int
  BY <1>3, LedgerFinite
<1>5. /\ balance' \in [Accounts -> Nat]
      /\ balance'["points"] = balance["points"]
      /\ balance'["wallet"] = balance["wallet"] + SumOf(m, WalletReasons)
  <2>1. balance["wallet"] + SumOf(m, WalletReasons) \in Nat
    BY <1>2, <1>3, <1>4
  <2> QED
    BY <1>1, <1>2, <1>3, <2>1
<1>6. clobbered' = clobbered
  <2>1. op \notin Unlocked
    BY DEF Unlocked
  <2> QED
    BY <1>1, <1>2, <1>3, <2>1
<1>7. TypeOK' /\ RequestsEntitled' /\ OneExpiry'
  BY <1>1, <1>2, <1>3, <1>5, <1>6, Ends
<1>8. /\ SumOf(ledger', WalletReasons)
           = SumOf(ledger, WalletReasons) + SumOf(m, WalletReasons)
      /\ SumOf(ledger', PointsReasons) = SumOf(ledger, PointsReasons)
  <2>1. \A k \in DOMAIN m : m[k].reason \notin PointsReasons
    BY DEF WalletReasons, PointsReasons
  <2>2. SumOf(m, PointsReasons) = 0
    BY <2>1, SumNone
  <2> QED
    BY <1>1, <1>3, <1>4, <2>2, SumConcat
<1>9. WalletBacked'
  BY <1>5, <1>8, SumIsSumOf DEF Inv, WalletBacked, WalletReasons
<1>10. PointsBacked'
  <2>1. Booked({"expire.batch"}) \subseteq Booked({"expire.batch"})'
    BY <1>1, <1>3, Appended DEF Booked
  <2> QED
    BY <1>5, <1>6, <1>8, <2>1, SumIsSumOf DEF Inv, PointsBacked
<1>11. Granted'
  <2>1. \A k \in DOMAIN m : m[k].reason \notin {"reward", "gift", "expire.batch"}
    BY DEF WalletReasons
  <2> QED
    BY <1>1, <1>3, <2>1, GrantedKept DEF Inv
<1> QED
  BY <1>7, <1>9, <1>10, <1>11 DEF Inv

\* What a row is made of.
LEMMA EntryFields ==
  ASSUME NEW account \in Accounts, NEW reason \in Reasons, NEW delta \in Int
  PROVE  /\ EntryOf(account, reason, delta) \in Entry
         /\ EntryOf(account, reason, delta).reason = reason
         /\ EntryOf(account, reason, delta).delta = delta
         /\ EntryOf(account, reason, delta).original = 0
BY DEF EntryOf, Entry

\* The bonus is whole dollars, never less than none.
LEMMA BonusIsNat == \A amount \in Nat : BonusFor(amount) \in Nat
<1> TAKE amount \in Nat
<1>1. \A rate \in {0, 10, 20, 25} : ((amount * rate) \div 10000) * 100 \in Nat
  <2> TAKE rate \in {0, 10, 20, 25}
  <2>1. PICK n \in Nat : n = amount * rate
    OBVIOUS
  <2>2. (n \div 10000) * 100 \in Nat
    OBVIOUS
  <2> QED
    BY <2>1, <2>2
<1> QED
  BY <1>1 DEF BonusFor

\* top_up: the amount and the bonus are added, each with its row.
LEMMA TopUpStep ==
  ASSUME LoyaltyAssumption, Inv, NEW c \in Clients, TopUp(c)
  PROVE  Inv'
<1>1. PICK amount \in Amounts :
        /\ Commit(c, "top_up") /\ UNCHANGED pending
        /\ LET bonus == BonusFor(amount)
               rows == <<EntryOf("wallet", "topup", amount)>>
                         \o (IF bonus > 0 THEN <<EntryOf("wallet", "topup.bonus", bonus)>>
                                          ELSE <<>>)
           IN  Post(c, "wallet", rows, req[c].view["wallet"] + amount + bonus)
  BY DEF TopUp
<1>2. PICK bonus \in Nat : bonus = BonusFor(amount)
  BY BonusIsNat DEF LoyaltyAssumption
<1>3. amount \in Nat
  BY DEF LoyaltyAssumption
<1>4. PICK e \in Entry : /\ e = EntryOf("wallet", "topup", amount)
                         /\ e.reason = "topup" /\ e.delta = amount /\ e.original = 0
  BY <1>3, EntryFields DEF Accounts, Reasons
<1>5. PICK b \in Entry : /\ b = EntryOf("wallet", "topup.bonus", bonus)
                         /\ b.reason = "topup.bonus" /\ b.delta = bonus /\ b.original = 0
  BY EntryFields DEF Accounts, Reasons
<1>6. PICK k : k = IF bonus > 0 THEN <<b>> ELSE <<>>
  OBVIOUS
<1>7. /\ k \in Seq(Entry) /\ SumOf(k, WalletReasons) = bonus
      /\ \A i \in DOMAIN k : k[i].reason \in WalletReasons /\ k[i].original = 0
  <2>1. CASE bonus > 0
    <3>1. k = <<b>> /\ b.reason \in WalletReasons
      BY <1>5, <1>6, <2>1 DEF WalletReasons
    <3>2. SumOf(k, WalletReasons) = bonus
      BY <1>5, <3>1, SumOne
    <3> QED
      BY <1>5, <3>1, <3>2
  <2>2. CASE ~(bonus > 0)
    <3>1. k = <<>> /\ k \in Seq(Entry) /\ DOMAIN k = {} /\ bonus = 0
      BY <1>6, <2>2
    <3>2. SumOf(k, WalletReasons) = 0
      BY <3>1, SumNone
    <3> QED
      BY <3>1, <3>2
  <2> QED
    BY <2>1, <2>2
<1>8. e.reason \in WalletReasons
  BY <1>4 DEF WalletReasons
<1>9. PICK m \in Seq(Entry) : m = <<e>> \o k
  <2>1. <<e>> \in Seq(Entry)
    BY SumOne
  <2> QED
    BY <1>7, <2>1, Appended
<1>10. SumOf(m, WalletReasons) = amount + bonus
  <2>1. <<e>> \in Seq(Entry) /\ SumOf(<<e>>, WalletReasons) = amount
    BY <1>4, <1>8, SumOne
  <2>2. SumOf(<<e>> \o k, WalletReasons) = SumOf(<<e>>, WalletReasons) + SumOf(k, WalletReasons)
    BY <1>7, <2>1, SumConcat
  <2> QED
    BY <1>7, <1>9, <2>1, <2>2
<1>11. \A i \in DOMAIN m : m[i].reason \in WalletReasons /\ m[i].original = 0
  BY <1>4, <1>7, <1>8, <1>9
<1>12. Post(c, "wallet", m, req[c].view["wallet"] + amount + bonus)
  BY <1>1, <1>2, <1>4, <1>5, <1>6, <1>9, Zenon
<1>13. req[c].view["wallet"] \in Nat
  BY <1>1, WriterSees DEF Accounts
<1>14. req[c].view["wallet"] + amount + bonus
         = req[c].view["wallet"] + SumOf(m, WalletReasons)
  BY <1>3, <1>10, <1>13
<1>15. req[c].view["wallet"] + SumOf(m, WalletReasons) >= 0
  BY <1>3, <1>10, <1>13
<1>16. Post(c, "wallet", m, req[c].view["wallet"] + SumOf(m, WalletReasons))
  BY <1>12, <1>14
<1> QED
  BY <1>1, <1>11, <1>15, <1>16, WalletPosted

\* spend: the amount is taken off if it is there.
LEMMA SpendStep ==
  ASSUME LoyaltyAssumption, Inv, NEW c \in Clients, Spend(c)
  PROVE  Inv'
<1>1. PICK amount \in Amounts :
        /\ Commit(c, "spend") /\ UNCHANGED pending
        /\ req[c].view["wallet"] >= amount
        /\ Post(c, "wallet", <<EntryOf("wallet", "spend", -amount)>>,
                req[c].view["wallet"] - amount)
  BY DEF Spend
<1>2. amount \in Nat /\ -amount \in Int
  BY DEF LoyaltyAssumption
<1>3. PICK e \in Entry : /\ e = EntryOf("wallet", "spend", -amount)
                         /\ e.reason = "spend" /\ e.delta = -amount /\ e.original = 0
  BY <1>2, EntryFields DEF Accounts, Reasons
<1>4. e.reason \in WalletReasons
  BY <1>3 DEF WalletReasons
<1>5. PICK m \in Seq(Entry) : m = <<e>> /\ SumOf(m, WalletReasons) = -amount
  BY <1>3, <1>4, SumOne
<1>6. req[c].view["wallet"] \in Nat
  BY <1>1, WriterSees DEF Accounts
<1>7. req[c].view["wallet"] - amount = req[c].view["wallet"] + SumOf(m, WalletReasons)
  BY <1>2, <1>5, <1>6
<1>8. req[c].view["wallet"] + SumOf(m, WalletReasons) >= 0
  BY <1>1, <1>2, <1>6, <1>7
<1>9. Post(c, "wallet", m, req[c].view["wallet"] + SumOf(m, WalletReasons))
  BY <1>1, <1>3, <1>5, <1>7
<1>10. \A i \in DOMAIN m : m[i].reason \in WalletReasons /\ m[i].original = 0
  BY <1>3, <1>4, <1>5
<1> QED
  BY <1>1, <1>8, <1>9, <1>10, WalletPosted

\* redeem_points: the points are taken off if they are there.
LEMMA RedeemStep ==
  ASSUME LoyaltyAssumption, Inv, NEW c \in Clients, Redeem(c)
  PROVE  Inv'
<1>1. PICK points \in Points :
        /\ Commit(c, "redeem") /\ UNCHANGED pending
        /\ req[c].view["points"] >= points
        /\ Post(c, "points", <<EntryOf("points", "redeem", -points)>>,
                req[c].view["points"] - points)
  BY DEF Redeem
<1>2. points \in Nat /\ -points \in Int
  BY DEF LoyaltyAssumption
<1>3. PICK e \in Entry : /\ e = EntryOf("points", "redeem", -points)
                         /\ e.reason = "redeem" /\ e.delta = -points /\ e.original = 0
  BY <1>2, EntryFields DEF Accounts, Reasons
<1>4. req[c].view["points"] \in Nat
  BY <1>1, WriterSees DEF Accounts
<1>5. /\ req[c].view["points"] - points = req[c].view["points"] + e.delta
      /\ req[c].view["points"] + e.delta >= 0
  BY <1>1, <1>2, <1>3, <1>4
<1>6. Post(c, "points", <<e>>, req[c].view["points"] + e.delta)
  BY <1>1, <1>3, <1>5
<1>7. "redeem" \in Locking \cup Unlocked
  BY DEF Locking
<1> QED
  BY <1>1, <1>3, <1>5, <1>6, <1>7, PointsPosted

\* approve and qualify_referral: the source is done with, and its points are added.
LEMMA RewardStep ==
  ASSUME LoyaltyAssumption, Inv, NEW c \in Clients, Reward(c)
  PROVE  Inv'
<1>1. PICK points \in Points :
        /\ Commit(c, "reward") /\ pending' = pending \ {req[c].source}
        /\ Post(c, "points",
                <<[EntryOf("points", "reward", points) EXCEPT !.source = req[c].source]>>,
                req[c].view["points"] + points)
  BY DEF Reward
<1>2. points \in Nat
  BY DEF LoyaltyAssumption
<1>3. req[c].view["points"] \in Nat
  BY <1>1, WriterSees DEF Accounts
<1>4. req[c].source \in Sources /\ req[c].source \in pending /\ locks[req[c].source] = c
  BY <1>1 DEF Commit, Inv, RequestsEntitled, Entitled
<1>5. PICK e \in Entry :
        /\ e = [EntryOf("points", "reward", points) EXCEPT !.source = req[c].source]
        /\ e.reason = "reward" /\ e.delta = points /\ e.original = 0
        /\ e.source = req[c].source
  <2>1. PICK x : x = EntryOf("points", "reward", points)
    OBVIOUS
  <2>2. PICK e : e = [x EXCEPT !.source = req[c].source]
    OBVIOUS
  <2>3. /\ e.account = "points" /\ e.reason = "reward" /\ e.delta = points
        /\ e.source = req[c].source /\ e.original = 0
        /\ e = [account |-> e.account, reason |-> e.reason, delta |-> e.delta,
                source |-> e.source, original |-> e.original]
    BY <2>1, <2>2 DEF EntryOf
  <2>4. e \in Entry
    BY <1>2, <1>4, <2>3 DEF Entry, Accounts, Reasons
  <2> QED
    BY <2>1, <2>2, <2>3, <2>4
<1>6. Post(c, "points", <<e>>, req[c].view["points"] + e.delta)
  BY <1>1, <1>5
<1>7. "reward" \in Locking \cup Unlocked
  BY DEF Locking
<1>8. /\ pending' \subseteq pending /\ \A s \in pending \ pending' : locks[s] = c
      /\ e.source \in (pending \cap Sources) \ pending'
      /\ req[c].view["points"] + e.delta >= 0
  BY <1>1, <1>2, <1>3, <1>4, <1>5
<1> QED
  BY <1>1, <1>2, <1>3, <1>4, <1>5, <1>6, <1>7, <1>8, PointsPosted

\* A closed order earns points.
LEMMA AccrueStep ==
  ASSUME LoyaltyAssumption, Inv, NEW c \in Clients, Accrue(c)
  PROVE  Inv'
<1>1. PICK points \in Points :
        /\ Commit(c, "accrue") /\ UNCHANGED pending
        /\ Post(c, "points", <<EntryOf("points", "order.earn", points)>>,
                req[c].view["points"] + points)
  BY DEF Accrue
<1>2. points \in Nat
  BY DEF LoyaltyAssumption
<1>3. PICK e \in Entry : /\ e = EntryOf("points", "order.earn", points)
                         /\ e.reason = "order.earn" /\ e.delta = points /\ e.original = 0
  BY <1>2, EntryFields DEF Accounts, Reasons
<1>4. req[c].view["points"] \in Nat
  BY <1>1, WriterSees DEF Accounts
<1>5. Post(c, "points", <<e>>, req[c].view["points"] + e.delta)
  BY <1>1, <1>3
<1>6. "accrue" \in Locking \cup Unlocked
  BY DEF Unlocked
<1> QED
  BY <1>1, <1>2, <1>3, <1>4, <1>5, <1>6, PointsPosted

\* A transaction that ends without a row.
LEMMA EndsIdle ==
  ASSUME LoyaltyAssumption, Inv, NEW c \in Clients,
         req' = [req EXCEPT ![c] = Idle], locks' = Released(c),
         UNCHANGED <<balance, ledger, pending, clobbered>>
  PROVE  Inv'
<1>1. ledger \in Seq(Entry) /\ Len(ledger) <= MaxEntries
  BY DEF Inv, TypeOK
<1>2. PICK m \in Seq(Entry) : m = <<>>
  <2>1. <<>> \in Seq(Entry)
    OBVIOUS
  <2> QED
    BY <2>1
<1>3. ledger' = ledger \o m /\ Len(ledger) + Len(m) <= MaxEntries /\ DOMAIN m = {}
  BY <1>1, <1>2
<1>4. balance' \in [Accounts -> Nat] /\ clobbered' \in BOOLEAN
  BY DEF Inv, TypeOK
<1>5. TypeOK' /\ RequestsEntitled' /\ OneExpiry'
  BY <1>3, <1>4, Ends
<1>6. (WalletBacked /\ PointsBacked /\ Granted)'
  BY DEF Inv, WalletBacked, PointsBacked, Granted, RewardsReviewed, Booked, Sum
<1> QED
  BY <1>5, <1>6 DEF Inv

\* _grant_once: one gift, or none.
LEMMA GiftStep ==
  ASSUME LoyaltyAssumption, Inv, NEW c \in Clients, Gift(c)
  PROVE  Inv'
<1>1. Commit(c, "gift") /\ UNCHANGED pending
  BY DEF Gift
<1>2. CASE Booked({"gift"}) # {}
  BY <1>1, <1>2, WriterSees, EndsIdle DEF Gift
<1>3. CASE Booked({"gift"}) = {}
  <2>1. PICK points \in Points :
          Post(c, "points", <<EntryOf("points", "gift", points)>>,
               req[c].view["points"] + points)
    BY <1>3 DEF Gift
  <2>2. points \in Nat
    BY DEF LoyaltyAssumption
  <2>3. PICK e \in Entry : /\ e = EntryOf("points", "gift", points)
                           /\ e.reason = "gift" /\ e.delta = points /\ e.original = 0
    BY <2>2, EntryFields DEF Accounts, Reasons
  <2>4. req[c].view["points"] \in Nat
    BY <1>1, WriterSees DEF Accounts
  <2>5. Post(c, "points", <<e>>, req[c].view["points"] + e.delta)
    BY <2>1, <2>3
  <2>6. "gift" \in Locking \cup Unlocked
    BY DEF Unlocked
  <2> QED
    BY <1>1, <1>3, <2>2, <2>3, <2>4, <2>5, <2>6, PointsPosted
<1> QED
  BY <1>2, <1>3

\* A transaction that fails leaves nothing but the locks it gives back.
LEMMA RollbackStep ==
  ASSUME LoyaltyAssumption, Inv, NEW c \in Clients, Rollback(c)
  PROVE  Inv'
BY EndsIdle DEF Rollback

\* points_expire: what was found is reversed, and as much of it as is there leaves the total.
LEMMA ExpireStep ==
  ASSUME LoyaltyAssumption, Inv, NEW c \in Clients, Expire(c)
  PROVE  Inv'
<1> DEFINE Reversal(i) ==
             [EntryOf("points", "expire.batch", -ledger[i].delta) EXCEPT !.original = i]
<1>0. Commit(c, "expire") /\ UNCHANGED pending
  BY DEF Expire
<1>1. PICK order \in SetToSeqs(req[c].found) :
        Post(c, "points", [k \in DOMAIN order |-> Reversal(order[k])],
             Left(req[c].view["points"], Sum(req[c].found)))
  BY DEF Expire
<1>2. PICK S, sum : /\ S = req[c].found
                    /\ sum = SumFunctionOnSet(Deltas(ledger), S) /\ sum = Sum(S)
  BY Zenon DEF Sum, Deltas
<1>3. /\ ledger \in Seq(Entry) /\ balance \in [Accounts -> Nat] /\ clobbered \in BOOLEAN
      /\ "points" \in Accounts /\ "wallet" \in Accounts
  BY DEF Inv, TypeOK, Accounts
<1>4. S # {} /\ S \subseteq Reversible
  BY <1>0, <1>2 DEF Commit, Inv, RequestsEntitled, Entitled
<1>5. S \in SUBSET DOMAIN ledger /\ \A i \in S : i \notin Reversed
  BY <1>4 DEF Reversible, Booked
<1>6. IsFiniteSet(S) /\ sum \in Int
  <2>1. IsFiniteSet(DOMAIN ledger)
    BY <1>3, LedgerFinite
  <2>2. IsFiniteSet(S)
    BY <1>5, <2>1, FS_Subset
  <2>3. \A i \in S : Deltas(ledger)[i] \in Int
    BY <1>3, <1>5, LedgerFinite
  <2> QED
    BY <1>2, <2>2, <2>3, SumType
<1>7. /\ DOMAIN order = 1 .. Cardinality(S) /\ Cardinality(S) \in Nat
      /\ order \in [DOMAIN order -> S]
      /\ \A j, k \in DOMAIN order : order[j] = order[k] => j = k
      /\ DOMAIN order # {}
  <2>1. S = {order[k] : k \in DOMAIN order}
    BY <1>2, <1>6, Enumerates
  <2> QED
    BY <1>2, <1>4, <1>6, <2>1, Enumerates, FS_CardinalityType
<1>8. PICK m : m = [k \in DOMAIN order |-> Reversal(order[k])]
  OBVIOUS
<1>9. \A i \in S : /\ Reversal(i) \in Entry /\ Reversal(i).reason = "expire.batch"
                   /\ Reversal(i).original = i /\ Reversal(i).delta = -ledger[i].delta
  <2> SUFFICES ASSUME NEW i \in S
               PROVE  /\ Reversal(i) \in Entry /\ Reversal(i).reason = "expire.batch"
                      /\ Reversal(i).original = i /\ Reversal(i).delta = -ledger[i].delta
    OBVIOUS
  <2>1. -ledger[i].delta \in Int /\ i \in Nat
    <3>1. ledger[i] \in Entry /\ i \in Nat
      BY <1>3, <1>5
    <3>2. \A e \in Entry : -e.delta \in Int
      BY DEF Entry
    <3> QED
      BY <3>1, <3>2
  <2>2. PICK d : d = -ledger[i].delta
    OBVIOUS
  <2>3. PICK x : x = EntryOf("points", "expire.batch", d)
    OBVIOUS
  <2>4. PICK e : e = [x EXCEPT !.original = i]
    OBVIOUS
  <2>5. /\ e.account = "points" /\ e.reason = "expire.batch" /\ e.delta = d
        /\ e.source = None /\ e.original = i
        /\ e = [account |-> e.account, reason |-> e.reason, delta |-> e.delta,
                source |-> e.source, original |-> e.original]
    BY <2>3, <2>4 DEF EntryOf
  <2>6. e \in Entry
    BY <2>1, <2>2, <2>5 DEF Entry, Accounts, Reasons
  <2> QED
    BY <2>2, <2>3, <2>4, <2>5, <2>6
<1> HIDE DEF Reversal
<1>10. /\ m \in Seq(Entry) /\ DOMAIN m = DOMAIN order
       /\ \A k \in DOMAIN m : /\ m[k].reason = "expire.batch" /\ m[k].original = order[k]
                              /\ m[k].delta = -ledger[order[k]].delta
  BY SMTT(30), <1>7, <1>8, <1>9
<1>11. /\ Len(ledger) + Len(m) <= MaxEntries
       /\ ledger' = ledger \o m
       /\ balance' = [balance EXCEPT !["points"] = Left(req[c].view["points"], sum)]
       /\ clobbered' = (clobbered \/ (req[c].op \in Unlocked
                                       /\ req[c].view["points"] # balance["points"]))
  BY <1>1, <1>2, <1>8 DEF Post
<1>12. /\ req[c].op = "expire" /\ req[c].view = balance
       /\ locks["customer"] \in {None, c}
       /\ locks' = Released(c) /\ req' = [req EXCEPT ![c] = Idle]
  BY <1>0, WriterSees DEF Locking
<1>13. /\ balance' \in [Accounts -> Nat]
       /\ balance'["wallet"] = balance["wallet"]
       /\ balance'["points"] >= balance["points"] - sum
  <2>1. /\ Left(balance["points"], sum) \in Nat
        /\ Left(balance["points"], sum) >= balance["points"] - sum
    BY <1>3, <1>6 DEF Left
  <2> QED
    BY <1>3, <1>11, <1>12, <2>1
<1>14. clobbered' = clobbered
  BY <1>3, <1>11, <1>12 DEF Unlocked
<1>15. TypeOK' /\ RequestsEntitled' /\ OneExpiry'
  BY <1>0, <1>3, <1>10, <1>11, <1>12, <1>13, <1>14, Ends
<1>16. /\ SumOf(ledger', WalletReasons) = SumOf(ledger, WalletReasons)
       /\ SumOf(ledger', PointsReasons) = SumOf(ledger, PointsReasons) - sum
       /\ SumOf(ledger, PointsReasons) \in Int
  <2>1. SumOf(m, WalletReasons) = 0
    BY <1>10, SumNone DEF WalletReasons
  <2>2. SumOf(m, PointsReasons) = -sum
    <3>1. "expire.batch" \in PointsReasons /\ order \in SetToSeqs(S)
      BY <1>1, <1>2 DEF PointsReasons
    <3>2. SumOf(m, PointsReasons) = -SumFunctionOnSet(Deltas(ledger), S)
      BY <1>3, <1>5, <1>10, <3>1, SumReversals
    <3> QED
      BY <1>2, <3>2
  <2>3. /\ SumOf(ledger, WalletReasons) \in Int /\ SumOf(ledger, PointsReasons) \in Int
    BY <1>3, LedgerFinite
  <2> QED
    BY <1>3, <1>6, <1>10, <1>11, <2>1, <2>2, <2>3, SumConcat
<1>17. WalletBacked'
  BY <1>13, <1>16, SumIsSumOf DEF Inv, WalletBacked, WalletReasons
<1>18. PointsBacked'
  <2>1. Booked({"expire.batch"})' # {}
    <3>1. PICK k \in DOMAIN m : TRUE
      BY <1>7, <1>10
    <3>2. /\ Len(ledger) + k \in DOMAIN (ledger \o m)
          /\ (ledger \o m)[Len(ledger) + k] = m[k]
      BY <1>3, <1>10
    <3> QED
      BY <1>10, <1>11, <3>2 DEF Booked
  <2>2. ~clobbered => balance["points"] >= SumOf(ledger, PointsReasons)
    BY SumIsSumOf DEF Inv, PointsBacked
  <2>3. ~clobbered' => balance'["points"] >= SumOf(ledger', PointsReasons)
    <3>1. balance["points"] \in Int /\ balance'["points"] \in Int
      BY <1>3, <1>13
    <3> QED
      BY <1>6, <1>13, <1>14, <1>16, <2>2, <3>1
  <2> QED
    BY <2>1, <2>3, SumIsSumOf DEF PointsBacked
<1>19. Granted'
  <2>1. \A k \in DOMAIN m : m[k].original \notin Reversed /\ m[k].reason = "expire.batch"
    BY <1>5, <1>7, <1>10
  <2>2. \A j, k \in DOMAIN m : m[j].original = m[k].original => j = k
    BY <1>7, <1>10
  <2> QED
    BY <1>0, <1>3, <1>10, <1>11, <2>1, <2>2, GrantedKept DEF Inv
<1> QED
  BY <1>15, <1>17, <1>18, <1>19 DEF Inv

-----------------------------------------------------------------------------
(***************************************************************************)
(* Theorems.                                                               *)
(***************************************************************************)

\* Nothing is booked, granted or read at first.
LEMMA InitInv == LoyaltyAssumption /\ Init => Inv
<1> SUFFICES ASSUME LoyaltyAssumption, Init PROVE Inv
  OBVIOUS
<1>1. /\ ledger \in Seq(Entry) /\ DOMAIN ledger = {} /\ Len(ledger) = 0
      /\ \A reasons : Booked(reasons) = {}
  BY DEF Init, Booked
<1>2. NoView \in [Accounts -> Nat] /\ NoView["points"] = 0 /\ NoView["wallet"] = 0
  BY DEF NoView, Accounts
<1>3. /\ Idle.phase = "idle" /\ Idle.op = None /\ Idle.view = NoView /\ Idle \in Request
      /\ None \notin {"reward", "expire"}
  BY <1>2 DEF Idle, Request, LoyaltyAssumption, Locking
<1>4. TypeOK
  <2>1. locks \in [Rows -> Clients \cup {None}] /\ req \in [Clients -> Request]
    BY <1>3 DEF Init
  <2>2. MaxEntries \in Nat
    BY DEF LoyaltyAssumption
  <2>3. balance \in [Accounts -> Nat] /\ Len(ledger) <= MaxEntries
    BY <1>1, <1>2, <2>2 DEF Init
  <2> QED
    BY <1>1, <2>1, <2>3 DEF Init, TypeOK
<1>5. RequestsEntitled /\ OneExpiry
  BY <1>2, <1>3 DEF Init, RequestsEntitled, Entitled, OneExpiry
<1>6. \A reasons : Sum(Booked(reasons)) = 0
  BY <1>1, SumEmpty, Zenon DEF Sum
<1>7. WalletBacked /\ PointsBacked
  BY <1>2, <1>6 DEF Init, WalletBacked, PointsBacked
<1>8. Granted
  BY <1>1 DEF Granted, RewardsReviewed
<1> QED
  BY <1>4, <1>5, <1>7, <1>8 DEF Inv

\* Every step preserves the invariant.
LEMMA StepInv == LoyaltyAssumption /\ Inv /\ [Next]_vars => Inv'
<1> SUFFICES ASSUME LoyaltyAssumption, Inv, [Next]_vars PROVE Inv'
  OBVIOUS
<1>1. CASE UNCHANGED vars
  <2>1. (TypeOK /\ RequestsEntitled /\ OneExpiry)'
    BY <1>1 DEF vars, Inv, TypeOK, RequestsEntitled, Entitled, OneExpiry, Reversible, Booked,
       Reversed
  <2>2. (WalletBacked /\ PointsBacked /\ Granted)'
    BY <1>1 DEF vars, Inv, WalletBacked, PointsBacked, Granted, RewardsReviewed, Booked, Sum
  <2> QED
    BY <2>1, <2>2 DEF Inv
<1>2. ASSUME NEW c \in Clients,
             CallUnlocked(c) \/ CallLocking(c) \/ CallReward(c) \/ CallExpire(c)
             \/ Review(c) \/ LockCustomer(c)
      PROVE  Inv'
  BY <1>2, CallUnlockedStep, CallLockingStep, CallRewardStep, CallExpireStep, ReviewStep,
     LockCustomerStep
<1>3. ASSUME NEW c \in Clients,
             TopUp(c) \/ Spend(c) \/ Redeem(c) \/ Reward(c) \/ Accrue(c) \/ Gift(c) \/ Expire(c)
             \/ Rollback(c)
      PROVE  Inv'
  BY <1>3, TopUpStep, SpendStep, RedeemStep, RewardStep, AccrueStep, GiftStep, ExpireStep,
     RollbackStep
<1> QED
  BY <1>1, <1>2, <1>3 DEF Next

\* The invariant holds of every state the transactions can reach.
THEOREM Invariance == Spec => []Inv
<1>1. LoyaltyAssumption
  BY LoyaltyAssumption
<1> QED
  BY <1>1, InitInv, StepInv, PTL DEF Spec

\* However top-ups, purchases, redemptions, rewards, accruals, gifts and the nightly expiry
\* interleave, the wallet's total is the sum of its ledger; so is that of the points, or more
\* than it, unless an unlocked write went over a newer total; and neither is overdrawn.
THEOREM AccountsAlwaysBacked == Spec => []AccountsBacked
<1>1. Inv => AccountsBacked
  <2>1. TypeOK => \A a \in Accounts : balance[a] >= 0
    BY DEF TypeOK
  <2> QED
    BY <2>1 DEF Inv, AccountsBacked
<1> QED
  BY <1>1, Invariance, PTL

\* A submission or referral is rewarded once, an earned row reversed once, a gift given once.
THEOREM GrantsAlwaysOnce == Spec => []GrantedOnce
<1>1. ASSUME Inv PROVE Cardinality(Booked({"gift"})) <= 1
  <2>1. \A i, j \in Booked({"gift"}) : i = j
    BY <1>1 DEF Inv, Granted
  <2>2. CASE Booked({"gift"}) = {}
    BY <2>2, FS_EmptySet
  <2>3. CASE Booked({"gift"}) # {}
    <3>1. PICK i : Booked({"gift"}) = {i}
      BY <2>1, <2>3
    <3> QED
      BY <3>1, FS_Singleton, 1 <= 1
  <2> QED
    BY <2>2, <2>3
<1>2. Inv => GrantedOnce
  BY <1>1 DEF Inv, Granted, GrantedOnce
<1> QED
  BY <1>2, Invariance, PTL
=============================================================================
