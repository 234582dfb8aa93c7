-------------------------- MODULE Campaigns_proofs --------------------------
(***************************************************************************)
(* Theorems about Campaigns, for any number of clients, managers, members, *)
(* prizes, days and spins.                                                 *)
(***************************************************************************)
EXTENDS Campaigns, Sums, TLAPS

-----------------------------------------------------------------------------
(***************************************************************************)
(* The inductive invariant.                                                *)
(***************************************************************************)
Actors == Clients \cup Desks
PrizeRow == [active : BOOLEAN, total : Nat, daily : Nat, awarded : Nat]
SpinRow == [member : Members, prize : Prizes \cup {None}, day : Days, won : BOOLEAN]
VoucherRow ==
  [spin : Nat, member : Members, prize : Prizes, from : Nat, until : Nat,
   status : VoucherStatus, on : Days \cup {None}]
Request ==
  [op : AllOps \cup {None}, phase : {"idle", "draw", "write", "marked", "read"},
   member : Members \cup {None}, voucher : Nat, day : Days,
   seen : {None} \cup (Days \X Days), drawn : Prizes \cup {None}, count : Seq(Nat)]

Types ==
  /\ today \in Days /\ campaign \in Campaign
  /\ DOMAIN prize \subseteq Prizes /\ IsFiniteSet(DOMAIN prize)
  /\ prize \in [DOMAIN prize -> PrizeRow]
  /\ spins \in Seq(SpinRow) /\ Len(spins) <= MaxSpins
  /\ vouchers \in Seq(VoucherRow) /\ Len(vouchers) <= Len(spins)
  /\ locks \in [Rows -> Actors \cup {Job, None}]
  /\ req \in [Actors -> Request]
  /\ job \in [ran : Days, found : {None} \cup SUBSET Nat]

\* A spin won a segment that exists and is a reward, or it won nothing.
WinsAwardable == \A i \in Winning : spins[i].prize \in DOMAIN prize

\* A voucher is of a spin that won, no two of the same spin, and every win has one.
VouchersBacked ==
  /\ \A v \in DOMAIN vouchers : vouchers[v].spin \in Winning
  /\ \A v, w \in DOMAIN vouchers : vouchers[v].spin = vouchers[w].spin => v = w
  /\ \A i \in Winning : \E v \in DOMAIN vouchers : vouchers[v].spin = i

\* As many vouchers as wins, and as many awards, prize by prize and in all.
AwardsCounted ==
  /\ Len(vouchers) = Cardinality(Winning)
  /\ Len(vouchers) = SumFunction([p \in DOMAIN prize |-> prize[p].awarded])
  /\ \A p \in DOMAIN prize : prize[p].awarded = Cardinality(Wins(p))

\* A window is never empty.
WindowsOpen == \A v \in DOMAIN vouchers : vouchers[v].from < vouchers[v].until

\* What the nightly job found is late, and still active.
FoundAreLate ==
  job.found # None =>
    \A v \in job.found : /\ v \in DOMAIN vouchers
                         /\ vouchers[v].status = "active" /\ vouchers[v].until < today

\* The counts a manager has read so far never fall.
Rising(count) ==
  /\ Len(count) <= 3
  /\ 1 <= Len(count) => count[1] <= Len(vouchers)
  /\ 2 <= Len(count) => count[1] <= count[2] /\ count[2] <= Len(vouchers)
  /\ 3 <= Len(count) => count[2] <= count[3]

\* A spin under way holds the campaign, and its member has a spin left; once a prize is
\* drawn it holds the prizes, and what it read of its own is still so.
SpinEntitled(c, r) ==
  /\ c \in Clients /\ r.phase \in {"draw", "write"} /\ r.member \in Members
  /\ locks[CampaignRow] = c
  /\ Cardinality(SpinsOf(r.member, r.day)) < campaign.limit
  /\ r.phase = "write" => locks[PrizeRows] = c
  /\ r.phase = "write" /\ IsWin(r.drawn) =>
       /\ r.drawn \in DOMAIN prize
       /\ r.count = <<prize[r.drawn].awarded>>
       /\ prize[r.drawn].awarded < prize[r.drawn].total
       /\ Cardinality(WinsOn(r.drawn, r.day)) < prize[r.drawn].daily

\* A redemption under way holds its voucher, which is active and in its window; the nightly
\* job has not found it.
RedeemEntitled(c, r) ==
  /\ r.voucher \in DOMAIN vouchers /\ locks[r.voucher] = c
  /\ r.phase = "write" =>
       /\ vouchers[r.voucher].status = "active"
       /\ r.day \in vouchers[r.voucher].from .. vouchers[r.voucher].until
       /\ job.found # None => r.voucher \notin job.found

Entitled(c, r) ==
  /\ r.op = "spin" => SpinEntitled(c, r)
  /\ r.op = "redeem" => RedeemEntitled(c, r)
  /\ r.op = "stats" => Rising(r.count)

RequestsEntitled == \A c \in Actors : Entitled(c, req[c])

BookInv ==
  WinsAwardable /\ VouchersBacked /\ AwardsCounted /\ WindowsOpen /\ FoundAreLate

Inv == Types /\ BookInv /\ RequestsEntitled

-----------------------------------------------------------------------------
(***************************************************************************)
(* What a step leaves alone stays as it was.                               *)
(***************************************************************************)

\* The rows of the two logs, and which of them can be locked.
LEMMA RowTypes ==
  ASSUME CampaignsAssumption, Types
  PROVE  /\ DOMAIN spins = 1 .. Len(spins) /\ Len(spins) \in Nat
         /\ DOMAIN vouchers = 1 .. Len(vouchers) /\ Len(vouchers) \in Nat
         /\ \A i \in DOMAIN spins : spins[i] \in SpinRow
         /\ \A v \in DOMAIN vouchers : vouchers[v] \in VoucherRow /\ v \in Rows
         /\ CampaignRow \in Rows /\ PrizeRows \in Rows
BY DEF Types, CampaignsAssumption, Rows, CampaignRow, PrizeRows

\* A request stays entitled while the rows and its locks stay.
LEMMA EntitledKept ==
  ASSUME CampaignsAssumption, Types, NEW c \in Actors, NEW r, Entitled(c, r),
         UNCHANGED <<campaign, prize, spins, vouchers>>,
         job'.found # None => job.found # None /\ job'.found = job.found,
         \A row \in Rows : locks[row] = c => locks'[row] = c
  PROVE  Entitled(c, r)'
<1>1. r.op = "redeem" => r.voucher \in Rows
  BY RowTypes DEF Entitled, RedeemEntitled
<1>2. CampaignRow \in Rows /\ PrizeRows \in Rows
  BY RowTypes
<1>3. r.op = "spin" => SpinEntitled(c, r)'
  BY <1>2 DEF Entitled, SpinEntitled, SpinsOf, WinsOn, Wins, IsWin
<1>4. r.op = "redeem" => RedeemEntitled(c, r)'
  BY <1>1 DEF Entitled, RedeemEntitled
<1>5. r.op = "stats" => Rising(r.count)'
  BY DEF Entitled, Rising
<1> QED
  BY <1>3, <1>4, <1>5 DEF Entitled

\* So do all but the one that takes a step.
LEMMA OthersEntitled ==
  ASSUME CampaignsAssumption, Types, RequestsEntitled, NEW c \in Actors,
         \A d \in Actors \ {c} : req'[d] = req[d],
         UNCHANGED <<campaign, prize, spins, vouchers, job>>,
         \A d \in Actors \ {c} : \A row \in Rows : locks[row] = d => locks'[row] = d,
         Entitled(c, req[c])'
  PROVE  RequestsEntitled'
<1>1. ASSUME NEW d \in Actors, d # c PROVE Entitled(d, req[d])'
  <2>1. PICK r : r = req[d] /\ r = req'[d]
    BY <1>1
  <2>2. Entitled(d, r)
    BY <2>1 DEF RequestsEntitled
  <2>3. Entitled(d, r)'
    BY <1>1, <2>2, EntitledKept
  <2> QED
    BY <2>1, <2>3
<1> QED
  BY <1>1 DEF RequestsEntitled

\* The book stays while its rows do; only the day may move on.
LEMMA BookKept ==
  ASSUME CampaignsAssumption, Types, BookInv, UNCHANGED <<prize, spins, vouchers, job>>,
         today' \in Days, today' >= today
  PROVE  BookInv'
<1>1. WinsAwardable'
  BY DEF BookInv, WinsAwardable, Winning
<1>2. VouchersBacked'
  BY DEF BookInv, VouchersBacked, Winning
<1>3. AwardsCounted'
  BY DEF BookInv, AwardsCounted, Winning, Wins
<1>4. WindowsOpen'
  BY DEF BookInv, WindowsOpen
<1>5. FoundAreLate'
  <2>1. \A v \in DOMAIN vouchers : vouchers[v].until \in Nat
    BY RowTypes DEF VoucherRow
  <2>2. today \in Int /\ today' \in Int
    BY DEF Types, Days
  <2> QED
    BY <2>1, <2>2 DEF BookInv, FoundAreLate
<1> QED
  BY <1>1, <1>2, <1>3, <1>4, <1>5 DEF BookInv

\* A row lock is granted to one that takes it, and the others keep theirs.
LEMMA ForUpdateKeeps ==
  ASSUME CampaignsAssumption, Types, NEW c \in Actors \cup {Job}, NEW row \in Rows,
         ForUpdate(c, row)
  PROVE  /\ locks' \in [Rows -> Actors \cup {Job, None}]
         /\ locks'[row] = c
         /\ \A d \in Actors : \A q \in Rows : locks[q] = d => locks'[q] = d
BY DEF CampaignsAssumption, Types, ForUpdate, Actors

\* A step that only reads, or locks, or ends without effect: the invariant is that of the
\* request as the step leaves it.
LEMMA QuietInv ==
  ASSUME CampaignsAssumption, Inv, NEW c \in Actors, NEW f \in Request,
         req' = [req EXCEPT ![c] = f],
         UNCHANGED <<today, campaign, prize, spins, vouchers, job>>,
         locks' \in [Rows -> Actors \cup {Job, None}],
         \A d \in Actors \ {c} : \A row \in Rows : locks[row] = d => locks'[row] = d,
         Entitled(c, f)'
  PROVE  Inv'
<1> USE DEF Inv
<1>1. req' \in [Actors -> Request] /\ req'[c] = f /\ \A d \in Actors \ {c} : req'[d] = req[d]
  BY DEF Types
<1>2. Types'
  BY <1>1 DEF Types
<1>3. BookInv'
  BY BookKept DEF Types, Days
<1>4. RequestsEntitled'
  BY <1>1, OthersEntitled
<1> QED
  BY <1>2, <1>3, <1>4

\* An idle request is entitled to nothing.
LEMMA IdleType ==
  ASSUME CampaignsAssumption
  PROVE  Idle \in Request /\ \A c : Entitled(c, Idle)
BY DEF CampaignsAssumption, Idle, Request, Days, Entitled, AllOps

\* A spin begins under the lock of the campaign, while its member has a spin left.
LEMMA EnterSpinInv ==
  ASSUME CampaignsAssumption, Inv, NEW c \in Clients, EnterSpin(c)
  PROVE  Inv'
<1> DEFINE f(m) == [Idle EXCEPT !.op = "spin", !.phase = "draw", !.member = m, !.day = today]
<1>1. PICK m \in Members : /\ Cardinality(SpinsOf(m, today)) < campaign.limit
                           /\ Begin(c, "spin", f(m))
  BY DEF EnterSpin
<1>2. PICK g : g = f(m)
  OBVIOUS
<1>3. /\ g \in Request /\ g.op = "spin" /\ g.phase = "draw" /\ g.member = m
      /\ g.day = today
  BY <1>2, IdleType DEF Idle, Request, Inv, Types, AllOps
<1>4. Begin(c, "spin", g)
  BY <1>1, <1>2, Zenon
<1>5. /\ locks' \in [Rows -> Actors \cup {Job, None}] /\ locks'[CampaignRow] = c
      /\ \A d \in Actors : \A q \in Rows : locks[q] = d => locks'[q] = d
  BY ForUpdateKeeps, RowTypes DEF EnterSpin, Inv, Actors
<1>6. Entitled(c, g)'
  BY <1>1, <1>3, <1>4, <1>5 DEF Entitled, SpinEntitled, SpinsOf, Begin
<1> QED
  BY <1>3, <1>4, <1>5, <1>6, QuietInv DEF Begin, Actors

\* A prize that is drawn is one of those that had an award left, and the prizes are held.
LEMMA DrawPrizeInv ==
  ASSUME CampaignsAssumption, Inv, NEW c \in Clients, DrawPrize(c)
  PROVE  Inv'
<1> DEFINE r == req[c]
           f(p, n) == [r EXCEPT !.phase = "write", !.drawn = p, !.count = n]
<1>0. r \in Request /\ Entitled(c, r) /\ r.op = "spin"
  BY DEF Inv, Types, Actors, RequestsEntitled, DrawPrize
<1>1. PICK p : /\ p \in (IF Eligible(r.day) = {} THEN {None} ELSE Eligible(r.day))
               /\ req' = [req EXCEPT ![c].phase = "write", ![c].drawn = p,
                            ![c].count = IF IsWin(p) THEN <<prize[p].awarded>> ELSE <<>>]
  BY DEF DrawPrize
<1>2. PICK n : n = IF IsWin(p) THEN <<prize[p].awarded>> ELSE <<>>
  OBVIOUS
<1>3. PICK g : g = f(p, n)
  OBVIOUS
<1>4. req' = [req EXCEPT ![c] = g]
  BY <1>1, <1>2, <1>3 DEF Inv, Types, Actors
<1>5. p = None \/ p \in Eligible(r.day)
  BY <1>1
<1>6. IsWin(p) => /\ p \in DOMAIN prize /\ prize[p] \in PrizeRow
                  /\ prize[p].awarded < prize[p].total
                  /\ Cardinality(WinsOn(p, r.day)) < prize[p].daily
  BY <1>5 DEF IsWin, Eligible, Inv, Types
<1>7. n \in Seq(Nat) /\ p \in Prizes \cup {None}
  <2>1. DOMAIN prize \subseteq Prizes
    BY DEF Inv, Types
  <2> QED
    BY <1>2, <1>5, <1>6, <2>1 DEF PrizeRow, Eligible
<1>8. /\ g \in Request /\ g.op = r.op /\ g.phase = "write" /\ g.member = r.member
      /\ g.day = r.day /\ g.drawn = p /\ g.count = n
  BY <1>0, <1>3, <1>7 DEF Request
<1>9. /\ locks' \in [Rows -> Actors \cup {Job, None}] /\ locks'[PrizeRows] = c
      /\ \A d \in Actors : \A q \in Rows : locks[q] = d => locks'[q] = d
  BY ForUpdateKeeps, RowTypes DEF DrawPrize, Inv, Actors
<1>10. Entitled(c, g)'
  BY <1>0, <1>2, <1>6, <1>8, <1>9, RowTypes
     DEF Entitled, SpinEntitled, SpinsOf, WinsOn, Wins, DrawPrize, IsWin, Inv, Actors
<1> QED
  BY <1>4, <1>8, <1>9, <1>10, QuietInv DEF DrawPrize, Actors

\* A redemption begins with a voucher that is active, in its window and held; the nightly job
\* has only found those whose window is over.
LEMMA EnterRedeemInv ==
  ASSUME CampaignsAssumption, Inv, NEW c \in Clients, EnterRedeem(c) \/ RefuseExpired(c)
  PROVE  Inv'
<1> DEFINE f(v, p) == [Idle EXCEPT !.op = "redeem", !.phase = p, !.voucher = v, !.day = today]
<1>1. PICK v \in DOMAIN vouchers, p \in {"write", "marked"} :
        /\ ForUpdate(c, v) /\ Redeemable(v) /\ (p = "write" => ~ Expired(v))
        /\ Begin(c, "redeem", f(v, p))
  BY DEF EnterRedeem, RefuseExpired
<1>2. PICK g : g = f(v, p)
  OBVIOUS
<1>3. v \in Rows /\ v \in Nat /\ vouchers[v] \in VoucherRow
  BY RowTypes DEF Inv
<1>4. /\ g \in Request /\ g.op = "redeem" /\ g.phase = p /\ g.voucher = v /\ g.day = today
  BY <1>2, <1>3, IdleType DEF Idle, Request, Inv, Types, AllOps
<1>5. Begin(c, "redeem", g)
  BY <1>1, <1>2, Zenon
<1>6. /\ locks' \in [Rows -> Actors \cup {Job, None}] /\ locks'[v] = c
      /\ \A d \in Actors : \A q \in Rows : locks[q] = d => locks'[q] = d
  BY <1>1, <1>3, ForUpdateKeeps DEF Inv, Actors
<1>7. p = "write" =>
        /\ vouchers[v].status = "active" /\ today \in vouchers[v].from .. vouchers[v].until
        /\ job.found # None => v \notin job.found
  <2>1. today \in Int /\ vouchers[v].from \in Int /\ vouchers[v].until \in Int
    BY <1>3 DEF Inv, Types, Days, VoucherRow
  <2>2. job.found # None /\ v \in job.found => vouchers[v].until < today
    BY DEF Inv, BookInv, FoundAreLate
  <2> QED
    BY <1>1, <2>1, <2>2 DEF Redeemable, Expired
<1>8. Entitled(c, g)'
  BY <1>4, <1>5, <1>6, <1>7 DEF Entitled, RedeemEntitled, Begin
<1> QED
  BY <1>4, <1>5, <1>6, <1>8, QuietInv DEF Begin, Actors

\* A manager reads the window, or begins to read the counts.
LEMMA CallInv ==
  ASSUME CampaignsAssumption, Inv, NEW c \in Desks, CallPatchWindow(c) \/ CallStats(c)
  PROVE  Inv'
<1>1. \E g : /\ Begin(c, g.op, g) /\ UNCHANGED locks
             /\ g \in Request /\ g.op \in {"patch_window", "stats"} /\ g.count = <<>>
  <2>1. CASE CallPatchWindow(c)
    <3>1. PICK g : g = [Idle EXCEPT !.op = "patch_window", !.phase = "write", !.day = today,
                                    !.seen = <<campaign.starts, campaign.ends>>]
      OBVIOUS
    <3>2. <<campaign.starts, campaign.ends>> \in Days \X Days
      BY DEF Inv, Types, Campaign
    <3>3. g \in Request /\ g.op = "patch_window" /\ g.count = <<>>
      BY <3>1, <3>2, IdleType DEF Idle, Request, Inv, Types, AllOps
    <3>4. Begin(c, "patch_window", g) /\ UNCHANGED locks
      BY <2>1, <3>1, Zenon DEF CallPatchWindow
    <3> QED
      BY <3>3, <3>4
  <2>2. CASE CallStats(c)
    <3>1. PICK g : g = [Idle EXCEPT !.op = "stats", !.phase = "read", !.day = today]
      OBVIOUS
    <3>2. g \in Request /\ g.op = "stats" /\ g.count = <<>>
      BY <3>1, IdleType DEF Idle, Request, Inv, Types, AllOps
    <3>3. Begin(c, "stats", g) /\ UNCHANGED locks
      BY <2>2, <3>1, Zenon DEF CallStats
    <3> QED
      BY <3>2, <3>3
  <2> QED
    BY <2>1, <2>2
<1>2. PICK g : /\ Begin(c, g.op, g) /\ UNCHANGED locks
               /\ g \in Request /\ g.op \in {"patch_window", "stats"} /\ g.count = <<>>
  BY <1>1
<1>3. Entitled(c, g)'
  BY <1>2 DEF Entitled, Rising
<1> QED
  BY <1>2, <1>3, QuietInv DEF Begin, Actors, Inv, Types

\* A statement of campaign_stats counts what is there: there are as many vouchers as wins, and
\* as many awards as vouchers, and none of them becomes less.
LEMMA ReadStatsInv ==
  ASSUME CampaignsAssumption, Inv, NEW c \in Desks, ReadStats(c)
  PROVE  Inv'
<1>1. PICK r : r = req[c]
  OBVIOUS
<1>2. PICK x : x = Count(Statements[Len(r.count) + 1])
  OBVIOUS
<1>3. r \in Request /\ r.op = "stats" /\ Rising(r.count)
  BY <1>1 DEF Inv, Types, Actors, RequestsEntitled, Entitled, ReadStats
<1>4. /\ r.count \in Seq(Nat) /\ Len(r.count) \in {0, 1, 2}
      /\ Len(r.count) + 1 \in {1, 2, 3}
  <2>1. r.count \in Seq(Nat)
    BY <1>3 DEF Request
  <2>2. Len(Statements) = 3
    BY DEF Statements
  <2>3. Len(r.count) + 1 <= Len(Statements)
    BY <1>1 DEF ReadStats
  <2>4. PICK k : k = Len(r.count)
    OBVIOUS
  <2>5. k \in Nat /\ k + 1 <= 3
    BY <2>1, <2>2, <2>3, <2>4
  <2>6. k \in {0, 1, 2} /\ k + 1 \in {1, 2, 3}
    BY <2>5
  <2> QED
    BY <2>1, <2>4, <2>6
<1>5. x = Len(vouchers) /\ x \in Nat
  <2>1. Statements[Len(r.count) + 1] \in {"wins", "minted", "awarded"}
    <3>1. /\ Statements[1] = "wins" /\ Statements[2] = "minted" /\ Statements[3] = "awarded"
      BY DEF Statements
    <3>2. Len(r.count) + 1 \in {1, 2, 3}
      BY <1>4
    <3> QED
      BY <3>1, <3>2
  <2>2. Len(vouchers) \in Nat
    BY RowTypes DEF Inv
  <2> QED
    BY <1>2, <2>1, <2>2 DEF Count, Inv, BookInv, AwardsCounted
<1>6. PICK q : q = Append(r.count, x)
  OBVIOUS
<1>7. /\ q \in Seq(Nat) /\ Len(q) = Len(r.count) + 1 /\ q[Len(q)] = x
      /\ \A i \in 1 .. Len(r.count) : q[i] = r.count[i] /\ q[i] \in Nat
  BY <1>4, <1>5, <1>6
<1>8. PICK g : g = [r EXCEPT !.count = q]
  OBVIOUS
<1>9. req' = [req EXCEPT ![c] = g]
  BY <1>1, <1>2, <1>6, <1>8 DEF Inv, Types, Actors, ReadStats
<1>10. g \in Request /\ g.op = "stats" /\ g.count = q
  BY <1>3, <1>7, <1>8 DEF Request
<1>11. Rising(q)'
  <2>1. vouchers' = vouchers
    BY DEF ReadStats
  <2>2. CASE Len(r.count) = 0
    BY <1>5, <1>7, <2>1, <2>2 DEF Rising
  <2>3. CASE Len(r.count) = 1
    BY <1>3, <1>5, <1>7, <2>1, <2>3 DEF Rising
  <2>4. CASE Len(r.count) = 2
    <3>1. /\ q[1] = r.count[1] /\ q[2] = r.count[2] /\ q[3] = x /\ Len(q) = 3
          /\ q[1] \in Nat /\ q[2] \in Nat
      BY <1>7, <2>4
    <3>2. q[1] <= q[2] /\ q[2] <= x
      BY <1>3, <1>5, <2>4, <3>1 DEF Rising
    <3> QED
      BY <1>5, <2>1, <3>1, <3>2 DEF Rising
  <2> QED
    BY <1>4, <2>2, <2>3, <2>4
<1>12. Entitled(c, g)'
  BY <1>10, <1>11 DEF Entitled
<1> QED
  BY <1>9, <1>10, <1>12, QuietInv DEF ReadStats, Actors, Inv, Types

\* A request ends: its locks are free, and nothing else has changed.
LEMMA RollbackInv ==
  ASSUME CampaignsAssumption, Inv, NEW c \in Actors, Rollback(c)
  PROVE  Inv'
<1>1. /\ locks' \in [Rows -> Actors \cup {Job, None}]
      /\ \A d \in Actors \ {c} : \A row \in Rows : locks[row] = d => locks'[row] = d
  BY DEF Rollback, Released, Inv, Types
<1>2. Idle \in Request /\ Entitled(c, Idle)'
  BY IdleType DEF Entitled, Idle, CampaignsAssumption, AllOps
<1> QED
  BY <1>1, <1>2, QuietInv DEF Rollback

\* The night begins, and the clock moves on: requests are of today.
LEMMA NightInv ==
  ASSUME CampaignsAssumption, Inv, JobRead \/ JobUpdate \/ Midnight
  PROVE  Inv'
<1> USE DEF Inv
<1>1. UNCHANGED <<campaign, prize, spins, vouchers, req>>
  BY DEF JobRead, JobUpdate, Midnight
<1>2. /\ locks' \in [Rows -> Actors \cup {Job, None}]
      /\ \A d \in Actors : \A q \in Rows : locks[q] = d => locks'[q] = d
  <2>1. CASE JobUpdate
    <3>1. PICK row : ForUpdate(Job, row)
      BY <2>1 DEF JobUpdate
    <3> QED
      BY <3>1 DEF ForUpdate, Types, CampaignsAssumption, Actors
  <2> QED
    BY <2>1 DEF JobRead, Midnight, Types
<1>3. today \in Int /\ today' \in Days /\ today' >= today
  BY DEF JobRead, JobUpdate, Midnight, Types, Days, CampaignsAssumption
<1>4. CASE UNCHANGED job
  <2>1. Types'
    BY <1>1, <1>2, <1>3, <1>4 DEF Types
  <2>2. BookInv'
    BY <1>1, <1>3, <1>4, BookKept
  <2>3. ASSUME NEW c \in Actors PROVE Entitled(c, req[c])'
    <3>1. PICK r : r = req[c] /\ r = req'[c]
      BY <1>1
    <3>2. Entitled(c, r)
      BY <3>1 DEF RequestsEntitled
    <3>3. Entitled(c, r)'
      BY <1>1, <1>2, <1>4, <3>2, EntitledKept
    <3> QED
      BY <3>1, <3>3
  <2> QED
    BY <2>1, <2>2, <2>3 DEF RequestsEntitled
<1>5. CASE JobRead
  <2>1. /\ today' = today /\ locks' = locks /\ job' = [ran |-> today, found |-> Stale]
        /\ \A c \in Actors : req[c].phase # "idle" => req[c].day = today
    BY <1>5 DEF JobRead, BegunToday, Actors
  <2>2. Stale \subseteq DOMAIN vouchers /\ Stale \subseteq Nat
    BY RowTypes DEF Stale
  <2>3. Types'
    BY <1>1, <1>2, <2>1, <2>2 DEF Types
  <2>4. BookInv'
    <3>1. WinsAwardable' /\ VouchersBacked' /\ AwardsCounted' /\ WindowsOpen'
      BY <1>1 DEF BookInv, WinsAwardable, VouchersBacked, AwardsCounted, WindowsOpen, Winning,
                  Wins
    <3>2. FoundAreLate'
      BY <1>1, <2>1 DEF FoundAreLate, Stale
    <3> QED
      BY <3>1, <3>2 DEF BookInv
  <2>5. ASSUME NEW c \in Actors PROVE Entitled(c, req[c])'
    <3> DEFINE r == req[c]
    <3>1. Entitled(c, r) /\ r' = r /\ r \in Request
      BY <1>1 DEF RequestsEntitled, Types
    <3>2. r.op = "spin" => SpinEntitled(c, r)'
      BY <1>1, <2>1, <3>1 DEF Entitled, SpinEntitled, SpinsOf, WinsOn, Wins, IsWin
    <3>3. r.op = "stats" => Rising(r.count)'
      BY <1>1, <3>1 DEF Entitled, Rising
    <3>4. r.op = "redeem" => RedeemEntitled(c, r)'
      <4>1. ASSUME r.op = "redeem", r.phase = "write", r.voucher \in Stale PROVE FALSE
        <5>1. r.day = today /\ r.day <= vouchers[r.voucher].until
          BY <2>1, <3>1, <4>1 DEF Entitled, RedeemEntitled
        <5>2. vouchers[r.voucher].until < today /\ vouchers[r.voucher].until \in Int
          BY <4>1, RowTypes DEF Stale, VoucherRow
        <5> QED
          BY <1>3, <5>1, <5>2
      <4> QED
        BY <1>1, <2>1, <3>1, <4>1 DEF Entitled, RedeemEntitled
    <3> QED
      BY <3>1, <3>2, <3>3, <3>4 DEF Entitled
  <2> QED
    BY <2>3, <2>4, <2>5 DEF RequestsEntitled
<1> QED
  BY <1>4, <1>5 DEF JobUpdate, Midnight

-----------------------------------------------------------------------------
(***************************************************************************)
(* The manager.                                                            *)
(***************************************************************************)

\* While a manager may write the campaign no spin is under way, and while he may write the
\* prizes none has drawn one.
LEMMA NoSpinUnderWay ==
  ASSUME CampaignsAssumption, Inv, NEW c \in Desks
  PROVE  /\ Free(c, CampaignRow) => \A d \in Actors : req[d].op # "spin"
         /\ Free(c, PrizeRows) =>
              \A d \in Actors : req[d].op = "spin" => req[d].phase = "draw"
BY DEF Free, Inv, RequestsEntitled, Entitled, SpinEntitled, CampaignsAssumption

\* The status, the limit or the window of the campaign changes.
LEMMA PatchCampaignInv ==
  ASSUME CampaignsAssumption, Inv, NEW c \in Desks, PatchCampaign(c) \/ CommitPatchWindow(c)
  PROVE  Inv'
<1> USE DEF Inv
<1>1. UNCHANGED <<today, prize, spins, vouchers, job>> /\ Free(c, CampaignRow)
  BY DEF PatchCampaign, CommitPatchWindow, Manage, Commit
<1>2. campaign' \in Campaign
  BY DEF PatchCampaign, CommitPatchWindow, CampaignsAssumption, Types, Campaign
<1>3. /\ locks' \in [Rows -> Actors \cup {Job, None}] /\ req' \in [Actors -> Request]
      /\ \A d \in Actors : /\ req'[d] = req[d] \/ req'[d] = Idle
                           /\ req'[d] = Idle \/ \A q \in Rows : locks[q] = d => locks'[q] = d
  BY IdleType DEF PatchCampaign, CommitPatchWindow, Manage, Commit, Released, Types, Actors
<1>4. Types'
  BY <1>1, <1>2, <1>3 DEF Types
<1>5. BookInv'
  BY <1>1, BookKept DEF Types, Days
<1>6. ASSUME NEW d \in Actors PROVE Entitled(d, req[d])'
  <2>1. CASE req'[d] = Idle
    BY <2>1 DEF Entitled, Idle, CampaignsAssumption, AllOps
  <2>2. CASE req'[d] = req[d] /\ req'[d] # Idle
    <3>1. Entitled(d, req[d]) /\ req[d].op # "spin"
      BY <1>1, NoSpinUnderWay DEF RequestsEntitled
    <3>2. req[d].op = "redeem" => req[d].voucher \in Rows
      BY <3>1, RowTypes DEF Entitled, RedeemEntitled
    <3> QED
      BY <1>1, <1>3, <2>2, <3>1, <3>2 DEF Entitled, RedeemEntitled, Rising
  <2> QED
    BY <1>3, <2>1, <2>2
<1> QED
  BY <1>4, <1>5, <1>6 DEF RequestsEntitled

\* A new prize was won by nobody, and adds nothing to the awards.
LEMMA AddPrizeInv ==
  ASSUME CampaignsAssumption, Inv, NEW c \in Desks, AddPrize(c)
  PROVE  Inv'
<1> USE DEF Inv
<1>1. UNCHANGED <<today, campaign, spins, vouchers, job, locks, req>> /\ Free(c, CampaignRow)
  BY DEF AddPrize, Manage
<1>2. PICK p \in Prizes \ DOMAIN prize, t \in Totals, n \in Dailies \cup {NoQuota} :
        prize' = [q \in DOMAIN prize \cup {p} |->
                    IF q = p THEN [active |-> TRUE, total |-> t, daily |-> n, awarded |-> 0]
                    ELSE prize[q]]
  BY DEF AddPrize
<1>3. t \in Nat /\ n \in Nat
  BY DEF CampaignsAssumption, NoQuota
<1>4. /\ DOMAIN prize' = DOMAIN prize \cup {p}
      /\ prize'[p] = [active |-> TRUE, total |-> t, daily |-> n, awarded |-> 0]
      /\ \A q \in DOMAIN prize : prize'[q] = prize[q]
      /\ prize' \in [DOMAIN prize' -> PrizeRow]
  <2>1. PICK row : row = [active |-> TRUE, total |-> t, daily |-> n, awarded |-> 0]
    OBVIOUS
  <2>2. row \in PrizeRow
    BY <1>3, <2>1 DEF PrizeRow
  <2>3. prize' = [q \in DOMAIN prize \cup {p} |-> IF q = p THEN row ELSE prize[q]]
    BY <1>2, <2>1
  <2>4. prize \in [DOMAIN prize -> PrizeRow]
    BY DEF Types
  <2> QED
    BY <2>1, <2>2, <2>3, <2>4
<1>5. IsFiniteSet(DOMAIN prize')
  BY <1>4, FS_AddElement DEF Types
<1>6. Types'
  BY <1>1, <1>4, <1>5 DEF Types
<1>7. BookInv'
  <2>1. WinsAwardable' /\ VouchersBacked' /\ WindowsOpen' /\ FoundAreLate'
    BY <1>1, <1>4 DEF BookInv, WinsAwardable, VouchersBacked, WindowsOpen, FoundAreLate, Winning
  <2>2. SumFunction([q \in DOMAIN prize' |-> prize'[q].awarded])
          = SumFunction([q \in DOMAIN prize |-> prize[q].awarded])
    <3> DEFINE f == [q \in DOMAIN prize |-> prize[q].awarded]
               g == [q \in DOMAIN prize' |-> prize'[q].awarded]
    <3>1. \A q \in DOMAIN prize : f[q] \in Int /\ g[q] = f[q]
      BY <1>4 DEF Types, PrizeRow
    <3>2. g[p] = 0 /\ DOMAIN f = DOMAIN prize /\ DOMAIN g = DOMAIN prize \cup {p}
      BY <1>4
    <3>3. IsFiniteSet(DOMAIN prize) /\ p \notin DOMAIN prize
      BY DEF Types
    <3> HIDE DEF f, g
    <3>4. SumFunctionOnSet(g, DOMAIN prize) = SumFunctionOnSet(f, DOMAIN prize)
      BY <3>1, <3>3, SumSame
    <3>5. /\ SumFunctionOnSet(g, DOMAIN prize \cup {p}) = 0 + SumFunctionOnSet(g, DOMAIN prize)
          /\ SumFunctionOnSet(g, DOMAIN prize) \in Int
      BY <3>1, <3>2, <3>3, SumAdd
    <3>6. SumFunction(g) = SumFunction(f)
      BY <3>2, <3>4, <3>5 DEF SumFunction
    <3> QED
      BY <3>6 DEF f, g
  <2>3. Cardinality(Wins(p)') = 0
    <3>1. Wins(p)' = {}
      BY <1>1 DEF BookInv, WinsAwardable, Winning, Wins
    <3> QED
      BY <3>1, FS_EmptySet
  <2>4. AwardsCounted'
    <3>1. \A q \in DOMAIN prize : prize'[q].awarded = Cardinality(Wins(q)')
      BY <1>1, <1>4 DEF BookInv, AwardsCounted, Wins
    <3>2. \A q \in DOMAIN prize' : prize'[q].awarded = Cardinality(Wins(q)')
      BY <1>4, <2>3, <3>1
    <3>3. Len(vouchers)' = Cardinality(Winning)'
      BY <1>1 DEF BookInv, AwardsCounted, Winning
    <3> QED
      BY <1>1, <2>2, <3>2, <3>3 DEF BookInv, AwardsCounted
  <2> QED
    BY <2>1, <2>4 DEF BookInv
<1>8. RequestsEntitled'
  BY <1>1, NoSpinUnderWay
     DEF RequestsEntitled, Entitled, RedeemEntitled, Rising
<1> QED
  BY <1>6, <1>7, <1>8

\* A quota of a prize changes, or it is switched on or off; its awards stay.
LEMMA PatchPrizeInv ==
  ASSUME CampaignsAssumption, Inv, NEW c \in Desks, PatchPrize(c)
  PROVE  Inv'
<1> USE DEF Inv
<1>1. UNCHANGED <<today, campaign, spins, vouchers, job, locks, req>> /\ Free(c, PrizeRows)
  BY DEF PatchPrize, Manage
<1>2. /\ DOMAIN prize' = DOMAIN prize /\ prize' \in [DOMAIN prize -> PrizeRow]
      /\ \A q \in DOMAIN prize : prize'[q].awarded = prize[q].awarded
  <2>1. PICK q \in DOMAIN prize :
          \/ \E n \in Totals : prize' = [prize EXCEPT ![q].total = n]
          \/ \E n \in Dailies : prize' = [prize EXCEPT ![q].daily = n]
          \/ \E b \in BOOLEAN : prize' = [prize EXCEPT ![q].active = b]
    BY DEF PatchPrize
  <2>2. /\ Totals \subseteq Nat /\ Dailies \subseteq Nat
        /\ prize \in [DOMAIN prize -> PrizeRow] /\ prize[q] \in PrizeRow
    BY DEF Types, CampaignsAssumption
  <2>3. PICK row \in PrizeRow :
          row.awarded = prize[q].awarded /\ prize' = [prize EXCEPT ![q] = row]
    <3>1. CASE \E n \in Totals : prize' = [prize EXCEPT ![q].total = n]
      BY <2>2, <3>1 DEF PrizeRow
    <3>2. CASE \E n \in Dailies : prize' = [prize EXCEPT ![q].daily = n]
      BY <2>2, <3>2 DEF PrizeRow
    <3>3. CASE \E b \in BOOLEAN : prize' = [prize EXCEPT ![q].active = b]
      BY <2>2, <3>3 DEF PrizeRow
    <3> QED
      BY <2>1, <3>1, <3>2, <3>3
  <2> QED
    BY <2>2, <2>3
<1>3. Types'
  BY <1>1, <1>2 DEF Types
<1>4. BookInv'
  <2>1. WinsAwardable' /\ VouchersBacked' /\ WindowsOpen' /\ FoundAreLate'
    BY <1>1, <1>2 DEF BookInv, WinsAwardable, VouchersBacked, WindowsOpen, FoundAreLate, Winning
  <2>2. [q \in DOMAIN prize' |-> prize'[q].awarded] = [q \in DOMAIN prize |-> prize[q].awarded]
    BY <1>2
  <2>3. AwardsCounted'
    BY <1>1, <1>2, <2>2 DEF BookInv, AwardsCounted, Winning, Wins
  <2> QED
    BY <2>1, <2>3 DEF BookInv
<1>5. RequestsEntitled'
  <2>1. ASSUME NEW d \in Actors PROVE Entitled(d, req[d])'
    <3>1. Entitled(d, req[d]) /\ req'[d] = req[d]
      BY <1>1 DEF RequestsEntitled
    <3>2. req[d].op = "spin" => req[d].phase = "draw"
      BY <1>1, NoSpinUnderWay
    <3>3. req[d].op = "spin" => SpinEntitled(d, req[d])'
      BY <1>1, <3>1, <3>2 DEF Entitled, SpinEntitled, SpinsOf
    <3>4. req[d].op = "redeem" => RedeemEntitled(d, req[d])'
      BY <1>1, <3>1 DEF Entitled, RedeemEntitled
    <3>5. req[d].op = "stats" => Rising(req[d].count)'
      BY <1>1, <3>1 DEF Entitled, Rising
    <3> QED
      BY <3>1, <3>3, <3>4, <3>5 DEF Entitled
  <2> QED
    BY <2>1 DEF RequestsEntitled
<1> QED
  BY <1>3, <1>4, <1>5

-----------------------------------------------------------------------------
(***************************************************************************)
(* A spin that commits.                                                    *)
(***************************************************************************)

\* Spins are counted in finite sets.
LEMMA SpinSets ==
  ASSUME CampaignsAssumption, Types
  PROVE  /\ IsFiniteSet(Winning)
         /\ \A p : IsFiniteSet(Wins(p))
         /\ \A p, d : IsFiniteSet(WinsOn(p, d)) /\ IsFiniteSet(SpinsOf(p, d))
<1>1. IsFiniteSet(DOMAIN spins)
  BY RowTypes, FS_Interval
<1> QED
  BY <1>1, FS_Subset DEF Winning, Wins, WinsOn, SpinsOf

\* A spin more is one more of its member and its day, and if it won, of its prize.
LEMMA SpinMore ==
  ASSUME CampaignsAssumption, Types, NEW s \in SpinRow, spins' = Append(spins, s)
  PROVE  LET i == Len(spins) + 1 IN
         /\ Winning' = (IF s.won THEN Winning \cup {i} ELSE Winning)
         /\ \A p : Wins(p)' = IF s.won /\ s.prize = p THEN Wins(p) \cup {i} ELSE Wins(p)
         /\ \A p, d : WinsOn(p, d)' = IF s.won /\ s.prize = p /\ s.day = d
                                      THEN WinsOn(p, d) \cup {i} ELSE WinsOn(p, d)
         /\ \A m, d : SpinsOf(m, d)' = IF s.member = m /\ s.day = d
                                       THEN SpinsOf(m, d) \cup {i} ELSE SpinsOf(m, d)
         /\ i \notin Winning /\ \A p : i \notin Wins(p)
         /\ \A p, d : i \notin WinsOn(p, d) /\ i \notin SpinsOf(p, d)
<1> DEFINE i == Len(spins) + 1
<1>1. /\ DOMAIN spins = 1 .. Len(spins) /\ Len(spins) \in Nat
      /\ DOMAIN spins' = DOMAIN spins \cup {i} /\ i \notin DOMAIN spins
      /\ spins'[i] = s /\ \A j \in DOMAIN spins : spins'[j] = spins[j]
  BY DEF Types
<1> HIDE DEF i
<1>2. Winning' = (IF s.won THEN Winning \cup {i} ELSE Winning)
  BY <1>1 DEF Winning
<1>3. ASSUME NEW p
      PROVE  Wins(p)' = IF s.won /\ s.prize = p THEN Wins(p) \cup {i} ELSE Wins(p)
  BY <1>1 DEF Wins
<1>4. ASSUME NEW p, NEW d
      PROVE  WinsOn(p, d)' = IF s.won /\ s.prize = p /\ s.day = d
                             THEN WinsOn(p, d) \cup {i} ELSE WinsOn(p, d)
  BY <1>1 DEF WinsOn, Wins
<1>5. ASSUME NEW m, NEW d
      PROVE  SpinsOf(m, d)' = IF s.member = m /\ s.day = d
                              THEN SpinsOf(m, d) \cup {i} ELSE SpinsOf(m, d)
  BY <1>1 DEF SpinsOf
<1>6. /\ i \notin Winning /\ \A p : i \notin Wins(p)
      /\ \A p, d : i \notin WinsOn(p, d) /\ i \notin SpinsOf(p, d)
  BY <1>1 DEF Winning, Wins, WinsOn, SpinsOf
<1> QED
  BY <1>2, <1>3, <1>4, <1>5, <1>6 DEF i

\* The requests of others go on: no other spin is under way, and vouchers are only added.
LEMMA CommitSpinOthers ==
  ASSUME CampaignsAssumption, Inv, NEW c \in Clients, CommitSpin(c),
         Len(vouchers') \in Nat, Len(vouchers') >= Len(vouchers),
         \A v \in DOMAIN vouchers : v \in DOMAIN vouchers' /\ vouchers'[v] = vouchers[v]
  PROVE  /\ locks' \in [Rows -> Actors \cup {Job, None}] /\ req' \in [Actors -> Request]
         /\ RequestsEntitled'
<1> USE DEF Inv
<1>1. /\ locks' \in [Rows -> Actors \cup {Job, None}] /\ req' \in [Actors -> Request]
      /\ req'[c] = Idle /\ \A d \in Actors \ {c} : req'[d] = req[d]
      /\ \A d \in Actors \ {c} : \A q \in Rows : locks[q] = d => locks'[q] = d
      /\ job' = job
  BY IdleType DEF CommitSpin, Commit, Released, Types, Actors
<1>2. ASSUME NEW d \in Actors PROVE Entitled(d, req[d])'
  <2>1. CASE d = c
    BY <1>1, <2>1 DEF Entitled, Idle, CampaignsAssumption, AllOps
  <2>2. CASE d # c
    <3>1. PICK r : r = req[d] /\ r = req'[d]
      BY <1>1, <2>2
    <3>2. Entitled(d, r) /\ r \in Request
      <4>1. Entitled(d, r)
        BY <3>1 DEF RequestsEntitled
      <4>2. req[d] \in Request
        BY DEF Types
      <4> QED
        BY <3>1, <4>1, <4>2
    <3>3. r.op # "spin"
      <4>1. SpinEntitled(c, req[c])
        BY DEF RequestsEntitled, Entitled, CommitSpin, Commit, Actors
      <4> QED
        BY <2>2, <3>2, <4>1 DEF Entitled, SpinEntitled
    <3>4. r.op = "redeem" => RedeemEntitled(d, r)'
      BY <1>1, <2>2, <3>2, RowTypes DEF Entitled, RedeemEntitled
    <3>5. r.op = "stats" => Rising(r.count)'
      <4>1. Len(vouchers) \in Nat
        BY RowTypes
      <4>2. r.count \in Seq(Nat) /\ \A k \in 1 .. Len(r.count) : r.count[k] \in Nat
        BY <3>2 DEF Request
      <4>3. r.op = "stats" => Rising(r.count)
        BY <3>2 DEF Entitled
      <4> QED
        BY <4>1, <4>2, <4>3 DEF Rising
    <3> QED
      BY <3>1, <3>3, <3>4, <3>5 DEF Entitled
  <2> QED
    BY <2>1, <2>2
<1> QED
  BY <1>1, <1>2 DEF RequestsEntitled

\* What a spin writes: the row of the spin, and what it knows of its prize.
LEMMA CommitSpinRow ==
  ASSUME CampaignsAssumption, Inv, NEW c \in Clients, CommitSpin(c)
  PROVE  LET r == req[c]
             s == [member |-> r.member, prize |-> r.drawn, day |-> r.day, won |-> IsWin(r.drawn)]
         IN  /\ r \in Request /\ SpinEntitled(c, r) /\ r.phase = "write"
             /\ s \in SpinRow /\ spins' = Append(spins, s) /\ Len(spins) + 1 <= MaxSpins
             /\ UNCHANGED <<today, campaign, job>>
<1>1. req[c] \in Request /\ SpinEntitled(c, req[c]) /\ req[c].phase = "write"
  BY DEF Inv, Types, Actors, RequestsEntitled, Entitled, CommitSpin, Commit
<1>2. req[c].member \in Members /\ req[c].drawn \in Prizes \cup {None} /\ req[c].day \in Days
  BY <1>1 DEF SpinEntitled, Request
<1>3. IsWin(req[c].drawn) \in BOOLEAN
  BY DEF IsWin
<1> QED
  BY <1>1, <1>2, <1>3 DEF SpinRow, CommitSpin, Commit

\* A spin that wins nothing adds its row.
LEMMA CommitMissInv ==
  ASSUME CampaignsAssumption, Inv, NEW c \in Clients, CommitSpin(c), ~ IsWin(req[c].drawn)
  PROVE  Inv'
<1> USE DEF Inv
<1>1. PICK s \in SpinRow : /\ spins' = Append(spins, s) /\ ~ s.won
                           /\ UNCHANGED <<today, campaign, job>> /\ Len(spins) + 1 <= MaxSpins
  BY CommitSpinRow
<1>2. UNCHANGED <<prize, vouchers>>
  BY DEF CommitSpin
<1>3. /\ locks' \in [Rows -> Actors \cup {Job, None}] /\ req' \in [Actors -> Request]
      /\ RequestsEntitled'
  BY <1>2, RowTypes, CommitSpinOthers
<1>4. /\ spins' \in Seq(SpinRow) /\ Len(spins') = Len(spins) + 1 /\ Len(spins) \in Nat
      /\ \A j \in 1 .. Len(spins) : spins'[j] = spins[j]
  BY <1>1 DEF Types
<1>5. Types'
  BY <1>1, <1>2, <1>3, <1>4, RowTypes DEF Types
<1>6. Winning' = Winning /\ \A p : Wins(p)' = Wins(p)
  BY <1>1, SpinMore
<1>7. Winning \subseteq DOMAIN spins /\ DOMAIN spins = 1 .. Len(spins)
  BY RowTypes DEF Winning
<1>8. WinsAwardable'
  BY <1>2, <1>4, <1>6, <1>7 DEF BookInv, WinsAwardable
<1>9. VouchersBacked' /\ WindowsOpen' /\ FoundAreLate'
  BY <1>1, <1>2, <1>6 DEF BookInv, VouchersBacked, WindowsOpen, FoundAreLate
<1>10. AwardsCounted'
  BY <1>2, <1>6 DEF BookInv, AwardsCounted
<1> QED
  BY <1>3, <1>5, <1>8, <1>9, <1>10 DEF BookInv

\* A spin that wins adds its row, an award of its prize and a voucher.
LEMMA CommitWinInv ==
  ASSUME CampaignsAssumption, Inv, NEW c \in Clients, CommitSpin(c), IsWin(req[c].drawn)
  PROVE  Inv'
<1> USE DEF Inv
<1> DEFINE r == req[c]
           p == r.drawn
           i == Len(spins) + 1
           n == Len(vouchers) + 1
           new == Minted(i, r.member, p, campaign, r.day)
<1>1. PICK s \in SpinRow : /\ spins' = Append(spins, s) /\ s.won /\ s.prize = p
                           /\ UNCHANGED <<today, campaign, job>> /\ Len(spins) + 1 <= MaxSpins
  BY CommitSpinRow
<1>2. /\ r \in Request /\ p \in DOMAIN prize /\ r.count = <<prize[p].awarded>>
      /\ r.member \in Members
  BY CommitSpinRow DEF SpinEntitled
<1>3. /\ prize' = [prize EXCEPT ![p].awarded = prize[p].awarded + 1]
      /\ vouchers' = Append(vouchers, new)
  BY <1>2 DEF CommitSpin
<1>4. prize[p] \in PrizeRow /\ prize[p].awarded \in Nat /\ p \in Prizes
  BY <1>2 DEF Types, PrizeRow
<1>5. /\ DOMAIN prize' = DOMAIN prize /\ prize' \in [DOMAIN prize -> PrizeRow]
      /\ prize'[p].awarded = prize[p].awarded + 1
      /\ \A q \in DOMAIN prize \ {p} : prize'[q] = prize[q]
  <2>1. PICK row : row = [prize[p] EXCEPT !.awarded = prize[p].awarded + 1]
    OBVIOUS
  <2>2. row \in PrizeRow /\ row.awarded = prize[p].awarded + 1
    BY <1>4, <2>1 DEF PrizeRow
  <2>3. prize' = [prize EXCEPT ![p] = row]
    BY <1>3, <2>1
  <2> QED
    BY <1>2, <2>2, <2>3 DEF Types
<1>6. new \in VoucherRow /\ new.spin = i /\ new.from < new.until
  <2>1. /\ campaign.offset \in Nat /\ campaign.validity \in Nat /\ campaign.validity > 0
        /\ r.day \in Nat /\ i \in Nat
    BY SMTT(30), <1>2, RowTypes DEF Types, Campaign, CampaignsAssumption, Request, Days
  <2> HIDE DEF i, r, p
  <2> QED
    BY <1>2, <1>4, <2>1 DEF Minted, VoucherRow, VoucherStatus
<1>7. /\ DOMAIN vouchers = 1 .. Len(vouchers) /\ Len(vouchers) \in Nat
      /\ vouchers' \in Seq(VoucherRow) /\ Len(vouchers') = n
      /\ DOMAIN vouchers' = DOMAIN vouchers \cup {n} /\ n \notin DOMAIN vouchers
      /\ vouchers'[n] = new /\ \A v \in DOMAIN vouchers : vouchers'[v] = vouchers[v]
  <2> HIDE DEF new
  <2> QED
    BY <1>3, <1>6 DEF Types
<1>8. /\ locks' \in [Rows -> Actors \cup {Job, None}] /\ req' \in [Actors -> Request]
      /\ RequestsEntitled'
  BY <1>7, CommitSpinOthers
<1>9. /\ spins' \in Seq(SpinRow) /\ Len(spins') = i /\ Len(spins) \in Nat
      /\ \A j \in 1 .. Len(spins) : spins'[j] = spins[j]
      /\ spins'[i] = s
  BY <1>1 DEF Types
<1>10. Types'
  BY <1>1, <1>5, <1>7, <1>8, <1>9 DEF Types
<1>11. /\ Winning' = Winning \cup {i} /\ i \notin Winning
       /\ \A q : /\ Wins(q)' = IF q = p THEN Wins(q) \cup {i} ELSE Wins(q)
                 /\ i \notin Wins(q)
  BY <1>1, SpinMore
<1>12. Winning \subseteq DOMAIN spins /\ DOMAIN spins = 1 .. Len(spins)
  BY RowTypes DEF Winning
<1>13. WinsAwardable'
  BY <1>1, <1>2, <1>5, <1>9, <1>11, <1>12 DEF BookInv, WinsAwardable
<1> HIDE DEF new, n, i, p, r
<1>14. VouchersBacked'
  <2>1. \A v \in DOMAIN vouchers : vouchers[v].spin \in Winning
    BY DEF BookInv, VouchersBacked
  <2>2. \A v, w \in DOMAIN vouchers : vouchers[v].spin = vouchers[w].spin => v = w
    BY DEF BookInv, VouchersBacked
  <2>3. \A j \in Winning : \E v \in DOMAIN vouchers : vouchers[v].spin = j
    BY DEF BookInv, VouchersBacked
  <2>4. \A v \in DOMAIN vouchers' : vouchers'[v].spin \in Winning'
    BY <1>6, <1>7, <1>11, <2>1
  <2>5. \A v, w \in DOMAIN vouchers' : vouchers'[v].spin = vouchers'[w].spin => v = w
    BY <1>6, <1>7, <1>11, <2>1, <2>2
  <2>6. \A j \in Winning' : \E v \in DOMAIN vouchers' : vouchers'[v].spin = j
    BY <1>6, <1>7, <1>11, <2>3
  <2> QED
    BY <2>4, <2>5, <2>6 DEF VouchersBacked
<1>15. WindowsOpen'
  BY <1>6, <1>7 DEF BookInv, WindowsOpen
<1>16. FoundAreLate'
  BY <1>1, <1>7 DEF BookInv, FoundAreLate
<1>17. Len(vouchers') = Cardinality(Winning')
  <2>1. Cardinality(Winning') = Cardinality(Winning) + 1
    BY <1>11, SpinSets, FS_AddElement
  <2> QED
    BY <1>7, <2>1 DEF BookInv, AwardsCounted, n
<1>18. Len(vouchers') = SumFunction([q \in DOMAIN prize' |-> prize'[q].awarded])
  <2> DEFINE f == [q \in DOMAIN prize |-> prize[q].awarded]
             g == [q \in DOMAIN prize' |-> prize'[q].awarded]
             D == DOMAIN prize
  <2>1. \A q \in D : f[q] \in Int /\ g[q] \in Int
    BY <1>5 DEF Types, PrizeRow
  <2>2. \A q \in D \ {p} : g[q] = f[q]
    BY <1>5
  <2>3. g[p] = f[p] + 1 /\ p \in D /\ IsFiniteSet(D)
    BY <1>2, <1>5 DEF Types
  <2>4. DOMAIN f = D /\ DOMAIN g = D /\ Len(vouchers) = SumFunction(f)
    BY <1>5 DEF BookInv, AwardsCounted
  <2> HIDE DEF f, g, D
  <2>5. SumFunctionOnSet(g, D) = SumFunctionOnSet(f, D) - f[p] + g[p]
    BY <2>1, <2>2, <2>3, SumChange
  <2>6. Len(vouchers') = SumFunction(g)
    BY <1>7, <2>1, <2>3, <2>4, <2>5 DEF SumFunction, n
  <2> QED
    BY <2>6 DEF g
<1>19. \A q \in DOMAIN prize' : prize'[q].awarded = Cardinality(Wins(q)')
  <2>1. \A q \in DOMAIN prize : prize[q].awarded = Cardinality(Wins(q))
    BY DEF BookInv, AwardsCounted
  <2>2. Cardinality(Wins(p) \cup {i}) = Cardinality(Wins(p)) + 1
    BY <1>11, SpinSets, FS_AddElement
  <2> QED
    BY <1>2, <1>5, <1>11, <2>1, <2>2
<1>20. AwardsCounted'
  BY <1>17, <1>18, <1>19 DEF AwardsCounted
<1> QED
  BY <1>8, <1>10, <1>13, <1>14, <1>15, <1>16, <1>20 DEF BookInv

-----------------------------------------------------------------------------
(***************************************************************************)
(* A redemption and the nightly expiry: the status of vouchers changes.    *)
(***************************************************************************)

\* All but the status and the day of redemption of a voucher stays.
LEMMA StatusChanges ==
  ASSUME CampaignsAssumption, Inv, UNCHANGED <<today, campaign, prize, spins>>,
         DOMAIN vouchers' = DOMAIN vouchers,
         \A v \in DOMAIN vouchers :
           /\ vouchers'[v] \in VoucherRow
           /\ vouchers'[v].spin = vouchers[v].spin
           /\ vouchers'[v].from = vouchers[v].from
           /\ vouchers'[v].until = vouchers[v].until,
         vouchers' = [v \in DOMAIN vouchers' |-> vouchers'[v]]
  PROVE  /\ vouchers' \in Seq(VoucherRow) /\ Len(vouchers') = Len(vouchers)
         /\ WinsAwardable' /\ VouchersBacked' /\ AwardsCounted' /\ WindowsOpen'
<1>1. /\ DOMAIN vouchers = 1 .. Len(vouchers) /\ Len(vouchers) \in Nat
  BY RowTypes DEF Inv
<1>2. vouchers' \in Seq(VoucherRow) /\ Len(vouchers') = Len(vouchers)
  <2>1. vouchers' \in [1 .. Len(vouchers) -> VoucherRow]
    BY <1>1
  <2> QED
    BY <1>1, <2>1
<1>3. WinsAwardable' /\ VouchersBacked' /\ WindowsOpen'
  BY DEF Inv, BookInv, WinsAwardable, VouchersBacked, WindowsOpen, Winning
<1>4. AwardsCounted'
  BY <1>2 DEF Inv, BookInv, AwardsCounted, Winning, Wins
<1> QED
  BY <1>2, <1>3, <1>4

\* A redemption of its own voucher, which nobody else holds and the job has not found.
LEMMA CommitRedeemInv ==
  ASSUME CampaignsAssumption, Inv, NEW c \in Clients, CommitRedeem(c)
  PROVE  Inv'
<1> USE DEF Inv
<1> DEFINE v == req[c].voucher
<1>1. /\ req[c] \in Request /\ RedeemEntitled(c, req[c]) /\ req[c].phase = "write"
      /\ req[c].op = "redeem"
  BY DEF Types, Actors, RequestsEntitled, Entitled, CommitRedeem, Commit
<1>2. v \in DOMAIN vouchers /\ locks[v] = c /\ v \in Rows /\ vouchers[v] \in VoucherRow
  BY <1>1, RowTypes DEF RedeemEntitled
<1>3. PICK row : row = [vouchers[v] EXCEPT !.status = "redeemed", !.on = req[c].day]
  OBVIOUS
<1>4. /\ row \in VoucherRow /\ row.spin = vouchers[v].spin /\ row.from = vouchers[v].from
      /\ row.until = vouchers[v].until
  BY <1>1, <1>2, <1>3 DEF VoucherRow, VoucherStatus, Request
<1>5. vouchers' = [vouchers EXCEPT ![v] = row]
  BY <1>2, <1>3 DEF CommitRedeem
<1>6. /\ UNCHANGED <<today, campaign, prize, spins, job>>
      /\ DOMAIN vouchers' = DOMAIN vouchers /\ vouchers'[v] = row
      /\ \A w \in DOMAIN vouchers \ {v} : vouchers'[w] = vouchers[w]
      /\ vouchers' = [w \in DOMAIN vouchers' |-> vouchers'[w]]
  BY <1>2, <1>5 DEF CommitRedeem, Commit
<1>7. /\ vouchers' \in Seq(VoucherRow) /\ Len(vouchers') = Len(vouchers)
      /\ WinsAwardable' /\ VouchersBacked' /\ AwardsCounted' /\ WindowsOpen'
  BY <1>4, <1>6, RowTypes, StatusChanges
<1>8. FoundAreLate'
  BY <1>1, <1>6 DEF RedeemEntitled, BookInv, FoundAreLate
<1>9. /\ locks' \in [Rows -> Actors \cup {Job, None}] /\ req' \in [Actors -> Request]
      /\ req'[c] = Idle /\ \A d \in Actors \ {c} : req'[d] = req[d]
      /\ \A d \in Actors \ {c} : \A q \in Rows : locks[q] = d => locks'[q] = d
  BY IdleType DEF CommitRedeem, Commit, Released, Types, Actors
<1>10. Types'
  BY <1>6, <1>7, <1>9 DEF Types
<1>11. ASSUME NEW d \in Actors PROVE Entitled(d, req[d])'
  <2>1. CASE d = c
    BY <1>9, <2>1 DEF Entitled, Idle, CampaignsAssumption, AllOps
  <2>2. CASE d # c
    <3>1. PICK r : r = req[d] /\ r = req'[d]
      BY <1>9, <2>2
    <3>2. Entitled(d, r)
      BY <3>1 DEF RequestsEntitled
    <3>3. r.op = "redeem" => RedeemEntitled(d, r)'
      BY <1>2, <1>6, <1>9, <2>2, <3>2, RowTypes DEF Entitled, RedeemEntitled
    <3>4. r.op = "stats" => Rising(r.count)'
      BY <1>7, <3>2 DEF Entitled, Rising
    <3>5. r.op = "spin" => SpinEntitled(d, r)'
      BY <1>6, <1>9, <2>2, <3>2, RowTypes
         DEF Entitled, SpinEntitled, SpinsOf, WinsOn, Wins, IsWin
    <3> QED
      BY <3>1, <3>3, <3>4, <3>5 DEF Entitled
  <2> QED
    BY <2>1, <2>2
<1> QED
  BY <1>7, <1>8, <1>10, <1>11 DEF BookInv, RequestsEntitled

\* The job writes the vouchers it found; no redemption of one of them is under way.
LEMMA JobCommitInv ==
  ASSUME CampaignsAssumption, Inv, JobCommit
  PROVE  Inv'
<1> USE DEF Inv
<1>1. \A v \in DOMAIN vouchers :
        /\ vouchers[v] \in VoucherRow
        /\ [vouchers[v] EXCEPT !.status = "expired"] \in VoucherRow
  <2>1. \A v \in DOMAIN vouchers : vouchers[v] \in VoucherRow
    BY RowTypes
  <2>2. \A row \in VoucherRow : [row EXCEPT !.status = "expired"] \in VoucherRow
    BY DEF VoucherRow, VoucherStatus
  <2> QED
    BY <2>1, <2>2
<1>2. /\ UNCHANGED <<today, campaign, prize, spins, req>>
      /\ DOMAIN vouchers' = DOMAIN vouchers
      /\ vouchers' = [v \in DOMAIN vouchers' |-> vouchers'[v]]
      /\ \A v \in DOMAIN vouchers \ job.found : vouchers'[v] = vouchers[v]
      /\ \A v \in DOMAIN vouchers : \/ vouchers'[v] = vouchers[v]
                                    \/ vouchers'[v] = [vouchers[v] EXCEPT !.status = "expired"]
      /\ job' = [job EXCEPT !.found = None] /\ job.found # None
  BY DEF JobCommit
<1>3. \A v \in DOMAIN vouchers :
        /\ vouchers'[v] \in VoucherRow /\ vouchers'[v].spin = vouchers[v].spin
        /\ vouchers'[v].from = vouchers[v].from /\ vouchers'[v].until = vouchers[v].until
  <2> TAKE v \in DOMAIN vouchers
  <2>1. CASE vouchers'[v] = vouchers[v]
    BY <1>1, <2>1
  <2>2. CASE vouchers'[v] = [vouchers[v] EXCEPT !.status = "expired"]
    <3>1. vouchers'[v] \in VoucherRow
      BY <1>1, <2>2
    <3>2. vouchers[v] \in VoucherRow
      BY <1>1
    <3> QED
      BY <2>2, <3>1, <3>2 DEF VoucherRow
  <2> QED
    BY <1>2, <2>1, <2>2
<1>4. /\ vouchers' \in Seq(VoucherRow) /\ Len(vouchers') = Len(vouchers)
      /\ WinsAwardable' /\ VouchersBacked' /\ AwardsCounted' /\ WindowsOpen'
  BY <1>2, <1>3, StatusChanges
<1>5. job' \in [ran : Days, found : {None}] /\ job'.found = None
  BY <1>2 DEF Types
<1>6. FoundAreLate'
  BY <1>5 DEF FoundAreLate
<1>7. /\ locks' \in [Rows -> Actors \cup {Job, None}]
      /\ \A d \in Actors : \A q \in Rows : locks[q] = d => locks'[q] = d
  BY DEF JobCommit, Released, Types, Actors, CampaignsAssumption
<1>8. Types'
  BY <1>2, <1>4, <1>5, <1>7 DEF Types
<1>9. ASSUME NEW d \in Actors PROVE Entitled(d, req[d])'
  <2>1. PICK r : r = req[d] /\ r = req'[d]
    BY <1>2
  <2>2. Entitled(d, r)
    BY <2>1 DEF RequestsEntitled
  <2>3. r.op = "redeem" => RedeemEntitled(d, r)'
    BY <1>2, <1>5, <1>7, <2>2, RowTypes DEF Entitled, RedeemEntitled
  <2>4. r.op = "stats" => Rising(r.count)'
    BY <1>4, <2>2 DEF Entitled, Rising
  <2>5. r.op = "spin" => SpinEntitled(d, r)'
    BY <1>2, <1>7, <2>2, RowTypes DEF Entitled, SpinEntitled, SpinsOf, WinsOn, Wins, IsWin
  <2> QED
    BY <2>1, <2>3, <2>4, <2>5 DEF Entitled
<1> QED
  BY <1>4, <1>6, <1>8, <1>9 DEF BookInv, RequestsEntitled

-----------------------------------------------------------------------------
(***************************************************************************)
(* The theorems.                                                           *)
(***************************************************************************)

\* It holds of a new campaign.
LEMMA InitInv == CampaignsAssumption /\ Init => Inv
<1> SUFFICES ASSUME CampaignsAssumption, Init PROVE Inv
  OBVIOUS
<1>1. DOMAIN prize = {} /\ DOMAIN spins = {} /\ DOMAIN vouchers = {} /\ Len(spins) = 0
      /\ Len(vouchers) = 0 /\ Winning = {} /\ \A p : Wins(p) = {}
  BY DEF Init, Winning, Wins
<1>2. Types
  <2>1. today \in Days /\ campaign \in Campaign
    BY DEF Init, CampaignsAssumption, Days, Campaign, CampaignStatus
  <2>2. IsFiniteSet(DOMAIN prize) /\ prize \in [DOMAIN prize -> PrizeRow]
    BY <1>1, FS_EmptySet DEF Init
  <2>3. spins \in Seq(SpinRow) /\ Len(spins) <= MaxSpins
    BY <1>1 DEF Init, CampaignsAssumption
  <2>4. vouchers \in Seq(VoucherRow) /\ Len(vouchers) <= Len(spins)
    BY <1>1 DEF Init
  <2>5. /\ locks \in [Rows -> Actors \cup {Job, None}] /\ req \in [Actors -> Request]
        /\ job \in [ran : Days, found : {None} \cup SUBSET Nat]
    BY IdleType DEF Init, CampaignsAssumption, Actors, Days
  <2> QED
    BY <1>1, <2>1, <2>2, <2>3, <2>4, <2>5 DEF Types
<1>3. BookInv
  <2>1. WinsAwardable /\ VouchersBacked /\ WindowsOpen
    BY <1>1 DEF WinsAwardable, VouchersBacked, WindowsOpen
  <2>2. FoundAreLate
    BY DEF Init, FoundAreLate
  <2>3. AwardsCounted
    <3>1. Cardinality(Winning) = 0
      BY <1>1, FS_EmptySet
    <3>2. SumFunction([p \in DOMAIN prize |-> prize[p].awarded]) = 0
      BY <1>1, SumEmpty DEF SumFunction
    <3> QED
      BY <1>1, <3>1, <3>2 DEF AwardsCounted
  <2> QED
    BY <2>1, <2>2, <2>3 DEF BookInv
<1>4. RequestsEntitled
  BY IdleType DEF Init, RequestsEntitled, Actors
<1> QED
  BY <1>2, <1>3, <1>4 DEF Inv

\* Every step keeps it.
LEMMA NextInv == CampaignsAssumption /\ Inv /\ [Next]_vars => Inv'
<1> SUFFICES ASSUME CampaignsAssumption, Inv, [Next]_vars PROVE Inv'
  OBVIOUS
<1>1. ASSUME NEW c \in Clients, Counter(c) PROVE Inv'
  <2>1. CASE EnterSpin(c)
    BY <2>1, EnterSpinInv
  <2>2. CASE DrawPrize(c)
    BY <2>2, DrawPrizeInv
  <2>3. CASE CommitSpin(c)
    BY <2>3, CommitMissInv, CommitWinInv
  <2>4. CASE EnterRedeem(c) \/ RefuseExpired(c)
    BY <2>4, EnterRedeemInv
  <2>5. CASE CommitRedeem(c)
    BY <2>5, CommitRedeemInv
  <2> QED
    BY <1>1, <2>1, <2>2, <2>3, <2>4, <2>5 DEF Counter
<1>2. ASSUME NEW c \in Desks, Desk(c) PROVE Inv'
  <2>1. CASE PatchCampaign(c) \/ CommitPatchWindow(c)
    BY <2>1, PatchCampaignInv
  <2>2. CASE CallPatchWindow(c) \/ CallStats(c)
    BY <2>2, CallInv
  <2>3. CASE AddPrize(c)
    BY <2>3, AddPrizeInv
  <2>4. CASE PatchPrize(c)
    BY <2>4, PatchPrizeInv
  <2>5. CASE ReadStats(c)
    BY <2>5, ReadStatsInv
  <2> QED
    BY <1>2, <2>1, <2>2, <2>3, <2>4, <2>5 DEF Desk
<1>3. ASSUME NEW c \in Actors, Rollback(c) PROVE Inv'
  BY <1>3, RollbackInv
<1>4. CASE JobRead \/ JobUpdate \/ Midnight
  BY <1>4, NightInv
<1>5. CASE JobCommit
  BY <1>5, JobCommitInv
<1>6. CASE UNCHANGED vars
  <2>1. UNCHANGED <<today, campaign, prize, spins, vouchers, locks, req, job>>
    BY <1>6 DEF vars
  <2>2. Types'
    BY <2>1 DEF Inv, Types
  <2>3. BookInv'
    BY <2>1, BookKept DEF Inv, Types, Days
  <2>4. ASSUME NEW c \in Actors PROVE Entitled(c, req[c])'
    <3>1. PICK r : r = req[c] /\ r = req'[c]
      BY <2>1
    <3>2. Entitled(c, r)
      BY <3>1 DEF Inv, RequestsEntitled
    <3>3. Entitled(c, r)'
      BY <2>1, <3>2, EntitledKept DEF Inv
    <3> QED
      BY <3>1, <3>3
  <2> QED
    BY <2>2, <2>3, <2>4 DEF Inv, RequestsEntitled
<1> QED
  BY <1>1, <1>2, <1>3, <1>4, <1>5, <1>6 DEF Next, Actors

\* The inductive invariant: each request is entitled to what it is about to write, by its locks
\* or by what cannot become less, and the rows of spins, prizes and vouchers tell the same.
THEOREM Invariance == Spec => []Inv
<1>1. Init => Inv
  BY InitInv, CampaignsAssumption
<1>2. Inv /\ [Next]_vars => Inv'
  BY NextInv, CampaignsAssumption
<1> QED
  BY <1>1, <1>2, PTL DEF Spec

\* A prize's cached awarded_count is the number of spins that won it, and each of those has one
\* voucher (AwardedBacked), for any number of clients that spin at once.
THEOREM AwardsAlwaysBacked == Spec => []AwardedBacked
<1>1. Inv => AwardedBacked
  <2> SUFFICES ASSUME Inv, NEW p \in DOMAIN prize, NEW i \in Wins(p)
               PROVE  Cardinality({v \in DOMAIN vouchers : vouchers[v].spin = i}) = 1
    BY DEF Inv, BookInv, AwardsCounted, AwardedBacked
  <2>1. PICK v \in DOMAIN vouchers : vouchers[v].spin = i
    BY DEF Inv, BookInv, VouchersBacked, Wins, Winning
  <2>2. {w \in DOMAIN vouchers : vouchers[w].spin = i} = {v}
    BY <2>1 DEF Inv, BookInv, VouchersBacked
  <2> QED
    BY <2>2, FS_Singleton
<1> QED
  BY <1>1, Invariance, PTL

\* campaign_stats never shows fewer vouchers than wins or fewer awards than vouchers
\* (StatsInOrder), although its three statements see the rows of three moments.
THEOREM StatsAlwaysInOrder == Spec => []StatsInOrder
<1>1. Inv => StatsInOrder
  <2> SUFFICES ASSUME Inv, NEW c \in Desks, req[c].op = "stats", Len(req[c].count) = 3
               PROVE  LET Read(what) == req[c].count[CHOOSE n \in 1 .. 3 : Statements[n] = what]
                      IN  Read("wins") <= Read("minted") /\ Read("minted") <= Read("awarded")
    BY DEF StatsInOrder
  <2>1. Rising(req[c].count)
    BY DEF Inv, RequestsEntitled, Entitled, Actors
  <2>2. /\ Statements[1] = "wins" /\ Statements[2] = "minted" /\ Statements[3] = "awarded"
    BY DEF Statements
  <2>3. /\ (CHOOSE n \in 1 .. 3 : Statements[n] = "wins") = 1
        /\ (CHOOSE n \in 1 .. 3 : Statements[n] = "minted") = 2
        /\ (CHOOSE n \in 1 .. 3 : Statements[n] = "awarded") = 3
    <3>1. \A n \in 1 .. 3 : n = 1 \/ n = 2 \/ n = 3
      OBVIOUS
    <3> QED
      BY <2>2, <3>1
  <2>4. req[c].count[1] <= req[c].count[2] /\ req[c].count[2] <= req[c].count[3]
    BY <2>1 DEF Rising
  <2> QED
    BY <2>3, <2>4
<1> QED
  BY <1>1, Invariance, PTL

\* Only a spin that commits adds to the spins.
LEMMA OnlySpinsSpin ==
  Next => UNCHANGED spins \/ \E c \in Clients : CommitSpin(c)
BY DEF Next, Counter, Desk, EnterSpin, DrawPrize, EnterRedeem, RefuseExpired, CommitRedeem,
       PatchCampaign, CallPatchWindow, CommitPatchWindow, AddPrize, PatchPrize, CallStats,
       ReadStats, Rollback, JobRead, JobUpdate, JobCommit, Midnight, Begin, Manage

\* A spin that commits stays within the quotas and the limit as they are at that moment
\* (WithinQuota): it holds the campaign and the prizes while it counts and until it writes.
THEOREM SpinsStayWithinQuota == Spec => WithinQuota
<1> DEFINE Won(p, d) == WinsOn(p, d)' # WinsOn(p, d) =>
                          /\ Cardinality(Wins(p)') <= prize[p].total
                          /\ Cardinality(WinsOn(p, d)') <= prize[p].daily
           Spun(m, d) == SpinsOf(m, d)' # SpinsOf(m, d) =>
                           Cardinality(SpinsOf(m, d)') <= campaign.limit
           A == /\ \A p \in DOMAIN prize, day \in Days : WinsOn(p, day)' # WinsOn(p, day) =>
                     /\ Cardinality(Wins(p)') <= prize[p].total
                     /\ Cardinality(WinsOn(p, day)') <= prize[p].daily
                /\ \A m \in Members, day \in Days : SpinsOf(m, day)' # SpinsOf(m, day) =>
                     Cardinality(SpinsOf(m, day)') <= campaign.limit
<1>1. Inv /\ [Next]_vars => [A]_vars
  <2> SUFFICES ASSUME Inv, Next PROVE A
    OBVIOUS
  <2>1. CASE UNCHANGED spins
    BY <2>1 DEF WinsOn, Wins, SpinsOf
  <2>2. ASSUME NEW c \in Clients, CommitSpin(c) PROVE A
    <3> DEFINE r == req[c]
               i == Len(spins) + 1
    <3>1. SpinEntitled(c, r) /\ r.phase = "write"
      BY <2>2, CommitSpinRow, CampaignsAssumption DEF Inv
    <3>2. PICK s \in SpinRow :
            /\ spins' = Append(spins, s) /\ s.won = IsWin(r.drawn)
            /\ s.prize = r.drawn /\ s.member = r.member /\ s.day = r.day
      BY <2>2, CommitSpinRow, CampaignsAssumption DEF Inv
    <3> HIDE DEF r, i
    <3>3. ASSUME NEW p \in DOMAIN prize, NEW d \in Days PROVE Won(p, d)
      <4> SUFFICES ASSUME WinsOn(p, d)' # WinsOn(p, d)
                   PROVE  /\ Cardinality(Wins(p)') <= prize[p].total
                          /\ Cardinality(WinsOn(p, d)') <= prize[p].daily
        OBVIOUS
      <4>1. /\ IsWin(r.drawn) /\ r.drawn = p /\ r.day = d
            /\ Wins(p)' = Wins(p) \cup {i} /\ i \notin Wins(p)
            /\ WinsOn(p, d)' = WinsOn(p, d) \cup {i} /\ i \notin WinsOn(p, d)
        BY <3>2, SpinMore, CampaignsAssumption DEF Inv, i
      <4>2. /\ Cardinality(Wins(p)') = Cardinality(Wins(p)) + 1
            /\ Cardinality(WinsOn(p, d)') = Cardinality(WinsOn(p, d)) + 1
            /\ Cardinality(Wins(p)) \in Nat /\ Cardinality(WinsOn(p, d)) \in Nat
        <5>1. IsFiniteSet(Wins(p)) /\ IsFiniteSet(WinsOn(p, d))
          BY SpinSets, CampaignsAssumption DEF Inv
        <5>2. /\ Cardinality(Wins(p) \cup {i}) = Cardinality(Wins(p)) + 1
              /\ Cardinality(WinsOn(p, d) \cup {i}) = Cardinality(WinsOn(p, d)) + 1
          BY <4>1, <5>1, FS_AddElement
        <5> QED
          BY <4>1, <5>1, <5>2, FS_CardinalityType
      <4>3. /\ prize[p].awarded = Cardinality(Wins(p))
            /\ prize[p].total \in Nat /\ prize[p].daily \in Nat
        BY DEF Inv, BookInv, AwardsCounted, Types, PrizeRow
      <4>4. /\ prize[p].awarded < prize[p].total
            /\ Cardinality(WinsOn(p, d)) < prize[p].daily
        BY <3>1, <4>1 DEF SpinEntitled
      <4> QED
        BY <4>2, <4>3, <4>4
    <3>4. ASSUME NEW m \in Members, NEW d \in Days PROVE Spun(m, d)
      <4> SUFFICES ASSUME SpinsOf(m, d)' # SpinsOf(m, d)
                   PROVE  Cardinality(SpinsOf(m, d)') <= campaign.limit
        OBVIOUS
      <4>1. /\ r.member = m /\ r.day = d
            /\ SpinsOf(m, d)' = SpinsOf(m, d) \cup {i} /\ i \notin SpinsOf(m, d)
        BY <3>2, SpinMore, CampaignsAssumption DEF Inv, i
      <4>2. /\ Cardinality(SpinsOf(m, d)') = Cardinality(SpinsOf(m, d)) + 1
            /\ Cardinality(SpinsOf(m, d)) \in Nat
        BY <4>1, SpinSets, CampaignsAssumption, FS_AddElement, FS_CardinalityType DEF Inv
      <4>3. campaign.limit \in Nat
        BY CampaignsAssumption DEF CampaignsAssumption, Inv, Types, Campaign
      <4>4. Cardinality(SpinsOf(m, d)) < campaign.limit
        BY <3>1, <4>1 DEF SpinEntitled
      <4> QED
        BY <4>2, <4>3, <4>4
    <3> QED
      BY <3>3, <3>4
  <2> QED
    BY <2>1, <2>2, OnlySpinsSpin
<1> QED
  BY <1>1, Invariance, PTL DEF Spec, WithinQuota

-----------------------------------------------------------------------------
(***************************************************************************)
(* The vouchers implement VoucherBook.                                     *)
(***************************************************************************)
Entry(v) ==
  [member |-> v.member, from |-> v.from, until |-> v.until, state |-> v.status, on |-> v.on]
BookOf(vs) == [v \in DOMAIN vs |-> Entry(vs[v])]

\* The book has the vouchers' entries, in their order.
LEMMA BookRows ==
  ASSUME NEW vs \in Seq(VoucherRow)
  PROVE  /\ DOMAIN BookOf(vs) = DOMAIN vs /\ Len(BookOf(vs)) = Len(vs)
         /\ \A v \in DOMAIN vs :
              /\ BookOf(vs)[v] = Entry(vs[v])
              /\ BookOf(vs)[v].member = vs[v].member /\ BookOf(vs)[v].on = vs[v].on
              /\ BookOf(vs)[v].from = vs[v].from /\ BookOf(vs)[v].until = vs[v].until
              /\ BookOf(vs)[v].state = vs[v].status
<1>1. DOMAIN vs = 1 .. Len(vs) /\ Len(vs) \in Nat
  OBVIOUS
<1>2. DOMAIN BookOf(vs) = DOMAIN vs /\ \A v \in DOMAIN vs : BookOf(vs)[v] = Entry(vs[v])
  BY DEF BookOf
<1>3. BookOf(vs) \in Seq({Entry(vs[v]) : v \in DOMAIN vs})
  BY <1>1 DEF BookOf
<1>4. Len(BookOf(vs)) = Len(vs)
  BY <1>1, <1>2, <1>3
<1> QED
  BY <1>2, <1>4 DEF Entry

\* What the refinement mapping makes of the vouchers.
TheBook ==
  [v \in DOMAIN vouchers |->
     [member |-> vouchers[v].member, from |-> vouchers[v].from, until |-> vouchers[v].until,
      state |-> vouchers[v].status, on |-> vouchers[v].on]]

\* It is their book, before and after a step.
LEMMA BookIs == TheBook = BookOf(vouchers) /\ TheBook' = BookOf(vouchers')
BY DEF TheBook, BookOf, Entry

\* A win issues a voucher.
LEMMA WinIssues ==
  ASSUME CampaignsAssumption, Inv, Inv', NEW c \in Clients, CommitSpin(c), IsWin(req[c].drawn)
  PROVE  Book!Issue
<1> DEFINE new == Minted(Len(spins) + 1, req[c].member, req[c].drawn, campaign, req[c].day)
           n == Len(vouchers) + 1
<1>1. vouchers' = Append(vouchers, new)
  BY DEF CommitSpin
<1>2. new.from < new.until /\ new.status = "active"
  <2>1. req[c] \in Request
    BY CommitSpinRow
  <2>2. /\ campaign.offset \in Nat /\ campaign.validity \in Nat /\ campaign.validity > 0
        /\ req[c].day \in Nat
    <3>1. req[c].day \in Nat
      BY <2>1 DEF Request, Days
    <3>2. campaign \in Campaign
      BY DEF Inv, Types
    <3>3. /\ campaign.offset \in Nat /\ campaign.validity \in Nat \ {0}
      BY <3>2 DEF Campaign, CampaignsAssumption
    <3> QED
      BY <3>1, <3>3
  <2> QED
    BY <2>2 DEF Minted
<1> HIDE DEF new
<1>3. /\ DOMAIN vouchers = 1 .. Len(vouchers) /\ Len(vouchers) \in Nat
      /\ Len(vouchers') = n /\ DOMAIN vouchers' = 1 .. n
      /\ vouchers'[n] = new /\ \A v \in DOMAIN vouchers : vouchers'[v] = vouchers[v]
      /\ vouchers \in Seq(VoucherRow) /\ vouchers' \in Seq(VoucherRow)
  BY <1>1 DEF Inv, Types
<1>4. /\ Len(TheBook') = n /\ Len(TheBook) = Len(vouchers) /\ n \in DOMAIN vouchers'
      /\ DOMAIN TheBook = DOMAIN vouchers
      /\ TheBook'[n].from = new.from /\ TheBook'[n].until = new.until
      /\ TheBook'[n].state = new.status
  BY <1>3, BookRows, BookIs
<1>5. ASSUME NEW v \in DOMAIN vouchers PROVE TheBook'[v] = TheBook[v]
  <2>1. v \in DOMAIN vouchers' /\ vouchers'[v] = vouchers[v]
    BY <1>3
  <2>2. TheBook'[v] = Entry(vouchers'[v]) /\ TheBook[v] = Entry(vouchers[v])
    BY <1>3, <2>1, BookRows, BookIs
  <2> QED
    BY <2>1, <2>2
<1> HIDE DEF n
<1>6. /\ Len(TheBook') = Len(TheBook) + 1
      /\ \A v \in DOMAIN TheBook : TheBook'[v] = TheBook[v]
      /\ LET e == TheBook'[Len(TheBook')] IN e.state = "active" /\ e.from < e.until
  BY <1>2, <1>4, <1>5 DEF n
<1> QED
  BY <1>6 DEF Book!Issue, TheBook

\* A redemption redeems.
LEMMA RedeemRedeems ==
  ASSUME CampaignsAssumption, Inv, Inv', NEW c \in Clients, CommitRedeem(c)
  PROVE  \E v \in DOMAIN TheBook : Book!Redeem(v)
<1> DEFINE v == req[c].voucher
           day == req[c].day
<1>1. /\ RedeemEntitled(c, req[c]) /\ req[c].phase = "write"
  BY DEF Inv, RequestsEntitled, Entitled, CommitRedeem, Commit, Actors
<1>2. /\ v \in DOMAIN vouchers /\ vouchers[v].status = "active"
      /\ day \in vouchers[v].from .. vouchers[v].until
  BY <1>1 DEF RedeemEntitled
<1>3. /\ vouchers' = [vouchers EXCEPT ![v].status = "redeemed", ![v].on = day]
      /\ \A w \in DOMAIN vouchers : vouchers[w].member = vouchers[v].member
                                      => vouchers[w].on # day
  BY DEF CommitRedeem, OneRedeemPerDay, VouchersOf
<1>4. vouchers \in Seq(VoucherRow) /\ vouchers[v] \in VoucherRow
  BY <1>2, RowTypes DEF Inv, Types
<1> HIDE DEF v, day
<1>5. /\ DOMAIN TheBook = DOMAIN vouchers /\ TheBook[v].state = "active"
      /\ TheBook[v].from = vouchers[v].from /\ TheBook[v].until = vouchers[v].until
      /\ \A w \in DOMAIN TheBook : TheBook[w].member = TheBook[v].member => TheBook[w].on # day
  BY <1>2, <1>3, <1>4, BookRows, BookIs
<1>6. TheBook' = [TheBook EXCEPT ![v].state = "redeemed", ![v].on = day]
  <2>1. PICK row : row = [vouchers[v] EXCEPT !.status = "redeemed", !.on = day]
    OBVIOUS
  <2>2. vouchers' = [vouchers EXCEPT ![v] = row]
    BY <1>2, <1>3, <2>1
  <2>3. Entry(row) = [Entry(vouchers[v]) EXCEPT !.state = "redeemed", !.on = day]
    <3>1. /\ row.member = vouchers[v].member /\ row.from = vouchers[v].from
          /\ row.until = vouchers[v].until /\ row.status = "redeemed" /\ row.on = day
      BY <1>4, <2>1 DEF VoucherRow
    <3>2. PICK e : e = Entry(vouchers[v])
      OBVIOUS
    <3>3. PICK f : f = [e EXCEPT !.state = "redeemed", !.on = day]
      OBVIOUS
    <3>4. f = [member |-> vouchers[v].member, from |-> vouchers[v].from,
               until |-> vouchers[v].until, state |-> "redeemed", on |-> day]
      BY <3>2, <3>3 DEF Entry
    <3>5. f = Entry(row)
      BY <3>1, <3>4 DEF Entry
    <3> QED
      BY <3>2, <3>3, <3>5, Zenon
  <2>4. BookOf(vouchers') = [BookOf(vouchers) EXCEPT ![v] = Entry(row)]
    <3>1. DOMAIN vouchers' = DOMAIN vouchers /\ vouchers'[v] = row
          /\ \A w \in DOMAIN vouchers \ {v} : vouchers'[w] = vouchers[w]
      BY <1>2, <2>2
    <3> QED
      BY <1>2, <3>1 DEF BookOf
  <2>5. BookOf(vouchers)[v] = Entry(vouchers[v]) /\ v \in DOMAIN BookOf(vouchers)
    BY <1>2, <1>4, BookRows
  <2>6. BookOf(vouchers') = [BookOf(vouchers) EXCEPT ![v].state = "redeemed", ![v].on = day]
    BY <2>3, <2>4, <2>5
  <2> QED
    BY <2>6, BookIs
<1>7. TheBook'[v].on = day
  BY <1>2, <1>5, <1>6
<1> QED
  BY <1>2, <1>5, <1>6, <1>7 DEF Book!Redeem, TheBook

\* The nightly job expires vouchers whose window is over and that are still active.
LEMMA JobExpires ==
  ASSUME CampaignsAssumption, Inv, Inv', JobCommit
  PROVE  \E late \in SUBSET DOMAIN TheBook : Book!Expire(late)
<1>0. PICK late : late = job.found \cap DOMAIN vouchers
  OBVIOUS
<1>1. /\ DOMAIN vouchers' = DOMAIN vouchers
      /\ \A v \in DOMAIN vouchers :
           vouchers'[v] = IF v \in late THEN [vouchers[v] EXCEPT !.status = "expired"]
                          ELSE vouchers[v]
  BY <1>0 DEF JobCommit
<1>2. \A v \in late : vouchers[v].status = "active" /\ vouchers[v].until < today
  BY <1>0 DEF Inv, BookInv, FoundAreLate, JobCommit
<1>3. vouchers \in Seq(VoucherRow) /\ vouchers' \in Seq(VoucherRow)
  BY DEF Inv, Types
<1>4. /\ DOMAIN TheBook = DOMAIN vouchers /\ DOMAIN TheBook' = DOMAIN vouchers
      /\ \A v \in DOMAIN vouchers : /\ TheBook[v] = Entry(vouchers[v])
                                    /\ TheBook'[v] = Entry(vouchers'[v])
                                    /\ TheBook[v].state = vouchers[v].status
                                    /\ TheBook[v].until = vouchers[v].until
      /\ TheBook' = [v \in DOMAIN TheBook' |-> TheBook'[v]]
  <2>1. TheBook' = [v \in DOMAIN TheBook' |-> TheBook'[v]]
    BY BookIs DEF BookOf
  <2> QED
    BY <1>1, <1>3, <2>1, BookRows, BookIs
<1>5. ASSUME NEW v \in DOMAIN vouchers
      PROVE  TheBook'[v] = IF v \in late THEN [TheBook[v] EXCEPT !.state = "expired"]
                           ELSE TheBook[v]
  <2>1. CASE v \notin late
    BY <1>1, <1>4, <2>1
  <2>2. CASE v \in late
    <3>1. PICK row : row = [vouchers[v] EXCEPT !.status = "expired"]
      OBVIOUS
    <3>2. vouchers[v] \in VoucherRow
      BY <1>3
    <3>3. /\ row.member = vouchers[v].member /\ row.from = vouchers[v].from
          /\ row.until = vouchers[v].until /\ row.status = "expired"
          /\ row.on = vouchers[v].on
      BY <3>1, <3>2 DEF VoucherRow
    <3>4. PICK e : e = Entry(vouchers[v])
      OBVIOUS
    <3>5. PICK f : f = [e EXCEPT !.state = "expired"]
      OBVIOUS
    <3>6. f = [member |-> vouchers[v].member, from |-> vouchers[v].from,
               until |-> vouchers[v].until, state |-> "expired", on |-> vouchers[v].on]
      BY <3>4, <3>5 DEF Entry
    <3>7. f = Entry(row)
      BY <3>3, <3>6 DEF Entry
    <3>8. vouchers'[v] = row
      BY <1>1, <2>2, <3>1
    <3> QED
      BY <1>4, <2>2, <3>4, <3>5, <3>7, <3>8
  <2> QED
    BY <2>1, <2>2
<1>6. TheBook' = [v \in DOMAIN TheBook |->
                    IF v \in late THEN [TheBook[v] EXCEPT !.state = "expired"] ELSE TheBook[v]]
  BY <1>4, <1>5
<1>7. late \in SUBSET DOMAIN TheBook
  BY <1>0, <1>4
<1>8. \A v \in late : TheBook[v].state = "active" /\ TheBook[v].until < today
  BY <1>2, <1>4, <1>7
<1>9. Book!Expire(late)
  BY <1>6, <1>8 DEF Book!Expire, TheBook
<1> QED
  BY <1>7, <1>9

\* Every other step leaves the vouchers alone.
LEMMA OthersStutter ==
  Next => \/ UNCHANGED vouchers \/ JobCommit
          \/ \E c \in Clients : \/ CommitSpin(c) /\ IsWin(req[c].drawn)
                                \/ CommitRedeem(c)
BY DEF Next, Counter, Desk, EnterSpin, DrawPrize, CommitSpin, EnterRedeem, RefuseExpired,
       PatchCampaign, CallPatchWindow, CommitPatchWindow, AddPrize, PatchPrize, CallStats,
       ReadStats, Rollback, JobRead, JobUpdate, Midnight, Begin, Manage

\* A voucher is redeemed once, on a day of its window and one a day by a member, or it expires
\* after its window; both are final (VouchersEndOnce): each step of the requests and of the
\* nightly job is a step of VoucherBook or leaves its book alone.
THEOREM VouchersAlwaysEndOnce == Spec => VouchersEndOnce
<1>1. Init => Book!Init
  <2> SUFFICES ASSUME Init PROVE Book!Init
    OBVIOUS
  <2>1. vouchers = <<>>
    BY DEF Init
  <2>2. vouchers \in Seq({}) /\ TheBook \in Seq({}) /\ Len(TheBook) = 0
    BY <2>1 DEF TheBook
  <2>3. TheBook = <<>>
    BY <2>2
  <2> QED
    BY <2>3 DEF Book!Init, TheBook
<1>2. Inv /\ Inv' /\ [Next]_vars => [Book!Next]_TheBook
  <2> SUFFICES ASSUME Inv, Inv', [Next]_vars PROVE Book!Next \/ TheBook' = TheBook
    OBVIOUS
  <2>1. CASE UNCHANGED vouchers
    BY <2>1 DEF TheBook
  <2>2. CASE JobCommit
    BY <2>2, JobExpires, CampaignsAssumption DEF Book!Next, TheBook
  <2>3. ASSUME NEW c \in Clients, CommitSpin(c), IsWin(req[c].drawn) PROVE Book!Next
    BY <2>3, WinIssues, CampaignsAssumption DEF Book!Next
  <2>4. ASSUME NEW c \in Clients, CommitRedeem(c) PROVE Book!Next
    BY <2>4, RedeemRedeems, CampaignsAssumption DEF Book!Next, TheBook
  <2> QED
    BY <2>1, <2>2, <2>3, <2>4, OthersStutter DEF vars
<1> QED
  BY <1>1, <1>2, Invariance, PTL DEF Spec, VouchersEndOnce, Book!Spec, TheBook
=============================================================================
