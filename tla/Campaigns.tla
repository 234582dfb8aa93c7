----------------------------- MODULE Campaigns -----------------------------
(***************************************************************************)
(* One wheel-spin campaign: its prizes, the spins of its members, and the  *)
(* vouchers they win, as concurrent transactions and the nightly expiry    *)
(* see them.                                                               *)
(*   services/campaigns_service.py  patch_campaign, add_prize, patch_prize,*)
(*                                  spin, redeem_voucher, campaign_stats   *)
(*   jobs/campaign_expiry.py        run_campaign_voucher_expiry            *)
(* Spins are serialised by the campaign row, locked FOR UPDATE; the prizes *)
(* are locked while one is drawn; a redemption locks its voucher only, and *)
(* a unique index keeps a member to one redemption a day.  Patches and the *)
(* expiry read without a lock, and their UPDATEs wait for those of others. *)
(***************************************************************************)
EXTENDS Integers, Sequences, FiniteSets, FiniteSetsExt, TLC

CONSTANTS
  Clients,    \* transactions of members and of the counter
  Desks,      \* transactions of managers
  Members,    \* customers that spin
  Prizes,     \* wheel segments that may exist
  Misses,     \* those of them that are no reward ("no-win" segments)
  Ops,        \* the operations that are called
  Statuses,   \* statuses a patch may give
  Limits,     \* values of daily_spin_limit
  Totals,     \* values of total_quota
  Dailies,    \* values of daily_quota; NoQuota stands for NULL
  Windows,    \* days a patch may give starts_at or ends_at
  Offsets,    \* values of voucher_start_offset_days
  Validities, \* values of voucher_validity_days
  MaxDay,     \* bound: the last day
  MaxSpins,   \* bound: rows of campaign_spins
  MaxEdits,   \* bound: patches and prizes added
  Job,        \* the nightly expiry, as the holder of a lock
  None

NoQuota == 10000000
Days == 0 .. MaxDay
AllOps == {"spin", "redeem", "patch_campaign", "patch_window", "add_prize", "patch_prize", "stats"}

CampaignStatus == {"draft", "active", "paused", "ended"}
VoucherStatus == {"active", "redeemed", "expired", "void"}

ASSUME CampaignsAssumption ==
  /\ Misses \subseteq Prizes /\ Ops \subseteq AllOps
  /\ Statuses \subseteq CampaignStatus /\ Limits \subseteq Nat \ {0}
  /\ Totals \subseteq Nat /\ Dailies \subseteq Nat \ {NoQuota}
  /\ Windows \subseteq Days /\ Offsets \subseteq Nat /\ Validities \subseteq Nat \ {0}
  /\ MaxDay \in Nat /\ MaxSpins \in Nat /\ MaxEdits \in Nat
  /\ Clients \cap Desks = {} /\ Job \notin Clients \cup Desks
  /\ None \notin Clients \cup Desks \cup Members \cup Prizes \cup {Job} \cup AllOps

VARIABLES
  today,     \* the Asia/Taipei day on the server's clock
  campaign,  \* the marketing_campaigns row
  prize,     \* campaign_prizes
  spins,     \* campaign_spins, append-only
  vouchers,  \* campaign_vouchers, in the order they were minted
  locks,     \* who holds each row FOR UPDATE
  req,       \* the clients' transactions
  job,       \* the nightly expiry
  edits      \* how often the manager has written

vars == <<today, campaign, prize, spins, vouchers, locks, req, job, edits>>

Campaign ==
  [status : CampaignStatus, starts : Days, ends : Days, limit : Limits,
   offset : Offsets, validity : Validities]
Prize ==
  [active : BOOLEAN, total : Totals, daily : Dailies \cup {NoQuota},
   awarded : 0 .. MaxSpins]
Spin == [member : Members, prize : Prizes \cup {None}, day : Days, won : BOOLEAN]
\* on is redeemed_on, None while it is NULL.
Voucher ==
  [spin : 1 .. MaxSpins, member : Members, prize : Prizes, from : Nat, until : Nat,
   status : VoucherStatus, on : Days \cup {None}]

\* A voucher is locked by its number, the prizes together, in order.
CampaignRow == 0
PrizeRows == -1
Rows == {CampaignRow, PrizeRows} \cup (1 .. MaxSpins)

\* seen is the window as a patch read it; count the awarded_count as a spin read it, or
\* the counts of campaign_stats.
Idle ==
  [op |-> None, phase |-> "idle", member |-> None, voucher |-> 0, day |-> 0,
   seen |-> None, drawn |-> None, count |-> <<>>]

\* A campaign created by create_campaign, and perhaps activated at once.
Init ==
  /\ today = 0
  /\ campaign \in [status : {"draft", "active"}, starts : {0}, ends : {MaxDay},
                   limit : Limits, offset : Offsets, validity : Validities]
  /\ prize = <<>>
  /\ spins = <<>> /\ vouchers = <<>>
  /\ locks = [r \in Rows |-> None]
  /\ req = [c \in Clients \cup Desks |-> Idle]
  /\ job = [ran |-> 0, found |-> None]
  /\ edits = 0
-----------------------------------------------------------------------------
SpinsOf(m, day) == {i \in DOMAIN spins : spins[i].member = m /\ spins[i].day = day}
Wins(p) == {i \in DOMAIN spins : spins[i].won /\ spins[i].prize = p}
WinsOn(p, day) == {i \in Wins(p) : spins[i].day = day}
VouchersOf(m) == {v \in DOMAIN vouchers : vouchers[v].member = m}

\* _is_win: a segment with neither a menu item nor a value is no reward.
IsWin(p) == p # None /\ p \notin Misses

\* _assert_spinnable.
Spinnable(row) == row.status = "active" /\ row.starts <= today /\ today <= row.ends

\* Slip: a quota of n lets n + 1 through.
LooselyEligible(day) ==
  {p \in DOMAIN prize : /\ prize[p].active
                        /\ prize[p].awarded <= prize[p].total
                        /\ Cardinality(WinsOn(p, day)) < prize[p].daily}

\* _draw_prize: the segments that may come up.
Eligible(day) ==
  {p \in DOMAIN prize : /\ prize[p].active
                        /\ prize[p].awarded < prize[p].total
                        /\ Cardinality(WinsOn(p, day)) < prize[p].daily}

\* _mint_voucher: an offset fixed by the campaign, then a fixed number of days.
Minted(i, m, p, row, day) ==
  [spin |-> i, member |-> m, prize |-> p, from |-> day + row.offset,
   until |-> day + row.offset + row.validity, status |-> "active", on |-> None]
-----------------------------------------------------------------------------
(***************************************************************************)
(* Beginning, and ending without effect: an exception or a lost connection *)
(* rolls everything back, the marks made before it raised included.        *)
(***************************************************************************)
Begin(c, op, fields) ==
  /\ op \in Ops /\ req[c].phase = "idle"
  /\ req' = [req EXCEPT ![c] = fields]
  /\ UNCHANGED <<today, campaign, prize, spins, vouchers, job, edits>>

Released(c) == [r \in Rows |-> IF locks[r] = c THEN None ELSE locks[r]]

Rollback(c) ==
  /\ req[c].phase # "idle"
  /\ req' = [req EXCEPT ![c] = Idle]
  /\ locks' = Released(c)
  /\ UNCHANGED <<today, campaign, prize, spins, vouchers, job, edits>>

\* Slip: SELECT without FOR UPDATE.
ReadOnly(c, row) == UNCHANGED locks

\* SELECT ... FOR UPDATE: granted when the holder's transaction has ended.
ForUpdate(c, row) ==
  /\ locks[row] = None
  /\ locks' = [locks EXCEPT ![row] = c]

\* An UPDATE of a row nobody else holds.
Free(c, row) == locks[row] \in {None, c}

Commit(c, op) ==
  /\ req[c].op = op /\ req[c].phase = "write"
  /\ req' = [req EXCEPT ![c] = Idle]
  /\ locks' = Released(c)
  /\ UNCHANGED <<today, job>>
-----------------------------------------------------------------------------
(***************************************************************************)
(* spin: the campaign is locked, then the member's spins of the day are    *)
(* counted, then the prizes are locked and one is drawn.                   *)
(***************************************************************************)
EnterSpin(c) ==
  /\ Spinnable(campaign)
  /\ ForUpdate(c, CampaignRow)
  /\ \E m \in Members :
       /\ Cardinality(SpinsOf(m, today)) < campaign.limit
       /\ Begin(c, "spin", [Idle EXCEPT !.op = "spin", !.phase = "draw", !.member = m,
                                        !.day = today])

\* Any eligible segment may come up; with none the spin is recorded as a miss.
DrawPrize(c) ==
  LET eligible == Eligible(req[c].day) IN
  /\ req[c].op = "spin" /\ req[c].phase = "draw"
  /\ ForUpdate(c, PrizeRows)
  /\ \E p \in (IF eligible = {} THEN {None} ELSE eligible) :
       req' = [req EXCEPT ![c].phase = "write", ![c].drawn = p,
                          ![c].count = IF IsWin(p) THEN <<prize[p].awarded>> ELSE <<>>]
  /\ UNCHANGED <<today, campaign, prize, spins, vouchers, job, edits>>

CommitSpin(c) ==
  LET r == req[c]
      p == r.drawn
      i == Len(spins) + 1
  IN
  /\ i <= MaxSpins
  /\ Commit(c, "spin")
  /\ spins' = Append(spins, [member |-> r.member, prize |-> p, day |-> r.day, won |-> IsWin(p)])
  /\ IF IsWin(p)
     THEN /\ prize' = [prize EXCEPT ![p].awarded = r.count[1] + 1]
          /\ vouchers' = Append(vouchers, Minted(i, r.member, p, campaign, r.day))
     ELSE UNCHANGED <<prize, vouchers>>
  /\ UNCHANGED <<campaign, edits>>
-----------------------------------------------------------------------------
(***************************************************************************)
(* redeem_voucher: only the voucher is locked.                             *)
(***************************************************************************)
\* The checks, in the code's order: those before the one that calls a voucher expired,
\* that one, and the query for another redemption of the day.
Redeemable(v) == vouchers[v].status \in {"active", "expired"} /\ vouchers[v].from <= today
Expired(v) == vouchers[v].until < today \/ vouchers[v].status = "expired"
RedeemedToday(m) ==
  \E v \in VouchersOf(m) : vouchers[v].on = today /\ vouchers[v].status = "redeemed"

EnterRedeem(c) ==
  \E v \in DOMAIN vouchers :
    /\ ForUpdate(c, v)
    /\ Redeemable(v) /\ ~ Expired(v) /\ ~ RedeemedToday(vouchers[v].member)
    /\ Begin(c, "redeem", [Idle EXCEPT !.op = "redeem", !.phase = "write", !.voucher = v,
                                       !.day = today])

\* The voucher is marked expired and flushed, and the request raises: what follows is
\* the rollback of get_db.
RefuseExpired(c) ==
  \E v \in DOMAIN vouchers :
    /\ ForUpdate(c, v)
    /\ Redeemable(v) /\ Expired(v)
    /\ Begin(c, "redeem", [Idle EXCEPT !.op = "redeem", !.phase = "marked", !.voucher = v,
                                       !.day = today])

\* Slip: the index is missing.
NoIndex(m, day) == TRUE

\* uq_vouchers_one_redeem_per_day: one row per member and redeemed_on.
OneRedeemPerDay(m, day) == \A v \in VouchersOf(m) : vouchers[v].on # day

CommitRedeem(c) ==
  LET v == req[c].voucher IN
  /\ Commit(c, "redeem")
  /\ OneRedeemPerDay(vouchers[v].member, req[c].day)
  /\ vouchers' = [vouchers EXCEPT ![v].status = "redeemed", ![v].on = req[c].day]
  /\ UNCHANGED <<campaign, prize, spins, edits>>
-----------------------------------------------------------------------------
(***************************************************************************)
(* The manager.  A patch reads its row without a lock and writes the       *)
(* columns that differ from what it read; only the window depends on what  *)
(* was read, and has a step between.                                       *)
(***************************************************************************)
Manage(c, op, row) ==
  /\ op \in Ops /\ req[c].phase = "idle"
  /\ Free(c, row)
  /\ edits < MaxEdits /\ edits' = edits + 1
  /\ UNCHANGED <<today, spins, vouchers, locks, req, job>>

PatchCampaign(c) ==
  /\ Manage(c, "patch_campaign", CampaignRow)
  /\ \/ \E s \in Statuses : campaign' = [campaign EXCEPT !.status = s]
     \/ \E n \in Limits : campaign' = [campaign EXCEPT !.limit = n]
  /\ UNCHANGED prize

CallPatchWindow(c) ==
  /\ Begin(c, "patch_window",
           [Idle EXCEPT !.op = "patch_window", !.phase = "write", !.day = today,
                        !.seen = <<campaign.starts, campaign.ends>>])
  /\ UNCHANGED locks

CommitPatchWindow(c) ==
  /\ Commit(c, "patch_window")
  /\ Free(c, CampaignRow)
  /\ \E d \in Windows :
       \/ d < req[c].seen[2] /\ campaign' = [campaign EXCEPT !.starts = d]
       \/ req[c].seen[1] < d /\ campaign' = [campaign EXCEPT !.ends = d]
  /\ edits < MaxEdits /\ edits' = edits + 1
  /\ UNCHANGED <<prize, spins, vouchers>>

\* add_prize; the foreign key makes the INSERT wait for the campaign's lock.
AddPrize(c) ==
  /\ Manage(c, "add_prize", CampaignRow)
  /\ \E p \in Prizes \ DOMAIN prize, t \in Totals, d \in Dailies \cup {NoQuota} :
       prize' = [q \in DOMAIN prize \cup {p} |->
                   IF q = p THEN [active |-> TRUE, total |-> t, daily |-> d, awarded |-> 0]
                   ELSE prize[q]]
  /\ UNCHANGED campaign

PatchPrize(c) ==
  /\ Manage(c, "patch_prize", PrizeRows)
  /\ \E p \in DOMAIN prize :
       \/ \E n \in Totals : prize' = [prize EXCEPT ![p].total = n]
       \/ \E n \in Dailies : prize' = [prize EXCEPT ![p].daily = n]
       \/ \E b \in BOOLEAN : prize' = [prize EXCEPT ![p].active = b]
  /\ UNCHANGED campaign

Winning == {i \in DOMAIN spins : spins[i].won}
Count(what) ==
  CASE what = "wins" -> Cardinality(Winning)
    [] what = "minted" -> Len(vouchers)
    [] what = "awarded" -> SumFunction([p \in DOMAIN prize |-> prize[p].awarded])

\* Slip: the prizes are read first.
PrizesFirst == <<"awarded", "wins", "minted">>

\* campaign_stats: three statements, each with its own snapshot, in this order.
Statements == <<"wins", "minted", "awarded">>

CallStats(c) ==
  /\ Begin(c, "stats", [Idle EXCEPT !.op = "stats", !.phase = "read", !.day = today])
  /\ UNCHANGED locks

ReadStats(c) ==
  LET n == Len(req[c].count) + 1 IN
  /\ req[c].op = "stats" /\ n <= Len(Statements)
  /\ req' = [req EXCEPT ![c].count = Append(@, Count(Statements[n]))]
  /\ UNCHANGED <<today, campaign, prize, spins, vouchers, locks, job, edits>>

-----------------------------------------------------------------------------
(***************************************************************************)
(* The nightly expiry, once a night, and the clock.  A request may be open *)
(* across midnight but not across a day, and the job runs at 03:45, when   *)
(* those of the day before are over.                                       *)
(***************************************************************************)
BegunToday == \A c \in Clients \cup Desks : req[c].phase # "idle" => req[c].day = today

Stale == {v \in DOMAIN vouchers : vouchers[v].status = "active" /\ vouchers[v].until < today}

JobRead ==
  /\ job.found = None /\ job.ran < today
  /\ BegunToday
  /\ job' = [ran |-> today, found |-> Stale]
  /\ UNCHANGED <<today, campaign, prize, spins, vouchers, locks, req, edits>>

\* UPDATE ... SET status = 'expired', whatever the row has become since; row by row, by
\* primary key, each as soon as nobody holds it.
Waiting == {v \in job.found : locks[v] # Job}

JobUpdate ==
  /\ job.found # None /\ Waiting # {}
  /\ ForUpdate(Job, Min(Waiting))
  /\ UNCHANGED <<today, campaign, prize, spins, vouchers, req, job, edits>>

JobCommit ==
  /\ job.found # None /\ Waiting = {}
  /\ vouchers' = [v \in DOMAIN vouchers |->
       IF v \in job.found THEN [vouchers[v] EXCEPT !.status = "expired"] ELSE vouchers[v]]
  /\ job' = [job EXCEPT !.found = None]
  /\ locks' = Released(Job)
  /\ UNCHANGED <<today, campaign, prize, spins, req, edits>>

Midnight ==
  /\ today < MaxDay /\ BegunToday
  /\ today' = today + 1
  /\ UNCHANGED <<campaign, prize, spins, vouchers, locks, req, job, edits>>
-----------------------------------------------------------------------------
Counter(c) ==
  \/ EnterSpin(c) \/ DrawPrize(c) \/ CommitSpin(c)
  \/ EnterRedeem(c) \/ RefuseExpired(c) \/ CommitRedeem(c)

Desk(c) ==
  \/ PatchCampaign(c) \/ CallPatchWindow(c) \/ CommitPatchWindow(c)
  \/ AddPrize(c) \/ PatchPrize(c)
  \/ CallStats(c) \/ ReadStats(c)

Next ==
  \/ \E c \in Clients : Counter(c)
  \/ \E c \in Desks : Desk(c)
  \/ \E c \in Clients \cup Desks : Rollback(c)
  \/ JobRead \/ JobUpdate \/ JobCommit \/ Midnight

Spec == Init /\ [][Next]_vars
-----------------------------------------------------------------------------
TypeOK ==
  /\ today \in Days
  /\ campaign \in Campaign
  /\ DOMAIN prize \subseteq Prizes /\ \A p \in DOMAIN prize : prize[p] \in Prize
  /\ spins \in Seq(Spin) /\ Len(spins) <= MaxSpins
  /\ vouchers \in Seq(Voucher) /\ Len(vouchers) <= Len(spins)
  /\ locks \in [Rows -> Clients \cup {Job, None}]
  /\ \A r \in Rows, c \in Clients : locks[r] = c => req[c].phase # "idle"
  /\ \A c \in Clients \cup Desks : req[c].op \in AllOps \cup {None} /\ req[c].day \in Days
  /\ edits \in 0 .. MaxEdits
  /\ job.ran \in Days /\ (job.found = None \/ job.found \subseteq DOMAIN vouchers)

\* The cached awarded_count of a prize is the number of spins that won it, and each of
\* those minted exactly one voucher: what spin writes back is never based on a total
\* another spin has already moved on.
AwardedBacked ==
  \A p \in DOMAIN prize :
    /\ prize[p].awarded = Cardinality(Wins(p))
    /\ \A i \in Wins(p) : Cardinality({v \in DOMAIN vouchers : vouchers[v].spin = i}) = 1

\* A spin that commits leaves its member within the campaign's daily limit and the prize it
\* wins within its total and daily quota, as they are when it commits: however many spins of
\* the member are under way, and although the manager may lower them all at any time.
WithinQuota ==
  [][/\ \A p \in DOMAIN prize, day \in Days : WinsOn(p, day)' # WinsOn(p, day) =>
          /\ Cardinality(Wins(p)') <= prize[p].total
          /\ Cardinality(WinsOn(p, day)') <= prize[p].daily
     /\ \A m \in Members, day \in Days : SpinsOf(m, day)' # SpinsOf(m, day) =>
          Cardinality(SpinsOf(m, day)') <= campaign.limit]_vars

\* campaign_stats counts wins, vouchers and awards in three snapshots; read in that order
\* they never show fewer vouchers than wins or fewer awards than vouchers.
StatsInOrder ==
  \A c \in Desks : req[c].op = "stats" /\ Len(req[c].count) = 3 =>
    LET Read(what) == req[c].count[CHOOSE n \in 1 .. 3 : Statements[n] = what] IN
    Read("wins") <= Read("minted") /\ Read("minted") <= Read("awarded")

\* Every voucher is redeemed once, on a day of its window, and one a day by a member, or
\* it expires after its window; both are final, whatever the counters and the nightly job
\* do at the same time (VoucherBook states it without requests, locks or the job).
Book == INSTANCE VoucherBook
          WITH book <- [v \in DOMAIN vouchers |->
                          [member |-> vouchers[v].member, from |-> vouchers[v].from,
                           until |-> vouchers[v].until, state |-> vouchers[v].status,
                           on |-> vouchers[v].on]],
               clock <- today

VouchersEndOnce == Book!Spec

\* redeem_voucher, campaigns_service.py:587: "Lazily mark it expired so the wallet
\* reflects reality": a voucher that is refused as expired is expired in the wallet.
RefusedIsMarked ==
  [][\A c \in Clients : req[c].phase = "marked" /\ req'[c].phase = "idle" =>
       vouchers'[req[c].voucher].status = "expired"]_vars
=============================================================================
