----------------------------- MODULE TigerBook -----------------------------
(***************************************************************************)
(* The tiger command and its SQLite file: analyze saves a match, its       *)
(* classification and its plan in three transactions; review settles the   *)
(* latest plan.                                                            *)
(*                                                                         *)
(*   src/tigerline/cli.py          analyze, review, stats                  *)
(*   src/tigerline/storage.py      the tables                              *)
(*   src/tigerline/sql/init.sql    their keys                              *)
(*                                                                         *)
(* One command runs at a time.  It may be interrupted between two saves.   *)
(* Rows carry the second they were written in.  What review derives from a *)
(* score besides the result of the main bet (corridor, points, suggestions *)
(* for the rules) is left out.                                             *)
(***************************************************************************)
EXTENDS Tigerline

CONSTANTS
  MatchIds,
  Inputs,         \* match files, as Tigerline describes them
  Scores,         \* final scores, <<home, away>>
  MaxTime,        \* seconds
  MaxRuns,        \* analyses begun
  MaxPicks        \* plans that are put together in one allocation

ASSUME RunsAssumption == MaxTime \in Nat /\ MaxRuns \in Nat /\ MaxPicks \in Nat

\* A file's lines are in units of the precision its decimals have, and its favorite is one of
\* the two teams.
ASSUME FilesAssumption ==
  /\ Quarter \in Nat \ {0}
  /\ \A i \in Inputs : i.totals \in Nat \ {0} /\ i.favorite \in {"home", "away"}
  /\ Scores \subseteq Int \X Int

VARIABLES
  now,
  matches,            \* the input saved for each match
  classifications,    \* rows [match, at, scenario]
  recommendations,    \* rows [match, at, plan]
  results,            \* the review of each match
  command,            \* the analysis that runs: [match, input, step]
  resaved,            \* history: the matches saved again since the last plan was saved
  runs

book == <<matches, classifications, recommendations, results, resaved>>
tigerVars == <<now, book, command, runs>>

TigerInit ==
  /\ now = 0 /\ runs = 0 /\ command = Nil
  /\ matches = [m \in MatchIds |-> Nil] /\ results = [m \in MatchIds |-> Nil]
  /\ classifications = {} /\ recommendations = {} /\ resaved = {}

Tick ==
  /\ now < MaxTime /\ now' = now + 1
  /\ UNCHANGED <<book, command, runs>>

-----------------------------------------------------------------------------
(* tiger analyze *)

Analyze(m, input) ==
  /\ command = Nil /\ runs < MaxRuns
  /\ runs' = runs + 1
  /\ command' = [match |-> m, input |-> input, step |-> 1]
  /\ UNCHANGED <<now, book>>

\* Slip: the plan is saved as soon as it is made.
PlanFirst == <<"match", "recommendation", "classification">>

Saves == <<"match", "classification", "recommendation">>

Saving(table) == command # Nil /\ Saves[command.step] = table

Saved == command' = IF command.step = Len(Saves) THEN Nil ELSE [command EXCEPT !.step = @ + 1]

SaveMatch ==
  /\ Saving("match")
  /\ matches' = [matches EXCEPT ![command.match] = command.input]
  /\ resaved' = resaved \cup {command.match}
  /\ Saved /\ UNCHANGED <<now, classifications, recommendations, results, runs>>

\* The primary key of both histories.
Taken(rows) == \E row \in rows : row.match = command.match /\ row.at = now

SaveClassification ==
  /\ Saving("classification") /\ ~Taken(classifications)
  /\ classifications' = classifications \cup
       {[match |-> command.match, at |-> now, scenario |-> Classify(command.input).scenario]}
  /\ Saved /\ UNCHANGED <<now, matches, recommendations, results, resaved, runs>>

SaveRecommendation ==
  /\ Saving("recommendation") /\ ~Taken(recommendations)
  /\ recommendations' = recommendations \cup
       {[match |-> command.match, at |-> now, plan |-> Recommend(command.input)]}
  /\ resaved' = resaved \ {command.match}
  /\ Saved /\ UNCHANGED <<now, matches, classifications, results, runs>>

\* A second row of the same match in one second is refused, or the command is interrupted:
\* what it has saved stays.
Stops ==
  /\ command # Nil /\ command' = Nil
  /\ UNCHANGED <<now, book, runs>>

-----------------------------------------------------------------------------
(* tiger review, stats and the allocation *)

PlansOf(m) == {row \in recommendations : row.match = m}

LatestPlan(m) == (CHOOSE row \in PlansOf(m) : \A other \in PlansOf(m) : other.at <= row.at).plan

\* A review replaces an earlier one.
Review(m, score) ==
  /\ command = Nil /\ matches[m] # Nil /\ PlansOf(m) # {}
  /\ LET plan == LatestPlan(m) IN
       results' = [results EXCEPT ![m] =
         [score |-> score, input |-> matches[m], bet |-> plan.bet, resaved |-> m \in resaved,
          correct |-> Classify(matches[m]).scenario = plan.scenario,
          main |-> Settle(matches[m], plan.bet, score[1], score[2])]]
  /\ UNCHANGED <<now, matches, classifications, recommendations, command, resaved, runs>>

\* Scenarios stats may count the review of a match under; with none it is not counted.
CountedUnder(m) == {row.scenario : row \in {c \in classifications : c.match = m}}

TigerNext ==
  \/ Tick
  \/ \E m \in MatchIds : \/ \E input \in Inputs : Analyze(m, input)
                         \/ \E score \in Scores : Review(m, score)
  \/ SaveMatch \/ SaveClassification \/ SaveRecommendation \/ Stops

TigerSpec == TigerInit /\ [][TigerNext]_tigerVars

-----------------------------------------------------------------------------
(* Properties. *)

\* Wherever analyses were cut short, a plan in the book has a classification of its own
\* scenario that is no younger, so stats and the calibration count every review.
PlanExplained ==
  /\ \A row \in recommendations :
       \E c \in classifications :
         c.match = row.match /\ c.at <= row.at /\ c.scenario = row.plan.scenario
  /\ \A m \in MatchIds : results[m] # Nil => CountedUnder(m) # {}

\* What the halves of a bet at a quarter line return, in halves of the stake.
Half(diff) == IF diff > 0 THEN 1 ELSE IF diff = 0 THEN 0 ELSE -1
Returned(result) ==
  CASE result = "win" -> 2 [] result = "half_win" -> 1 [] result = "push" -> 0
    [] result = "half_lose" -> -1 [] result = "lose" -> -2

\* The sides a bet backs, and by how much they led at the final score.
Backed(r) ==
  IF r.bet.market = "totals" THEN {r.bet.side}
  ELSE {side \in {"home", "away"} : r.input[side] = r.bet.team}
Lead(side, score) ==
  CASE side = "home" -> score[1] - score[2] [] side = "away" -> score[2] - score[1]
    [] side = "over" -> score[1] + score[2] [] side = "under" -> -(score[1] + score[2])

\* The line of the bet in halves of the stake: a line between two halves of a goal is two bets,
\* at the lines a quarter below and above it.
AsTwoHalves(r) ==
  \E side \in Backed(r) :
    LET line == IF side = "over" THEN - r.bet.line ELSE r.bet.line
        apart == IF (line \div Quarter) % 2 = 1 THEN Quarter ELSE 0
        lead == InUnits(Lead(side, r.score)) + line
    IN  Returned(r.main) = Half(lead - apart) + Half(lead + apart)

\* A line bookmakers offer.
Offered(line) == line % Quarter = 0

\* A review settles the saved plan, as bookmakers do: the bet at its own line, for the side
\* that was backed.  Excused is a match saved again by an analysis that was cut short or
\* refused before it saved a plan: its goals are settled at the new file's line.
SettledAsTwoHalves ==
  \A m \in MatchIds :
    LET r == results[m]
    IN  r # Nil /\ r.bet # Nil /\ Offered(r.bet.line) /\ ~ r.resaved => AsTwoHalves(r)

\* So "Settle a match against its saved plan" (cli.py) would have it without the excuse.
SettledAsPlanned ==
  \A m \in MatchIds :
    LET r == results[m] IN r # Nil /\ r.bet # Nil /\ Offered(r.bet.line) => AsTwoHalves(r)

Picks == {row.plan : row \in {rec \in recommendations : rec.plan.bet # Nil}}

\* Put together in any order, at full or half size, the bets of the book keep every cap: by
\* scenario, by team and market, by day, and none is larger than it was planned.
ExposureWithinCaps ==
  \A chosen \in UNION {kSubset(k, Picks) : k \in 1..MaxPicks} :
    \A picks \in SetToSeqs(chosen), half \in BOOLEAN :
      LET final == OptimizeStakes(picks, half)
          Total(S) == SumFunctionOnSet(final, S)
      IN  /\ Total(DOMAIN picks) <= Caps.day
          /\ \A n \in DOMAIN picks :
               /\ final[n] \in 0..Requested(picks[n], half)
               /\ Total({k \in DOMAIN picks : picks[k].scenario = picks[n].scenario})
                    <= Caps.scenario
               /\ Total({k \in DOMAIN picks : Group(picks[k]) = Group(picks[n])}) <= Caps.group
=============================================================================
