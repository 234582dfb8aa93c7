-------------------------- MODULE Commands_proofs --------------------------
(***************************************************************************)
(* Theorems about the two commands of the repository, devswarm and tiger:  *)
(* about DevSwarm, for any set of command lines with a dearest budget, any *)
(* prices, retries, turns and hops, and about TigerBook, for any files,    *)
(* scores and matches.                                                     *)
(***************************************************************************)
EXTENDS DevSwarm, TigerBook, Sums, TLAPS

-----------------------------------------------------------------------------
(***************************************************************************)
(* The inductive invariant.                                                *)
(***************************************************************************)
Swarm == [review_passed : BOOLEAN, review_findings : BOOLEAN, review_iter : Nat,
          tests_passed : BOOLEAN, heal_iter : Nat, cost : 0 .. Dear]

Types ==
  /\ config \in Configs /\ swarm \in Swarm
  /\ at \in Agents \cup {"end", "done", "raised"} /\ hops \in 1 .. HopLimit
  /\ tries \in 0 .. MaxRetries /\ turns \in 0 .. (MaxSteps - 1) /\ spent \in 0 .. Dear
  /\ disk \subseteq Kinds /\ pytest \in {"idle", "failed"}
  /\ exit \in {None, 0, 1, 3} /\ event \in Labels \cup {None}
  /\ approved \in BOOLEAN /\ green \in BOOLEAN

\* The passes that the larger limit leaves to the Coder, the first one in any case.
Most == Greatest(1, Greatest(config.heal, config.review))

\* Every pass of the Coder is followed by one of the Reviewer, and the Coder is sent back only
\* by an edge whose own limit leaves room for one more.
PassesCounted ==
  /\ swarm.review_iter <= swarm.heal_iter /\ swarm.heal_iter <= Most
  /\ at \in {"pm", "architect"} => swarm.heal_iter = 0
  /\ at \in {"pm", "architect", "coder"} => swarm.heal_iter < Most
  /\ at \in {"coder", "qa", "end"} => swarm.heal_iter = swarm.review_iter
  /\ at = "reviewer" => swarm.heal_iter = swarm.review_iter + 1
  /\ at \in {"qa", "end"} => swarm.heal_iter > 0

\* Who sent the Coder to work left the reason in the state.
SentForReason ==
  at = "coder" =>
    \/ sentBy = "architect" /\ swarm.heal_iter = 0
    \/ sentBy = "reviewer" /\ swarm.heal_iter > 0
         /\ ~swarm.review_passed /\ swarm.review_findings
    \/ sentBy = "qa" /\ swarm.heal_iter > 0 /\ swarm.review_passed

\* QA starts on approved files, and tests that passed end the run.
TestedLast ==
  /\ at = "qa" => swarm.review_passed /\ approved
  /\ swarm.tests_passed => at \in {"end", "done"} /\ approved /\ green
  /\ event = "succeeded" => swarm.tests_passed /\ exit = 0

\* What the last edge said is what the end will find.
EndTold ==
  /\ event # None => at = "done"
  /\ at = "end" /\ config.heal >= config.review => why = LabelOf(swarm)
  /\ event # None /\ config.heal >= config.review => event = why

Inv == Types /\ PassesCounted /\ SentForReason /\ TestedLast /\ EndTold

-----------------------------------------------------------------------------
(***************************************************************************)
(* Costs, the record of the swarm, and the edges.                          *)
(***************************************************************************)

\* The dearest budget is one of the command lines', and none is above it.
LEMMA DearIs == Dear \in Nat /\ \A c \in Configs : c.budget <= Dear
<1> DEFINE B == {c.budget : c \in Configs}
<1>1. PICK m \in B : \A b \in B : b <= m
  BY ConfigsAssumption
<1>2. Dear \in B /\ \A b \in B : b <= Dear
  BY <1>1 DEF Dear, Max
<1> QED
  BY <1>2, ConfigsAssumption

\* Costs are cut at the dearest budget.
LEMMA PlusType ==
  ASSUME NEW a \in Nat, NEW b \in Nat
  PROVE  Plus(a, b) \in 0 .. Dear
  BY DearIs DEF Plus

\* A charge changes the cost only.
LEMMA ChargedIs ==
  ASSUME NEW s \in Swarm, NEW price \in Nat
  PROVE  /\ Charged(s, price) \in Swarm
         /\ Charged(s, price).review_passed = s.review_passed
         /\ Charged(s, price).review_findings = s.review_findings
         /\ Charged(s, price).review_iter = s.review_iter
         /\ Charged(s, price).tests_passed = s.tests_passed
         /\ Charged(s, price).heal_iter = s.heal_iter
<1>1. s.cost \in Nat
  BY DearIs DEF Swarm
<1>2. Plus(s.cost, price) \in 0 .. Dear
  BY <1>1, PlusType
<1> QED
  BY <1>2 DEF Charged, Swarm

\* A review changes what it found and counts itself.
AsReviewed(s, passes, findings) ==
  [s EXCEPT !.review_passed = passes, !.review_findings = findings, !.review_iter = @ + 1]

LEMMA AsReviewedIs ==
  ASSUME NEW s \in Swarm, NEW passes \in BOOLEAN, NEW findings \in BOOLEAN
  PROVE  LET r == AsReviewed(s, passes, findings)
         IN  /\ r \in Swarm /\ r.review_passed = passes /\ r.review_findings = findings
             /\ r.review_iter = s.review_iter + 1 /\ r.tests_passed = s.tests_passed
             /\ r.heal_iter = s.heal_iter
<1>1. PICK n \in Nat : n = s.review_iter + 1
  BY DEF Swarm
<1>2. PICK r : r = AsReviewed(s, passes, findings)
  OBVIOUS
<1>3. r = [[[s EXCEPT !.review_passed = passes] EXCEPT !.review_findings = findings]
            EXCEPT !.review_iter = n]
  BY <1>1, <1>2 DEF AsReviewed
<1>4. [s EXCEPT !.review_passed = passes] \in Swarm
  BY DEF Swarm
<1>5. [[s EXCEPT !.review_passed = passes] EXCEPT !.review_findings = findings] \in Swarm
  BY <1>4 DEF Swarm
<1>6. r \in Swarm
  BY <1>3, <1>5 DEF Swarm
<1>7. /\ r.review_passed = passes /\ r.review_findings = findings
      /\ r.review_iter = s.review_iter + 1 /\ r.tests_passed = s.tests_passed
      /\ r.heal_iter = s.heal_iter
  BY <1>1, <1>3, <1>6 DEF Swarm
<1> QED
  BY <1>2, <1>6, <1>7

\* The graph starts the node it is sent to, or raises; it always reaches its end.
LEMMA GoesIs ==
  ASSUME Types, NEW to, Goes(to)
  PROVE  /\ at' \in {to, "raised"} /\ (to = "end" => at' = "end")
         /\ sentBy' = at /\ tries' \in 0 .. MaxRetries
         /\ hops' \in 1 .. HopLimit /\ exit' \in {None, 0, 1, 3}
  BY BoundsAssumption DEF Goes, Types

-----------------------------------------------------------------------------
(***************************************************************************)
(* One lemma for each kind of step.                                        *)
(***************************************************************************)

\* A call that fails or is tried again changes no file and no count.
LEMMA CallInv ==
  ASSUME Inv, Retry \/ GiveUp
  PROVE  Inv'
<1> USE DEF Inv
<1>1. /\ config' = config /\ swarm' = swarm /\ turns' = turns /\ spent' = spent /\ disk' = disk
      /\ pytest' = pytest /\ event' = event /\ sentBy' = sentBy /\ approved' = approved
      /\ green' = green /\ why' = why
  BY DEF Retry, GiveUp, Agent
<1>2. at' \in {at, "raised"} /\ at \in Agents
  BY DEF Retry, GiveUp, Calling, Agents
<1>3. Types'
  BY <1>1, <1>2, BoundsAssumption DEF Retry, GiveUp, Types
<1>4. event = None
  BY <1>2 DEF EndTold, Agents
<1>5. PassesCounted' /\ SentForReason'
  BY <1>1, <1>2 DEF PassesCounted, SentForReason, Most, Agents
<1>6. ~swarm.tests_passed
  BY <1>2 DEF TestedLast, Agents
<1>7. TestedLast' /\ EndTold'
  BY <1>1, <1>2, <1>4, <1>6, NoneAssumption DEF TestedLast, EndTold, Labels, Agents
<1> QED
  BY <1>3, <1>5, <1>7

\* The plan and the design are paid for.
LEMMA PlanInv ==
  ASSUME Inv, NEW price \in Nat, Plans(price) \/ Designs(price)
  PROVE  Inv'
<1> USE DEF Inv
<1>1. /\ config' = config /\ turns' = turns /\ spent' = spent /\ disk' = disk
      /\ pytest' = pytest /\ event' = event /\ approved' = approved
      /\ green' = green /\ why' = why
      /\ swarm' = Charged(swarm, price) /\ at \in {"pm", "architect"}
  BY DEF Plans, Designs
<1>2. swarm \in Swarm
  BY DEF Types
<1>3. /\ swarm' \in Swarm
      /\ swarm'.review_iter = swarm.review_iter /\ swarm'.heal_iter = swarm.heal_iter
      /\ swarm'.tests_passed = swarm.tests_passed
  BY <1>1, <1>2, ChargedIs
<1>4. swarm.heal_iter = 0 /\ swarm.review_iter = 0 /\ ~swarm.tests_passed /\ event = None
  BY <1>1, <1>2 DEF PassesCounted, TestedLast, EndTold, Swarm
<1>5. /\ at' \in {"architect", "coder", "done", "raised"}
      /\ at' = "coder" => sentBy' = "architect"
      /\ tries' \in 0 .. MaxRetries /\ hops' \in 1 .. HopLimit /\ exit' \in {None, 0, 1, 3}
  <2>1. CASE Plans(price)
    BY <2>1, GoesIs DEF Plans
  <2>2. CASE Designs(price) /\ config.dry
    BY <2>2, BoundsAssumption DEF Designs, Types
  <2>3. CASE Designs(price) /\ ~config.dry
    BY <2>3, GoesIs DEF Designs
  <2> QED
    BY <2>1, <2>2, <2>3
<1>6. Types'
  BY <1>1, <1>3, <1>5 DEF Types, Agents
<1>7. Most' \in Nat /\ 0 < Most'
  BY <1>1, ConfigsAssumption DEF Most, Greatest, Types
<1>8. PassesCounted'
  BY <1>3, <1>4, <1>5, <1>7 DEF PassesCounted
<1>9. SentForReason'
  BY <1>3, <1>4, <1>5 DEF SentForReason
<1>10. TestedLast' /\ EndTold'
  BY <1>1, <1>3, <1>4, <1>5, NoneAssumption DEF TestedLast, EndTold, Labels
<1> QED
  BY <1>6, <1>8, <1>9, <1>10

\* The Coder's turn: what it wrote is neither approved nor tested, and after the last turn the
\* pass is counted and the Reviewer is next.
LEMMA CodeInv ==
  ASSUME Inv, NEW price \in Nat,
         CodesLast(price) \/ \E files \in SUBSET Kinds : CodesOn(files, price)
  PROVE  Inv'
<1> USE DEF Inv
<1>1. /\ config' = config /\ pytest' = pytest /\ event' = event /\ why' = why
      /\ at = "coder" /\ disk' \subseteq Kinds
      /\ approved' \in BOOLEAN /\ green' \in BOOLEAN
  BY DEF CodesLast, CodesOn, Types, Written
<1>2. swarm \in Swarm /\ swarm.heal_iter \in Nat /\ swarm.review_iter \in Nat /\ Most \in Nat
  BY ConfigsAssumption DEF Types, Swarm, Most, Greatest
<1>3. /\ swarm.heal_iter < Most /\ swarm.heal_iter = swarm.review_iter
      /\ ~swarm.tests_passed /\ event = None
  BY <1>1, <1>2 DEF PassesCounted, TestedLast, EndTold
<1>4. Most' = Most
  BY <1>1 DEF Most
<1>5. \/ Coded(price)
      \/ /\ at' = at /\ hops' = hops /\ swarm' = swarm /\ exit' = exit /\ sentBy' = sentBy
         /\ turns' \in 0 .. (MaxSteps - 1) /\ spent' \in 0 .. Dear /\ tries' = 0
  <2>1. CASE CodesLast(price)
    BY <2>1 DEF CodesLast
  <2>2. ASSUME NEW files \in SUBSET Kinds, CodesOn(files, price)
        PROVE  <1>5!1 \/ <1>5!2
    <3>1. turns \in Nat /\ MaxSteps \in Nat \ {0} /\ spent \in Nat
      BY BoundsAssumption, DearIs DEF Types
    <3>2. Plus(spent, price) \in 0 .. Dear
      BY <3>1, PlusType
    <3> QED
      BY <2>2, <3>1, <3>2 DEF CodesOn, Turn
  <2> QED
    BY <2>1, <2>2
<1>6. CASE Coded(price)
  <2> DEFINE coded == [swarm EXCEPT !.heal_iter = @ + 1]
  <2>1. coded \in Swarm /\ coded.heal_iter = swarm.heal_iter + 1
        /\ coded.review_iter = swarm.review_iter /\ coded.tests_passed = swarm.tests_passed
    BY <1>2 DEF Swarm
  <2>2. Plus(spent, price) \in Nat
    <3>1. spent \in Nat
      BY DearIs DEF Types
    <3>2. Plus(spent, price) \in 0 .. Dear
      BY <3>1, PlusType
    <3> QED
      BY <3>2, DearIs
  <2>3. swarm' = Charged(coded, Plus(spent, price)) /\ turns' = 0 /\ spent' = 0
    BY <1>6 DEF Coded
  <2> HIDE DEF coded
  <2>4. /\ swarm' \in Swarm /\ swarm'.heal_iter = swarm.heal_iter + 1
        /\ swarm'.review_iter = swarm.review_iter
        /\ swarm'.tests_passed = swarm.tests_passed
    BY <2>1, <2>2, <2>3, ChargedIs
  <2>5. /\ at' \in {"reviewer", "raised"}
        /\ tries' \in 0 .. MaxRetries /\ hops' \in 1 .. HopLimit /\ exit' \in {None, 0, 1, 3}
    BY <1>6, GoesIs DEF Coded, AfterCoder
  <2>6. Types'
    BY <1>1, <2>3, <2>4, <2>5, DearIs, BoundsAssumption DEF Types, Agents
  <2>7. PassesCounted'
    BY <1>2, <1>3, <1>4, <2>4, <2>5 DEF PassesCounted
  <2>8. SentForReason' /\ TestedLast' /\ EndTold'
    BY <1>1, <1>3, <2>4, <2>5, NoneAssumption DEF SentForReason, TestedLast, EndTold, Labels
  <2> QED
    BY <2>6, <2>7, <2>8
<1>7. CASE <1>5!2
  <2>1. Types'
    BY <1>1, <1>7, BoundsAssumption DEF Types
  <2>2. PassesCounted' /\ SentForReason'
    BY <1>1, <1>4, <1>7 DEF PassesCounted, SentForReason
  <2>3. TestedLast' /\ EndTold'
    BY <1>1, <1>3, <1>7, NoneAssumption DEF TestedLast, EndTold, Labels
  <2> QED
    BY <2>1, <2>2, <2>3
<1> QED
  BY <1>5, <1>6, <1>7

\* A review: the edge sends the Coder back only with findings, and QA to work only on files
\* that were let pass.
LEMMA ReviewInv ==
  ASSUME Inv, NEW price \in Nat,
         ReviewsNothing \/ \E v \in Verdicts : Reviews(v, price)
  PROVE  Inv'
<1> USE DEF Inv
<1>1. PICK passes \in BOOLEAN, findings \in BOOLEAN, cost \in Nat :
        Reviewed(passes, findings, cost) /\ (findings <=> ~passes)
  <2>1. CASE ReviewsNothing
    BY <2>1 DEF ReviewsNothing
  <2>2. ASSUME NEW v \in Verdicts, Reviews(v, price)
        PROVE  Reviewed(Passed(v), ~Passed(v), price) /\ Passed(v) \in BOOLEAN
    BY <2>2 DEF Reviews, Findings, Passed
  <2> QED
    BY <2>1, <2>2
<1> DEFINE read == AsReviewed(swarm, passes, findings)
<1>2. /\ config' = config /\ turns' = turns /\ spent' = spent /\ disk' = disk
      /\ pytest' = pytest /\ event' = event /\ green' = green /\ approved' = passes
      /\ swarm' = Charged(read, cost) /\ why' = RouteAfterReview(swarm')
      /\ Goes(Heads(why')) /\ at = "reviewer"
  BY <1>1 DEF Reviewed, Reviews, ReviewsNothing, AsReviewed
<1>3. /\ swarm \in Swarm /\ swarm.heal_iter \in Nat /\ swarm.review_iter \in Nat
      /\ config.heal \in Nat /\ config.review \in Nat
  BY ConfigsAssumption DEF Types, Swarm
<1>4. /\ swarm.heal_iter = swarm.review_iter + 1 /\ swarm.heal_iter <= Most
      /\ ~swarm.tests_passed /\ event = None
  BY <1>2 DEF PassesCounted, TestedLast, EndTold
<1>5. /\ swarm' \in Swarm /\ swarm'.review_passed = passes /\ swarm'.review_findings = findings
      /\ swarm'.review_iter = swarm.review_iter + 1 /\ swarm'.heal_iter = swarm.heal_iter
      /\ swarm'.tests_passed = swarm.tests_passed
  <2>1. /\ read \in Swarm /\ read.review_passed = passes /\ read.review_findings = findings
        /\ read.review_iter = swarm.review_iter + 1 /\ read.heal_iter = swarm.heal_iter
        /\ read.tests_passed = swarm.tests_passed
    BY <1>3, AsReviewedIs
  <2> HIDE DEF read
  <2> QED
    BY <1>2, <2>1, ChargedIs
<1>6. /\ at' \in {Heads(why'), "raised"}
      /\ Heads(why') = "end" => at' = "end"
      /\ sentBy' = "reviewer"
      /\ tries' \in 0 .. MaxRetries /\ hops' \in 1 .. HopLimit /\ exit' \in {None, 0, 1, 3}
  BY <1>2, GoesIs
<1>7. /\ why' \in {"qa", "review_exhausted", "budget_halted", "heal"}
      /\ why' = "qa" <=> passes
      /\ why' = "heal" => swarm'.review_iter < config.review
      /\ why' = "review_exhausted" => swarm'.review_iter >= config.review
      /\ why' = "budget_halted" => OverBudget(swarm)' /\ swarm'.review_iter < config.review
  BY <1>2, <1>3, <1>5 DEF RouteAfterReview, OverBudget
<1>8. /\ at' \in {"qa", "end", "coder", "raised"}
      /\ at' = "qa" => passes
      /\ at' = "coder" => why' = "heal"
      /\ at' = "end" => why' \in {"review_exhausted", "budget_halted"}
  BY <1>6, <1>7 DEF Heads
<1>9. Types'
  BY <1>2, <1>5, <1>6, <1>8 DEF Types, Agents
<1>10. PassesCounted'
  BY <1>2, <1>3, <1>4, <1>5, <1>7, <1>8 DEF PassesCounted, Most, Greatest
<1>11. SentForReason'
  BY <1>1, <1>3, <1>4, <1>5, <1>6, <1>7, <1>8 DEF SentForReason
<1>12. TestedLast'
  BY <1>2, <1>4, <1>5, <1>8, NoneAssumption DEF TestedLast, Labels
<1>13. EndTold'
  <2>1. ASSUME at' = "end", config.heal >= config.review
        PROVE  why' = LabelOf(swarm)'
    <3>1. ~swarm'.tests_passed /\ ~swarm'.review_passed
      BY <1>4, <1>5, <1>7, <1>8, <2>1
    <3>2. CASE why' = "review_exhausted"
      BY <1>2, <1>7, <3>1, <3>2 DEF LabelOf
    <3>3. CASE why' = "budget_halted"
      <4>1. ~(swarm'.review_iter >= config'.review) /\ ~(swarm'.heal_iter >= config'.heal)
        BY <1>2, <1>3, <1>4, <1>5, <1>7, <2>1, <3>3
      <4> QED
        BY <1>7, <3>1, <3>3, <4>1 DEF LabelOf
    <3> QED
      BY <1>8, <2>1, <3>2, <3>3
  <2> QED
    BY <1>2, <1>4, <2>1 DEF EndTold
<1> QED
  BY <1>9, <1>10, <1>11, <1>12, <1>13

\* QA: tests that pass end the run, those that fail send the Coder back while its limit
\* leaves room.
LEMMA TestInv ==
  ASSUME Inv, NEW price \in Nat, TestsPass \/ TestsFail \/ Diagnoses(price)
  PROVE  Inv'
<1> USE DEF Inv
<1>1. /\ at = "qa" /\ swarm \in Swarm /\ swarm.heal_iter \in Nat /\ swarm.review_iter \in Nat
      /\ config.heal \in Nat /\ config.review \in Nat
  BY ConfigsAssumption DEF Types, Swarm, TestsPass, TestsFail, Diagnoses
<1>2. /\ swarm.heal_iter = swarm.review_iter /\ swarm.heal_iter > 0 /\ swarm.heal_iter <= Most
      /\ ~swarm.tests_passed /\ event = None /\ swarm.review_passed /\ approved
  BY <1>1 DEF PassesCounted, TestedLast, EndTold
<1>3. CASE TestsFail
  <2>1. /\ config' = config /\ at' = at /\ swarm' = swarm /\ approved' = approved
        /\ event' = event /\ why' = why /\ green' = FALSE /\ exit' = exit
    BY <1>3 DEF TestsFail
  <2>2. Types'
    BY <1>3 DEF TestsFail, Types
  <2>3. PassesCounted' /\ SentForReason'
    BY <1>1, <2>1 DEF PassesCounted, SentForReason, Most
  <2>4. TestedLast' /\ EndTold'
    BY <1>1, <1>2, <2>1, NoneAssumption DEF TestedLast, EndTold, Labels
  <2> QED
    BY <2>2, <2>3, <2>4
<1>4. CASE TestsPass \/ Diagnoses(price)
  <2>1. PICK passes \in BOOLEAN, cost \in Nat :
          Checked(passes, cost) /\ (passes => green') /\ green' \in BOOLEAN
    BY <1>4 DEF TestsPass, Diagnoses, Types
  <2> DEFINE tested == [swarm EXCEPT !.tests_passed = passes]
  <2>2. /\ config' = config /\ turns' = turns /\ spent' = spent /\ disk' = disk
        /\ pytest' = "idle" /\ event' = event /\ approved' = approved
        /\ swarm' = Charged(tested, cost) /\ why' = RouteAfterQA(swarm')
        /\ Goes(Heads(why'))
    BY <2>1 DEF Checked
  <2>3. /\ swarm' \in Swarm /\ swarm'.tests_passed = passes
        /\ swarm'.review_iter = swarm.review_iter /\ swarm'.heal_iter = swarm.heal_iter
        /\ swarm'.review_passed = swarm.review_passed
    <3>1. /\ tested \in Swarm /\ tested.tests_passed = passes
          /\ tested.review_iter = swarm.review_iter /\ tested.heal_iter = swarm.heal_iter
          /\ tested.review_passed = swarm.review_passed
      BY <1>1 DEF Swarm
    <3> HIDE DEF tested
    <3> QED
      BY <2>2, <3>1, ChargedIs
  <2>4. /\ at' \in {Heads(why'), "raised"}
        /\ Heads(why') = "end" => at' = "end"
        /\ sentBy' = "qa"
        /\ tries' \in 0 .. MaxRetries /\ hops' \in 1 .. HopLimit /\ exit' \in {None, 0, 1, 3}
    BY <1>1, <2>2, GoesIs
  <2>5. /\ why' \in {"succeeded", "heal_exhausted", "budget_halted", "heal"}
        /\ why' = "succeeded" <=> passes
        /\ why' = "heal" => swarm'.heal_iter < config.heal
        /\ why' = "heal_exhausted" => swarm'.heal_iter >= config.heal
        /\ why' = "budget_halted" => OverBudget(swarm)' /\ swarm'.heal_iter < config.heal
    BY <1>1, <2>2, <2>3 DEF RouteAfterQA, OverBudget
  <2>6. /\ at' \in {"end", "coder", "raised"}
        /\ passes => at' = "end"
        /\ at' = "coder" => why' = "heal"
        /\ at' = "end" => why' \in {"succeeded", "heal_exhausted", "budget_halted"}
    BY <2>4, <2>5 DEF Heads
  <2>7. Types'
    BY <2>1, <2>2, <2>3, <2>4, <2>6 DEF Types, Agents
  <2>8. PassesCounted'
    BY <1>1, <1>2, <2>2, <2>3, <2>5, <2>6 DEF PassesCounted, Most, Greatest
  <2>9. SentForReason'
    BY <1>2, <2>3, <2>4, <2>6 DEF SentForReason
  <2>10. TestedLast'
    BY <1>2, <2>1, <2>2, <2>3, <2>6, NoneAssumption DEF TestedLast, Labels
  <2>11. EndTold'
    <3>1. ASSUME at' = "end", config.heal >= config.review
          PROVE  why' = LabelOf(swarm)'
      <4>1. swarm'.review_passed /\ (swarm'.tests_passed <=> passes)
        BY <1>2, <2>3
      <4>2. CASE why' = "succeeded"
        BY <2>5, <4>1, <4>2 DEF LabelOf
      <4>3. CASE why' = "heal_exhausted"
        BY <2>2, <2>5, <4>1, <4>3 DEF LabelOf
      <4>4. CASE why' = "budget_halted"
        <5>1. ~(swarm'.heal_iter >= config'.heal)
          BY <1>1, <2>2, <2>3, <2>5, <4>4
        <5> QED
          BY <2>5, <4>1, <4>4, <5>1 DEF LabelOf
      <4> QED
        BY <2>6, <3>1, <4>2, <4>3, <4>4
    <3> QED
      BY <1>2, <2>2, <3>1 DEF EndTold
  <2> QED
    BY <2>7, <2>8, <2>9, <2>10, <2>11
<1> QED
  BY <1>3, <1>4

\* The report names what the state holds.
LEMMA ReportInv ==
  ASSUME Inv, Reports
  PROVE  Inv'
<1> USE DEF Inv
<1>1. /\ config' = config /\ swarm' = swarm /\ approved' = approved /\ green' = green
      /\ why' = why /\ at = "end" /\ at' = "done" /\ event' = LabelOf(swarm)
      /\ exit' = IF swarm.tests_passed THEN 0 ELSE 1
  BY DEF Reports
<1>2. LabelOf(swarm) \in Labels /\ (LabelOf(swarm) = "succeeded" => swarm.tests_passed)
  BY DEF LabelOf, Labels
<1>3. Types'
  BY <1>1, <1>2 DEF Types, Reports
<1>4. PassesCounted' /\ SentForReason'
  BY <1>1 DEF PassesCounted, SentForReason, Most
<1>5. TestedLast' /\ EndTold'
  BY <1>1, <1>2 DEF TestedLast, EndTold
<1> QED
  BY <1>3, <1>4, <1>5

-----------------------------------------------------------------------------
(***************************************************************************)
(* The theorems.                                                           *)
(***************************************************************************)

LEMMA InitInv ==
  ASSUME Init
  PROVE  Inv
<1> USE DEF Init, InitialState
<1>1. Types
  <2>1. 0 \in 0 .. Dear /\ 0 \in 0 .. MaxRetries /\ 0 \in 0 .. (MaxSteps - 1)
        /\ 1 \in 1 .. HopLimit
    BY DearIs, BoundsAssumption
  <2>2. swarm \in Swarm
    BY <2>1 DEF Swarm
  <2> QED
    BY <2>1, <2>2 DEF Types, Agents
<1>2. PassesCounted
  BY ConfigsAssumption DEF PassesCounted, Most, Greatest
<1>3. SentForReason /\ TestedLast /\ EndTold
  BY NoneAssumption DEF SentForReason, TestedLast, EndTold, Labels
<1> QED
  BY <1>1, <1>2, <1>3 DEF Inv

\* The invariant holds throughout every run of the command.
THEOREM Invariance == Spec => []Inv
<1>1. Inv /\ Next => Inv'
  <2>1. Prices \subseteq Nat /\ 0 \in Nat
    BY BoundsAssumption
  <2> QED
    BY <2>1, CallInv, PlanInv, CodeInv, ReviewInv, TestInv, ReportInv DEF Next
<1>2. Inv /\ UNCHANGED vars => Inv'
  BY DEF Inv, vars, Types, PassesCounted, SentForReason, TestedLast, EndTold, Most, LabelOf,
     OverBudget
<1> QED
  BY <1>1, <1>2, InitInv, PTL DEF Spec

(***************************************************************************)
(* A run takes no more passes of the Coder than the larger of its two      *)
(* limits allows, and never more of the Reviewer, though each edge counts  *)
(* its own (_route_after_review, _route_after_qa).                         *)
(***************************************************************************)
THEOREM TypeCorrect == Spec => []TypeOK
<1>1. Inv => TypeOK
  <2> SUFFICES ASSUME Inv PROVE TypeOK
    OBVIOUS
  <2>1. /\ swarm \in Swarm /\ swarm.review_iter <= swarm.heal_iter /\ swarm.heal_iter <= Most
        /\ Most \in Nat
    BY ConfigsAssumption DEF Inv, Types, PassesCounted, Most, Greatest
  <2>2. swarm.review_iter \in 0 .. swarm.heal_iter /\ swarm.heal_iter \in 0 .. Most
    BY <2>1 DEF Swarm
  <2>3. swarm \in [review_passed : BOOLEAN, review_findings : BOOLEAN,
                   review_iter : 0 .. swarm.heal_iter, tests_passed : BOOLEAN,
                   heal_iter : 0 .. Most, cost : 0 .. Dear]
    BY <2>1, <2>2 DEF Swarm
  <2> QED
    BY <2>3 DEF Inv, Types, TypeOK, Most
<1> QED
  BY <1>1, Invariance, PTL

(***************************************************************************)
(* A run that reports success leaves files that both the Reviewer and      *)
(* pytest passed after the last of them was written (graph.build_graph).   *)
(***************************************************************************)
THEOREM AlwaysReviewedThenTested == Spec => []ReviewedThenTested
<1>1. Inv => ReviewedThenTested
  BY DEF Inv, TestedLast, ReviewedThenTested
<1> QED
  BY <1>1, Invariance, PTL

(***************************************************************************)
(* The Coder is briefed with the complaint that sent it back, never with   *)
(* an older one (coder_node).                                              *)
(***************************************************************************)
THEOREM CoderAlwaysTold == Spec => []CoderTold
<1>1. Inv => CoderTold
  <2> SUFFICES ASSUME Inv, at = "coder"
               PROVE  Brief(swarm) = CASE sentBy = "architect" -> "specification"
                                       [] sentBy = "reviewer" -> "findings"
                                       [] sentBy = "qa" -> "test report"
    BY DEF CoderTold
  <2>1. swarm \in Swarm
    BY DEF Inv, Types
  <2>2. CASE sentBy = "architect" /\ swarm.heal_iter = 0
    BY <2>2 DEF Brief
  <2>3. CASE sentBy = "reviewer" /\ swarm.heal_iter > 0
               /\ ~swarm.review_passed /\ swarm.review_findings
    BY <2>1, <2>3 DEF Brief, Swarm
  <2>4. CASE sentBy = "qa" /\ swarm.heal_iter > 0 /\ swarm.review_passed
    BY <2>1, <2>4 DEF Brief, Swarm
  <2> QED
    BY <2>2, <2>3, <2>4 DEF Inv, SentForReason
<1> QED
  BY <1>1, Invariance, PTL

(***************************************************************************)
(* With at least as many passes as review rounds, the notification names   *)
(* the reason for which the graph stopped (_classify).                     *)
(***************************************************************************)
THEOREM LabelAlwaysTellsWhy == Spec => []LabelTellsWhy
<1>1. Inv => LabelTellsWhy
  BY DEF Inv, EndTold, LabelTellsWhy
<1> QED
  BY <1>1, Invariance, PTL

-----------------------------------------------------------------------------
(***************************************************************************)
(* What the run has left to do: nodes to start, then pytest in QA, then    *)
(* turns of the tool loop, then attempts of a call.  The later ones begin  *)
(* anew whenever an earlier one is used up.                                *)
(***************************************************************************)
\* Fewer than n of b in each of a.
Of(n, a, b) == a * n + b

\* A run that ends has still to report; one that is over has nothing left.
Standing == IF at \in Agents THEN 2 ELSE IF at = "end" THEN 1 ELSE 0

Nodes     == Of(HopLimit, Standing, HopLimit - hops)
Tests     == Of(2, Nodes, IF pytest = "idle" THEN 1 ELSE 0)
TurnsLeft == Of(MaxSteps, Tests, MaxSteps - 1 - turns)
ToDo      == Of(MaxRetries + 1, TurnsLeft, MaxRetries - tries)

\* A run that is over, and no other, has told the shell.
Over == IF Standing = 0 THEN exit \in {0, 1, 3} ELSE exit = None

\* ToDo counts like digits: one that falls outweighs all that begin anew behind it.
LEMMA OfLess ==
  ASSUME NEW n \in Nat \ {0}, NEW a \in Nat, NEW b \in Nat,
         NEW r \in 0 .. (n - 1), NEW s \in 0 .. (n - 1)
  PROVE  /\ Of(n, a, r) \in Nat
         /\ b < a => Of(n, b, s) < Of(n, a, r)
         /\ b = a => (s < r <=> Of(n, b, s) < Of(n, a, r))
<1>1. PICK p \in Nat, q \in Nat : p = a * n /\ q = b * n
  OBVIOUS
<1>2. ASSUME b < a PROVE q + n <= p
  <2>1. PICK d \in Nat : a = b + 1 + d
    <3>1. a - b - 1 \in Nat /\ a = b + 1 + (a - b - 1)
      BY <1>2
    <3> QED
      BY <3>1
  <2>2. PICK e \in Nat : e = d * n
    OBVIOUS
  <2>3. a * n = b * n + n + d * n
    BY <2>1
  <2> QED
    BY <1>1, <2>2, <2>3
<1> QED
  BY <1>1, <1>2 DEF Of

\* What remains of h when a, or b, is used up.
LEMMA Remaining ==
  ASSUME NEW h \in Int, NEW a \in Int, NEW b \in Int
  PROVE  /\ 1 <= a /\ a <= h => h - a \in 0 .. (h - 1)
         /\ a < b => h - b < h - a
  OBVIOUS

\* The four digits.
Digits ==
  /\ Nodes \in Nat /\ Tests \in Nat /\ TurnsLeft \in Nat /\ ToDo \in Nat
  /\ MaxSteps - 1 - turns \in 0 .. (MaxSteps - 1) /\ MaxRetries - tries \in 0 .. MaxRetries

LEMMA DigitsAre == ASSUME Types PROVE Digits
<1>1. /\ HopLimit - hops \in 0 .. (HopLimit - 1) /\ Standing \in Nat
      /\ MaxSteps - 1 - turns \in 0 .. (MaxSteps - 1) /\ MaxRetries - tries \in 0 .. MaxRetries
      /\ MaxRetries + 1 \in Nat \ {0}
  BY BoundsAssumption DEF Types, Standing
<1>2. Nodes \in Nat
  BY <1>1, OfLess, BoundsAssumption DEF Nodes
<1>3. PICK test \in 0 .. 1 : test = IF pytest = "idle" THEN 1 ELSE 0
  OBVIOUS
<1>4. Tests \in Nat
  BY <1>2, <1>3, OfLess DEF Tests
<1>5. TurnsLeft \in Nat
  BY <1>1, <1>4, OfLess, BoundsAssumption DEF TurnsLeft
<1>6. MaxRetries - tries \in 0 .. (MaxRetries + 1 - 1)
  BY <1>1, BoundsAssumption
<1>7. ToDo \in Nat
  <2>1. PICK n \in Nat \ {0} : n = MaxRetries + 1
    BY <1>1
  <2>2. MaxRetries - tries \in 0 .. (n - 1)
    BY <1>6, <2>1, BoundsAssumption
  <2> QED
    BY <1>5, <2>1, <2>2, OfLess DEF ToDo
<1> QED
  BY <1>1, <1>2, <1>4, <1>5, <1>7 DEF Digits

\* A step that uses up one digit, and none before it, leaves less.
LEMMA DigitFalls ==
  ASSUME Types, Types',
         \/ Nodes' < Nodes
         \/ Nodes' = Nodes /\ pytest = "idle" /\ pytest' = "failed"
         \/ Nodes' = Nodes /\ pytest' = pytest /\ turns < turns'
         \/ Nodes' = Nodes /\ pytest' = pytest /\ turns' = turns /\ tries < tries'
  PROVE  ToDo' < ToDo
<1>1. Digits /\ Digits'
  BY DigitsAre, PTL
<1>2. PICK t0 \in 0 .. 1, t1 \in 0 .. 1 :
        /\ t0 = (IF pytest = "idle" THEN 1 ELSE 0) /\ t1 = (IF pytest' = "idle" THEN 1 ELSE 0)
  OBVIOUS
<1>3. Tests = Of(2, Nodes, t0) /\ Tests' = Of(2, Nodes', t1)
  BY <1>2 DEF Tests
<1>4. PICK m \in Nat, n \in Nat : m = MaxSteps /\ n = MaxRetries + 1 /\ m > 0 /\ n > 0
  BY BoundsAssumption
<1>5. PICK r0 \in 0 .. (m - 1), r1 \in 0 .. (m - 1), s0 \in 0 .. (n - 1), s1 \in 0 .. (n - 1) :
        /\ r0 = MaxSteps - 1 - turns /\ r1 = MaxSteps - 1 - turns'
        /\ s0 = MaxRetries - tries /\ s1 = MaxRetries - tries'
  <2>1. MaxRetries = n - 1
    BY <1>4, BoundsAssumption
  <2> QED
    BY <1>1, <1>4, <2>1 DEF Digits
<1>6. /\ turns < turns' => r1 < r0
      /\ turns' = turns => r1 = r0
      /\ tries < tries' => s1 < s0
  <2>1. PICK a \in Int, b \in Int, x \in Int, y \in Int, i \in Int, j \in Int :
          /\ a = turns /\ b = turns' /\ x = tries /\ y = tries'
          /\ i = MaxSteps /\ j = MaxRetries
    BY BoundsAssumption DEF Types
  <2>2. r0 = i - 1 - a /\ r1 = i - 1 - b /\ s0 = j - x /\ s1 = j - y
    BY <1>5, <2>1
  <2>3. (a < b => i - 1 - b < i - 1 - a) /\ (x < y => j - y < j - x)
    BY Remaining
  <2> QED
    BY <2>1, <2>2, <2>3
<1>7. /\ TurnsLeft = Of(m, Tests, r0) /\ TurnsLeft' = Of(m, Tests', r1)
      /\ ToDo = Of(n, TurnsLeft, s0) /\ ToDo' = Of(n, TurnsLeft', s1)
  BY <1>4, <1>5 DEF TurnsLeft, ToDo
<1>8. /\ Nodes \in Nat /\ Nodes' \in Nat /\ Tests \in Nat /\ Tests' \in Nat
      /\ TurnsLeft \in Nat /\ TurnsLeft' \in Nat
  BY <1>1 DEF Digits
<1>9. /\ Nodes' < Nodes => Tests' < Tests
      /\ Nodes' = Nodes => (t1 < t0 => Tests' < Tests)
      /\ Nodes' = Nodes /\ t1 = t0 => Tests' = Tests
  <2>1. 2 \in Nat \ {0} /\ t0 \in 0 .. (2 - 1) /\ t1 \in 0 .. (2 - 1)
    BY <1>2
  <2> QED
    BY <1>3, <1>8, <2>1, OfLess
<1>10. /\ Tests' < Tests => TurnsLeft' < TurnsLeft
       /\ Tests' = Tests => (r1 < r0 => TurnsLeft' < TurnsLeft)
       /\ Tests' = Tests /\ r1 = r0 => TurnsLeft' = TurnsLeft
  <2>1. m \in Nat \ {0} /\ r0 \in 0 .. (m - 1) /\ r1 \in 0 .. (m - 1)
    BY <1>4, <1>5
  <2>2. Tests' < Tests => Of(m, Tests', r1) < Of(m, Tests, r0)
    BY <1>8, <2>1, OfLess
  <2>3. Tests' = Tests => (r1 < r0 => Of(m, Tests', r1) < Of(m, Tests, r0))
    BY <1>8, <2>1, OfLess
  <2> QED
    BY <1>7, <2>2, <2>3
<1>11. /\ TurnsLeft' < TurnsLeft => ToDo' < ToDo
       /\ TurnsLeft' = TurnsLeft => (s1 < s0 => ToDo' < ToDo)
  <2>1. n \in Nat \ {0} /\ s0 \in 0 .. (n - 1) /\ s1 \in 0 .. (n - 1)
    BY <1>4, <1>5
  <2>2. TurnsLeft' < TurnsLeft => Of(n, TurnsLeft', s1) < Of(n, TurnsLeft, s0)
    BY <1>8, <2>1, OfLess
  <2>3. TurnsLeft' = TurnsLeft => (s1 < s0 => Of(n, TurnsLeft', s1) < Of(n, TurnsLeft, s0))
    BY <1>8, <2>1, OfLess
  <2> QED
    BY <1>7, <2>2, <2>3
<1> QED
  BY <1>2, <1>6, <1>9, <1>10, <1>11

\* A node that is left is not started again for nothing: the next one is counted, or the run
\* stands nearer to its end.
LEMMA NodeLeft ==
  ASSUME Types, Types',
         \/ at \in Agents /\ at' \in Agents /\ hops' = hops + 1
         \/ at \in Agents /\ at' \in {"end", "done", "raised"}
         \/ at = "end" /\ at' = "done"
  PROVE  Nodes' < Nodes
<1>1. PICK h \in Nat : h = HopLimit /\ h > 0
  BY BoundsAssumption
<1>2. PICK r \in 0 .. (h - 1), s \in 0 .. (h - 1) :
        r = HopLimit - hops /\ s = HopLimit - hops' /\ (hops' = hops + 1 => s < r)
  <2>1. PICK a \in Int, b \in Int :
          a = hops /\ b = hops' /\ 1 <= a /\ a <= h /\ 1 <= b /\ b <= h
    BY <1>1 DEF Types
  <2>2. h - a \in 0 .. (h - 1) /\ h - b \in 0 .. (h - 1)
    <3>1. 1 <= a /\ a <= h /\ 1 <= b /\ b <= h
      BY <2>1
    <3> QED
      BY <3>1, Remaining
  <2>3. b = a + 1 => h - b < h - a
    <3>1. b = a + 1 => a < b
      OBVIOUS
    <3> QED
      BY <3>1, Remaining
  <2>4. h - a = HopLimit - hops /\ h - b = HopLimit - hops'
    BY <1>1, <2>1
  <2> QED
    BY <2>1, <2>2, <2>3, <2>4
<1>3. Standing \in Nat /\ Standing' \in Nat
  BY DEF Standing
<1>4. \/ Standing' < Standing
      \/ Standing' = Standing /\ hops' = hops + 1
  BY DEF Standing, Agents
<1>5. Nodes = Of(h, Standing, r) /\ Nodes' = Of(h, Standing', s)
  BY <1>1, <1>2 DEF Nodes
<1> QED
  BY <1>1, <1>2, <1>3, <1>4, <1>5, OfLess

\* An edge leads on or ends the run.
LEMMA GoesLess ==
  ASSUME Types, Types', NEW to \in Agents \cup {"end"}, Goes(to), at \in Agents
  PROVE  ToDo' < ToDo
<1>1. \/ at' \in Agents /\ hops' = hops + 1
      \/ at' \in {"end", "raised"}
  BY DEF Goes, Agents
<1> QED
  BY <1>1, NodeLeft, DigitFalls

\* Every step leaves less, and the shell is told when the run is over.
LEMMA StepLess ==
  ASSUME Types, Types', Over, Next
  PROVE  ToDo' < ToDo /\ Over'
<1>1. CASE Retry
  <2>1. /\ at \in Agents /\ at' = at /\ hops' = hops /\ exit' = exit /\ pytest' = pytest
        /\ turns' = turns /\ tries' = tries + 1
    BY <1>1 DEF Retry, Calling, Agent, Agents
  <2>2. Nodes' = Nodes /\ Standing' = Standing /\ tries < tries'
    BY <2>1 DEF Nodes, Standing, Types
  <2> QED
    BY <2>1, <2>2, DigitFalls DEF Over
<1>2. CASE GiveUp
  <2>1. at \in Agents /\ at' = "raised" /\ exit' \in {1, 3}
    BY <1>2 DEF GiveUp, Calling, Agents
  <2> QED
    BY <2>1, NodeLeft, DigitFalls DEF Over, Standing, Agents
<1>3. ASSUME NEW to \in Agents \cup {"end"}, Goes(to), at \in Agents
      PROVE  ToDo' < ToDo /\ Over'
  <2>1. exit = None
    BY <1>3 DEF Over, Standing
  <2>2. Over'
    BY <1>3, <2>1 DEF Over, Standing, Goes, Agents
  <2> QED
    BY <1>3, <2>2, GoesLess
<1>4. ASSUME NEW price \in Prices, Plans(price) \/ Designs(price)
      PROVE  ToDo' < ToDo /\ Over'
  <2>1. CASE Plans(price)
    BY <1>3, <2>1 DEF Plans, Agents
  <2>2. CASE Designs(price) /\ ~config.dry
    BY <1>3, <2>2 DEF Designs, Agents
  <2>3. CASE Designs(price) /\ config.dry
    <3>1. at \in Agents /\ at' = "done" /\ exit' = 0
      BY <2>3 DEF Designs, Agents
    <3> QED
      BY <3>1, NodeLeft, DigitFalls DEF Over, Standing, Agents
  <2> QED
    BY <1>4, <2>1, <2>2, <2>3
<1>5. ASSUME NEW price \in Prices, at = "coder", Coded(price)
      PROVE  ToDo' < ToDo /\ Over'
  BY <1>3, <1>5 DEF Coded, AfterCoder, Agents
<1>6. ASSUME NEW price \in Prices, NEW files \in SUBSET Kinds, CodesOn(files, price)
      PROVE  ToDo' < ToDo /\ Over'
  <2>1. CASE Coded(price)
    BY <1>5, <1>6, <2>1 DEF CodesOn
  <2>2. CASE ~Coded(price)
    <3>1. /\ at' = at /\ hops' = hops /\ exit' = exit /\ pytest' = pytest /\ turns' = turns + 1
      BY <1>6, <2>2 DEF CodesOn, Turn
    <3>2. Nodes' = Nodes /\ Standing' = Standing /\ turns < turns'
      BY <3>1 DEF Nodes, Standing, Types
    <3> QED
      BY <3>1, <3>2, DigitFalls DEF Over
  <2> QED
    BY <2>1, <2>2
<1>7. ASSUME NEW route, at \in Agents, Goes(Heads(route))
      PROVE  ToDo' < ToDo /\ Over'
  <2>1. Heads(route) \in Agents \cup {"end"}
    BY DEF Heads, Agents
  <2> QED
    BY <1>3, <1>7, <2>1
<1>8. CASE ReviewsNothing
  BY <1>7, <1>8 DEF ReviewsNothing, Reviewed, Agents
<1>9. ASSUME NEW price \in Prices, NEW v \in Verdicts, Reviews(v, price)
      PROVE  ToDo' < ToDo /\ Over'
  BY <1>7, <1>9 DEF Reviews, Reviewed, Agents
<1>10. ASSUME NEW price \in Prices, Diagnoses(price)
       PROVE  ToDo' < ToDo /\ Over'
  BY <1>7, <1>10 DEF Diagnoses, Checked, Agents
<1>11. CASE TestsPass
  BY <1>7, <1>11 DEF TestsPass, Checked, Agents
<1>12. CASE TestsFail
  <2>1. /\ at' = at /\ hops' = hops /\ exit' = exit /\ pytest = "idle" /\ pytest' = "failed"
    BY <1>12 DEF TestsFail
  <2>2. Nodes' = Nodes /\ Standing' = Standing
    BY <2>1 DEF Nodes, Standing
  <2> QED
    BY <2>1, <2>2, DigitFalls DEF Over
<1>13. CASE Reports
  <2>1. at = "end" /\ at' = "done" /\ exit' \in {0, 1}
    BY <1>13 DEF Reports
  <2> QED
    BY <2>1, NodeLeft, DigitFalls DEF Over, Standing, Agents
<1>14. ASSUME NEW price \in Prices, CodesLast(price) PROVE ToDo' < ToDo /\ Over'
  BY <1>5, <1>14 DEF CodesLast
<1> QED
  BY <1>1, <1>2, <1>4, <1>6, <1>8, <1>9, <1>10, <1>11, <1>12, <1>13, <1>14 DEF Next

(***************************************************************************)
(* The loops of the graph, the retries and the tool calls are all bounded: *)
(* every step of a run uses up some of what it had left to do, whatever    *)
(* the models answer and the limits are.  It ends in a state in which it   *)
(* has told the shell.                                                     *)
(***************************************************************************)
THEOREM StepsRunOut == Spec => [](ToDo \in Nat /\ Over) /\ [][ToDo' < ToDo]_vars
<1>1. Init => Over
  BY DEF Init, Over, Standing, Agents
<1>2. Inv /\ Inv' /\ Over /\ [Next]_vars => Over' /\ [ToDo' < ToDo]_vars
  <2> SUFFICES ASSUME Inv, Inv', Over, [Next]_vars PROVE Over' /\ [ToDo' < ToDo]_vars
    OBVIOUS
  <2>1. CASE Next
    BY <2>1, StepLess DEF Inv
  <2>2. CASE UNCHANGED vars
    BY <2>2 DEF vars, Over, Standing
  <2> QED
    BY <2>1, <2>2
<1>3. Inv => ToDo \in Nat
  BY DigitsAre DEF Inv, Digits
<1> QED
  BY <1>1, <1>2, <1>3, Invariance, PTL DEF Spec

-----------------------------------------------------------------------------
(***************************************************************************)
(* The bets and their settlement.                                          *)
(***************************************************************************)

\* The main bet of a plan, if it has one.
Bets(i) ==
  {Nil} \cup {OnTeam(Favorite(i), n) : n \in {2, 4, 6}}
         \cup {OnGoals(s, i.totals) : s \in {"over", "under"}}

LEMMA BetsOfPlans ==
  ASSUME NEW i
  PROVE  Recommend(i).bet \in Bets(i)
<1>1. ASSUME NEW s PROVE Selection(i, s) \in Bets(i)
  BY DEF Selection, Bets
<1>2. Nil \in Bets(i)
  BY DEF Bets
<1> QED
  BY <1>1, <1>2 DEF Recommend

\* A line bookmakers offer is a number of quarters.
LEMMA WholeQuarters ==
  ASSUME NEW line \in Int, Quarter \in Nat \ {0}, line % Quarter = 0
  PROVE  line \div Quarter \in Int /\ line = Quarter * (line \div Quarter)
  OBVIOUS

\* How far the multiples of a number are from zero.
LEMMA Multiples ==
  ASSUME NEW q \in Nat \ {0}, NEW n \in Int
  PROVE  /\ q * n \in Int /\ (n > 0 => q * n >= q) /\ (n > 1 => q * n >= q + q)
         /\ (n < 0 => q * n <= -q) /\ (n < -1 => q * n <= - q - q)
         /\ (n = 0 => q * n = 0) /\ (n = 1 => q * n = q) /\ (n = -1 => q * n = -q)
<1>1. q * n \in Int
  OBVIOUS
<1>2. ASSUME n > 0 PROVE q * n >= q
  <2>1. PICK k \in Nat : n = k + 1
    BY <1>2
  <2>2. q * k \in Nat
    OBVIOUS
  <2>3. q * n = q * k + q
    BY <2>1
  <2> QED
    BY <2>2, <2>3
<1>3. ASSUME n > 1 PROVE q * n >= q + q
  <2>1. PICK k \in Nat : n = k + 2
    BY <1>3
  <2>2. q * k \in Nat
    OBVIOUS
  <2>3. q * n = q * k + q + q
    BY <2>1
  <2> QED
    BY <2>2, <2>3
<1>4. ASSUME n < 0 PROVE q * n <= -q
  <2>1. PICK k \in Nat : n = -k - 1
    BY <1>4
  <2>2. q * k \in Nat
    OBVIOUS
  <2>3. q * n = - (q * k) - q
    BY <2>1
  <2> QED
    BY <2>2, <2>3
<1>5. ASSUME n < -1 PROVE q * n <= - q - q
  <2>1. PICK k \in Nat : n = -k - 2
    BY <1>5
  <2>2. q * k \in Nat
    OBVIOUS
  <2>3. q * n = - (q * k) - q - q
    BY <2>1
  <2> QED
    BY <2>2, <2>3
<1> QED
  BY <1>1, <1>2, <1>3, <1>4, <1>5

\* Whole quarters divide evenly.
LEMMA WholeTimes ==
  ASSUME NEW q \in Nat \ {0}, NEW n \in Int
  PROVE  (q * n) % q = 0
  OBVIOUS

\* A bet at an offered line is settled as half the stake at each of the lines next to it.
LEMMA TwoHalves ==
  ASSUME Quarter \in Nat \ {0}, NEW goals \in Int, NEW line \in Int, line % Quarter = 0
  PROVE  LET apart == IF (line \div Quarter) % 2 = 1 THEN Quarter ELSE 0
             ahead == InUnits(goals) + line
         IN  Returned(Outcome(ahead)) = Half(ahead - apart) + Half(ahead + apart)
<1>1. PICK k \in Int : k = line \div Quarter /\ line = Quarter * k
  BY WholeQuarters
<1>2. PICK n \in Int : n = 4 * goals + k
  OBVIOUS
<1>3. PICK lead \in Int : lead = Quarter * n
  OBVIOUS
<1>4. InUnits(goals) + line = lead
  BY <1>1, <1>2, <1>3 DEF InUnits
<1>5. /\ (n > 0 => lead >= Quarter) /\ (n > 1 => lead >= Quarter + Quarter)
      /\ (n < 0 => lead <= - Quarter) /\ (n < -1 => lead <= - Quarter - Quarter)
      /\ (n = 0 => lead = 0) /\ (n = 1 => lead = Quarter) /\ (n = -1 => lead = - Quarter)
  BY <1>3, Multiples
<1> DEFINE Settled(apart) == Returned(Outcome(lead)) = Half(lead - apart) + Half(lead + apart)
<1>6. CASE k % 2 = 1
  <2>1. n = 1 \/ n = -1 \/ n > 1 \/ n < -1
    BY <1>2, <1>6
  <2>2. Settled(Quarter)
    BY <1>5, <2>1 DEF Returned, Outcome, Half
  <2> QED
    BY <1>1, <1>4, <1>6, <2>2
<1>7. CASE k % 2 # 1
  <2>1. n = 0 \/ n > 1 \/ n < -1
    BY <1>2, <1>7
  <2>2. Settled(0)
    BY <1>5, <2>1 DEF Returned, Outcome, Half
  <2> QED
    BY <1>1, <1>4, <1>7, <2>2
<1> QED
  BY <1>6, <1>7

-----------------------------------------------------------------------------
(***************************************************************************)
(* The allocation.  Capped takes a cut that is built pick by pick.         *)
(***************************************************************************)
Cuts(shares, keys, cap, cut) ==
  cut = [n \in 0..Len(shares) |->
           IF n = 0 THEN <<>>
           ELSE Append(cut[n - 1], Lesser(shares[n], Left(cut[n - 1], n, keys, cap)))]

\* There is such a function: one for the picks up to n can be continued.
LEMMA CutsExist ==
  ASSUME NEW shares \in Seq(Nat), NEW keys, NEW cap
  PROVE  \E cut : Cuts(shares, keys, cap, cut)
<1> DEFINE More(c, n) == Append(c, Lesser(shares[n], Left(c, n, keys, cap)))
           Upto(m, cut) == cut = [n \in 0..m |-> IF n = 0 THEN <<>> ELSE More(cut[n - 1], n)]
           N == {m \in Nat : \E cut : Upto(m, cut)}
<1>1. 0 \in N
  <2> DEFINE cut == [n \in 0..0 |-> <<>>]
  <2>1. Upto(0, cut)
    BY SMT
  <2> QED
    BY <2>1
<1>2. ASSUME NEW m \in N PROVE m + 1 \in N
  <2>1. m \in Nat
    OBVIOUS
  <2>2. PICK cut : Upto(m, cut)
    OBVIOUS
  <2> DEFINE next == [n \in 0..(m + 1) |-> IF n = 0 THEN <<>>
                                           ELSE IF n = m + 1 THEN More(cut[m], n)
                                           ELSE cut[n]]
  <2> HIDE DEF More
  <2>3. \A n \in 0..m : next[n] = IF n = 0 THEN <<>> ELSE cut[n]
    BY <2>1
  <2>4. \A n \in 0..m : cut[n] = IF n = 0 THEN <<>> ELSE More(cut[n - 1], n)
    BY <2>2
  <2>5. \A n \in 0..m : next[n] = cut[n]
    BY <2>1, <2>3, <2>4
  <2>6. \A n \in 0..(m + 1) : n # 0 => n - 1 \in 0..m
    BY <2>1
  <2>7. ASSUME NEW n \in 0..(m + 1)
        PROVE  next[n] = IF n = 0 THEN <<>> ELSE More(next[n - 1], n)
    <3>1. CASE n = 0
      BY <2>1, <3>1
    <3>2. CASE n = m + 1
      <4>1. n # 0 /\ n - 1 = m /\ m \in 0..m
        BY <2>1, <3>2
      <4>2. next[n] = More(cut[m], n)
        BY <3>2, <4>1
      <4> QED
        BY <2>5, <4>1, <4>2
    <3>3. CASE n # 0 /\ n # m + 1
      <4>1. n \in 0..m /\ n - 1 \in 0..m
        BY <2>1, <3>3
      <4>2. next[n] = More(cut[n - 1], n)
        BY <2>4, <2>5, <3>3, <4>1
      <4> QED
        BY <2>5, <3>3, <4>1, <4>2
    <3> QED
      BY <3>1, <3>2, <3>3
  <2>8. Upto(m + 1, next)
    <3>1. DOMAIN next = 0..(m + 1) /\ next = [n \in 0..(m + 1) |-> next[n]]
      OBVIOUS
    <3> HIDE DEF next
    <3> QED
      BY <2>7, <3>1
  <2> HIDE DEF next, Upto
  <2>9. m + 1 \in Nat /\ \E c : Upto(m + 1, c)
    BY <2>1, <2>8
  <2> QED
    BY <2>9
<1>3. Len(shares) \in N
  <2>1. N \in SUBSET Nat /\ Len(shares) \in Nat
    OBVIOUS
  <2> HIDE DEF N
  <2> QED
    BY <1>1, <1>2, <2>1, UpwardInduction
<1> QED
  BY <1>3 DEF Cuts

\* A cut of n picks: none takes more than its share, and those with one key no more than cap.
CutWithin(c, n, shares, keys, cap) ==
  /\ c \in Seq(Nat) /\ Len(c) = n
  /\ \A k \in 1..n : c[k] <= shares[k]
  /\ \A key : SumFunctionOnSet(c, {k \in 1..n : keys[k] = key}) <= cap

\* One pick more is cut to what the others leave.
LEMMA CutGoesOn ==
  ASSUME NEW m \in Nat, NEW shares \in Seq(Nat), m + 1 <= Len(shares), NEW keys, NEW cap \in Nat,
         NEW c, CutWithin(c, m, shares, keys, cap)
  PROVE  CutWithin(Append(c, Lesser(shares[m + 1], Left(c, m + 1, keys, cap))), m + 1,
                   shares, keys, cap)
<1> DEFINE Alike(key) == {k \in 1..m : keys[k] = key}
           taken == SumFunctionOnSet(c, Alike(keys[m + 1]))
<1>1. c \in Seq(Nat) /\ Len(c) = m /\ DOMAIN c = 1..m /\ \A k \in 1..m : c[k] \in Nat
  BY DEF CutWithin
<1>2. \A key : IsFiniteSet(Alike(key)) /\ SumFunctionOnSet(c, Alike(key)) \in Int
               /\ SumFunctionOnSet(c, Alike(key)) <= cap
  <2> TAKE key
  <2>1. IsFiniteSet(Alike(key))
    <3>1. IsFiniteSet(1..m) /\ Alike(key) \subseteq 1..m
      BY FS_Interval
    <3> QED
      BY <3>1, FS_Subset
  <2>2. \A k \in Alike(key) : c[k] \in Int
    BY <1>1
  <2>3. SumFunctionOnSet(c, Alike(key)) <= cap
    BY DEF CutWithin
  <2> HIDE DEF Alike
  <2> QED
    BY <2>1, <2>2, <2>3, SumType
<1>3. PICK v : v = Lesser(shares[m + 1], Left(c, m + 1, keys, cap))
  OBVIOUS
<1>4. Left(c, m + 1, keys, cap) = IF cap > taken THEN cap - taken ELSE 0
  BY <1>1 DEF Left
<1>5. shares[m + 1] \in Nat
  OBVIOUS
<1>6. v \in Nat /\ v <= shares[m + 1] /\ v + taken <= cap
  <2>1. taken \in Int /\ taken <= cap
    BY <1>2
  <2> HIDE DEF taken
  <2> QED
    BY <1>3, <1>4, <1>5, <2>1 DEF Lesser
<1>7. PICK d : d = Append(c, v)
  OBVIOUS
<1>8. /\ d \in Seq(Nat) /\ Len(d) = m + 1 /\ d[m + 1] = v
      /\ \A k \in 1..m : d[k] = c[k]
  BY <1>1, <1>6, <1>7
<1>9. \A k \in 1..(m + 1) : d[k] <= shares[k]
  <2> TAKE k \in 1..(m + 1)
  <2>1. CASE k = m + 1
    BY <1>6, <1>8, <2>1
  <2>2. CASE k # m + 1
    <3>1. k \in 1..m
      BY <2>2
    <3> QED
      BY <1>8, <3>1 DEF CutWithin
  <2> QED
    BY <2>1, <2>2
<1>10. ASSUME NEW key
       PROVE  SumFunctionOnSet(d, {k \in 1..(m + 1) : keys[k] = key}) <= cap
  <2>1. SumFunctionOnSet(d, Alike(key)) = SumFunctionOnSet(c, Alike(key))
    <3>1. \A k \in Alike(key) : c[k] \in Int /\ d[k] = c[k]
      BY <1>1, <1>8
    <3> HIDE DEF Alike
    <3> QED
      BY <1>2, <3>1, SumSame
  <2>2. CASE keys[m + 1] # key
    <3>1. {k \in 1..(m + 1) : keys[k] = key} = Alike(key)
      BY <2>2
    <3> QED
      BY <1>2, <2>1, <3>1
  <2>3. CASE keys[m + 1] = key
    <3>1. {k \in 1..(m + 1) : keys[k] = key} = Alike(key) \cup {m + 1}
      BY <2>3
    <3>2. m + 1 \notin Alike(key) /\ \A k \in Alike(key) \cup {m + 1} : d[k] \in Int
      BY <1>1, <1>6, <1>8
    <3>3. SumFunctionOnSet(d, Alike(key) \cup {m + 1}) = v + SumFunctionOnSet(d, Alike(key))
      <4> HIDE DEF Alike
      <4> QED
        BY <1>2, <1>8, <3>2, SumAdd
    <3>4. SumFunctionOnSet(c, Alike(key)) = taken
      BY <2>3
    <3> HIDE DEF Alike, taken
    <3> QED
      BY <1>2, <1>6, <2>1, <3>1, <3>3, <3>4
  <2> QED
    BY <2>2, <2>3
<1> QED
  BY <1>3, <1>7, <1>8, <1>9, <1>10 DEF CutWithin

\* What Capped returns.
LEMMA CappedWithin ==
  ASSUME NEW shares \in Seq(Nat), NEW keys, NEW cap \in Nat
  PROVE  CutWithin(Capped(shares, keys, cap), Len(shares), shares, keys, cap)
<1> DEFINE cut == CHOOSE h : Cuts(shares, keys, cap, h)
<1>1. Capped(shares, keys, cap) = cut[Len(shares)]
  BY Zenon DEF Capped, Cuts
<1>2. Cuts(shares, keys, cap, cut)
  BY CutsExist
<1> HIDE DEF cut
<1> DEFINE N == {m \in Nat : m <= Len(shares) => CutWithin(cut[m], m, shares, keys, cap)}
<1>3. \A n \in 0..Len(shares) :
        cut[n] = IF n = 0 THEN <<>>
                 ELSE Append(cut[n - 1], Lesser(shares[n], Left(cut[n - 1], n, keys, cap)))
  BY <1>2 DEF Cuts
<1>4. 0 \in N
  <2>1. cut[0] = <<>>
    <3>1. Len(shares) \in Nat /\ 0 \in 0..Len(shares)
      OBVIOUS
    <3> QED
      BY <1>3, <3>1
  <2>2. \A key : {k \in 1..0 : keys[k] = key} = {}
    OBVIOUS
  <2>3. \A key : SumFunctionOnSet(<<>>, {k \in 1..0 : keys[k] = key}) <= cap
    BY <2>2, SumEmpty
  <2>4. <<>> \in Seq(Nat) /\ Len(<<>>) = 0
    OBVIOUS
  <2>5. CutWithin(<<>>, 0, shares, keys, cap)
    BY <2>3, <2>4 DEF CutWithin
  <2> QED
    BY <2>1, <2>5
<1>5. ASSUME NEW m \in N PROVE m + 1 \in N
  <2>1. m \in Nat
    OBVIOUS
  <2>2. ASSUME m + 1 <= Len(shares) PROVE CutWithin(cut[m + 1], m + 1, shares, keys, cap)
    <3>1. m <= Len(shares) /\ m + 1 \in 0..Len(shares) /\ m + 1 # 0 /\ m + 1 - 1 = m
      BY <2>1, <2>2
    <3>2. cut[m + 1] = Append(cut[m], Lesser(shares[m + 1], Left(cut[m], m + 1, keys, cap)))
      <4>1. PICK n : n = m + 1 /\ n \in 0..Len(shares) /\ n # 0 /\ n - 1 = m
        BY <3>1
      <4>2. cut[n] = Append(cut[m], Lesser(shares[n], Left(cut[m], n, keys, cap)))
        BY <1>3, <4>1
      <4> QED
        BY <4>1, <4>2
    <3>3. CutWithin(cut[m], m, shares, keys, cap)
      BY <3>1
    <3> QED
      BY <2>1, <2>2, <3>2, <3>3, CutGoesOn
  <2> QED
    BY <2>1, <2>2
<1>6. Len(shares) \in N
  <2>1. N \in SUBSET Nat /\ Len(shares) \in Nat
    OBVIOUS
  <2> HIDE DEF N
  <2> QED
    BY <1>4, <1>5, <2>1, UpwardInduction
<1> QED
  BY <1>1, <1>6

-----------------------------------------------------------------------------
(***************************************************************************)
(* The book.                                                               *)
(***************************************************************************)

\* A match has a classification of this scenario, no younger than when.
Explained(m, scenario, when) ==
  \E c \in classifications : c.match = m /\ c.at <= when /\ c.scenario = scenario

CommandInv ==
  /\ matches \in [MatchIds -> Inputs \cup {Nil}]
  /\ command # Nil =>
       /\ command \in [match : MatchIds, input : Inputs, step : 1..3]
       /\ command.step \in {2, 3} => matches[command.match] = command.input
       /\ command.step = 3 =>
            Explained(command.match, Classify(command.input).scenario, now)

PlansInv ==
  /\ now \in Nat /\ IsFiniteSet(recommendations)
  /\ \A c \in classifications : c.at \in Nat
  /\ \A row \in recommendations :
       /\ row.at \in Nat /\ row.at <= now
       /\ \E i \in Inputs : row.plan = Recommend(i)
       /\ Explained(row.match, row.plan.scenario, row.at)

\* The latest plan of a match is that of the file saved last, unless that one was cut short.
LatestFor(m, input) ==
  \E row \in PlansOf(m) :
    /\ row.plan = Recommend(input)
    /\ \A other \in PlansOf(m) : other = row \/ other.at < row.at

SavedInv == \A m \in MatchIds \ resaved : matches[m] # Nil => LatestFor(m, matches[m])

\* A review was of a plan, at the score and the match that were known then.
ReviewOfPlan(r) ==
  /\ r.input \in Inputs /\ r.score \in Scores
  /\ r.main = Settle(r.input, r.bet, r.score[1], r.score[2])
  /\ \E i \in Inputs : r.bet \in Bets(i) /\ (~ r.resaved => i = r.input)

ReviewsInv ==
  /\ DOMAIN results = MatchIds
  /\ \A m \in MatchIds : results[m] # Nil => ReviewOfPlan(results[m]) /\ CountedUnder(m) # {}

BookInv == CommandInv /\ PlansInv /\ SavedInv /\ ReviewsInv

\* The plan a review settles is in the book.
LEMMA LatestIsAPlan ==
  ASSUME PlansInv, NEW m, PlansOf(m) # {}
  PROVE  \E row \in recommendations :
           /\ row.match = m /\ LatestPlan(m) = row.plan
           /\ \A other \in PlansOf(m) : other.at <= row.at
<1> DEFINE S == PlansOf(m)
           f == [row \in S |-> row.at]
<1>1. S \subseteq recommendations /\ \A row \in S : row.match = m /\ row.at \in Nat
  BY DEF PlansOf, PlansInv
<1>2. IsFiniteSet(S)
  BY <1>1, FS_Subset DEF PlansInv
<1>3. \A row \in S : f[row] = row.at /\ f[row] \in Int
  BY <1>1
<1>4. \E row \in S : \A other \in S : f[other] <= f[row]
  <2>1. S \in SUBSET S /\ S # {}
    OBVIOUS
  <2> HIDE DEF S, f
  <2> QED
    BY <1>2, <1>3, <2>1, LargestExists
<1>5. \E row \in PlansOf(m) : \A other \in PlansOf(m) : other.at <= row.at
  BY <1>3, <1>4
<1> DEFINE row == CHOOSE row \in PlansOf(m) : \A other \in PlansOf(m) : other.at <= row.at
<1>6. row \in PlansOf(m) /\ \A other \in PlansOf(m) : other.at <= row.at
  BY <1>5
<1>7. LatestPlan(m) = row.plan
  BY DEF LatestPlan
<1> QED
  BY <1>1, <1>6, <1>7

\* What goes before still holds: the latest plan of a match is as its file has it.
LEMMA LatestIsOfFile ==
  ASSUME PlansInv, NEW m, NEW input, LatestFor(m, input)
  PROVE  LatestPlan(m) = Recommend(input)
<1>1. PICK row \in PlansOf(m) :
        /\ row.plan = Recommend(input)
        /\ \A other \in PlansOf(m) : other = row \/ other.at < row.at
  BY DEF LatestFor
<1>2. PICK latest \in recommendations :
        /\ latest.match = m /\ LatestPlan(m) = latest.plan
        /\ \A other \in PlansOf(m) : other.at <= latest.at
  BY <1>1, LatestIsAPlan
<1>3. latest \in PlansOf(m) /\ row \in recommendations
  BY <1>1, <1>2 DEF PlansOf
<1>4. row.at <= latest.at /\ (latest = row \/ latest.at < row.at)
  BY <1>1, <1>2, <1>3
<1>5. row.at \in Nat /\ latest.at \in Nat
  BY <1>3 DEF PlansInv
<1>6. latest = row
  BY <1>4, <1>5
<1> QED
  BY <1>1, <1>2, <1>6

LEMMA BookAtFirst == TigerInit => BookInv
<1> SUFFICES ASSUME TigerInit PROVE BookInv
  OBVIOUS
<1>1. CommandInv
  BY DEF TigerInit, CommandInv
<1>2. PlansInv
  BY FS_EmptySet DEF TigerInit, PlansInv
<1>3. SavedInv
  BY DEF TigerInit, SavedInv
<1>4. ReviewsInv
  BY DEF TigerInit, ReviewsInv
<1> QED
  BY <1>1, <1>2, <1>3, <1>4 DEF BookInv

\* Nothing that only lets time pass or drops the command disturbs the book.
LEMMA BookKept ==
  ASSUME BookInv, now' \in Nat, now <= now', UNCHANGED book, command' \in {command, Nil}
  PROVE  BookInv'
<1> UNCHANGED <<matches, classifications, recommendations, results, resaved>>
  BY DEF book
<1>1. CommandInv'
  <2>1. CASE command' = Nil
    BY <2>1 DEF BookInv, CommandInv
  <2>2. CASE command' # Nil
    <3>1. command' = command /\ command # Nil
      BY <2>2
    <3>2. ASSUME command.step = 3
          PROVE  Explained(command.match, Classify(command.input).scenario, now)'
      <4>1. \E c \in classifications :
              /\ c.match = command.match /\ c.at <= now
              /\ c.scenario = Classify(command.input).scenario
        BY <3>1, <3>2 DEF BookInv, CommandInv, Explained
      <4>2. \A c \in classifications : c.at \in Nat /\ now \in Nat
        BY DEF BookInv, PlansInv
      <4>3. \A c \in classifications : c.at <= now => c.at <= now'
        BY <4>2
      <4> QED
        BY <3>1, <4>1, <4>3 DEF Explained
    <3>3. /\ command \in [match : MatchIds, input : Inputs, step : 1..3]
          /\ matches \in [MatchIds -> Inputs \cup {Nil}]
          /\ command.step \in {2, 3} => matches[command.match] = command.input
      BY <3>1 DEF BookInv, CommandInv
    <3> QED
      BY <3>1, <3>2, <3>3 DEF CommandInv
  <2> QED
    BY <2>1, <2>2
<1>2. PlansInv'
  <2>1. \A row \in recommendations : row.at \in Nat /\ row.at <= now /\ now \in Nat
    BY DEF BookInv, PlansInv
  <2>2. \A row \in recommendations : row.at <= now'
    BY <2>1
  <2> QED
    BY <2>2 DEF BookInv, PlansInv, Explained
<1>3. SavedInv'
  BY DEF BookInv, SavedInv, LatestFor, PlansOf
<1>4. ReviewsInv'
  BY DEF BookInv, ReviewsInv, ReviewOfPlan, CountedUnder
<1> QED
  BY <1>1, <1>2, <1>3, <1>4 DEF BookInv

\* A match is saved as the one the command was given.
LEMMA BookKeptBySaveMatch ==
  ASSUME BookInv, SaveMatch
  PROVE  BookInv'
<1>1. PICK c : c = command
  OBVIOUS
<1>2. c \in [match : MatchIds, input : Inputs, step : 1..3] /\ Saves[c.step] = "match"
  BY <1>1 DEF BookInv, CommandInv, SaveMatch, Saving
<1>3. c.step = 1
  BY <1>2 DEF Saves
<1>4. /\ matches' = [matches EXCEPT ![c.match] = c.input] /\ command' = [c EXCEPT !.step = 2]
      /\ resaved' = resaved \cup {c.match}
      /\ UNCHANGED <<now, classifications, recommendations, results>>
  BY <1>1, <1>3 DEF SaveMatch, Saved, Saves
<1>5. CommandInv'
  <2>1. PICK d : d = [c EXCEPT !.step = 2]
    OBVIOUS
  <2>2. /\ d \in [match : MatchIds, input : Inputs, step : 1..3]
        /\ d.match = c.match /\ d.input = c.input /\ d.step = 2
    BY <1>2, <2>1
  <2>3. matches \in [MatchIds -> Inputs \cup {Nil}]
    BY DEF BookInv, CommandInv
  <2>4. matches' \in [MatchIds -> Inputs \cup {Nil}] /\ matches'[c.match] = c.input
    BY <1>2, <1>4, <2>3
  <2> QED
    BY <1>4, <2>1, <2>2, <2>4 DEF CommandInv
<1>6. PlansInv'
  BY <1>4 DEF BookInv, PlansInv, Explained
<1>7. SavedInv'
  <2>1. \A m \in MatchIds \ resaved' : m \notin resaved /\ matches'[m] = matches[m]
    BY <1>2, <1>4 DEF BookInv, CommandInv
  <2> QED
    BY <1>4, <2>1 DEF BookInv, SavedInv, LatestFor, PlansOf
<1>8. ReviewsInv'
  BY <1>4 DEF BookInv, ReviewsInv, ReviewOfPlan, CountedUnder
<1> QED
  BY <1>5, <1>6, <1>7, <1>8 DEF BookInv

\* A classification explains the plan that the command goes on to save.
LEMMA BookKeptBySaveClassification ==
  ASSUME BookInv, SaveClassification
  PROVE  BookInv'
<1>1. PICK c : c = command
  OBVIOUS
<1>2. c \in [match : MatchIds, input : Inputs, step : 1..3]
      /\ Saves[c.step] = "classification"
  BY <1>1 DEF BookInv, CommandInv, SaveClassification, Saving
<1>3. c.step = 2
  BY <1>2 DEF Saves
<1> DEFINE new == [match |-> c.match, at |-> now, scenario |-> Classify(c.input).scenario]
<1>4. /\ classifications' = classifications \cup {new}
      /\ command' = [c EXCEPT !.step = 3]
      /\ UNCHANGED <<now, matches, recommendations, results, resaved>>
  BY <1>1, <1>3 DEF SaveClassification, Saved, Saves
<1>5. now \in Nat /\ \A d \in classifications' : d.at \in Nat
  BY <1>4 DEF BookInv, PlansInv
<1>6. CommandInv'
  <2>1. PICK d : d = [c EXCEPT !.step = 3]
    OBVIOUS
  <2>2. /\ d \in [match : MatchIds, input : Inputs, step : 1..3]
        /\ d.match = c.match /\ d.input = c.input
    BY <1>2, <2>1
  <2>3. \E e \in classifications' :
          e.match = d.match /\ e.at <= now /\ e.scenario = Classify(d.input).scenario
    <3>1. /\ new \in classifications' /\ new.match = d.match /\ new.at = now
          /\ new.scenario = Classify(d.input).scenario
      BY <1>4, <2>2
    <3>2. now <= now
      BY <1>5
    <3> HIDE DEF new
    <3> QED
      BY <3>1, <3>2
  <2>4. matches[d.match] = d.input /\ matches \in [MatchIds -> Inputs \cup {Nil}]
    BY <1>1, <1>2, <1>3, <2>2 DEF BookInv, CommandInv, SaveClassification, Saving
  <2> QED
    BY <1>4, <2>1, <2>2, <2>3, <2>4 DEF CommandInv, Explained
<1>7. PlansInv'
  BY <1>4, <1>5 DEF BookInv, PlansInv, Explained
<1>8. SavedInv'
  BY <1>4 DEF BookInv, SavedInv, LatestFor, PlansOf
<1>9. ReviewsInv'
  BY <1>4 DEF BookInv, ReviewsInv, ReviewOfPlan, CountedUnder
<1> QED
  BY <1>6, <1>7, <1>8, <1>9 DEF BookInv

\* The plan is that of the file that was classified, and the latest of its match.
LEMMA BookKeptBySaveRecommendation ==
  ASSUME BookInv, SaveRecommendation
  PROVE  BookInv'
<1>1. PICK c : c = command
  OBVIOUS
<1>2. c \in [match : MatchIds, input : Inputs, step : 1..3]
      /\ Saves[c.step] = "recommendation"
  BY <1>1 DEF BookInv, CommandInv, SaveRecommendation, Saving
<1>3. c.step = 3
  BY <1>2 DEF Saves
<1>4. /\ Explained(c.match, Classify(c.input).scenario, now)
      /\ matches[c.match] = c.input
  BY <1>1, <1>3 DEF BookInv, CommandInv, SaveRecommendation, Saving
<1> DEFINE new == [match |-> c.match, at |-> now, plan |-> Recommend(c.input)]
<1>5. /\ recommendations' = recommendations \cup {new}
      /\ command' = Nil /\ resaved' = resaved \ {c.match}
      /\ \A row \in recommendations : row.match = c.match => row.at # now
      /\ UNCHANGED <<now, matches, classifications, results>>
  BY <1>1, <1>3 DEF SaveRecommendation, Saved, Saves, Taken
<1>6. CommandInv'
  BY <1>5 DEF BookInv, CommandInv
<1>7. PICK row : row = new
  OBVIOUS
<1>8. /\ row.match = c.match /\ row.at = now /\ row.plan = Recommend(c.input)
      /\ recommendations' = recommendations \cup {row}
  BY <1>5, <1>7
<1>9. now \in Nat /\ \A other \in recommendations : other.at \in Nat /\ other.at <= now
  BY DEF BookInv, PlansInv
<1> HIDE DEF new
<1>10. PlansInv'
  <2>1. row.plan.scenario = Classify(c.input).scenario
    <3>1. \A i : Recommend(i).scenario = Classify(i).scenario
      BY DEF Recommend
    <3> QED
      BY <1>8, <3>1
  <2>2. /\ row.at \in Nat /\ row.at <= now /\ (\E i \in Inputs : row.plan = Recommend(i))
        /\ Explained(row.match, row.plan.scenario, row.at)
    <3>1. row.at \in Nat /\ row.at <= now
      BY <1>8, <1>9
    <3> QED
      BY <1>2, <1>4, <1>8, <2>1, <3>1
  <2>3. IsFiniteSet(recommendations \cup {row})
    BY FS_AddElement DEF BookInv, PlansInv
  <2> QED
    BY <1>5, <1>8, <2>2, <2>3 DEF BookInv, PlansInv, Explained
<1>11. SavedInv'
  <2> SUFFICES ASSUME NEW m \in MatchIds \ resaved', matches'[m] # Nil
               PROVE  LatestFor(m, matches[m])'
    BY DEF SavedInv
  <2>1. CASE m = c.match
    <3>1. \A other \in PlansOf(m)' : other = row \/ other.at < row.at
      <4> SUFFICES ASSUME NEW other \in recommendations, other.match = m
                   PROVE  other.at < row.at
        BY <1>8 DEF PlansOf
      <4>1. other.at # now /\ other.at \in Nat /\ other.at <= now /\ now \in Nat
        BY <1>5, <1>9, <2>1
      <4> QED
        BY <1>8, <4>1
    <3>2. row \in PlansOf(m)' /\ row.plan = Recommend(matches'[m])
      BY <1>4, <1>5, <1>8, <2>1 DEF PlansOf
    <3> QED
      BY <3>1, <3>2 DEF LatestFor
  <2>2. CASE m # c.match
    <3>1. m \notin resaved /\ matches[m] # Nil
      BY <1>5, <2>2
    <3>2. LatestFor(m, matches[m])
      BY <3>1 DEF BookInv, SavedInv
    <3>3. PlansOf(m)' = PlansOf(m)
      BY <1>8, <2>2 DEF PlansOf
    <3> QED
      BY <1>5, <3>2, <3>3 DEF LatestFor
  <2> QED
    BY <2>1, <2>2
<1>12. ReviewsInv'
  BY <1>5 DEF BookInv, ReviewsInv, ReviewOfPlan, CountedUnder
<1> QED
  BY <1>6, <1>10, <1>11, <1>12 DEF BookInv

\* A review is of a plan of the match, which a classification explains; unless the match was
\* cut short since, it is the plan of the match as it is saved.
LEMMA BookKeptByReview ==
  ASSUME BookInv, NEW m \in MatchIds, NEW score \in Scores, Review(m, score)
  PROVE  BookInv'
<1>1. PICK plan : plan = LatestPlan(m)
  OBVIOUS
<1>2. PICK row \in recommendations : row.match = m /\ plan = row.plan
  BY <1>1, LatestIsAPlan DEF Review, BookInv
<1>3. PICK r : r = [score |-> score, input |-> matches[m], bet |-> plan.bet, resaved |-> m \in resaved,
                    correct |-> Classify(matches[m]).scenario = plan.scenario,
                    main |-> Settle(matches[m], plan.bet, score[1], score[2])]
  OBVIOUS
<1>4. /\ results' = [results EXCEPT ![m] = r] /\ matches[m] # Nil
      /\ UNCHANGED <<now, matches, classifications, recommendations, command, resaved>>
  BY <1>1, <1>3 DEF Review
<1>5. ReviewOfPlan(r)
  <2>1. /\ r.score = score /\ r.input = matches[m] /\ r.bet = plan.bet
        /\ r.main = Settle(matches[m], plan.bet, score[1], score[2])
        /\ r.resaved = (m \in resaved)
    BY <1>3
  <2>2. matches[m] \in Inputs
    BY <1>4 DEF BookInv, CommandInv
  <2>3. \E i \in Inputs : r.bet \in Bets(i) /\ (~ r.resaved => i = r.input)
    <3>1. CASE m \in resaved
      <4>1. PICK i \in Inputs : plan = Recommend(i)
        BY <1>2 DEF BookInv, PlansInv
      <4>2. plan.bet \in Bets(i)
        BY <4>1, BetsOfPlans
      <4> QED
        BY <2>1, <3>1, <4>2
    <3>2. CASE m \notin resaved
      <4>1. LatestFor(m, matches[m])
        BY <1>4, <3>2 DEF BookInv, SavedInv
      <4>2. plan = Recommend(matches[m])
        BY <1>1, <4>1, LatestIsOfFile DEF BookInv
      <4>3. plan.bet \in Bets(matches[m])
        BY <4>2, BetsOfPlans
      <4> QED
        BY <2>1, <2>2, <4>3
    <3> QED
      BY <3>1, <3>2
  <2> QED
    BY <2>1, <2>2, <2>3 DEF ReviewOfPlan
<1>6. CountedUnder(m) # {}
  <2>1. \E c \in classifications : c.match = m
    BY <1>2 DEF BookInv, PlansInv, Explained
  <2> QED
    BY <2>1 DEF CountedUnder
<1>7. CommandInv'
  BY <1>4 DEF BookInv, CommandInv, Explained
<1>8. PlansInv'
  BY <1>4 DEF BookInv, PlansInv, Explained
<1>9. SavedInv'
  BY <1>4 DEF BookInv, SavedInv, LatestFor, PlansOf
<1>10. ReviewsInv'
  <2>1. DOMAIN results = MatchIds
    BY DEF BookInv, ReviewsInv
  <2>2. results'[m] = r /\ \A n \in MatchIds \ {m} : results'[n] = results[n]
    BY <1>4, <2>1
  <2>3. DOMAIN results' = MatchIds
    BY <1>4, <2>1
  <2>4. \A n \in MatchIds : results'[n] # Nil => ReviewOfPlan(results'[n]) /\ CountedUnder(n) # {}
    <3> TAKE n \in MatchIds
    <3>1. CASE n = m
      BY <1>5, <1>6, <2>2, <3>1
    <3>2. CASE n # m
      BY <2>2, <3>2 DEF BookInv, ReviewsInv
    <3> QED
      BY <3>1, <3>2
  <2> QED
    BY <1>4, <2>3, <2>4 DEF ReviewsInv, ReviewOfPlan, CountedUnder
<1> QED
  BY <1>7, <1>8, <1>9, <1>10 DEF BookInv

LEMMA BookStep == BookInv /\ [TigerNext]_tigerVars => BookInv'
<1> SUFFICES ASSUME BookInv, [TigerNext]_tigerVars PROVE BookInv'
  OBVIOUS
<1>1. now \in Nat
  BY DEF BookInv, PlansInv
<1>2. CASE Tick
  BY <1>1, <1>2, BookKept DEF Tick
<1>3. ASSUME NEW m \in MatchIds, NEW input \in Inputs, Analyze(m, input) PROVE BookInv'
  <2>1. CommandInv'
    BY <1>3 DEF Analyze, BookInv, CommandInv, book
  <2>2. PlansInv'
    BY <1>3 DEF Analyze, BookInv, PlansInv, Explained, book
  <2>3. SavedInv'
    BY <1>3 DEF Analyze, BookInv, SavedInv, LatestFor, PlansOf, book
  <2>4. ReviewsInv'
    BY <1>3 DEF Analyze, BookInv, ReviewsInv, ReviewOfPlan, CountedUnder, book
  <2> QED
    BY <2>1, <2>2, <2>3, <2>4 DEF BookInv
<1>4. CASE Stops
  <2>1. now' \in Nat /\ now <= now'
    BY <1>1, <1>4 DEF Stops
  <2> QED
    BY <1>4, <2>1, BookKept DEF Stops
<1>5. CASE UNCHANGED tigerVars
  <2>1. now' \in Nat /\ now <= now'
    BY <1>1, <1>5 DEF tigerVars
  <2> QED
    BY <1>5, <2>1, BookKept DEF tigerVars
<1> QED
  BY <1>2, <1>3, <1>4, <1>5, BookKeptBySaveMatch, BookKeptBySaveClassification,
     BookKeptBySaveRecommendation, BookKeptByReview DEF TigerNext

\* The book holds together however analyses are cut short.
THEOREM BookHolds == TigerSpec => []BookInv
<1>1. TigerInit => BookInv
  BY BookAtFirst
<1>2. BookInv /\ [TigerNext]_tigerVars => BookInv'
  BY BookStep
<1> QED
  BY <1>1, <1>2, PTL DEF TigerSpec

\* Every plan of the book, and so every review, has a classification of its scenario.
THEOREM PlansAlwaysExplained == TigerSpec => []PlanExplained
<1>1. BookInv => PlanExplained
  BY DEF BookInv, PlansInv, ReviewsInv, Explained, PlanExplained
<1> QED
  BY <1>1, BookHolds, PTL

\* What a main bet of the file returns, at its own line, for the side it backs.
LEMMA BetsSettle ==
  ASSUME NEW i \in Inputs, NEW bet \in Bets(i), bet # Nil, Offered(bet.line),
         NEW home \in Int, NEW away \in Int, NEW score, score[1] = home, score[2] = away,
         NEW side, side = (IF bet.market = "totals" THEN bet.side
                           ELSE IF bet.team = i.home THEN "home" ELSE "away"),
         NEW line, line = (IF side = "over" THEN - bet.line ELSE bet.line),
         NEW lead, lead = InUnits(Lead(side, score)) + line
  PROVE  LET apart == IF (line \div Quarter) % 2 = 1 THEN Quarter ELSE 0
         IN  Returned(Settle(i, bet, home, away)) = Half(lead - apart) + Half(lead + apart)
<1>1. Quarter \in Nat \ {0} /\ i.totals \in Int
  BY FilesAssumption
<1>2. /\ bet.line \in Int
      /\ \/ bet.market = "AH"
         \/ bet.market = "totals" /\ bet.side \in {"over", "under"} /\ bet.line = i.totals
  <2>1. ASSUME NEW n \in {2, 4, 6}, bet = OnTeam(Favorite(i), n)
        PROVE  bet.market = "AH" /\ bet.line \in Int
    BY <1>1, <2>1 DEF OnTeam
  <2>2. ASSUME NEW s \in {"over", "under"}, bet = OnGoals(s, i.totals)
        PROVE  bet.market = "totals" /\ bet.side \in {"over", "under"} /\ bet.line = i.totals
    BY <2>2 DEF OnGoals
  <2> QED
    BY <1>1, <2>1, <2>2 DEF Bets
<1>3. line \in Int
  BY <1>2
<1>4. line % Quarter = 0
  <2>1. bet.line % Quarter = 0
    BY DEF Offered
  <2>2. PICK k \in Int : bet.line = Quarter * k
    BY <1>1, <1>2, <2>1, WholeQuarters
  <2>3. \A n \in Int : (Quarter * n) % Quarter = 0
    BY <1>1, WholeTimes
  <2>4. line = Quarter * k \/ line = Quarter * (-k)
    BY <1>1, <1>2, <2>2
  <2> QED
    BY <2>2, <2>3, <2>4
<1>5. PICK goals \in Int : goals = Lead(side, score)
  BY <1>2 DEF Lead
<1>6. Settle(i, bet, home, away) = Outcome(lead)
  <2>1. CASE bet.market = "AH"
    BY <1>2, <2>1 DEF Settle, Lead
  <2>2. CASE bet.market = "totals" /\ bet.side = "over"
    <3>1. goals = home + away /\ line = - i.totals /\ side = "over"
      BY <1>2, <1>5, <2>2 DEF Lead
    <3>2. lead = InUnits(home + away) - i.totals
      <4>1. InUnits(home + away) \in Int
        BY <1>1 DEF InUnits
      <4> QED
        BY <1>1, <1>5, <3>1, <4>1
    <3> QED
      BY <2>2, <3>2 DEF Settle
  <2>3. CASE bet.market = "totals" /\ bet.side = "under"
    <3>1. goals = -(home + away) /\ line = i.totals /\ side = "under"
      BY <1>2, <1>5, <2>3 DEF Lead
    <3>2. lead = i.totals - InUnits(home + away)
      <4>1. PICK sum \in Int : sum = home + away
        OBVIOUS
      <4>2. InUnits(-sum) = - InUnits(sum) /\ InUnits(sum) \in Int
        BY <1>1 DEF InUnits
      <4> QED
        BY <1>1, <1>5, <3>1, <4>1, <4>2
    <3> QED
      BY <2>3, <3>2 DEF Settle
  <2> QED
    BY <1>2, <2>1, <2>2, <2>3
<1>7. LET apart == IF (line \div Quarter) % 2 = 1 THEN Quarter ELSE 0
          ahead == InUnits(goals) + line
      IN  Returned(Outcome(ahead)) = Half(ahead - apart) + Half(ahead + apart)
  BY <1>1, <1>3, <1>4, TwoHalves
<1> QED
  BY <1>5, <1>6, <1>7, Zenon

\* A review settles the bet of the saved plan as half the stake at each of the two lines next
\* to the bet's own, for the team or the side it backed.
THEOREM ReviewsSettleAsTwoHalves == TigerSpec => []SettledAsTwoHalves
<1>1. BookInv => SettledAsTwoHalves
  <2> SUFFICES ASSUME BookInv, NEW m \in MatchIds, NEW r, r = results[m],
                      r # Nil, r.bet # Nil, Offered(r.bet.line), ~ r.resaved
               PROVE  AsTwoHalves(r)
    BY DEF SettledAsTwoHalves
  <2>1. ReviewOfPlan(r)
    BY DEF BookInv, ReviewsInv
  <2>2. PICK i \in Inputs : i = r.input
    BY <2>1 DEF ReviewOfPlan
  <2>3. PICK bet : bet = r.bet
    OBVIOUS
  <2>4. bet \in Bets(i)
    BY <2>1, <2>2, <2>3 DEF ReviewOfPlan
  <2>5. PICK score : score = r.score
    OBVIOUS
  <2>6. PICK home, away : home \in Int /\ away \in Int /\ score[1] = home /\ score[2] = away
    BY <2>1, <2>5, FilesAssumption DEF ReviewOfPlan
  <2>7. PICK side : side = IF bet.market = "totals" THEN bet.side
                           ELSE IF bet.team = i.home THEN "home" ELSE "away"
    OBVIOUS
  <2>8. side \in Backed(r)
    <3>1. CASE bet.market = "totals"
      BY <2>3, <2>7, <3>1 DEF Backed
    <3>2. CASE bet.market # "totals"
      <4>1. bet.team = Favorite(i)
        BY <2>3, <2>4, <3>2 DEF Bets, OnTeam, OnGoals
      <4>2. i.favorite \in {"home", "away"} /\ i[i.favorite] = bet.team
        BY <4>1, FilesAssumption DEF Favorite
      <4>3. side \in {"home", "away"} /\ i[side] = bet.team
        BY <2>7, <3>2, <4>2
      <4> QED
        BY <2>2, <2>3, <3>2, <4>3 DEF Backed
    <3> QED
      BY <3>1, <3>2
  <2>9. PICK line, lead :
          /\ line = (IF side = "over" THEN - bet.line ELSE bet.line)
          /\ lead = InUnits(Lead(side, score)) + line
    OBVIOUS
  <2>10. LET apart == IF (line \div Quarter) % 2 = 1 THEN Quarter ELSE 0
         IN  Returned(Settle(i, bet, home, away)) = Half(lead - apart) + Half(lead + apart)
    BY <2>3, <2>4, <2>6, <2>7, <2>9, BetsSettle
  <2>11. r.main = Settle(i, bet, home, away)
    BY <2>1, <2>2, <2>3, <2>5, <2>6 DEF ReviewOfPlan
  <2> QED
    BY <2>3, <2>5, <2>8, <2>9, <2>10, <2>11 DEF AsTwoHalves
<1> QED
  BY <1>1, BookHolds, PTL

-----------------------------------------------------------------------------
(***************************************************************************)
(* The caps on several bets.                                               *)
(***************************************************************************)

\* A plan asks for a share of the bankroll.
LEMMA SharesOfPlans ==
  ASSUME NEW i \in Inputs, NEW half \in BOOLEAN
  PROVE  Requested(Recommend(i), half) \in Nat
<1> DEFINE adjustments == {"downgrade", "normal", "upgrade", "skip"}
<1>1. \A c : Evaluate(i, c) \in adjustments
  BY DEF Evaluate
<1>2. Classify(i).confidence \in {0, 40, 90}
  BY DEF Classify
<1>3. ASSUME NEW confidence \in {0, 40, 90}, NEW adjustment
      PROVE  PickLevel(confidence, adjustment) \in {"A+", "A", "B", "C", "D"}
  BY <1>3 DEF PickLevel, Levels
<1>4. ASSUME NEW level \in {"A+", "A", "B", "C", "D"}, NEW adjustment \in adjustments
      PROVE  Share(level, adjustment) \in Nat
  BY <1>4 DEF Share, Bands, Band
<1>5. PICK level, adjustment :
        /\ Recommend(i).level = level /\ Recommend(i).adjustment = adjustment
        /\ level \in {"A+", "A", "B", "C", "D"} /\ adjustment \in adjustments
  BY <1>1, <1>2, <1>3 DEF Recommend
<1>6. Share(level, adjustment) \in Nat
  BY <1>4, <1>5
<1> QED
  BY <1>5, <1>6 DEF Requested

\* Picks of one key take no more than the cap together.
Within(c, n, keys, cap) == \A key : SumFunctionOnSet(c, {k \in 1..n : keys[k] = key}) <= cap

\* What keeps a cap keeps it when no pick takes more.
LEMMA StillWithin ==
  ASSUME NEW n \in Nat, NEW keys, NEW cap \in Nat,
         NEW c \in [1..n -> Nat], NEW d \in [1..n -> Nat], \A k \in 1..n : d[k] <= c[k],
         Within(c, n, keys, cap)
  PROVE  Within(d, n, keys, cap)
<1> SUFFICES ASSUME NEW key
             PROVE  SumFunctionOnSet(d, {k \in 1..n : keys[k] = key}) <= cap
  BY DEF Within
<1> DEFINE S == {k \in 1..n : keys[k] = key}
<1>1. IsFiniteSet(S)
  <2>1. IsFiniteSet(1..n) /\ S \subseteq 1..n
    BY FS_Interval
  <2> QED
    BY <2>1, FS_Subset
<1>2. \A k \in S : c[k] \in Int /\ d[k] \in Int /\ d[k] <= c[k]
  OBVIOUS
<1>3. SumFunctionOnSet(c, S) <= cap
  BY DEF Within
<1> HIDE DEF S
<1>4. SumFunctionOnSet(d, S) <= SumFunctionOnSet(c, S)
  BY <1>1, <1>2, SumMonotone
<1>5. SumFunctionOnSet(d, S) \in Int /\ SumFunctionOnSet(c, S) \in Int
  BY <1>1, <1>2, SumType
<1> QED
  BY <1>3, <1>4, <1>5 DEF S

\* What Capped leaves of shares, as a function.
LEMMA CappedShares ==
  ASSUME NEW n \in Nat, NEW shares \in [1..n -> Nat], NEW keys, NEW cap \in Nat,
         NEW c, c = Capped(shares, keys, cap)
  PROVE  /\ c \in [1..n -> Nat] /\ \A k \in 1..n : c[k] <= shares[k]
         /\ Within(c, n, keys, cap)
<1>1. shares \in Seq(Nat) /\ Len(shares) = n
  OBVIOUS
<1>2. CutWithin(c, n, shares, keys, cap)
  BY <1>1, CappedWithin
<1>3. c \in [1..n -> Nat]
  BY <1>2 DEF CutWithin
<1> QED
  BY <1>2, <1>3 DEF CutWithin, Within

\* The picks of one allocation are distinct plans of the book.
LEMMA PicksAsk ==
  ASSUME BookInv, NEW chosen \in UNION {kSubset(k, Picks) : k \in 1..MaxPicks},
         NEW picks \in SetToSeqs(chosen), NEW half \in BOOLEAN
  PROVE  /\ DOMAIN picks = 1..Cardinality(chosen) /\ Cardinality(chosen) \in Nat
         /\ \A k \in DOMAIN picks : Requested(picks[k], half) \in Nat
<1>1. chosen \subseteq Picks
  BY DEF kSubset
<1>2. IsFiniteSet(Picks)
  <2> DEFINE S == {rec \in recommendations : rec.plan.bet # Nil}
  <2>1. IsFiniteSet(S)
    <3>1. S \subseteq recommendations /\ IsFiniteSet(recommendations)
      BY DEF BookInv, PlansInv
    <3> QED
      BY <3>1, FS_Subset
  <2>2. Picks = {row.plan : row \in S}
    BY DEF Picks
  <2> HIDE DEF S
  <2> DEFINE f == [row \in S |-> row.plan]
  <2>3. f \in Surjection(S, Picks)
    BY <2>2 DEF Surjection
  <2> HIDE DEF f
  <2> QED
    BY <2>1, <2>3, FS_Surjection
<1>3. IsFiniteSet(chosen) /\ Cardinality(chosen) \in Nat
  BY <1>1, <1>2, FS_Subset, FS_CardinalityType
<1>4. DOMAIN picks = 1..Cardinality(chosen) /\ \A k \in DOMAIN picks : picks[k] \in chosen
  BY <1>3, Enumerates
<1>5. ASSUME NEW k \in DOMAIN picks PROVE Requested(picks[k], half) \in Nat
  <2>1. picks[k] \in Picks
    BY <1>1, <1>4
  <2>2. PICK i \in Inputs : picks[k] = Recommend(i)
    BY <2>1 DEF Picks, BookInv, PlansInv
  <2> QED
    BY <2>2, SharesOfPlans
<1> QED
  BY <1>3, <1>4, <1>5

\* However the bets of the book are put together, they keep every cap.
THEOREM ExposureAlwaysWithinCaps == TigerSpec => []ExposureWithinCaps
<1>1. ASSUME BookInv, NEW chosen \in UNION {kSubset(k, Picks) : k \in 1..MaxPicks},
             NEW picks \in SetToSeqs(chosen), NEW half \in BOOLEAN,
             NEW final, final = OptimizeStakes(picks, half)
      PROVE  /\ SumFunctionOnSet(final, DOMAIN picks) <= Caps.day
             /\ \A n \in DOMAIN picks :
                  /\ final[n] \in 0..Requested(picks[n], half)
                  /\ SumFunctionOnSet(final, {k \in DOMAIN picks :
                                              picks[k].scenario = picks[n].scenario})
                       <= Caps.scenario
                  /\ SumFunctionOnSet(final, {k \in DOMAIN picks :
                                              Group(picks[k]) = Group(picks[n])})
                       <= Caps.group
  <2>1. PICK size \in Nat : DOMAIN picks = 1..size
    BY <1>1, PicksAsk
  <2>2. \A k \in 1..size : Requested(picks[k], half) \in Nat
    BY <1>1, <2>1, PicksAsk
  <2>3. Caps.scenario \in Nat /\ Caps.group \in Nat /\ Caps.day \in Nat
    BY DEF Caps
  <2>4. PICK requested, scenarios, groups, oneDay :
          /\ requested = [n \in 1..size |-> Requested(picks[n], half)]
          /\ scenarios = [n \in 1..size |-> Scenario(picks[n])]
          /\ groups = [n \in 1..size |-> Group(picks[n])]
          /\ oneDay = [n \in 1..size |-> "day"]
    OBVIOUS
  <2>5. PICK first : first = Capped(requested, scenarios, Caps.scenario)
    OBVIOUS
  <2>6. PICK second : second = Capped(first, groups, Caps.group)
    OBVIOUS
  <2>7. final = Capped(second, oneDay, Caps.day)
    BY <1>1, <2>1, <2>4, <2>5, <2>6 DEF OptimizeStakes
  <2>8. requested \in [1..size -> Nat]
    BY <2>2, <2>4
  <2>9. /\ first \in [1..size -> Nat] /\ \A k \in 1..size : first[k] <= requested[k]
        /\ Within(first, size, scenarios, Caps.scenario)
    BY <2>3, <2>5, <2>8, CappedShares
  <2>10. /\ second \in [1..size -> Nat] /\ \A k \in 1..size : second[k] <= first[k]
         /\ Within(second, size, groups, Caps.group)
    BY <2>3, <2>6, <2>9, CappedShares
  <2>11. /\ final \in [1..size -> Nat] /\ \A k \in 1..size : final[k] <= second[k]
         /\ Within(final, size, oneDay, Caps.day)
    BY <2>3, <2>7, <2>10, CappedShares
  <2>12. \A k \in 1..size : final[k] <= first[k] /\ final[k] <= requested[k]
    <3> TAKE k \in 1..size
    <3>1. /\ final[k] \in Nat /\ second[k] \in Nat /\ first[k] \in Nat /\ requested[k] \in Nat
          /\ final[k] <= second[k] /\ second[k] <= first[k] /\ first[k] <= requested[k]
      BY <2>8, <2>9, <2>10, <2>11
    <3> QED
      BY <3>1
  <2>13. Within(final, size, scenarios, Caps.scenario)
    BY <2>3, <2>9, <2>11, <2>12, StillWithin
  <2>14. Within(final, size, groups, Caps.group)
    BY <2>3, <2>10, <2>11, StillWithin
  <2>15. SumFunctionOnSet(final, DOMAIN picks) <= Caps.day
    <3>1. {k \in 1..size : oneDay[k] = "day"} = DOMAIN picks
      BY <2>1, <2>4
    <3> QED
      BY <2>11, <3>1 DEF Within
  <2>16. ASSUME NEW n \in DOMAIN picks
         PROVE  /\ final[n] \in 0..Requested(picks[n], half)
                /\ SumFunctionOnSet(final, {k \in DOMAIN picks :
                                            picks[k].scenario = picks[n].scenario})
                     <= Caps.scenario
                /\ SumFunctionOnSet(final, {k \in DOMAIN picks :
                                            Group(picks[k]) = Group(picks[n])}) <= Caps.group
    <3>1. final[n] \in Nat /\ requested[n] \in Nat /\ final[n] <= requested[n]
          /\ requested[n] = Requested(picks[n], half)
      BY <2>1, <2>4, <2>8, <2>11, <2>12
    <3>2. {k \in DOMAIN picks : picks[k].scenario = picks[n].scenario}
            = {k \in 1..size : scenarios[k] = scenarios[n]}
      BY <2>1, <2>4 DEF Scenario
    <3>3. {k \in DOMAIN picks : Group(picks[k]) = Group(picks[n])}
            = {k \in 1..size : groups[k] = groups[n]}
      BY <2>1, <2>4
    <3>4. SumFunctionOnSet(final, {k \in 1..size : scenarios[k] = scenarios[n]})
            <= Caps.scenario
      BY <2>13 DEF Within
    <3>5. SumFunctionOnSet(final, {k \in 1..size : groups[k] = groups[n]}) <= Caps.group
      BY <2>14 DEF Within
    <3>6. final[n] \in 0..Requested(picks[n], half)
      BY <3>1
    <3> QED
      BY <3>2, <3>3, <3>4, <3>5, <3>6, Zenon
  <2> QED
    BY <2>15, <2>16
<1>2. BookInv => ExposureWithinCaps
  <2> SUFFICES ASSUME BookInv PROVE ExposureWithinCaps
    OBVIOUS
  <2> QED
    BY <1>1 DEF ExposureWithinCaps
<1> QED
  BY <1>2, BookHolds, PTL

=============================================================================
