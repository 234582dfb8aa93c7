------------------------------ MODULE DevSwarm ------------------------------
(***************************************************************************)
(* One run of the devswarm command: PM, Architect, Coder, Reviewer and QA  *)
(* agents in a graph with two edges back to the Coder.                     *)
(*                                                                         *)
(*   src/devswarm/graph.py             the edges                           *)
(*   src/devswarm/state.py             what flows along them               *)
(*   src/devswarm/nodes/*.py           the five agents                     *)
(*   src/devswarm/llm.py               calls, retries, the tool loop       *)
(*   src/devswarm/sandbox.py, workspace.py   files and pytest              *)
(*   src/devswarm/cli.py, hermes.py    exit code, notification             *)
(*                                                                         *)
(* One step is one answer of the model service, one failed attempt to get  *)
(* it, or one run of pytest.  What a model says is any answer the parsers  *)
(* tell apart.  Costs are counted in coins and no further than a limit     *)
(* tells apart (Dear).                                                     *)
(***************************************************************************)
EXTENDS Naturals, FiniteSets, FiniteSetsExt

CONSTANTS
  Configs,        \* [heal, review, budget: Nat, dry: BOOLEAN]: --max-heal, --max-review,
                  \* --budget (0: none) and --dry-run
  Prices,         \* what a call may cost; 0 for a model the price table does not know
  MaxRetries,     \* Config.max_retries
  MaxSteps,       \* turns of the Coder's tool loop (8 in the code)
  HopLimit,       \* recursion_limit (64 in the code)
  None

ASSUME ConfigsAssumption ==
  /\ \A c \in Configs : /\ c.heal \in Nat /\ c.review \in Nat
                        /\ c.budget \in Nat /\ c.dry \in BOOLEAN
  /\ \E c \in Configs : \A d \in Configs : d.budget <= c.budget
ASSUME BoundsAssumption ==
  Prices \subseteq Nat /\ MaxRetries \in Nat /\ MaxSteps \in Nat \ {0} /\ HopLimit \in Nat \ {0}

VARIABLES
  config,         \* the command line
  at,             \* the node that runs, or "end", "done", "raised"
  hops,           \* nodes the graph has started
  swarm,          \* SwarmState
  tries,          \* failed attempts of the call in flight
  turns, spent,   \* the Coder's tool loop: turns taken, cost not yet in the state
  disk,           \* kinds of files in the workspace
  pytest,         \* "failed" while QA asks for a diagnosis
  exit, event,    \* exit code and notification
  sentBy,         \* history: the node before the one that runs
  approved,       \* history: the Reviewer has let pass the files as they are
  green,          \* history: pytest has passed on the files as they are
  why             \* history: what a conditional edge said last

vars == <<config, at, hops, swarm, tries, turns, spent, disk, pytest, exit, event,
          sentBy, approved, green, why>>

Kinds == {"code", "test", "doc"}
Agents == {"pm", "architect", "coder", "reviewer", "qa"}
Labels == {"succeeded", "review_exhausted", "heal_exhausted", "budget_halted", "failed"}

ASSUME NoneAssumption == None \notin Labels

\* The Reviewer's JSON; None when it cannot be parsed.
Verdicts == [verdict : {"PASS", "BLOCK"}, findings : BOOLEAN] \cup {None}

\* No limit of Configs tells higher costs apart.
Dear == Max({c.budget : c \in Configs})
Plus(a, b) == IF a + b > Dear THEN Dear ELSE a + b
Charged(s, price) == [s EXCEPT !.cost = Plus(@, price)]

InitialState ==
  [review_passed |-> FALSE, review_findings |-> FALSE, review_iter |-> 0,
   tests_passed |-> FALSE, heal_iter |-> 0, cost |-> 0]

Init ==
  /\ config \in Configs
  /\ at = "pm" /\ hops = 1 /\ swarm = InitialState
  /\ tries = 0 /\ turns = 0 /\ spent = 0
  /\ disk = {} /\ pytest = "idle" /\ exit = None /\ event = None
  /\ sentBy = None /\ approved = FALSE /\ green = FALSE /\ why = None

-----------------------------------------------------------------------------
(* The edges. *)

OverBudget(s) == config.budget > 0 /\ s.cost >= config.budget

RouteAfterReview(s) ==
  IF s.review_passed THEN "qa"
  ELSE IF s.review_iter >= config.review THEN "review_exhausted"
  ELSE IF OverBudget(s) THEN "budget_halted"
  ELSE "heal"

RouteAfterQA(s) ==
  IF s.tests_passed THEN "succeeded"
  ELSE IF s.heal_iter >= config.heal THEN "heal_exhausted"
  ELSE IF OverBudget(s) THEN "budget_halted"
  ELSE "heal"

Heads(route) == CASE route = "heal" -> "coder" [] route = "qa" -> "qa" [] OTHER -> "end"

\* Slip: what QA sent back is tested again without a review.
StraightToTests == IF sentBy = "qa" THEN "qa" ELSE "reviewer"

AfterCoder == "reviewer"

\* The graph raises where it would start one node too many; a dry run has no graph.
Goes(to) ==
  /\ sentBy' = at
  /\ IF to = "end" \/ hops < HopLimit
     THEN at' = to /\ hops' = hops + (IF to = "end" THEN 0 ELSE 1) /\ UNCHANGED exit
     ELSE at' = "raised" /\ exit' = 3 /\ UNCHANGED hops
  /\ tries' = 0

-----------------------------------------------------------------------------
(* Calls. *)

\* What the Reviewer is shown: Python files, tests among them.
Reviewable == disk \cap {"code", "test"}

\* Nodes that wait for the model service.
Calling ==
  \/ at \in {"pm", "architect", "coder"}
  \/ at = "reviewer" /\ Reviewable # {}
  \/ at = "qa" /\ pytest = "failed"

Agent == <<config, swarm, turns, spent, disk, pytest, event, sentBy, approved, green, why>>

\* A timeout, a 429 or a 5xx, slept on.
Retry ==
  /\ Calling /\ tries < MaxRetries
  /\ tries' = tries + 1
  /\ UNCHANGED <<at, hops, exit>> /\ UNCHANGED Agent

\* The last attempt fails as well, any is answered with another 4xx, or a report is JSON but no
\* object (QA): the graph raises and main prints the error, in a dry run nothing catches it.
GiveUp ==
  /\ Calling
  /\ at' = "raised"
  /\ exit' = IF config.dry THEN 1 ELSE 3
  /\ UNCHANGED <<hops, tries>> /\ UNCHANGED Agent

-----------------------------------------------------------------------------
(* The agents. *)

Plans(price) ==
  /\ at = "pm"
  /\ swarm' = Charged(swarm, price)
  /\ Goes("architect")
  /\ UNCHANGED <<config, turns, spent, disk, pytest, event, approved, green, why>>

Designs(price) ==
  /\ at = "architect"
  /\ swarm' = Charged(swarm, price)
  /\ IF config.dry
     THEN at' = "done" /\ exit' = 0 /\ sentBy' = at /\ tries' = 0 /\ UNCHANGED hops
     ELSE Goes("coder")
  /\ UNCHANGED <<config, turns, spent, disk, pytest, event, approved, green, why>>

\* What the Coder is told to do.
Brief(s) ==
  IF s.heal_iter = 0 THEN "specification"
  ELSE IF ~s.review_passed /\ s.review_findings THEN "findings"
  ELSE "test report"

Coded(price) ==
  /\ swarm' = Charged([swarm EXCEPT !.heal_iter = @ + 1], Plus(spent, price))
  /\ turns' = 0 /\ spent' = 0
  /\ Goes(AfterCoder)

\* Slip: only a turn that wrote something counts.
WritesOnly(files) == IF files = {} THEN turns ELSE turns + 1

Turn(files) == turns + 1

\* A path outside the workspace is refused, so files is what was let through.
Written(files) == disk \cup files

\* A turn with tool calls: files are written as the calls come; after the last turn the loop
\* returns what it has.
CodesOn(files, price) ==
  /\ at = "coder"
  /\ disk' = Written(files)
  /\ approved' = (approved /\ files = {})
  /\ green' = (green /\ files = {})
  /\ \/ /\ Turn(files) < MaxSteps
        /\ turns' = Turn(files) /\ spent' = Plus(spent, price) /\ tries' = 0
        /\ UNCHANGED <<at, hops, swarm, exit, sentBy>>
     \/ Turn(files) = MaxSteps /\ Coded(price)
  /\ UNCHANGED <<config, pytest, event, why>>

\* A turn that ends the loop: text only, or cut off with its tool calls not run.
CodesLast(price) ==
  /\ at = "coder" /\ Coded(price)
  /\ UNCHANGED <<config, disk, pytest, event, approved, green, why>>

Passed(v) == v = None \/ (v # None /\ v.verdict = "PASS" /\ ~v.findings)

\* Slip: a block without a list of findings carries no text.
ListedOnly(v) == v # None /\ ~Passed(v) /\ v.findings

Findings(v) == ~Passed(v)

Reviewed(passes, findings, price) ==
  /\ swarm' = Charged([swarm EXCEPT !.review_passed = passes, !.review_findings = findings,
                                    !.review_iter = @ + 1], price)
  /\ why' = RouteAfterReview(swarm')
  /\ Goes(Heads(why'))
  /\ approved' = passes
  /\ UNCHANGED <<config, turns, spent, disk, pytest, event, green>>

\* No Python file on disk: a block that costs nothing.
ReviewsNothing ==
  /\ at = "reviewer" /\ Reviewable = {}
  /\ Reviewed(FALSE, TRUE, 0)

Reviews(v, price) ==
  /\ at = "reviewer" /\ Reviewable # {}
  /\ Reviewed(Passed(v), Findings(v), price)

Checked(passes, price) ==
  /\ swarm' = Charged([swarm EXCEPT !.tests_passed = passes], price)
  /\ why' = RouteAfterQA(swarm')
  /\ Goes(Heads(why'))
  /\ pytest' = "idle"
  /\ UNCHANGED <<config, turns, spent, disk, event, approved>>

\* pytest exits with 0 only if it found a test; the same files may pass now and fail later.
TestsPass ==
  /\ at = "qa" /\ pytest = "idle" /\ "test" \in disk
  /\ green' = TRUE
  /\ Checked(TRUE, 0)

\* A failing test, no test, or the sandbox's timeout.
TestsFail ==
  /\ at = "qa" /\ pytest = "idle"
  /\ pytest' = "failed" /\ green' = FALSE
  /\ UNCHANGED <<config, at, hops, swarm, tries, turns, spent, disk, exit, event, sentBy,
                 approved, why>>

Diagnoses(price) ==
  /\ at = "qa" /\ pytest = "failed"
  /\ Checked(FALSE, price) /\ UNCHANGED green

-----------------------------------------------------------------------------
(* The end of the run. *)

\* Slip: the order the docstring of _classify describes.
BudgetFirst(s) ==
  IF s.tests_passed THEN "succeeded"
  ELSE IF OverBudget(s) THEN "budget_halted"
  ELSE IF ~s.review_passed /\ s.review_iter >= config.review THEN "review_exhausted"
  ELSE IF s.heal_iter >= config.heal THEN "heal_exhausted"
  ELSE "failed"

LabelOf(s) ==
  IF s.tests_passed THEN "succeeded"
  ELSE IF ~s.review_passed /\ s.review_iter >= config.review THEN "review_exhausted"
  ELSE IF s.heal_iter >= config.heal THEN "heal_exhausted"
  ELSE IF OverBudget(s) THEN "budget_halted"
  ELSE "failed"

\* Hermes is told and the summary printed.
Reports ==
  /\ at = "end"
  /\ at' = "done"
  /\ event' = LabelOf(swarm)
  /\ exit' = IF swarm.tests_passed THEN 0 ELSE 1
  /\ UNCHANGED <<config, hops, swarm, tries, turns, spent, disk, pytest, sentBy, approved,
                 green, why>>

Next ==
  \/ Retry \/ GiveUp
  \/ \E price \in Prices :
       \/ Plans(price) \/ Designs(price)
       \/ \E files \in SUBSET Kinds : CodesOn(files, price)
       \/ CodesLast(price)
       \/ \E v \in Verdicts : Reviews(v, price)
       \/ Diagnoses(price)
  \/ ReviewsNothing \/ TestsPass \/ TestsFail
  \/ Reports

\* The client gives up on a call after request_timeout_sec and the sandbox on pytest after
\* sandbox_timeout_sec, so the process always goes on.
Spec == Init /\ [][Next]_vars /\ WF_vars(Next)

-----------------------------------------------------------------------------
(* Properties. *)

Greatest(a, b) == IF a >= b THEN a ELSE b

\* Types, and the two loops together: a run takes no more passes of the Coder than the larger
\* of its two limits allows, and as many of the Reviewer, though each edge counts its own.
TypeOK ==
  /\ config \in Configs
  /\ at \in Agents \cup {"end", "done", "raised"}
  /\ hops \in 1..HopLimit
  /\ swarm \in [review_passed : BOOLEAN, review_findings : BOOLEAN,
                review_iter : 0..swarm.heal_iter, tests_passed : BOOLEAN,
                heal_iter : 0..Greatest(1, Greatest(config.heal, config.review)),
                cost : 0..Dear]
  /\ tries \in 0..MaxRetries /\ turns \in 0..(MaxSteps - 1) /\ spent \in 0..Dear
  /\ disk \subseteq Kinds /\ pytest \in {"idle", "failed"}
  /\ exit \in {None, 0, 1, 3} /\ event \in Labels \cup {None}

\* A run that reports success leaves files that were let pass by the Reviewer and by pytest
\* after the last of them was written, however often the Coder was sent back.
ReviewedThenTested == event = "succeeded" => approved /\ green /\ exit = 0

\* The Coder works from the complaint that sent it back: the findings of the review that
\* blocked it, or the report of the tests that failed, never an older one.
CoderTold ==
  at = "coder" =>
    Brief(swarm) = CASE sentBy = "architect" -> "specification"
                     [] sentBy = "reviewer" -> "findings"
                     [] sentBy = "qa" -> "test report"

\* The notification names the reason for which the graph stopped, as long as the Coder has no
\* fewer passes than the Reviewer has rounds.
LabelTellsWhy == event # None /\ config.heal >= config.review => event = why

\* Every run ends: the loops, the retries and the tool calls are all bounded.
EveryRunEnds == <>(exit # None)
=============================================================================
