------------------------------ MODULE Members -------------------------------
(***************************************************************************)
(* The members' records: who they are, and who brought them.               *)
(*   services/customers_service.py   create, patch and soft delete         *)
(*   services/campaigns_service.py   the first spin, _resolve_or_create    *)
(*   services/referral_service.py    ensure_referral_code, attribute       *)
(*   services/membership_service.py  grant_welcome_bonus                   *)
(* A member inserted by a request bears its name.  The rows are read       *)
(* without a lock; partial unique indexes on the handles, the codes and    *)
(* the referred member stand behind what was looked up.                    *)
(***************************************************************************)
EXTENDS Naturals, FiniteSets, Turns

CONSTANTS
  Requests,   \* HTTP requests
  Busy,       \* bound: requests in flight at once
  MemberOf,   \* the members that exist at first: the phone and the LINE id of each
  Handles,    \* what a caller may be known by: [phone, line]
  Codes,      \* referral codes
  None

\* What the constants are: StoreDay assumes it.
MembersAssumption ==
  /\ Busy \in Nat \ {0} /\ DOMAIN MemberOf \cap Requests = {}
  /\ {None, "inserted"} \cap (DOMAIN MemberOf \cup Requests \cup Codes) = {} /\ None # "inserted"
  /\ \A h \in Handles \cup {MemberOf[m] : m \in DOMAIN MemberOf} : DOMAIN h = {"phone", "line"}
  /\ \A m, n \in DOMAIN MemberOf : m # n => \A f \in {"phone", "line"} :
       MemberOf[m][f] = None \/ MemberOf[m][f] # MemberOf[n][f]

Ids == DOMAIN MemberOf \cup Requests

VARIABLES
  member,   \* the customers: phone, line, code, live
  edge,     \* of each member, who referred it
  gifts,    \* the one-time grants in each member's ledger
  visit,    \* the requests
  before    \* history: see Turns

vars == <<member, edge, gifts, visit, before>>

NoMember == [phone |-> None, line |-> None, code |-> None, live |-> FALSE]

\* A request: the member it is about or the handles and the code it came with; what it
\* found; what it is answered with.
Fresh == [op |-> None, on |-> None, handles |-> NoMember, ref |-> None,
          step |-> "new", found |-> None, answer |-> None]

Init ==
  /\ member = [m \in Ids |-> IF m \in DOMAIN MemberOf
                             THEN [With(MemberOf[m], NoMember) EXCEPT !.live = TRUE] ELSE NoMember]
  /\ edge = [m \in Ids |-> None]
  /\ gifts = [m \in Ids |-> {}]
  /\ visit = [r \in Requests |-> Fresh]
  /\ before = [r \in Requests |-> {}]
-----------------------------------------------------------------------------
InFlight == {r \in Requests : visit[r].step \notin {"new", "done"}}
Enrolled == {m \in Ids : m \in DOMAIN MemberOf \/ visit[m].found = "inserted"}

\* The members of which a given handle is one; a handle that is not given matches none.
Known(h) ==
  {m \in Ids : /\ member[m].live
               /\ \E f \in DOMAIN h : h[f] # None /\ member[m][f] = h[f]}

Begin(r, job) ==
  /\ visit[r].step = "new" /\ Cardinality(InFlight) < Busy
  /\ visit' = [visit EXCEPT ![r] = With(job, [Fresh EXCEPT !.step = "begun"])]
  /\ before' = [before EXCEPT ![r] = {q \in Requests : visit[q].step = "done"}]
  /\ UNCHANGED <<member, edge, gifts>>

\* create_customer is given a name and any handles; a spin at least one, and a code.
BeginEnrol(r) ==
  \E op \in {"create", "spin"}, h \in Handles, c \in Codes \cup {None} :
    /\ op = "create" => c = None
    /\ Begin(r, [op |-> op, handles |-> h, ref |-> c])

\* A member's page: patched, even after its deletion; deleted; asked for its code.
BeginOn(r) ==
  \E m \in Enrolled :
    \/ \E h \in Handles : Begin(r, [op |-> "patch", on |-> m, handles |-> h])
    \/ \E op \in {"delete", "code"} : Begin(r, [op |-> op, on |-> m])

Found(r, what, step) ==
  /\ visit' = [visit EXCEPT ![r].found = what, ![r].step = step]
  /\ UNCHANGED <<member, edge, gifts, before>>

Answer(r, found, a) ==
  visit' = [visit EXCEPT ![r].step = "done", ![r].found = found, ![r].answer = a]

\* The handles a request changes: all those of a new row, of a page those that differ from
\* the row as it is loaded.
Changed(h, row) ==
  [f \in {x \in {"phone", "line"} : h[x] \notin {None, row[x]}} |-> h[f]]

\* _reject_duplicate_handles.
LookUpHandles(r) ==
  LET v == visit[r]
      new == Changed(v.handles, IF v.op = "create" THEN NoMember ELSE member[v.on])
  IN  /\ v.step = "begun" /\ v.op \in {"create", "patch"}
      /\ Known(new) \subseteq {v.on}
      /\ visit' = [visit EXCEPT ![r].handles = new, ![r].step = "ready"]
      /\ UNCHANGED <<member, edge, gifts, before>>

\* _resolve_or_create_customer: a member that is known spins as such ...
Recognise(r) ==
  LET v == visit[r]
  IN  /\ v.step = "begun" /\ v.op = "spin"
      /\ \E m \in Ids : Known(v.handles) = {m} /\ Answer(r, None, m)
      /\ UNCHANGED <<member, edge, gifts, before>>

\* ... a new one is inserted, and its referrer looked up by the code.
LookUpReferrer(r) ==
  LET v == visit[r]
      referrers == {m \in Ids : member[m].live /\ member[m].code = v.ref /\ v.ref # None}
  IN  /\ v.step = "begun" /\ v.op = "spin" /\ Known(v.handles) = {}
      /\ \E m \in IF referrers = {} THEN {None} ELSE referrers : Found(r, m, "ready")

LookUpLive(r) ==
  /\ visit[r].step = "begun" /\ visit[r].op = "delete" /\ member[visit[r].on].live
  /\ Found(r, None, "ready")

\* Slip: a code is minted at every call.
NeverMinted(m) == TRUE

Codeless(m) == member[m].code = None

\* ensure_referral_code: the code there is, or one that nobody has.
TellCode(r) ==
  LET m == visit[r].on
  IN  /\ visit[r].step = "begun" /\ visit[r].op = "code" /\ member[m].live /\ ~ Codeless(m)
      /\ visit' = [visit EXCEPT ![r].step = "done", ![r].answer = member[m].code]
      /\ UNCHANGED <<member, edge, gifts, before>>

Candidates == Codes \ {member[m].code : m \in Ids}

MintCode(r) ==
  LET m == visit[r].on
  IN  /\ visit[r].step = "begun" /\ visit[r].op = "code" /\ member[m].live /\ Codeless(m)
      /\ \E c \in Candidates : Found(r, c, "ready")

\* A code that was taken meanwhile is rolled back to the savepoint and another tried.
MintAgain(r) ==
  /\ visit[r].step = "ready" /\ visit[r].op = "code" /\ visit[r].found \notin Candidates
  /\ \E c \in Candidates : Found(r, c, "ready")
-----------------------------------------------------------------------------
\* uq_customers_phone and uq_customers_line, of the rows not deleted; the index on the
\* codes spans all rows.
Unique(rows) ==
  \A m, n \in {k \in Ids : rows[k] # NoMember} : m # n =>
    /\ rows[m].live /\ rows[n].live => \A f \in {"phone", "line"} :
         rows[m][f] = None \/ rows[m][f] # rows[n][f]
    /\ rows[m].code = None \/ rows[m].code # rows[n].code

Insert(r) ==
  member' = [member EXCEPT ![r] = [With(visit[r].handles, NoMember) EXCEPT !.live = TRUE]]

CommitCreate(r) ==
  /\ visit[r].step = "ready" /\ visit[r].op = "create"
  /\ Insert(r) /\ Unique(member')
  /\ Answer(r, "inserted", r) /\ UNCHANGED <<edge, gifts, before>>

\* A new member gets the welcome bonus and, if it was referred, the edge and its gift.
CommitSpin(r) ==
  LET referrer == visit[r].found
  IN  /\ visit[r].step = "ready" /\ visit[r].op = "spin"
      /\ Insert(r) /\ Unique(member')
      /\ edge' = [edge EXCEPT ![r] = referrer]
      /\ gifts' = [gifts EXCEPT ![r] =
                     {"welcome"} \cup IF referrer = None THEN {} ELSE {"referral"}]
      /\ Answer(r, "inserted", r) /\ UNCHANGED before

\* The columns a request changes, on the row as it is by then.
CommitPage(r) ==
  LET v == visit[r]
      m == v.on
      new == CASE v.op = "patch" -> v.handles
               [] v.op = "delete" -> [live |-> FALSE]
               [] v.op = "code" -> [code |-> v.found]
  IN  /\ v.step = "ready" /\ v.op \in {"patch", "delete", "code"}
      /\ member' = [member EXCEPT ![m] = With(new, @)] /\ Unique(member')
      /\ Answer(r, v.found, IF v.op = "code" THEN v.found ELSE None)
      /\ UNCHANGED <<edge, gifts, before>>

\* Not found, a handle that is in use, two members that match, an error, a lost connection.
Rollback(r) ==
  /\ r \in InFlight
  /\ Answer(r, None, None) /\ UNCHANGED <<member, edge, gifts, before>>

Next ==
  \E r \in Requests :
    \/ BeginEnrol(r) \/ BeginOn(r)
    \/ LookUpHandles(r) \/ Recognise(r) \/ LookUpReferrer(r) \/ LookUpLive(r)
    \/ TellCode(r) \/ MintCode(r) \/ MintAgain(r)
    \/ CommitCreate(r) \/ CommitSpin(r) \/ CommitPage(r) \/ Rollback(r)

Spec == Init /\ [][Next]_vars
-----------------------------------------------------------------------------
TypeOK ==
  /\ \A m \in Ids : DOMAIN member[m] = DOMAIN NoMember /\ edge[m] \in Ids \cup {None}
  /\ gifts \in [Ids -> SUBSET {"welcome", "referral"}] /\ before \in [Requests -> SUBSET Requests]

Told(r) == visit[r].op = "code" /\ visit[r].answer # None

\* Two requests for the code of the same member ran together: each may have minted one.
MintedTwice(m) ==
  \E q, t \in Requests : /\ q # t /\ Overlap(before, q, t)
                         /\ \A r \in {q, t} : visit[r].op = "code" /\ visit[r].on = m

(***************************************************************************)
(* "Return the member's referral code, minting a unique one on first use": *)
(* a code that a member was told stays that member's, and brings it every  *)
(* new friend who comes with it while the member is there - unless two     *)
(* requests for the code ran together.  A friend is referred by one        *)
(* member, another than itself, and has the gift for it just when it has a *)
(* referrer.  No phone or LINE id is two live members'.                    *)
(***************************************************************************)
FriendsFollowCodes ==
  /\ \A q \in Requests : Told(q) /\ ~ MintedTwice(visit[q].on) =>
       /\ member[visit[q].on].code = visit[q].answer
       /\ \A r \in Requests :
            /\ visit[r].found = "inserted" /\ visit[r].op = "spin" /\ q \in before[r]
            /\ visit[r].ref = visit[q].answer /\ member[visit[q].on].live
            => edge[r] = visit[q].on
  /\ \A m \in Ids : (edge[m] # None) = ("referral" \in gifts[m]) /\ edge[m] # m
  /\ Unique(member)
=============================================================================
