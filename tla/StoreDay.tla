------------------------------ MODULE StoreDay ------------------------------
(***************************************************************************)
(* A day at the store away from the tables: the counter and its cash       *)
(* drawer, what the kitchen and other systems record, the staff's clock,   *)
(* the menu, the members' records and the report of the day.  All but the  *)
(* report write to tables of their own and rest on the same pattern, a     *)
(* look before a write; a behaviour is about one of them, or the report.   *)
(***************************************************************************)
EXTENDS Naturals, FiniteSets, Functions

CONSTANTS
  Requests, Registers, Unnamed, Busy, MaxTime, Docs, RecipeOf, Placeholder, Employees,
  Ins, Outs, Holidays, None,
  Items, Categories, MenuOf, LiveOf, Groups, Parts, OptionOf, DeltaOf, Hours, Jobs,
  OrderIds, ShiftIds, CostIds, Staff, Instants, Bills, Worked, PayOf, RaisedTo,
  FixedMonthly, OnCostRate,
  MemberOf, Handles, Codes,
  Queue,                           \* the requests, in the order in which they may begin
  MaxForms, MaxPunches,  \* bound: requests to the forms and the clock,
  MaxEdits, MaxVisits,   \* ... to the menu and the members' records
  Shifts                 \* bound: what a behaviour is about, one of these sets

VARIABLES now, order, payment, drawer, call, tillBefore, booked, ledger, post, callBefore,
          row, punch, outs, clockBefore,
          item, live, gone, ask, line, span, menuBefore,
          hour, bill, stint, cost, staff,
          member, edge, gifts, visit, deskBefore, shift

till == <<now, order, payment, drawer, call, tillBefore>>
intake == <<booked, ledger, post, callBefore>>
clock == <<row, punch, outs, clockBefore>>
menu == <<item, live, gone, ask, line, span, menuBefore>>
books == <<hour, bill, stint, cost, staff>>
desk == <<member, edge, gifts, visit, deskBefore>>
vars == <<till, intake, clock, menu, books, desk, shift>>

Till == INSTANCE Counter WITH before <- tillBefore
Forms == INSTANCE Intake WITH before <- callBefore
Clock == INSTANCE Attendance WITH before <- clockBefore
Card == INSTANCE Menu WITH before <- menuBefore
Books == INSTANCE DailyPnl WITH now <- hour, order <- bill
Desk == INSTANCE Members WITH before <- deskBefore

ASSUME StoreDayAssumption ==
  /\ Till!CounterAssumption /\ Forms!IntakeAssumption /\ Clock!AttendanceAssumption
  /\ Card!MenuAssumption /\ Desk!MembersAssumption /\ Books!DailyPnlAssumption
  /\ DOMAIN Queue = 1 .. Cardinality(Requests) /\ Range(Queue) = Requests
  /\ MaxForms \in Nat /\ MaxPunches \in Nat /\ MaxEdits \in Nat /\ MaxVisits \in Nat
  /\ Shifts \subseteq SUBSET (Till!Ops \cup {"intake", "clock", "menu", "desk", "books"})

Init ==
  /\ Till!Init /\ Forms!Init /\ Clock!Init /\ Card!Init /\ Desk!Init /\ Books!Init
  /\ shift \in Shifts

\* Requests are interchangeable: they begin in the order of the queue, at most n.
InOrder(r, waiting, n) ==
  \E k \in 1 .. n : Queue[k] = r /\ \A j \in 1 .. (k - 1) : Queue[j] \notin waiting

AtTheTill ==
  /\ shift \cap Till!Ops # {}
  /\ \E r \in Requests :
       \/ /\ InOrder(r, {q \in Requests : call[q].step = "new"}, Cardinality(Requests))
          /\ Till!Begin(r) /\ call[r].op' \in shift
       \/ Till!Enter(r) \/ Till!CountCash(r) \/ Till!Commit(r) \/ Till!Rollback(r)
  /\ UNCHANGED <<intake, clock, menu, desk, books>>

OnForms ==
  /\ "intake" \in shift
  /\ \E r \in Requests :
       \/ /\ InOrder(r, {q \in Requests : post[q].step = "new"}, MaxForms)
          /\ \E d \in Docs : Forms!Begin(r, d)
       \/ Forms!Replay(r) \/ Forms!Refuse(r)
       \/ Forms!InsertOrder(r) \/ Forms!InsertStock(r) \/ Forms!InsertEvent(r)
       \/ Forms!Commit(r) \/ Forms!Rollback(r)
  /\ UNCHANGED <<till, clock, menu, desk, books>>

AtTheClock ==
  /\ "clock" \in shift
  /\ \E r \in Requests :
       \/ /\ InOrder(r, {q \in Requests : punch[q].step = "new"}, MaxPunches)
          /\ Clock!Begin(r)
       \/ Clock!EnterIn(r) \/ Clock!EnterOut(r)
       \/ Clock!CommitIn(r) \/ Clock!CommitOut(r) \/ Clock!Rollback(r)
  /\ UNCHANGED <<till, intake, menu, desk, books>>

OnTheMenu ==
  /\ "menu" \in shift
  /\ \E r \in Requests :
       \/ /\ InOrder(r, {q \in Requests : ask[q].step = "new"}, MaxEdits)
          /\ \E j \in Jobs : Card!Begin(r, j)
       \/ Card!LookUpItem(r) \/ Card!LookUpRow(r) \/ Card!AddCategory(r)
       \/ Card!LookUpOffer(r) \/ Card!LookUpLive(r)
       \/ Card!CommitItem(r) \/ Card!CommitOffer(r)
       \/ Card!LoadOrdered(r) \/ Card!ReadGroups(r) \/ Card!Resolve(r) \/ Card!CommitLine(r)
       \/ Card!Rollback(r)
  /\ UNCHANGED <<till, intake, clock, desk, books>>

AtTheDesk ==
  /\ "desk" \in shift
  /\ \E r \in Requests :
       \/ /\ InOrder(r, {q \in Requests : visit[q].step = "new"}, MaxVisits)
          /\ Desk!BeginEnrol(r) \/ Desk!BeginOn(r)
       \/ Desk!LookUpHandles(r) \/ Desk!Recognise(r) \/ Desk!LookUpReferrer(r)
       \/ Desk!LookUpLive(r) \/ Desk!TellCode(r) \/ Desk!MintCode(r) \/ Desk!MintAgain(r)
       \/ Desk!CommitCreate(r) \/ Desk!CommitSpin(r) \/ Desk!CommitPage(r)
       \/ Desk!Rollback(r)
  /\ UNCHANGED <<till, intake, clock, menu, books>>

InTheBooks ==
  /\ "books" \in shift
  /\ \/ \E o \in OrderIds : Books!OpenOrder(o) \/ Books!EndOrder(o)
     \/ \E s \in ShiftIds : Books!ClockOut(s) \/ \E e \in Staff : Books!ClockIn(s, e)
     \/ \E c \in CostIds : Books!RecordCost(c)
     \/ \E e \in Staff : Books!EditStaff(e)
     \/ Books!Pass
  /\ UNCHANGED <<till, intake, clock, menu, desk>>

Next ==
  /\ AtTheTill \/ OnForms \/ AtTheClock \/ OnTheMenu \/ AtTheDesk \/ InTheBooks
  /\ UNCHANGED shift

Spec == Init /\ [][Next]_vars
-----------------------------------------------------------------------------
TypeOK ==
  /\ Till!TypeOK /\ Forms!TypeOK /\ Clock!TypeOK /\ Card!TypeOK /\ Desk!TypeOK /\ Books!TypeOK
  /\ shift \in Shifts

\* The properties of the parts, here of their composition.
ShiftCountsItsCash == Till!ShiftCountsItsCash /\ Till!CashCountedOnce
ChargedInTurn == Till!ChargedInTurn
OneOpenDrawer == Till!OneOpenDrawer
RetriesSettle == Forms!RetriesSettle /\ Forms!NumbersOnce /\ Forms!StockCountsACallOnce
ClockInTurn == Clock!InOnce /\ Clock!HoursAddUp
HolidayPaid == Clock!HolidayPaid
EditsMerge == Card!EditsMerge
AsOffered == Card!AsOffered
FriendsFollowCodes == Desk!FriendsFollowCodes
DayStands == Books!DayStands
=============================================================================
