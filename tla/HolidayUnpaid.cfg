\* One employee and two punches: a shift that starts at one in the morning of a holiday.
SPECIFICATION Spec
CONSTANTS
  r1 = r1
  r2 = r2
  r3 = r3
  r4 = r4
  r5 = r5
  Requests = {r1, r2, r3, r4, r5}
  Queue <- TheQueue
  Registers = {g1}
  Unnamed = Unnamed
  Busy = 2
  MaxTime = 12
  MaxForms = 3
  MaxPunches = 2
  Docs <- TheDocs
  RecipeOf <- TheRecipes
  Placeholder = "placeholder"
  Employees = {e1}
  Ins <- TheIns
  Outs <- TheOuts
  Holidays = {1}
  Items = {"tea", "bun"}
  Categories = {"drinks"}
  MenuOf <- TheMenu
  LiveOf = {"sugar", "beside"}
  Groups <- TheGroups
  Parts <- TheParts
  OptionOf <- TheOptions
  DeltaOf <- TheDeltas
  Hours = {0, 1, 2}
  Jobs <- TheJobs
  MaxEdits = 3
  OrderIds = {o1}
  ShiftIds = {s1}
  CostIds = {c1}
  Staff = {"ann", "bo"}
  Instants = {7, 24}
  Bills <- TheBills
  Worked <- TheWork
  PayOf <- ThePay
  RaisedTo = 3
  FixedMonthly = 100
  OnCostRate = 17
  MemberOf <- TheMembers
  Handles <- TheHandles
  Codes = {"c1", "c2"}
  MaxVisits = 3
  None = None
  Shifts = {{"clock"}}
INVARIANT HolidayPaid
CHECK_DEADLOCK FALSE
