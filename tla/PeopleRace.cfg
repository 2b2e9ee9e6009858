\* Two calls at a time on sessions, accounts, sign-ins, the row of a user or an
\* address book.
SPECIFICATION PeopleSpec
CONSTANTS
  t1 = t1  t2 = t2  e1 = e1  e2 = e2  a1 = a1  a2 = a2
  k1 = k1  k2 = k2  k3 = k3  f1 = f1  f2 = f2
  Txns = {t1, t2}
  Emails = {"a", "b"}
  Subs = {"g", "h"}
  MaxCalls = 4
  MaxAborts = 1
  Tokens = {k1, k2, k3}
  Families = {f1, f2}
  MaxRequests = 4
  StaffEmails = {e1, e2}
  StaffSubs = {"g"}
  Nobody = Nobody
  Invites = {1, 2}
  MaxStaffCalls = 3
  Tenants = {"s", "t"}
  NoTenant = "none"
  MaxSignIns = 5
  MaxRestarts = 1
  Locales = {"en"}
  MaxProfileCalls = 4
  Book = {a1, a2}
  MaxChanges = 3
SYMMETRY Symmetry
INVARIANTS
  OneLiveToken
  SessionSurvives
  EndedStaysEnded
  SameCustomer
  LinkedByOwner
  LetIn
  HandedOver
  ProfileKept
  DefaultAsChosen
CHECK_DEADLOCK FALSE
