------------------------------- MODULE MCPeople -------------------------------
(* Instances for TLC of the components that keep people: the sessions of an  *)
(* account, the identities of customers and of the staff, sign-in through    *)
(* Google, the row of a user and an address book. Each has statements of its *)
(* own and no state in common with the others, so a behaviour is one of      *)
(* them: part, chosen at the start, says of which.                           *)
EXTENDS Sessions, TLC

CONSTANTS
  Emails, Subs, MaxCalls, StaffEmails, StaffSubs, Nobody, Invites, MaxStaffCalls,
  Tenants, NoTenant, MaxSignIns, MaxRestarts,
  Locales, MaxProfileCalls, Book, MaxChanges,
  t1, t2, e1, e2, a1, a2, k1, k2, k3, f1, f2

VARIABLES part,
  customer, secretOf, google, unproven, linked, signed, callTx, calls, callAborts,
  invite, stale, role, secret, subject, founders, redeemed, staffTx, staffCalls, staffAborts,
  begun, req, cls, codes, minted, origin, handed, requests, restarts,
  user, stored, userTx, wished, raced, crossed, userCalls, userAborts,
  book, used, bookTx, chosen, contested, bookCalls, bookAborts

CA == INSTANCE CustomerAccounts WITH
  password <- secretOf, lapsed <- unproven, tx <- callTx, aborts <- callAborts

MA == INSTANCE MerchantAccounts WITH
  Emails <- StaffEmails, Subs <- StaffSubs, MaxCalls <- MaxStaffCalls,
  password <- secret, google <- subject, tx <- staffTx, calls <- staffCalls, aborts <- staffAborts

HO == INSTANCE Handoff WITH Reqs <- Txns, MaxRequests <- MaxSignIns

PR == INSTANCE Profiles WITH
  MaxCalls <- MaxProfileCalls, tx <- userTx, calls <- userCalls, aborts <- userAborts

AD == INSTANCE Addresses WITH
  Addresses <- Book, MaxCalls <- MaxChanges,
  drawn <- used, tx <- bookTx, calls <- bookCalls, aborts <- bookAborts

\* Somebody can sign in, and "nobody" is no role.
ASSUME SignInAssumption   == Tenants # {}
ASSUME AccountsAssumption == Emails # {}
ASSUME StaffAssumption    == Nobody \notin MA!Roles

accountVars == <<customer, secretOf, google, unproven, linked, signed, callTx, calls, callAborts>>
staffVars   == <<invite, stale, role, secret, subject, founders, redeemed, staffTx, staffCalls, staffAborts>>
signInVars  == <<begun, req, cls, codes, minted, origin, handed, requests, restarts>>
userVars    == <<user, stored, userTx, wished, raced, crossed, userCalls, userAborts>>
bookVars    == <<book, used, bookTx, chosen, contested, bookCalls, bookAborts>>
peopleVars  == <<part, vars, accountVars, staffVars, signInVars, userVars, bookVars>>

PeopleInit ==
  /\ part \in {"sessions", "customers", "staff", "signin", "user", "book"}
  /\ Init /\ CA!Init /\ MA!Init /\ HO!Init /\ PR!Init /\ AD!Init

PeopleNext ==
  /\ \/ part = "sessions"  /\ Next    /\ UNCHANGED <<accountVars, staffVars, signInVars, userVars, bookVars>>
     \/ part = "customers" /\ CA!Next /\ UNCHANGED <<vars, staffVars, signInVars, userVars, bookVars>>
     \/ part = "staff"     /\ MA!Next /\ UNCHANGED <<vars, accountVars, signInVars, userVars, bookVars>>
     \/ part = "signin"    /\ HO!Next /\ UNCHANGED <<vars, accountVars, staffVars, userVars, bookVars>>
     \/ part = "user"      /\ PR!Next /\ UNCHANGED <<vars, accountVars, staffVars, signInVars, bookVars>>
     \/ part = "book"      /\ AD!Next /\ UNCHANGED <<vars, accountVars, staffVars, signInVars, userVars>>
  /\ UNCHANGED part

PeopleSpec == PeopleInit /\ [][PeopleNext]_peopleVars

Symmetry == Permutations(Txns) \cup Permutations(StaffEmails) \cup Permutations(Book)

SameCustomer    == CA!SameCustomer
LinkedByOwner   == CA!LinkedByOwner
LetIn           == MA!LetIn
HandedOver      == HO!HandedOver
ProfileKept     == PR!ProfileKept
DefaultAsChosen == AD!DefaultAsChosen
================================================================================
