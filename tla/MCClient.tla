-------------------------------- MODULE MCClient --------------------------------
(* Instances of Uploads, AdminSession and ProductFilters for TLC: three state *)
(* machines of the admin web that have statements of their own and no state   *)
(* in common. A behaviour is one of them: part, chosen at the start, says of  *)
(* which.                                                                     *)
EXTENDS Uploads

CONSTANTS
  Queries, Pictures, MaxTokens, MaxSends, MaxLost,
  Texts, Names, Known, MaxPage, MaxClicks

ASSUME FilesAssumption == IsFiniteSet(Files)

VARIABLES part,
  tokens, valid, dead, cookie, auth, me, mine, route, req, renewal, joined, resets,
  reused, lost, sends, errors,
  url, seen, search, timer, tree, asked, answered, list, failed, overtaken, clicks

AS == INSTANCE AdminSession WITH
  Uploads <- Pictures, MaxFaults <- MaxLost, refresh <- renewal, faults <- errors

PF == INSTANCE ProductFilters WITH Categories <- Names, MaxActs <- MaxClicks, acts <- clicks

sessionVars == <<tokens, valid, dead, cookie, auth, me, mine, route, req, renewal, joined,
                 resets, reused, lost, sends, errors>>
filterVars  == <<url, seen, search, timer, tree, asked, answered, list, failed, overtaken, clicks>>
clientVars  == <<part, vars, sessionVars, filterVars>>

ClientInit ==
  /\ part \in {"uploads", "session", "filters"} /\ Init /\ AS!Init /\ PF!Init
  /\ part # "uploads" => ~context
  /\ part # "filters" => url = PF!Default

InUploads(A) == part = "uploads" /\ A /\ UNCHANGED <<part, sessionVars, filterVars>>
InSession(A) == part = "session" /\ A /\ UNCHANGED <<part, vars, filterVars>>
InFilters(A) == part = "filters" /\ A /\ UNCHANGED <<part, vars, sessionVars>>

ClientNext == InUploads(Next) \/ InSession(AS!Next) \/ InFilters(PF!Next)

\* The fairness of each part in the behaviours that are its own.
ClientSpec ==
  /\ ClientInit /\ [][ClientNext]_clientVars
  /\ WF_clientVars(InUploads(UploadStep))
  /\ WF_clientVars(InSession(AS!Progress))
  /\ WF_clientVars(InFilters(PF!Client))

NoSelfReuse  == AS!NoSelfReuse
ComesToRest  == part = "session" => AS!ComesToRest
FiltersAgree == part = "filters" => PF!FiltersAgree
================================================================================
