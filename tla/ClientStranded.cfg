\* One upload that meets an expired session, and the app that goes on showing.
SPECIFICATION Spec
CONSTANTS
  Queries = {}
  Uploads = {"u"}
  MaxTokens = 2
  MaxSends = 1
  MaxFaults = 0
PROPERTIES LogoutShown
CHECK_DEADLOCK FALSE
