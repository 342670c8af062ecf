SPECIFICATION Spec
CONSTANTS
  geo = geo
  org = org
  Pack <- MCPack
  Packs <- MCPacks
  Priority <- MCPriority
  Fold <- MCFold
  Compose <- MCCompose
  Expand <- MCExpand
  Entity <- MCEntity
  Space = {" ", "|"}
  NewLine = "|"
  Word <- MCWord
  Glue = {"-"}
  Digit = {"1"}
  Marker = {"*", "_"}
  Lead = {"#"}
  Profile <- MCProfile
  Names <- MCNames
  Upper = {"K", " ", ".", "1", "*", "_", "#", "&", ";", "-"}
  Denied <- MCDenied
  Request <- MCRequest
  Outcome <- MCOutcome
CHECK_DEADLOCK TRUE
INVARIANTS RoundTrip MissedOnlyForGluedName Arbitrated
