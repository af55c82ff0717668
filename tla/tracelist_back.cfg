SPECIFICATION Spec
CONSTANTS
  tail = tail
  old = old
  Traces = {1, 2, 3}
  Past = {1, 2}
  Forms <- MCForms
  DefaultForm = tail
  Matches <- MCMatches
  Before <- MCBefore
  EndsNow = {tail}
  Limit = 2
  MaxSearches = 2
  MaxWrites = 2
CHECK_DEADLOCK FALSE
INVARIANT
  BackKeepsSearch
