CONSTANTS
  Scripts = {s1, s2}
  Tables = {t1, t2}
  Labels = {"dos", "gpt"}
  HeaderNames = {"label", "LABEL"}
  CaseFold <- MCCaseFold
  Data = {"gpt", "xxx"}
  NULL = NULL
  MaxRef = 2
  Borrowed = TRUE
SYMMETRY Symm
SPECIFICATION Spec
CHECK_DEADLOCK FALSE
INVARIANT ScriptRefcountExact
