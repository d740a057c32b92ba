CONSTANTS
  Callers = {c1, c2, c3}
  Kinds = {"key", "profile", "state"}
  MaxFiles = 3
SPECIFICATION Spec
SYMMETRY CallerSymmetry
INVARIANTS TargetsWhole SavedIsDurable LoadsAgree
