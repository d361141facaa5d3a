SPECIFICATION Spec
CONSTANTS
  Members = {m}
  Edits = {e1}
  Deletes = {d1, d2}
  Reactions = {x1}
  Original = Original
  Blank = Blank
  None = None
  MaxFailures = 2
SYMMETRY Alike
INVARIANTS DeletedIsHidden OkMeansGone
