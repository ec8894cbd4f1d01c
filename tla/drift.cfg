\* One operation of any kind, changes by others, then the rebase or the apply.
SPECIFICATION DriftSpec
CONSTANTS
  x = x  y = y  fn = fn  NoFile = NoFile
  Text = {x, y}
  Blank = x
  Symbols = {fn}
  Mentions <- MCMentions
  Kinds = {"replace_span", "delete_span", "replace_line", "insert_lines",
           "insert_after_symbol", "insert_before_symbol", "template"}
  Contents <- MCContents
  MaxLines = 4
  MaxDrift = 2
PROPERTIES ContextKept NoFalseConflict
CHECK_DEADLOCK FALSE
