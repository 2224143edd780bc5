SPECIFICATION Spec
CONSTANTS
  a = a  b = b  c = c
  Name = {a, b, c}
  Loader = Loader
  Globals = Globals
  Blank = Blank
  HashString <- MCHash
  Size = 8
  Keyword = {0, 2, 3, 4}
  MaxIdentifiers = 5
INVARIANT GlobalsFound
