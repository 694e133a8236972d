SPECIFICATION UserSpec
CONSTANTS
  root = root
  cap0 = cap0
  cap1 = cap1
  pay0 = pay0
  pay1 = pay1
  pay = pay
  r = r
  Fresh = {a, b, c}
  FreshPages = {p}
  Tables <- MCTables
  Pages <- MCPages
  Tasks = {r, s}
  RootTask = r
  N = 4
  MaxLevel = 2
  KernelBase = 32
  CapSpaceBase = 48
  RootTable = root
  CapTables <- MCCapTables
  PayloadTables <- MCPayloadTables
  PayloadPage = pay
  PayloadBase = 16
  Handled = {a, b, c, p, pay, cap0}
  Indices = {0, 1}
  PageLevels = {1, 2}
  ReuseTables = TRUE
  Nil = Nil
  PageBytes = 2
  Ranges <- MCRanges
SYMMETRY Sym
INVARIANT PagesFound
CHECK_DEADLOCK FALSE
