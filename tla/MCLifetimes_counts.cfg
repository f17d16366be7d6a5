SPECIFICATION Spec
CONSTANTS
  c1 = c1
  c2 = c2
  h1 = h1
  None = None
  Comps = {c1, c2}
  WithGui = {c1}
  Faces <- TheFaces
  Contexts = {h1}
  MaxRefs = 2
  MaxWidth = 3
  Fitting = {1, 3}
  Lefts = {1}
  Manners <- AllManners
INVARIANTS CountsTrue NothingDangles NothingLeaks GuiBalanced SizeAgreed
