\* Without a scheduler, a handler edits the list and then hides it.
SPECIFICATION Spec
CONSTANTS
  ka = ka
  kb = kb
  kc = kc
  d0 = d0
  d1 = d1
  w0 = w0
  w1 = w1
  w2 = w2
  w3 = w3
  w4 = w4
  w5 = w5
  None = None
  Unset = Unset
  Anchor = Anchor
  RowIds = {w0, w1, w2, w3, w4, w5}
  Lists <- FewLists
  Programs <- SomePrograms
  Habits = {"HideAfterEdit"}
  MaxWrites = 3
CHECK_DEADLOCK FALSE
INVARIANT NoPanic
