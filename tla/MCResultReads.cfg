SPECIFICATION ReadsSpec
CONSTANTS
  p1 = p1
  p2 = p2
  g1 = g1
  g2 = g2
  Readers = {p1, p2}
  Pages = {g1, g2}
  MaxRevision = 3
  MaxToggles = 1
SYMMETRY MCSymmetry
INVARIANTS AnswersTrue NoticesKept
