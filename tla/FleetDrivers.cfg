\* Two organizations, two drivers, one vehicle, three stamped rows.
CONSTANTS
  Orgs = {o1, o2}
  Drivers = {d1, d2}
  Plates = {p1}
  None = None
  MaxWrites = 3
SPECIFICATION Spec
SYMMETRY Symmetry
INVARIANTS ReadsAgree NoDanglingDriver AnswersTakeEffect
PROPERTIES OnlyOwnRows HistoryIsKept
