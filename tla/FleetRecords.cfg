\* Two organizations, two vehicles in every spelling, two records.
CONSTANTS
  Orgs = {o1, o2}
  Cars = {c1, c2}
  Dates = {d1}
  None = None
  MaxRecords = 2
SPECIFICATION RecordsSpec
SYMMETRY Symmetry
INVARIANTS OneRowPerVehicle
PROPERTIES ReAddKeepsVTV OnlyOwnRecords
