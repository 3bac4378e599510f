SPECIFICATION Spec
CONSTANTS
  Pages = {g1, g2, g3}
  Paths = {p1, p2, p3, p4, p5}
  Published = {g1}
  Visitors = {v1, v2}
  Nothing = Nothing
SYMMETRY Symmetry
CHECK_DEADLOCK FALSE
INVARIANTS TypeOK OldAddressesLead LookUpFinds
