SPECIFICATION Spec
CONSTANTS
  Pages = {g1, g2}
  Paths = {p1, p2, p3, p4, p5}
  Published = {g1}
  Visitors = {}
  Nothing = Nothing
SYMMETRY Symmetry
CHECK_DEADLOCK FALSE
INVARIANT SitemapResolves
