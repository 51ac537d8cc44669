\* Two player panels, two roots, two heroes and up to two abilities in every order.
\* Deadlock is allowed: a script whose context panel is gone polls no more.
SPECIFICATION Spec
CHECK_DEADLOCK FALSE
CONSTANTS
  p1 = p1 p2 = p2 r1 = r1 r2 = r2 h1 = h1 h2 = h2
  a1 = a1 a2 = a2 i1 = i1 i2 = i2 n1 = n1 n2 = n2
  None = None Invalid = Invalid
  Player = {p1, p2}
  Root = {r1, r2}
  Hero = {h1, h2}
  Panel = {a1, a2}
  Snapshot <- Snapshots
  Scene <- Scenes
INVARIANTS CatalogCurrent
PROPERTIES DeathsEmitted UsesEmitted CatalogRefreshed
