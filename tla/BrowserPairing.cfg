SPECIFICATION Spec
CONSTANTS
  Sites = {s1, s2}
  NoSite = NoSite
  MaxTabs = 2
  Opens = {o1}
  MaxCopies = 2
  MaxKills = 1
INVARIANTS OneTabPerOpen ReadyIsOpen OpensAccounted
SYMMETRY Symmetry
CHECK_DEADLOCK FALSE
