SPECIFICATION Spec
CONSTANT
  Sources <- MCSources
INVARIANTS
  TypeOK
  Aligned
  NoProseLeft
  ErasesByGrammar
  GatesAgree
PROPERTY
  Terminates
CHECK_DEADLOCK FALSE
