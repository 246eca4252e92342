SPECIFICATION Spec
CONSTANTS
  Listers = {l1, l2}
  Checkers = {c1}
  MaxOpen = 2
  Groups = 1
PROPERTIES ChecksAnswered
CHECK_DEADLOCK FALSE
