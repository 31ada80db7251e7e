\* A ring of four words, up to three added and four taken at a time.
SPECIFICATION Spec
CONSTANTS
  a = a
  b = b
  c = c
  Word <- MCWord
  Cnt = 4
  MaxWords = 3
  MaxTake = 4
INVARIANTS TypeOK
PROPERTIES ImplementsLog
