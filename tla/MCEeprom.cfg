CONSTANTS
  WordsOf <- MCWordsOf
  Values <- MCValues
  Nothing = Nothing
SPECIFICATION Spec
INVARIANTS TypeOK InStep
PROPERTIES WordStore
