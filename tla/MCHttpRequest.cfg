CONSTANTS
  Inputs <- DemoInputs
  Files <- DemoFiles
SPECIFICATION FairSpec
INVARIANTS TypeOK VerdictIsGrammar RepliesFit OpenedPathIsBelowRoot
PROPERTIES RequestIsAnswered
CHECK_DEADLOCK FALSE
