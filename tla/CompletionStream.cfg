CONSTANTS
  Prompts <- TwoPrompts
  Pieces <- MCPieces
  MaxTokens = 2
  MaxAttempts = 2
  Policies <- MCPolicies
  Revisions <- MCRevisions
SPECIFICATION FairSpec
INVARIANTS
  TypeOK
  AnsweredIsOnRecord
  ErrorMeansForgotten
  InFlightGated
PROPERTIES
  PromptsSettle
\* The conversation ends after its last prompt.
CHECK_DEADLOCK FALSE
