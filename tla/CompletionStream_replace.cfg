CONSTANTS
  Prompts <- OnePrompt
  Pieces <- MCPieces
  MaxTokens = 2
  MaxAttempts = 2
  Policies <- MCPolicies
  Revisions <- MCRevisions
SPECIFICATION Spec
INVARIANTS
  InFlightReplaced
\* The conversation ends after its last prompt.
CHECK_DEADLOCK FALSE
