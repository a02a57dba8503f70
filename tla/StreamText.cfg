SPECIFICATION Spec
CONSTANTS
  Thoughts <- MCThoughts
  Calls <- MCCalls
  MaxTokens = 5
INVARIANTS TypeOK ChunksDoNotMatter HeldJustEnough NothingAfterStop CallsAreHidden
CHECK_DEADLOCK FALSE
