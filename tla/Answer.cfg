CONSTANTS
  Scenarios <- MCScenarios
  Replies <- MCReplies
  MaxStepFailures = 1
  Conditions = {"buried", "reworded", "numbered", "stale", "moved", "down"}
  Everywhere = {"elsewhere", "split"}
SPECIFICATION Spec
INVARIANT CompleteIsGrounded
INVARIANT NothingProvesAbsence
INVARIANT PublishedIsAnswered
INVARIANT StaleIsNotCurrent
 
INVARIANT ResearchUsesItsSlots
INVARIANT PlansMeetTheFloor
