SPECIFICATION Spec
CONSTANTS
  Parts = {"form", "card", "rules", "box", "sight", "list"}
  Words = {"x"}
  Setups <- MCSetups
  MaxProgram = 1
  BoxGroups <- MCGroups
  Pages <- MCPages
  MaxScroll = 3
  Screens = {1, 2}
  MaxTurns = 2
INVARIANTS
  ErrorsAreTrue
  RulesSayTrue
  BoxesAreTrue
  FollowedTruly
  ChoiceAgrees
PROPERTIES
  RuleEditsAreLocal
  ForcedChoiceAnswers
CHECK_DEADLOCK FALSE
