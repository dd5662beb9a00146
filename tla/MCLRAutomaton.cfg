SPECIFICATION Spec
CONSTANT Rounds <- MCRounds
INVARIANTS RowsFollowGrammar OnlyTheDotIsAmbiguous
CHECK_DEADLOCK FALSE
