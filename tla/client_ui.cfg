SPECIFICATION Spec
CONSTANT MaxQuestions = 2
CHECK_DEADLOCK FALSE
INVARIANTS QuestionHasKeyboard SessionLetsGoFirst OneGoodbye
PROPERTIES QuitEnds LossEnds
