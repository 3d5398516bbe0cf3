\* The program ends, so a state without a successor is no error.
CHECK_DEADLOCK FALSE
SPECIFICATION OptionsSpec
CONSTANTS
  Inputs <- MCInputs
  FileNames = {"results"}
INVARIANTS RunsAreDefined OptionsAreHonoured
