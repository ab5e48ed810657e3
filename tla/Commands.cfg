SPECIFICATION Spec
CONSTANTS
  IPO_FS_MAX_NAME = 4
  MAX_TOKENS = 8
  AUTORUN_LINE_SIZE = 4
  NAME_SIZE = 10
  ARG_SIZE = 3
  PATH_SIZE = 16
  MAX_ARGS = 4
  AutorunFiles <- MCAutorunFiles
  TypedLines <- MCTypedLines
INVARIANTS TypeOK HeapBalanced ArgsAreWords RunsWhatIsNamed EveryLineOnce
PROPERTIES BackToPrompt
