SPECIFICATION Spec
CONSTANTS
  VGA_WIDTH = 4
  HEADER_ROWS = 1
  ROWS = 2
  SCROLL_HISTORY_SIZE = 2
  INPUT_BUF_SIZE = 5
  TAB_SIZE = 2
  TAB_STOP = 4
  Letters = {"a"}
  Outputs = {"a", "LF", "CR", "HT"}
INVARIANTS TypeOK BuffersFit EchoIsInput
PROPERTIES EarlierTextStays
