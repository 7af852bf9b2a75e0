CONSTANTS
  MAX_TOOL_ROUNDS = 6
  MAX_TOOL_CALLS = 3
  MAX_MESSAGES = 8
  CONTENT = 13
  SAFETY = 2
  REQUEST_BODY = 27
  REQ = 20
  HEADERS = 1
  FIXED = 10
  REPORT = 2
  ANTHROPIC_API_KEY = FALSE
  TextSizes = {1, 2}
  ResultSizes = {1, 5, 7}
  MAX_CALLS = 4
SPECIFICATION Spec
PROPERTY PanicEnds
CHECK_DEADLOCK FALSE
