CONSTANTS
  EVENT_QUEUE_SIZE = 4
  Buttons <- MCButtons
  Keys = {"esc", "enter"}
  MAX_BURST = 1
  Ids = {1, 2}
  Chats = {1}
  None = 0
SPECIFICATION Spec
INVARIANTS TypeOK GripEnds DragIsOpen MenuOnTop
PROPERTIES QueueInOrder ChatAnswered
CHECK_DEADLOCK FALSE
