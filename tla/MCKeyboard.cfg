SPECIFICATION Spec
CONSTANTS
  Tasks <- MCTasks
  SPAWN_ORDER <- KernelMainOrder
  Keyboard = "keyboard"
  TASK_QUEUE_CAP = 5
  SCANCODE_CAP = 2
  MAX_KEYS = 5
INVARIANTS NoLostWakeup NoSleepOnWork HandlerFreesNothing 
  
