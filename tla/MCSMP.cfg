SPECIFICATION Spec
CONSTANTS
  PROCESSORS <- TwoAPs
  NUM_AP_STACKS = 4
  DELAYS <- ShortDelays
  TIMEOUT = 3
  WORD = 128
  WIDTHS = {32, 128}
  UNITS = {0, 2, 3}
  STARTS = {0, 20, 125}
  US = 4
  MAX_STEP = 2
INVARIANTS RunsOnAStack StartedAfterSignal
PROPERTIES NoRestart DelayLasts LateAfterTimeout 
CHECK_DEADLOCK FALSE
