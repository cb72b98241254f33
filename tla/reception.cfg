CONSTANTS
  min_pulses = 3
  max_pulses = 5
  min_pulse_us = 2
  max_pulse_us = 6
  tolerance_percent = 25
  frame_gap_min_us = 7
  UINT32_MAX = 127
  Remotes <- MCRemotes
  GAPS = {7, 8}
  MIN_GAP = 5
  MAX_GAP = 11
  GAP_MIN_INTERVALS = 2
  GAP_INTERVAL_TARGET = 4
  LOOP_US = 5
  PAUSE_US = 16
  IDLE_US = 9
  BOOT_US = {0, 100}
  MaxWindow = 10
SPECIFICATION Spec
INVARIANTS
  SplitIsTransmission
  CompleteRepeatsAgree
  RepeatsAreComplete
  EstimateIsClose
