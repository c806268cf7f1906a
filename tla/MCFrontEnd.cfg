\* Unmuted, muted, and unmuted again, each perhaps while another is being handled.
SPECIFICATION FairSpec
CONSTANTS
  Capacity = 24
  FrameSamples = 4
  Wants = 1
  Threshold = 3
  MaxClicks = 3
  MaxOvertaken = 2
  MaxLate = 2
INVARIANTS RingInOrder OneSource
PROPERTY FramesGoOn
