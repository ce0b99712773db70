\* Two browsers, one form, DEBUG changing twice, one lost answer.
SPECIFICATION PageSpec
CONSTANTS
  Browsers = {b1, b2}
  Forms = {f1}
  Losses = 1
  Switches = 2
SYMMETRY Symmetry
INVARIANTS
  OneDecision
  SubmittedOnce
  NotAllowedIsExplained
