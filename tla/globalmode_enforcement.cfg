SPECIFICATION Spec
CONSTANTS
  w1 = w1
  w2 = w2
  Workers <- TwoWorkers
  Nothing = Nothing
  Postures <- FewPostures
  Feedbacks <- FewFeedbacks
  MinDwell = 1
  RelaxDwell = 2
  Window = 1
  FlapLimit = 2
PROPERTIES TransitionRefreshes
