\* Three threads use two topics.
CONSTANTS
  Callers = {t1, t2, t3}
  NoCaller = NoCaller
  Topics = {a, b}
  SliceNums = {2}
  MaxAsked = 5
SPECIFICATION TopicsSpec
SYMMETRY Symmetry
INVARIANTS OneListPerTopic
