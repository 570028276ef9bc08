SPECIFICATION DispatchSpec
CONSTANTS
  Dispatchers = {d1, d2}
  Symbols = {s1}
  Listeners = {l1, l2}
  Threads = {main, audio}
  Main = main
  Ui = {d1}
  NONE = NONE
  MaxPosted = 1
INVARIANTS
  DispatchTypeOK
  SubscribedAsHeard
PROPERTIES
  NoCallAfterRemoval
