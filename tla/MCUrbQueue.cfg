CONSTANTS
  Urbs = {u1, u2}
  NoUrb = NoUrb
  Rx = Rx
  Proc = Proc
  Closers = {main}
  Free = Free
  Size = 3
SPECIFICATION FairSpec
INVARIANT NoLostWakeup
PROPERTY ImplementsFifo
PROPERTY ImplementsLiveFifo
