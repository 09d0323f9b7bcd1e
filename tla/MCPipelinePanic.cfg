CONSTANTS
  u1 = u1
  u2 = u2
  u3 = u3
  e1 = e1
  w1 = w1
  w2 = w2
  URL <- MCURL
  SourceError <- MCSourceError
  Canceled = Canceled
  Worker <- MCWorker
  None = None
SPECIFICATION Spec
INVARIANT NoSendOnClosed
