SPECIFICATION FairSpec
CONSTANTS
  Fds = {f1}
  NoFd = NoFd
  MaxFrames = 1
  MaxStarts = 1
PROPERTY StopReturns
