SPECIFICATION FairSpec
CONSTANTS
  Fds = {f1, f2}
  NoFd = NoFd
  MaxFrames = 4
  MaxStarts = 3
INVARIANTS TypeOK SocketIsOpen JoinedThreadWakes
PROPERTIES ImplementsLatestFrame StopReturnsOrOvertaken Reconnects
