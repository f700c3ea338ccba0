SPECIFICATION WireSpec
CONSTANTS
  DataBytes = 3
  CountedTo = 4
  Messages <- MCMessages
  Window = 2
  RingSize = 3
  MaxLost = 2
INVARIANTS
  IntactIsDispatched
PROPERTIES
  HostServed
  ChannelSpec
