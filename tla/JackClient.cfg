\* Two lives of a client, a 5-byte ring of 2-byte parameters (2 whole ones and
\* one byte over, as 8191 = 1023 * 8 + 7), five writes a life.
CONSTANTS
  Parameter <- MCParameter
  Garbled = Garbled
  ParameterSize = 2
  RingBufferSize = 6
  MaxLives = 2
  MaxWrites = 5
  Top = 2000
  Garbage = {0}
  ProcessorEffect = "simple_eq"
  NoProcessor = NoProcessor
SPECIFICATION FairSpecWithProcessor
INVARIANTS CallbackContextReady DeliveredInOrder FrameInv SettingsTakeEffect
PROPERTY ImplementsQueue
