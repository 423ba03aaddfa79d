SPECIFICATION Spec
CONSTANTS
  Null = Null
  IntMod = 16
  SizeMod = 256
  Chars <- MCChars
  Messages <- MCMessages
  Commands <- MCCommands
  Streams <- MCStreams
INVARIANTS CutsDoNotMatter ScannersAgree OwnMessagesArrive PipelineSplit
PROPERTIES ImplementsChannel
CHECK_DEADLOCK FALSE
