CONSTANTS
  Frames <- DemoFrames
  Servers <- DemoServers
  Directory <- DemoDirectory
  Key <- DemoKey
  BufferSize = 8192
SPECIFICATION FairSpec
INVARIANTS TypeOK TidyDelivery PatientClientReadsAnswers ListedNamesFit
PROPERTIES FrontFrameDelivered PatientClientIsAnswered
CHECK_DEADLOCK FALSE
