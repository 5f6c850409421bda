CONSTANTS
  Frames <- DemoFrames
  Servers <- DemoServers
  Directory <- DemoDirectory
  Key <- DemoKey
  BufferSize = 8192
SPECIFICATION Spec
PROPERTY MoreDataCompletes
CHECK_DEADLOCK FALSE
