CONSTANTS
  Inputs <- DemoInputs
  Files <- DemoFiles
SPECIFICATION Spec
INVARIANT InvalidEncodingIsRefused
CHECK_DEADLOCK FALSE
