SPECIFICATION Spec
CONSTANTS
  Dim = 2
  FifoDepth = 2
  StripeRows = 2
  Jobs <- MCJobs
  Descriptors <- MCDescriptors
INVARIANTS MatmulRight AssertionsHold StripesAgree
PROPERTIES MatmulsFinish
