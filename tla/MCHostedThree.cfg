SPECIFICATION Spec
CONSTANTS
  Dim = 1
  FifoDepth = 2
  StripeRows = 1
  Jobs <- ThreeStripeJobs
  Descriptors <- ThreeStripeDescriptors
INVARIANT RequestsDecode
