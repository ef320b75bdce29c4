SPECIFICATION Spec
CONSTANTS
  pay1 = pay1  pay2 = pay2  pay3 = pay3  inst1 = inst1  r1 = r1  r2 = r2
  None = None
  PaymentIds <- TwoPayments
  Insts <- OneInst
  Expected <- TwoEach
  Targets <- InstOrBooking
  Amounts <- One
  Price = 2
  Procs <- TwoProcs
SYMMETRY Symmetry
INVARIANT InstalmentsSound
INVARIANT LedgerExact
INVARIANT OutcomeTold
INVARIANT NothingPendingAfterCancel
INVARIANT NoCollectionLost
PROPERTY RefundedIsFinal
CHECK_DEADLOCK FALSE
