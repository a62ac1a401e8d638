\* The CR proposal codec over 312 proposals, with the base64 transaction
\* encoding of SubWallet composed on top.
SPECIFICATION Spec
INVARIANT RoundTrip
INVARIANT SizeEstimated
INVARIANT TruncationRejected
INVARIANT DecodeBufferFits
INVARIANT URLRoundTrip
INVARIANT JsonRoundTrip
