CONSTANTS
    Message = {m1}
    Request = {r1, r2, r3}
    None = None
SPECIFICATION Spec
INVARIANTS
    SentLeavesEvidence
    AcknowledgedIsRecorded
PROPERTIES
    WebhookIsNotUndone
    SentIsResolved
CHECK_DEADLOCK FALSE
