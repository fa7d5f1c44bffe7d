SPECIFICATION Spec
CONSTANTS
    r1 = r1
    r2 = r2
    NoRun = NoRun
    Unsigned = Unsigned
    Signed = Signed
    Runs = {r1, r2}
    Signers = {Unsigned, Signed}
    Comments = {NoComment, Remark}
    NoComment = NoComment
    Remark = Remark
    MaxCalls = 2
    MaxPosts = 2
INVARIANT ApprovalRequiresReview
CHECK_DEADLOCK FALSE
