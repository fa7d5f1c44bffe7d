---------------------------- MODULE MCApprovalRuns ---------------------------
(* Model values and small sets for the TLC runs of ApprovalRuns.           *)
EXTENDS ApprovalRuns

CONSTANTS r1, r2, e1, e2, lead, guest

MCRuns == {r1, r2}
MCOneRun == {r1}
MCRequestIds == {e1, e2}
MCAuthors == {lead, guest}
MCApprovers == {lead}

MCHandlers == {"first", "again", "rival", "reuse", "stranger"}

Request(r, e, a, d) == [run |-> r, id |-> e, author |-> a, approved |-> d]

(* A request and its retransmission, a rival with another decision, the    *)
(* first id used for another run, and an author without the role.          *)
CarriedBy(h) ==
    IF h \in {"first", "again"} THEN Request(r1, e1, lead, "approved")
    ELSE IF h = "rival" THEN Request(r1, e2, lead, "rejected")
    ELSE IF h = "reuse" THEN Request(r2, e1, lead, "approved")
    ELSE Request(r1, e2, guest, "rejected")

MCCarries == [h \in MCHandlers |-> CarriedBy(h)]

MCLiveHandlers == {"first", "again", "rival"}

MCLiveCarries == [h \in MCLiveHandlers |-> CarriedBy(h)]
=============================================================================
