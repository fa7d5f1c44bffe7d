---------------------------- MODULE AnalysisPage ----------------------------
(***************************************************************************)
(* The page on which an approver reads a draft and decides (frontend/src/  *)
(* Analysis.tsx), the address bar it follows (App.tsx), its requests       *)
(* (api.ts) and the key of an attempt to decide (lib.ts).                  *)
(*                                                                         *)
(* Nothing on the page waits for a request: it returns to whatever is      *)
(* shown by then.  Only the load that a change of address starts is        *)
(* aborted by the next change.  A dialog keeps the approver from clicking  *)
(* beside it, not from going back, and not the page from changing.         *)
(***************************************************************************)
EXTENDS Naturals, FiniteSets

CONSTANTS
    Runs,      \* ids of runs
    NoRun,     \* no run in the address, or none shown; not in Runs
    Signers,   \* the reviewer, or the credential, as typed
    Unsigned,  \* one of them: neither
    Comments,  \* the comment as typed
    NoComment, \* one of them: ""
    MaxCalls,  \* bound: requests under way
    MaxPosts   \* bound: decisions sent

VARIABLES
    hash,      \* location.hash: a run, none, or another page
    page,      \* the state of the component, when it is mounted
    calls,     \* requests under way
    created,   \* the server's runs
    decided,   \* those of them that are decided
    reviewed,  \* history: the run whose draft was shown when the box was ticked
    posts      \* history: the decisions sent

vars == <<hash, page, calls, created, decided, reviewed, posts>>

Elsewhere == "elsewhere"

Unmounted == [mounted |-> FALSE]

NoAttempt == [key |-> <<>>, id |-> 0]

Shown(r) == [id |-> r, pending |-> r \notin decided]

Nothing == [id |-> NoRun, pending |-> FALSE]

(* useState and useRef of a component that is mounted with an address.     *)
Fresh(h) ==
    [mounted |-> TRUE, runId |-> h, run |-> Nothing, loading |-> h # NoRun,
     busy |-> FALSE, decision |-> "none", checked |-> FALSE,
     signer |-> Unsigned, comment |-> NoComment, approving |-> FALSE, attempt |-> NoAttempt]

Load(r) == [kind |-> "load", run |-> r, alive |-> TRUE]

Loads(h) == IF h = NoRun THEN {} ELSE {Load(h)}

Init ==
    /\ created \in SUBSET Runs
    /\ decided = {}
    /\ hash \in created \cup {NoRun}
    /\ page = Fresh(hash)
    /\ calls = Loads(hash)
    /\ reviewed = NoRun
    /\ posts = {}

Server == <<created, decided>>
History == <<reviewed, posts>>

Mounted == page.mounted

(* What the approver may click: what is on the page, or in the dialog.     *)
DialogOpen == Mounted /\ page.decision # "none" /\ page.run.id # NoRun

Draft == Mounted /\ page.run.id # NoRun /\ ~page.loading

-----------------------------------------------------------------------------
(* The address.                                                            *)

(* A link, a run id looked up, the browser's back button.                  *)
Navigate ==
    /\ \E h \in created \cup {NoRun, Elsewhere} : h # hash /\ hash' = h
    /\ UNCHANGED <<page, calls, Server, History>>

(* Calls of a component that is gone: only a created run is still noticed. *)
Orphaned == {[c EXCEPT !.alive = FALSE] : c \in {c \in calls : c.kind \in {"create", "approve"}}}

(* hashchange: the component goes, comes, or starts over with a new runId: *)
(* the load under way is aborted, the dialog's state is not touched.       *)
HashChange ==
    /\ IF ~Mounted THEN hash # Elsewhere ELSE hash # page.runId
    /\ IF hash = Elsewhere THEN page' = Unmounted /\ calls' = Orphaned
       ELSE IF ~Mounted THEN page' = Fresh(hash) /\ calls' = calls \cup Loads(hash)
       ELSE /\ page' = [page EXCEPT !.runId = hash, !.run = Nothing, !.loading = hash # NoRun]
            /\ calls' = {c \in calls : c.kind # "load"} \cup Loads(hash)
    /\ UNCHANGED <<hash, Server, History>>

Reload ==
    /\ page' = IF hash = Elsewhere THEN Unmounted ELSE Fresh(hash)
    /\ calls' = {[c EXCEPT !.alive = FALSE] : c \in {c \in calls : c.kind = "approve"}}
                \cup IF hash = Elsewhere THEN {} ELSE Loads(hash)
    /\ UNCHANGED <<hash, Server, History>>

-----------------------------------------------------------------------------
(* Reading a run.                                                          *)

Answer(c) == calls' = calls \ {c}

Refresh ==
    /\ Draft /\ ~DialogOpen
    /\ Cardinality(calls) < MaxCalls
    /\ calls' = calls \cup {[kind |-> "refresh", run |-> page.run.id, alive |-> TRUE]}
    /\ page' = [page EXCEPT !.loading = TRUE]
    /\ UNCHANGED <<hash, Server, History>>

ReadReturns(c) ==
    /\ c.kind \in {"load", "refresh"}
    /\ Answer(c)
    /\ page' = [page EXCEPT !.run = Shown(c.run), !.loading = FALSE]
    /\ UNCHANGED <<hash, Server, History>>

ReadFails(c) ==
    /\ c.kind \in {"load", "refresh"}
    /\ Answer(c)
    /\ page' = [page EXCEPT !.loading = FALSE]
    /\ UNCHANGED <<hash, Server, History>>

-----------------------------------------------------------------------------
(* submit: an analysis may take minutes.                                   *)

Submit ==
    /\ Mounted /\ ~page.busy /\ ~DialogOpen
    /\ Cardinality(calls) < MaxCalls
    /\ page' = [page EXCEPT !.busy = TRUE]
    /\ calls' = calls \cup {[kind |-> "create", origin |-> hash, alive |-> TRUE]}
    /\ UNCHANGED <<hash, Server, History>>

CreateReturns(c) ==
    /\ c.kind = "create"
    /\ \E r \in Runs \ created :
          /\ created' = created \cup {r}
          /\ hash' = IF hash = c.origin THEN r ELSE hash
          /\ page' = IF ~c.alive THEN page
                     ELSE IF hash = c.origin
                     THEN [page EXCEPT !.busy = FALSE, !.run = [id |-> r, pending |-> TRUE]]
                     ELSE [page EXCEPT !.busy = FALSE]
    /\ Answer(c)
    /\ UNCHANGED <<decided, History>>

CreateFails(c) ==
    /\ c.kind = "create"
    /\ Answer(c)
    /\ page' = IF c.alive THEN [page EXCEPT !.busy = FALSE] ELSE page
    /\ UNCHANGED <<hash, Server, History>>

-----------------------------------------------------------------------------
(* The decision.                                                           *)

Decide ==
    /\ Draft /\ ~DialogOpen
    /\ page.run.pending
    /\ \E d \in {"approve", "reject"} :
          page' = [page EXCEPT !.decision = d, !.checked = FALSE]
    /\ UNCHANGED <<hash, calls, Server, History>>

Word ==
    /\ DialogOpen
    /\ \/ \E s \in Signers : s # page.signer /\ page' = [page EXCEPT !.signer = s]
       \/ \E c \in Comments : c # page.comment /\ page' = [page EXCEPT !.comment = c]
    /\ UNCHANGED <<hash, calls, Server, History>>

(* "I have checked the draft, the evidence and the risks."                 *)
Tick ==
    /\ DialogOpen
    /\ page' = [page EXCEPT !.checked = ~@]
    /\ reviewed' = IF page.checked THEN NoRun ELSE page.run.id
    /\ UNCHANGED <<hash, calls, Server, posts>>

Cancel ==
    /\ DialogOpen /\ ~page.approving
    /\ page' = [page EXCEPT !.decision = "none"]
    /\ UNCHANGED <<hash, calls, Server, History>>

ApprovalKey == <<page.run.id, page.decision, page.signer, page.comment>>

(* The id of the last attempt, if that was for the same key.               *)
Attempt ==
    IF page.attempt.key = ApprovalKey THEN page.attempt
    ELSE [key |-> ApprovalKey, id |-> Cardinality(posts) + 1]

SubmitApproval ==
    /\ DialogOpen /\ ~page.approving
    /\ page.checked /\ page.signer # Unsigned
    /\ Cardinality(posts) < MaxPosts /\ Cardinality(calls) < MaxCalls
    /\ page' = [page EXCEPT !.attempt = Attempt, !.approving = TRUE]
    /\ calls' = calls \cup {[kind |-> "approve", run |-> page.run.id, alive |-> TRUE]}
    /\ posts' = posts \cup {[run |-> page.run.id, reviewed |-> reviewed,
                             id |-> Attempt.id, number |-> Cardinality(posts) + 1]}
    /\ UNCHANGED <<hash, Server, reviewed>>

ApproveReturns(c) ==
    /\ c.kind = "approve"
    /\ Answer(c)
    /\ decided' = decided \cup {c.run}
    /\ page' = IF c.alive
               THEN [page EXCEPT !.run = [id |-> c.run, pending |-> FALSE], !.approving = FALSE,
                                 !.decision = "none", !.checked = FALSE,
                                 !.comment = NoComment]
               ELSE page
    /\ UNCHANGED <<hash, created, History>>

(* A refusal, or no answer in time: the server may have decided or not.    *)
ApproveFails(c) ==
    /\ c.kind = "approve"
    /\ Answer(c)
    /\ decided' \in {decided, decided \cup {c.run}}
    /\ page' = IF c.alive THEN [page EXCEPT !.approving = FALSE] ELSE page
    /\ UNCHANGED <<hash, created, History>>

Next ==
    \/ Navigate \/ HashChange \/ Reload
    \/ Refresh \/ Submit
    \/ Decide \/ Word \/ Tick \/ Cancel \/ SubmitApproval
    \/ \E c \in calls :
          \/ ReadReturns(c) \/ ReadFails(c)
          \/ CreateReturns(c) \/ CreateFails(c)
          \/ ApproveReturns(c) \/ ApproveFails(c)

Spec == Init /\ [][Next]_vars

-----------------------------------------------------------------------------
(* A decision is sent only for the run whose draft was shown when the      *)
(* approver confirmed having reviewed it (frontend/README.md:33).  It is   *)
(* not so: the dialog outlives the run it was opened for.                  *)
ApprovalRequiresReview == \A p \in posts : p.reviewed = p.run
=============================================================================
