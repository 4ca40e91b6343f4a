------------------------------ MODULE Dashboard ------------------------------
(***************************************************************************)
(* The dashboard's page (App.jsx) over its API (server.py): refreshes of   *)
(* the three parts of the page, by timer and by button, and the findings   *)
(* of the review that was clicked.  Fetches are answered in any order and  *)
(* may fail; nothing cancels one.  The API scans the table without         *)
(* ConsistentRead and answers its own exceptions with status 200: of a     *)
(* part's answer the page only learns data, however old, or a blank.       *)
(***************************************************************************)
EXTENDS Naturals

CONSTANTS
  Reviews,      \* review ids in the list
  Findings,     \* Findings[r]: the FINDING# items of review r
  MaxRefreshes, \* bound: calls of fetchData
  MaxClicks     \* bound: clicks on reviews

Part == {"overview", "reviews", "infrastructure"}
Answer == {"data", "blank"}
Refresh == 1 .. MaxRefreshes

ASSUME DashboardAssumption ==
  /\ {MaxRefreshes, MaxClicks} \subseteq Nat
  /\ "none" \notin Reviews

VARIABLES
  started,      \* refreshes started
  answers,      \* answers[n]: the answers of the fetches of refresh n, or "waiting"
  open,         \* the refreshes whose Promise.all is not settled
  page,         \* page[p]: what part p shows
  loading,
  selected,     \* selectedReview, or "none"
  findings,     \* the findings in the panel
  clicks,       \* clicks so far
  pending,      \* the fetches of findings under way: click and review
  overlapped    \* history: the last click was made while a fetch was under way

refreshVars == <<started, answers, open, page, loading>>
panelVars == <<selected, findings, clicks, pending, overlapped>>
vars == <<refreshVars, panelVars>>

Init ==
  /\ started = 0
  /\ answers = [n \in Refresh |-> [p \in Part |-> "waiting"]]
  /\ open = {}
  /\ page = [p \in Part |-> "blank"]
  /\ loading = TRUE
  /\ selected = "none" /\ findings = {}
  /\ clicks = 0 /\ pending = {}
  /\ overlapped = FALSE

\* fetchData is called: on mount, every 30 seconds, and by the button.
StartRefresh ==
  /\ started < MaxRefreshes
  /\ started' = started + 1
  /\ open' = open \cup {started + 1}
  /\ UNCHANGED <<answers, page, loading, panelVars>>

\* An endpoint has answered: with what its scans and metrics returned, perhaps
\* older than an answer given before, or with zeros or an empty list after an
\* exception.
AnswerPart(n, p) ==
  /\ n \in open /\ answers[n][p] = "waiting"
  /\ \E a \in Answer : answers' = [answers EXCEPT ![n][p] = a]
  /\ UNCHANGED <<started, open, page, loading, panelVars>>

\* The Promise is settled, its locals are gone.
Close(n) ==
  /\ open' = open \ {n}
  /\ answers' = [answers EXCEPT ![n] = [p \in Part |-> "waiting"]]

\* Promise.all is fulfilled: the three parts are set together.
ShowRefresh(n) ==
  /\ n \in open
  /\ \A p \in Part : answers[n][p] # "waiting"
  /\ page' = answers[n]
  /\ loading' = FALSE
  /\ Close(n)
  /\ UNCHANGED <<started, panelVars>>

\* Mutant of RefreshFails: loading is cleared by the try block only.
RefreshFailsLoading(n) ==
  /\ n \in open
  /\ \E p \in Part : answers[n][p] = "waiting"
  /\ Close(n)
  /\ UNCHANGED <<started, page, loading, panelVars>>

\* One of the fetches is rejected, and Promise.all with it.
RefreshFails(n) ==
  /\ n \in open
  /\ \E p \in Part : answers[n][p] = "waiting"
  /\ loading' = FALSE
  /\ Close(n)
  /\ UNCHANGED <<started, page, panelVars>>

\* handleReviewClick, on a row of the list.
Click(r) ==
  /\ ~loading
  /\ page["reviews"] = "data"
  /\ clicks < MaxClicks
  /\ clicks' = clicks + 1
  /\ \/ /\ selected = r
        /\ selected' = "none" /\ findings' = {}
        /\ UNCHANGED pending
     \/ /\ selected # r
        /\ selected' = r
        /\ pending' = pending \cup {[click |-> clicks + 1, review |-> r]}
        /\ UNCHANGED findings
  /\ overlapped' = (pending # {})
  /\ UNCHANGED refreshVars

Settle(f) ==
  /\ pending' = pending \ {f}
  /\ UNCHANGED <<refreshVars, selected, clicks, overlapped>>

\* get_findings has answered with what its scan returned, which may miss the
\* latest items and those beyond the first page, or with an empty list after an
\* exception.
FindingsArrive(f) ==
  /\ \E found \in SUBSET Findings[f.review] : findings' = found
  /\ Settle(f)

\* Mutant of FindingsFail: the exception is logged only.
FindingsFailLogged(f) ==
  /\ UNCHANGED findings
  /\ Settle(f)

\* The fetch is rejected.
FindingsFail(f) ==
  /\ findings' = {}
  /\ Settle(f)

Browser ==
  \/ \E n \in Refresh : ShowRefresh(n) \/ RefreshFails(n) \/ \E p \in Part : AnswerPart(n, p)
  \/ \E f \in pending : FindingsArrive(f) \/ FindingsFail(f)

Next ==
  \/ StartRefresh
  \/ \E r \in Reviews : Click(r)
  \/ Browser

Spec == Init /\ [][Next]_vars

\* The page calls fetchData when it is mounted, and a fetch ends some time.
FairSpec == Spec /\ WF_vars(StartRefresh) /\ WF_vars(Browser)

-----------------------------------------------------------------------------
(* Properties *)

\* With no fetch under way and the last click not made during one, the panel shows
\* findings of the review in its heading only, however few of them get_findings
\* found, and none when no review is selected: in no order of selecting,
\* deselecting and failures another review's (App.jsx, handleReviewClick).
PanelOfSelected ==
  pending = {} /\ ~overlapped =>
    findings \subseteq IF selected = "none" THEN {} ELSE Findings[selected]

\* The spinner goes away, whatever fails (App.jsx, fetchData).
LoadingEnds == <>(~loading)

-----------------------------------------------------------------------------
(* The inductive invariant behind the safety property *)

TypeOK ==
  /\ started \in 0 .. MaxRefreshes
  /\ answers \in [Refresh -> [Part -> Answer \cup {"waiting"}]]
  /\ open \subseteq 1 .. started
  /\ page \in [Part -> Answer]
  /\ loading \in BOOLEAN /\ overlapped \in BOOLEAN
  /\ selected \in Reviews \cup {"none"}
  /\ pending \subseteq [click : 1 .. clicks, review : Reviews]
  /\ clicks \in 0 .. MaxClicks

\* A last click that met no other fetch left at most its own.
FetchInv ==
  ~overlapped => pending = {} \/ \E c \in 1 .. clicks : pending = {[click |-> c, review |-> selected]}

IInv ==
  /\ TypeOK
  /\ FetchInv
  /\ PanelOfSelected
=============================================================================
