-------------------------- MODULE DashboardProofs ---------------------------
(***************************************************************************)
(* Proofs about the dashboard's page for any reviews and findings, any     *)
(* number of refreshes and clicks, and whatever the API answers.           *)
(***************************************************************************)
EXTENDS Dashboard, TLAPS

\* The page before it has fetched anything.
LEMMA InitIInv == Init => IInv
<1> SUFFICES ASSUME Init PROVE IInv
  OBVIOUS
<1> USE DashboardAssumption DEF Init
<1>1. TypeOK
  <2>1. started \in 0 .. MaxRefreshes /\ clicks \in 0 .. MaxClicks
    OBVIOUS
  <2>2. /\ answers \in [Refresh -> [Part -> Answer \cup {"waiting"}]]
        /\ page \in [Part -> Answer]
    BY DEF Answer
  <2>3. open \subseteq 1 .. started /\ pending \subseteq [click : 1 .. clicks, review : Reviews]
    OBVIOUS
  <2> QED
    BY <2>1, <2>2, <2>3 DEF TypeOK
<1>2. FetchInv /\ PanelOfSelected
  BY DEF FetchInv, PanelOfSelected
<1> QED
  BY <1>1, <1>2 DEF IInv

PanelInv == FetchInv /\ PanelOfSelected

\* A refresh leaves the panel alone.
LEMMA PanelFrame ==
  ASSUME PanelInv, UNCHANGED panelVars
  PROVE  PanelInv'
<1> QED
  BY DEF PanelInv, FetchInv, PanelOfSelected, panelVars

\* A refresh is started.
LEMMA StartRefreshStep ==
  ASSUME IInv, StartRefresh
  PROVE  IInv'
<1> USE DashboardAssumption DEF IInv
<1>1. /\ started < MaxRefreshes /\ started \in Nat /\ MaxRefreshes \in Nat
      /\ started' = started + 1 /\ open' = open \cup {started + 1}
      /\ UNCHANGED <<answers, page, loading, panelVars>>
      /\ open \subseteq 1 .. started
  BY DEF StartRefresh, TypeOK
<1>2. TypeOK'
  <2>1. started' \in 0 .. MaxRefreshes /\ open' \subseteq 1 .. started'
    BY <1>1
  <2> QED
    BY <1>1, <2>1 DEF TypeOK, panelVars
<1>3. PanelInv'
  BY <1>1, PanelFrame DEF PanelInv
<1> QED
  BY <1>2, <1>3 DEF PanelInv

\* A fetch of a refresh is answered, with data of any age or a blank.
LEMMA AnswerPartStep ==
  ASSUME IInv, NEW n \in Refresh, NEW p \in Part, AnswerPart(n, p)
  PROVE  IInv'
<1> USE DEF IInv
<1>1. PICK a \in Answer : answers' = [answers EXCEPT ![n][p] = a]
  BY DEF AnswerPart
<1>2. UNCHANGED <<started, open, page, loading, panelVars>>
  BY DEF AnswerPart
<1>3. TypeOK'
  <2>1. answers' \in [Refresh -> [Part -> Answer \cup {"waiting"}]]
    BY <1>1 DEF TypeOK
  <2> QED
    BY <1>2, <2>1 DEF TypeOK, panelVars
<1>4. PanelInv'
  BY <1>2, PanelFrame DEF PanelInv
<1> QED
  BY <1>3, <1>4 DEF PanelInv

\* A refresh is closed: the page shows the old parts or its own.
LEMMA CloseStep ==
  ASSUME IInv, NEW n \in Refresh, ShowRefresh(n) \/ RefreshFails(n)
  PROVE  IInv'
<1> USE DEF IInv
<1>1. /\ open' = open \ {n} /\ loading' = FALSE
      /\ answers' = [answers EXCEPT ![n] = [p \in Part |-> "waiting"]]
      /\ UNCHANGED <<started, panelVars>>
  BY DEF ShowRefresh, RefreshFails, Close
<1>2. page' \in [Part -> Answer]
  <2>1. CASE ShowRefresh(n)
    <3>1. /\ page' = answers[n] /\ answers[n] \in [Part -> Answer \cup {"waiting"}]
          /\ \A p \in Part : answers[n][p] # "waiting"
      BY <2>1 DEF ShowRefresh, TypeOK
    <3>2. \A p \in Part : answers[n][p] \in Answer
      BY <3>1
    <3> QED
      BY <3>1, <3>2
  <2>2. CASE RefreshFails(n)
    BY <2>2 DEF RefreshFails, TypeOK
  <2> QED
    BY <2>1, <2>2
<1>3. TypeOK'
  <2>1. answers' \in [Refresh -> [Part -> Answer \cup {"waiting"}]]
    BY <1>1 DEF TypeOK
  <2> QED
    BY <1>1, <1>2, <2>1 DEF TypeOK, panelVars
<1>4. PanelInv'
  BY <1>1, PanelFrame DEF PanelInv
<1> QED
  BY <1>3, <1>4 DEF PanelInv

\* A click with nothing under way leaves its own fetch, or an empty panel.
LEMMA ClickStep ==
  ASSUME IInv, NEW r \in Reviews, Click(r)
  PROVE  IInv'
<1> USE DashboardAssumption DEF IInv
<1>1. /\ clicks' = clicks + 1 /\ overlapped' = (pending # {})
      /\ clicks \in Nat /\ clicks < MaxClicks /\ MaxClicks \in Nat
      /\ UNCHANGED refreshVars
      /\ \/ selected' = "none" /\ findings' = {} /\ pending' = pending
         \/ /\ selected' = r /\ findings' = findings
            /\ pending' = pending \cup {[click |-> clicks + 1, review |-> r]}
  BY DEF Click, TypeOK
<1>2. TypeOK'
  <2>1. /\ pending' \subseteq [click : 1 .. clicks', review : Reviews]
        /\ clicks' \in 0 .. MaxClicks /\ overlapped' \in BOOLEAN
        /\ selected' \in Reviews \cup {"none"}
    BY <1>1 DEF TypeOK
  <2> QED
    BY <1>1, <2>1 DEF TypeOK, refreshVars
<1>3. PanelInv'
  <2>1. CASE overlapped'
    BY <2>1 DEF PanelInv, FetchInv, PanelOfSelected
  <2>2. CASE ~overlapped' /\ selected' = "none" /\ findings' = {} /\ pending' = pending
    BY <2>2, <1>1 DEF PanelInv, FetchInv, PanelOfSelected
  <2>3. CASE /\ ~overlapped' /\ selected' = r
             /\ pending' = pending \cup {[click |-> clicks + 1, review |-> r]}
    <3>1. pending = {}
      BY <2>3, <1>1, Zenon
    <3>2. pending' = {[click |-> clicks + 1, review |-> selected']} /\ clicks + 1 \in 1 .. clicks'
      BY <2>3, <1>1, <3>1
    <3> QED
      BY <3>2 DEF PanelInv, FetchInv, PanelOfSelected
  <2> QED
    BY <2>1, <2>2, <2>3, <1>1
<1> QED
  BY <1>2, <1>3 DEF PanelInv

\* A fetch that was alone is for the review in the heading.
LEMMA SettleStep ==
  ASSUME IInv, NEW f \in pending, FindingsArrive(f) \/ FindingsFail(f)
  PROVE  IInv'
<1> USE DashboardAssumption DEF IInv
<1>1. /\ pending' = pending \ {f} /\ findings' \subseteq Findings[f.review]
      /\ UNCHANGED <<refreshVars, selected, clicks, overlapped>>
      /\ f.review \in Reviews
  BY DEF FindingsArrive, FindingsFail, Settle, TypeOK
<1>2. TypeOK'
  BY <1>1 DEF TypeOK, refreshVars
<1>3. PanelInv'
  <2>1. CASE overlapped
    BY <2>1, <1>1 DEF PanelInv, FetchInv, PanelOfSelected
  <2>2. CASE ~overlapped
    <3>1. PICK c \in 1 .. clicks : pending = {[click |-> c, review |-> selected]}
      BY <2>2 DEF FetchInv
    <3>2. pending' = {} /\ f.review = selected /\ selected # "none"
      BY <1>1, <3>1
    <3> QED
      BY <1>1, <3>2 DEF PanelInv, FetchInv, PanelOfSelected
  <2> QED
    BY <2>1, <2>2 DEF TypeOK
<1> QED
  BY <1>2, <1>3 DEF PanelInv

\* IInv is inductive.
LEMMA NextIInv == IInv /\ [Next]_vars => IInv'
<1> SUFFICES ASSUME IInv, [Next]_vars PROVE IInv'
  OBVIOUS
<1>1. CASE UNCHANGED vars
  <2>1. TypeOK'
    BY <1>1 DEF vars, refreshVars, panelVars, IInv, TypeOK
  <2>2. PanelInv'
    BY <1>1, PanelFrame DEF vars, IInv, PanelInv
  <2> QED
    BY <2>1, <2>2 DEF IInv, PanelInv
<1>2. CASE StartRefresh
  BY <1>2, StartRefreshStep
<1>3. CASE \E r \in Reviews : Click(r)
  BY <1>3, ClickStep
<1>4. CASE \E n \in Refresh : ShowRefresh(n) \/ RefreshFails(n)
  BY <1>4, CloseStep
<1>5. CASE \E n \in Refresh : \E p \in Part : AnswerPart(n, p)
  BY <1>5, AnswerPartStep
<1>6. CASE \E f \in pending : FindingsArrive(f) \/ FindingsFail(f)
  BY <1>6, SettleStep
<1> QED
  BY <1>1, <1>2, <1>3, <1>4, <1>5, <1>6 DEF Next, Browser

\* The panel's findings and the fetches under way fit the review in the heading
\* as FetchInv and PanelOfSelected say, whatever the API answers and however
\* many refreshes and clicks there are.
THEOREM DashboardInvariant == Spec => []IInv
<1> QED
  BY InitIInv, NextIInv, PTL DEF Spec

\* The panel shows findings of the review in its heading only, unless the last
\* click was made while a fetch was under way.
THEOREM PanelShowsSelected == Spec => []PanelOfSelected
<1>1. IInv => PanelOfSelected
  BY DEF IInv
<1> QED
  BY <1>1, DashboardInvariant, PTL
=============================================================================
