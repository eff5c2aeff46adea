----------------------------- MODULE CaseScreen -----------------------------
(***************************************************************************)
(* What the user sees of a case: the notices and the progress of its view  *)
(* (case/view.py, case/service.py), the screen the web client picks by     *)
(* them (apps/web/src/state/selectScreen.ts), and the buttons of that      *)
(* screen (apps/web/src/screens).  Nothing here has state of its own.      *)
(*                                                                         *)
(* Exports, and the questions that evidence may ask once it is there, are  *)
(* left out: they are buttons of the one screen EVIDENCE.                  *)
(***************************************************************************)
EXTENDS CaseJobs

\* _build: without a Fine that saw the event, or before both readouts are in,
\* there is no evidence.
HasEvidence(c) ==
  LET ran == {i \in Mine(c) \intersect OfKind(c, {"FINE_VERIFY"}) : ledger[i].run = "SUCCEEDED"}
  IN ran # {} /\ ledger[Largest(ran)].content = "OK" /\ ReadoutsSettled(c)

\* The step coarse_search of _build_progress.
CoarseStep(c) ==
  CASE c.stage = "INTAKE"                       -> "PENDING"
    [] c.stage \notin {"INTAKE", "SEARCHING"}   -> "DONE"
    [] c.stage = "SEARCHING" /\ Halted(c)       -> "PARTIAL"
    [] c.stage = "SEARCHING" /\ ~Halted(c) /\ c.failed # "no" /\ ~SearchAwaited(c) -> "FAILED"
    [] OTHER                                    -> "RUNNING"

\* selected_clip_failed.
ClipFailed(c) ==
  LET clip == Largest(Mine(c) \intersect OfKind(c, {"INCIDENT_CLIP_BUILD"}))
  IN clip # 0 /\ c.out[clip] = "FAILED"

\* The notices in DEAD_END_CODES.  A search that is refused for its input gets
\* the same screen by one of two notices.
DeadEnd(c) == VisualVerifyFailed(c) \/ ClipFailed(c) \/ (CoarseStep(c) = "FAILED" /\ c.failed = "fatal")

\* A rule of selectScreen: a screen and when it is the one.
When(condition, screen) == [holds |-> condition, screen |-> screen]

\* selectScreen from top to bottom; its running jobs are the jobs waited for.
Rules(c) ==
  LET over     == Waiting(c) = {}
      evidence == HasEvidence(c)
      search   == CoarseStep(c)
  IN << When(~evidence /\ NotObserved(c), "NOT_OBSERVED"),
        When(over /\ DeadEnd(c), "SEARCH_FAILED"),
        When(c.stage = "EVIDENCE_REVIEW" /\ ~evidence, "PROGRESS"),
        When(search = "PARTIAL", "STOPPED"),
        When(over /\ search = "FAILED", "SEARCH_FAILED"),
        When(over /\ NoCandidates(c), "NO_RESULT"),
        When(c.stage = "READY" \/ (c.stage = "EVIDENCE_REVIEW" /\ over), "EVIDENCE"),
        When(TRUE, "PROGRESS") >>

Screen(c) ==
  LET rules == Rules(c)
  IN rules[CHOOSE k \in DOMAIN rules : rules[k].holds /\ \A j \in 1..(k - 1) : ~rules[j].holds].screen

Others(c) == c.cands \ {c.selected}

\* The buttons of a screen where no work is under way; "start over" is on each
\* and leaves the case.  The failure screen shows the actions of blocking
\* notices only, and the candidates.
Buttons(c) ==
  CASE Screen(c) = "STOPPED" ->
         {IF LatestRecord(c, "COARSE_SEARCH") # 0 THEN "RETRY_SEARCH" ELSE "EDIT_HINT"}
    [] Screen(c) = "NO_RESULT"    -> {"EDIT_HINT", "RETRY_SEARCH"}
    [] Screen(c) = "NOT_OBSERVED" -> {"EDIT_HINT"} \union {"SELECT_OTHER" : cand \in Others(c)}
    [] Screen(c) = "SEARCH_FAILED" ->
         {"SELECT_OTHER" : cand \in Others(c)}
           \union (IF CoarseStep(c) = "FAILED" /\ c.failed = "retry" THEN {"RETRY_SEARCH"} ELSE {})
    [] OTHER -> {}

\* What the command handlers ask for before they do anything.
Admitted(c, command) ==
  CASE command = "EDIT_HINT"    -> EditHintOffered(c) /\ (c.stage = "SEARCHING" => ~SearchAwaited(c))
    [] command = "RETRY_SEARCH" -> RetrySearchOffered(c) /\ LatestRecord(c, "COARSE_SEARCH") # 0
    [] command = "SELECT_OTHER" -> \E cand \in Others(c) : MayReselect(c, cand)

-----------------------------------------------------------------------------
(* Properties.                                                             *)

\* A Fine without visual evidence would be left on the progress screen; search
\* never returns one.
WithoutVisual(c) ==
  \E i \in Mine(c) \intersect OfKind(c, {"FINE_VERIFY"}) : ledger[i].content = "NO_VISUAL"

\* The progress screen is shown only while a result is waited for, and the
\* stopped screen only when none is.
ScreenTellsProgress ==
  /\ Screen(View) = "PROGRESS" /\ View.stage # "INTAKE" => Waiting(View) # {} \/ WithoutVisual(View)
  /\ Screen(View) = "STOPPED" => Waiting(View) = {}

\* Where it is over the screen offers a command, and the case admits what it
\* offers.  By intention there is none after a failure that repetition cannot
\* mend, with no other candidate to look at; the notice of an earlier
\* candidate's Fine is taken for such a failure, too (see CaseEmptyResult).
ScreenLeadsOn ==
  Screen(View) \in {"STOPPED", "SEARCH_FAILED", "NO_RESULT", "NOT_OBSERVED"} =>
    /\ \A command \in Buttons(View) : Admitted(View, command) \/ Preparing(View)
    /\ Buttons(View) # {} \/ (DeadEnd(View) /\ Others(View) = {})

\* What the user is told and may do in every state: case-edge-cases.md says of
\* each way a search or a verification can end what the user goes on with.
ScreenGuides == ScreenTellsProgress /\ ScreenLeadsOn

InProgress == LET c == View IN c.stage # "INTAKE" /\ Screen(c) = "PROGRESS"

ObservationLost ==
  \E i \in Waiting(case) \intersect OfKind(case, Observation) : ledger[i].run = "STALE"

\* The progress screen comes to an end, by a result, a notice or the deadline of
\* the search, unless an observation job is lost (see CaseFineLost).
ProgressEnds == InProgress ~> ~InProgress \/ ObservationLost

\* selectScreen.ts:111: no candidates is no failure, it has the empty result
\* screen, with its two ways on (service.py:320).
EmptyResultIsShown == NoCandidates(View) /\ Waiting(View) = {} => Screen(View) = "NO_RESULT"
=============================================================================
