---------------------------- MODULE CaseAggregate ----------------------------
(***************************************************************************)
(* The case row: what CaseAggregate, jobs.py, observation.py and           *)
(* analysis_start.py compute between load_for_update and save.  A case is  *)
(* one value; every operation is a function from a case to the next.       *)
(*                                                                         *)
(* A job is named by its position in job_records (the code draws a fresh   *)
(* uuid), a scope by the job first issued with it, and a candidate by      *)
(* <<search job that found it, rank>> (search draws fresh candidate ids    *)
(* and ranks them from 1).  Descriptions, hints and spans are left out.    *)
(***************************************************************************)
EXTENDS Naturals, Sequences

Analysis    == {"HINT_EXTRACT", "COARSE_SEARCH"}
Readout     == {"PLATE_READ", "OVERLAY_TIME_READ"}
Observation == {"FINE_VERIFY", "INCIDENT_CLIP_BUILD"} \union Readout
NotApplied  == {"CANCELLED", "SUPERSEDED", "STOPPED_WAITING"}
Reasons     == {"REFLECTED", "EXHAUSTED"} \union NotApplied
Reviewing   == {"EVIDENCE_REVIEW", "READY"}
NoCand      == <<0, 0>>

EmptyCase ==
  [ stage     |-> "INTAKE",
    jobs      |-> <<>>,      \* job_records with their observation_inputs
    settled   |-> <<>>,      \* settled_jobs; "waiting" stands for no entry
    out       |-> <<>>,      \* observation_outcomes; "none" stands for no entry
    processed |-> {},        \* processed_executions
    cands     |-> {},
    selected  |-> NoCand,
    failed    |-> "no",      \* candidate_search_failed: no, retry, or fatal (range, media)
    unclear   |-> FALSE ]    \* hint_unclear

Largest(S)  == IF S = {} THEN 0 ELSE CHOOSE i \in S : \A k \in S : k <= i

Waiting(c)  == {i \in DOMAIN c.jobs : c.settled[i] = "waiting"}
OfKind(c, kinds)      == {i \in DOMAIN c.jobs : c.jobs[i].kind \in kinds}
SearchAwaited(c)      == Waiting(c) \intersect OfKind(c, Analysis) # {}
LatestRecord(c, kind) == Largest(OfKind(c, {kind}))

\* settle_job: the first reason wins.
Settle(c, ids, why) ==
  [c EXCEPT !.settled =
     [i \in DOMAIN @ |-> IF i \in ids /\ @[i] = "waiting" THEN why ELSE @[i]]]

\* issue_job: a waiting job of the same kind and scope is superseded.
Issue(c, job) ==
  LET prior == {i \in Waiting(c) : c.jobs[i].kind = job.kind /\ c.jobs[i].scope = job.scope}
  IN [Settle(c, prior, "SUPERSEDED") EXCEPT
        !.jobs = Append(@, job), !.settled = Append(@, "waiting"), !.out = Append(@, "none")]

IssueSameInput(c, i) == Issue(c, c.jobs[i])

-----------------------------------------------------------------------------
(* Analysis: HINT_EXTRACT and COARSE_SEARCH.                               *)

\* `via` of a search is the hint job it follows, 0 if there was none; the
\* code does not store it.
AnalysisJob(kind, scope, hint) ==
  [kind |-> kind, scope |-> scope, cand |-> NoCand, gen |-> 0, via |-> hint]

\* issue_initial_search draws a new scope.
IssueInitialSearch(c, hint) ==
  Issue(c, AnalysisJob("COARSE_SEARCH", Len(c.jobs) + 1, hint))

\* An empty description needs no hint extraction.
BeginAnalysis(c, described) ==
  IF described THEN Issue(c, AnalysisJob("HINT_EXTRACT", 0, 0)) ELSE IssueInitialSearch(c, 0)

MutHintsArrive(c, i, unclear, why) ==       \* mutant: the hint job is not settled
  IssueInitialSearch([c EXCEPT !.unclear = unclear], i)

\* record_extracted_hints, settle_job and the first search.
HintsArrive(c, i, unclear, why) ==
  IssueInitialSearch(Settle([c EXCEPT !.unclear = unclear], {i}, why), i)

SearchFails(c, i, how) == Settle([c EXCEPT !.failed = how], {i}, "REFLECTED")

\* receive_candidates replaces the list; nothing of it is selected yet.
ReceiveCandidates(c, i, found) ==
  Settle([c EXCEPT !.cands = {<<i, rank>> : rank \in 1..found}, !.selected = NoCand,
                   !.failed = "no", !.stage = "CANDIDATE_REVIEW"], {i}, "REFLECTED")

MutRegress(c) == c                           \* mutant: the stage is left alone
MutRegressKeep(c) == [c EXCEPT !.stage = "SEARCHING"]   \* mutant: nothing is dropped

\* regress_to_searching drops the list and with it the selection.
Regress(c) == [c EXCEPT !.stage = "SEARCHING", !.cands = {}, !.selected = NoCand]

\* stop_waiting_expired; `late` are the jobs whose deadline has passed.
StopExpired(c, late) == Settle(c, late \intersect Waiting(c), "STOPPED_WAITING")

\* _analysis_halt_reason.
HaltReason(c) ==
  IF c.stage = "SEARCHING" /\ ~SearchAwaited(c) /\ OfKind(c, Analysis) # {}
  THEN c.settled[Largest(OfKind(c, Analysis))] ELSE "none"

-----------------------------------------------------------------------------
(* Observation of the selected candidate.                                  *)

\* The last search that was reflected marks the generation of candidates.
CurrentGeneration(c) ==
  Largest({i \in OfKind(c, {"COARSE_SEARCH"}) : c.settled[i] = "REFLECTED"})

IsCurrent(c, i) == c.jobs[i].cand = c.selected /\ c.jobs[i].gen = CurrentGeneration(c)

Mine(c) == {i \in OfKind(c, Observation) : c.selected # NoCand /\ IsCurrent(c, i)}

MutPreparing(c) == FALSE                     \* mutant: reselection at any time

\* preparing_selected_candidate.
Preparing(c) == Mine(c) \intersect Waiting(c) # {}

\* `via` is the job the input comes from: the Fine of a clip, the clip of a
\* readout.  _issue takes the scope of the generation's search.
ObservationJob(c, kind, via) ==
  LET gen == CurrentGeneration(c)
  IN [kind |-> kind, scope |-> c.jobs[gen].scope, cand |-> c.selected, gen |-> gen, via |-> via]

IssueFine(c) ==
  IF c.selected = NoCand \/ CurrentGeneration(c) = 0 THEN c
  ELSE Issue(c, ObservationJob(c, "FINE_VERIFY", 0))

FollowFine(c, i) ==
  IF c.out[i] = "OK" /\ IsCurrent(c, i)
  THEN Issue(c, ObservationJob(c, "INCIDENT_CLIP_BUILD", i)) ELSE c

IssueReadouts(c, clip, kinds) ==
  LET plate == IF "PLATE_READ" \in kinds
               THEN Issue(c, ObservationJob(c, "PLATE_READ", clip)) ELSE c
  IN IF "OVERLAY_TIME_READ" \in kinds
     THEN Issue(plate, ObservationJob(plate, "OVERLAY_TIME_READ", clip)) ELSE plate

FollowClip(c, i) ==
  IF c.out[i] = "OK" /\ IsCurrent(c, i) THEN IssueReadouts(c, i, Readout) ELSE c

\* The last of the selected candidate's jobs of a kind that succeeded on an input.
LastSuccess(c, kind, via) ==
  Largest({i \in Mine(c) \intersect OfKind(c, {kind}) :
             c.jobs[i].via = via /\ c.out[i] \notin {"none", "FAILED"}})

\* Mutant: a readout that failed counts as done.
MutMissingReadouts(c, clip) ==
  {k \in Readout : \A i \in Mine(c) : c.jobs[i].kind = k => c.jobs[i].via # clip}

MissingReadouts(c, clip) == {k \in Readout : LastSuccess(c, k, clip) = 0}

\* issue_missing_for_selected: only the first step that is missing.
IssueMissing(c) ==
  LET fine == LastSuccess(c, "FINE_VERIFY", 0)
      clip == LastSuccess(c, "INCIDENT_CLIP_BUILD", fine)
  IN CASE c.selected = NoCand \/ Preparing(c)        -> c
       [] fine = 0 \/ c.out[fine] = "NO_VISUAL"      -> IssueFine(c)
       [] fine # 0 /\ c.out[fine] = "NOT_OBSERVED"   -> c
       [] OTHER -> IF clip = 0 THEN FollowFine(c, fine)
                   ELSE IssueReadouts(c, clip, MissingReadouts(c, clip))

\* Coarse T2 selects rank 1 and issues its Fine; search ranks from 1, so only
\* an empty list has no rank 1.
SelectTopRanked(c, i) ==
  IF <<i, 1>> \in c.cands
  THEN IssueFine([c EXCEPT !.selected = <<i, 1>>, !.stage = "EVIDENCE_REVIEW"]) ELSE c

\* check_reselect and reselect_candidate.
MayReselect(c, cand) ==
  /\ c.stage \in Reviewing
  /\ cand \in c.cands /\ cand # c.selected
  /\ ~Preparing(c)

MutReselect(c, cand) ==                      \* mutant: no observation is issued
  [c EXCEPT !.selected = cand, !.stage = "EVIDENCE_REVIEW"]
MutReselectReady(c, cand) == IssueMissing([c EXCEPT !.selected = cand])  \* mutant: READY stays

Reselect(c, cand) == IssueMissing([c EXCEPT !.selected = cand, !.stage = "EVIDENCE_REVIEW"])

-----------------------------------------------------------------------------
(* What the stored observation adapter assembles for the selected          *)
(* candidate.                                                              *)

\* _settled_readouts: the last reflected readout of a kind over the clip of
\* the last plate job.
SettledReadout(c, kind) ==
  LET plate == Largest(Mine(c) \intersect OfKind(c, {"PLATE_READ"}))
  IN IF plate = 0 THEN 0
     ELSE Largest({i \in Mine(c) \intersect OfKind(c, {kind}) :
                     c.jobs[i].via = c.jobs[plate].via /\ c.settled[i] = "REFLECTED"})

ReadoutsSettled(c) == \A kind \in Readout : SettledReadout(c, kind) # 0

\* plate_read_outcome of the assembled bundle.
PlateFailed(c) == ReadoutsSettled(c) /\ c.out[SettledReadout(c, "PLATE_READ")] = "FAILED"

\* mark_ready_if_package_ready: whether evidence and requirements let the
\* Package out is left open; without both readouts there is no evidence.
Gate(c) ==
  {c} \union {d \in {[c EXCEPT !.stage = "READY"]} :
                c.stage = "EVIDENCE_REVIEW" /\ ReadoutsSettled(c)}
=============================================================================
