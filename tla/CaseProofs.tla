----------------------------- MODULE CaseProofs -----------------------------
(* Proofs about CaseJobs and CaseScreen for every set of commands, of      *)
(* findings and of endings, and every bound.                               *)
EXTENDS CaseScreen, TLAPS, WellFoundedInduction, FiniteSetTheorems

-----------------------------------------------------------------------------
(* Types.                                                                  *)

Kinds     == Analysis \union Observation
Cand      == (Nat \ {0}) \X (Nat \ {0})
JobRecord == [kind : Kinds, scope : Nat, cand : Cand \union {NoCand}, gen : Nat, via : Nat]
Said      == {"none", "OK", "UNCLEAR", "NOT_OBSERVED", "NO_VISUAL", "FAILED", "retry", "fatal"}
State     == {"waiting"} \union Reasons

CaseRecord ==
  [stage     : {"INTAKE", "SEARCHING", "CANDIDATE_REVIEW"} \union Reviewing,
   jobs      : Seq(JobRecord),
   settled   : Seq(State),
   out       : Seq(Said),
   processed : SUBSET Nat,
   cands     : SUBSET Cand,
   selected  : Cand \union {NoCand},
   failed    : {"no", "retry", "fatal"},
   unclear   : BOOLEAN]

Shape(c) == c \in CaseRecord /\ Len(c.settled) = Len(c.jobs) /\ Len(c.out) = Len(c.jobs)

Jobs(c) == 1 .. Len(c.jobs)

LEMMA ShapeFacts ==
  ASSUME NEW c, Shape(c)
  PROVE  /\ Len(c.jobs) \in Nat
         /\ DOMAIN c.jobs = Jobs(c) /\ DOMAIN c.settled = Jobs(c) /\ DOMAIN c.out = Jobs(c)
         /\ \A i \in Jobs(c) : /\ i \in Nat \ {0}
                               /\ c.jobs[i] \in JobRecord
                               /\ c.settled[i] \in State
                               /\ c.out[i] \in Said
<1>1. c.jobs \in Seq(JobRecord) /\ c.settled \in Seq(State) /\ c.out \in Seq(Said)
  BY DEF Shape, CaseRecord
<1>2. Len(c.jobs) \in Nat /\ Len(c.settled) = Len(c.jobs) /\ Len(c.out) = Len(c.jobs)
  BY <1>1 DEF Shape
<1>3. /\ DOMAIN c.jobs = Jobs(c) /\ DOMAIN c.settled = Jobs(c) /\ DOMAIN c.out = Jobs(c)
  BY <1>1, <1>2 DEF Jobs
<1>4. \A i \in Jobs(c) : c.jobs[i] \in JobRecord /\ c.settled[i] \in State /\ c.out[i] \in Said
  BY <1>1, <1>2 DEF Jobs
<1> QED BY <1>2, <1>3, <1>4 DEF Jobs

\* Largest(S) is what its name says for every set of positions.
LEMMA LargestFacts ==
  ASSUME NEW n \in Nat, NEW S, S \subseteq 1 .. n
  PROVE  /\ S = {} => Largest(S) = 0
         /\ S # {} => Largest(S) \in S /\ \A k \in S : k <= Largest(S)
<1>1. CASE S = {}  BY <1>1 DEF Largest
<1>2. CASE S # {}
  <2> DEFINE T == {n - k : k \in S}
  <2>1. T \subseteq Nat /\ T # {}
    <3>1. \A k \in S : n - k \in Nat  OBVIOUS
    <3>2. \A x \in T : x \in Nat  BY <3>1
    <3>3. PICK k \in S : TRUE  BY <1>2
    <3>4. n - k \in T  OBVIOUS
    <3> QED BY <3>2, <3>4
  <2>2. \E x \in T : \A y \in T : <<y, x>> \notin OpToRel(<, Nat)
    <3> HIDE DEF T
    <3> QED BY <2>1, NatLessThanWellFounded, WFMin
  <2>3. PICK x \in T : \A y \in T : <<y, x>> \notin OpToRel(<, Nat)  BY <2>2
  <2>4. \A y \in T : ~(y < x)
    <3> HIDE DEF T
    <3> QED BY <2>1, <2>3 DEF OpToRel
  <2>5. PICK m \in S : x = n - m  OBVIOUS
  <2>6. \A k \in S : k <= m
    <3> TAKE k \in S
    <3>1. ~(n - k < n - m)  BY <2>4, <2>5
    <3> QED BY <3>1
  <2> QED BY <1>2, <2>6 DEF Largest
<1> QED BY <1>1, <1>2

-----------------------------------------------------------------------------
(* What settling and issuing do to a case.                                 *)

\* The parts of a case that Settle and Issue leave alone.
SameCase(c, d) ==
  /\ d.stage = c.stage /\ d.processed = c.processed /\ d.cands = c.cands
  /\ d.selected = c.selected /\ d.failed = c.failed /\ d.unclear = c.unclear

LEMMA SettleFacts ==
  ASSUME NEW c, Shape(c), NEW ids, NEW why \in Reasons, NEW d, d = Settle(c, ids, why)
  PROVE  /\ Shape(d) /\ SameCase(c, d) /\ d.jobs = c.jobs /\ d.out = c.out /\ Jobs(d) = Jobs(c)
         /\ \A i \in Jobs(c) : d.settled[i] = IF i \in ids /\ c.settled[i] = "waiting"
                                              THEN why ELSE c.settled[i]
<1> DEFINE s == [i \in DOMAIN c.settled |-> IF i \in ids /\ c.settled[i] = "waiting"
                                            THEN why ELSE c.settled[i]]
<1>1. c \in CaseRecord /\ d = [c EXCEPT !.settled = s]  BY DEF Settle, Shape
<1>2. c.settled \in Seq(State) /\ Len(c.settled) = Len(c.jobs) /\ Len(c.jobs) \in Nat
  BY ShapeFacts DEF Shape, CaseRecord
<1>3. /\ s \in [1 .. Len(c.jobs) -> State]
  BY <1>2 DEF State
<1>4. s \in Seq(State) /\ Len(s) = Len(c.jobs)
  BY <1>2, <1>3
<1>5. \A i \in Jobs(c) : s[i] = IF i \in ids /\ c.settled[i] = "waiting" THEN why ELSE c.settled[i]
  BY <1>2 DEF Jobs
<1> HIDE DEF s
<1>6. d \in CaseRecord /\ d.settled = s /\ SameCase(c, d) /\ d.jobs = c.jobs /\ d.out = c.out
  BY <1>1, <1>4 DEF CaseRecord, SameCase
<1> QED BY <1>4, <1>5, <1>6 DEF Shape, Jobs

\* d is c after a job was issued.
Issued(c, d, job) ==
  /\ SameCase(c, d)
  /\ Len(d.jobs) = Len(c.jobs) + 1
  /\ d.jobs[Len(d.jobs)] = job /\ d.settled[Len(d.jobs)] = "waiting" /\ d.out[Len(d.jobs)] = "none"
  /\ \A i \in Jobs(c) :
       /\ i \in Jobs(d) /\ i # Len(d.jobs)
       /\ d.jobs[i] = c.jobs[i] /\ d.out[i] = c.out[i]
       /\ d.settled[i] = IF /\ c.settled[i] = "waiting"
                            /\ c.jobs[i].kind = job.kind /\ c.jobs[i].scope = job.scope
                         THEN "SUPERSEDED" ELSE c.settled[i]
  /\ \A i \in Jobs(d) : i \in Jobs(c) \/ i = Len(d.jobs)

LEMMA AppendFacts ==
  ASSUME NEW S, NEW s \in Seq(S), NEW e \in S
  PROVE  /\ Append(s, e) \in Seq(S) /\ Len(Append(s, e)) = Len(s) + 1
         /\ Append(s, e)[Len(s) + 1] = e
         /\ \A i \in 1 .. Len(s) : Append(s, e)[i] = s[i]
OBVIOUS

LEMMA IssueFacts ==
  ASSUME NEW c, Shape(c), NEW job \in JobRecord, NEW d, d = Issue(c, job)
  PROVE  Shape(d) /\ Issued(c, d, job)
<1> DEFINE prior == {i \in Waiting(c) : c.jobs[i].kind = job.kind /\ c.jobs[i].scope = job.scope}
           m == Settle(c, prior, "SUPERSEDED")
<1>1. d = [m EXCEPT !.jobs = Append(@, job), !.settled = Append(@, "waiting"), !.out = Append(@, "none")]
  BY DEF Issue
<1>2. /\ Shape(m) /\ SameCase(c, m) /\ m.jobs = c.jobs /\ m.out = c.out /\ Jobs(m) = Jobs(c)
      /\ \A i \in Jobs(c) : m.settled[i] = IF i \in prior /\ c.settled[i] = "waiting"
                                           THEN "SUPERSEDED" ELSE c.settled[i]
  <2> "SUPERSEDED" \in Reasons  BY DEF Reasons, NotApplied
  <2> HIDE DEF prior
  <2> QED BY SettleFacts
<1>3. \A i \in Jobs(c) : m.settled[i] = IF /\ c.settled[i] = "waiting"
                                           /\ c.jobs[i].kind = job.kind /\ c.jobs[i].scope = job.scope
                                        THEN "SUPERSEDED" ELSE c.settled[i]
  BY <1>2, ShapeFacts DEF Waiting
<1> HIDE DEF m
<1>4. /\ m.jobs \in Seq(JobRecord) /\ m.settled \in Seq(State) /\ m.out \in Seq(Said)
      /\ Len(m.settled) = Len(m.jobs) /\ Len(m.out) = Len(m.jobs) /\ Len(m.jobs) \in Nat
      /\ m \in CaseRecord
  BY <1>2, ShapeFacts DEF Shape, CaseRecord
<1>5. /\ d.jobs = Append(m.jobs, job) /\ d.settled = Append(m.settled, "waiting")
      /\ d.out = Append(m.out, "none") /\ SameCase(m, d)
  BY <1>1, <1>4 DEF CaseRecord, SameCase
<1>6. /\ d.jobs \in Seq(JobRecord) /\ Len(d.jobs) = Len(m.jobs) + 1
      /\ d.jobs[Len(d.jobs)] = job /\ \A i \in 1 .. Len(m.jobs) : d.jobs[i] = m.jobs[i]
  BY <1>4, <1>5, AppendFacts
<1>7. /\ d.settled \in Seq(State) /\ Len(d.settled) = Len(m.jobs) + 1
      /\ d.settled[Len(d.jobs)] = "waiting" /\ \A i \in 1 .. Len(m.jobs) : d.settled[i] = m.settled[i]
  <2> "waiting" \in State  BY DEF State
  <2> QED BY <1>4, <1>5, <1>6, AppendFacts
<1>8. /\ d.out \in Seq(Said) /\ Len(d.out) = Len(m.jobs) + 1
      /\ d.out[Len(d.jobs)] = "none" /\ \A i \in 1 .. Len(m.jobs) : d.out[i] = m.out[i]
  <2> "none" \in Said  BY DEF Said
  <2> QED BY <1>4, <1>5, <1>6, AppendFacts
<1>9. Shape(d)
  <2>1. d \in CaseRecord
    BY <1>1, <1>4, <1>5, <1>6, <1>7, <1>8 DEF CaseRecord
  <2> QED BY <2>1, <1>6, <1>7, <1>8 DEF Shape
<1>10. SameCase(c, d)  BY <1>2, <1>5 DEF SameCase
<1> QED BY <1>2, <1>3, <1>4, <1>6, <1>7, <1>8, <1>9, <1>10 DEF Issued, Jobs
-----------------------------------------------------------------------------
(* The inductive invariant of a case: what its jobs say of each other ...  *)

\* A first search names the hint job it follows, which is older.
HintsKnown(c) == \A i \in Jobs(c) : c.jobs[i].kind = "COARSE_SEARCH" => c.jobs[i].via < i

Follows(c, i, s) ==
  \E k \in Jobs(c) : c.jobs[k].kind = "COARSE_SEARCH" /\ c.jobs[k].via = i /\ c.jobs[k].scope = s

\* A hint job has searches once it is taken, all of one scope.
HintsFollowed(c) ==
  \A i \in Jobs(c) : c.jobs[i].kind = "HINT_EXTRACT" =>
    IF c.settled[i] \in {"REFLECTED", "EXHAUSTED"}
    THEN \E s \in Nat : Follows(c, i, s) /\ \A t \in Nat : Follows(c, i, t) => t = s
    ELSE \A t \in Nat : ~Follows(c, i, t)

\* An observation job is about a candidate that a reflected search has found.
Placed(c) ==
  \A i \in Jobs(c) : c.jobs[i].kind \in Observation =>
    /\ c.jobs[i].cand \in Cand /\ c.jobs[i].gen = c.jobs[i].cand[1] /\ c.jobs[i].gen \in Jobs(c)
    /\ c.jobs[c.jobs[i].gen].kind = "COARSE_SEARCH" /\ c.settled[c.jobs[i].gen] = "REFLECTED"
    /\ c.jobs[i].scope = c.jobs[c.jobs[i].gen].scope

OutsReflected(c) ==
  \A i \in Jobs(c) :
    c.out[i] # "none" <=> c.settled[i] = "REFLECTED" /\ c.jobs[i].kind \in Observation

OutsOfKind(c) ==
  \A i \in Jobs(c) :
    /\ c.jobs[i].kind = "FINE_VERIFY" =>
         c.out[i] \in {"none", "OK", "NOT_OBSERVED", "NO_VISUAL", "FAILED"}
    /\ c.jobs[i].kind \in Observation \ {"FINE_VERIFY"} => c.out[i] \in {"none", "OK", "FAILED"}

\* The job an observation job takes its input from succeeded for the same candidate.
ComesFrom(c, i, kind) ==
  LET k == c.jobs[i].via
  IN k \in Jobs(c) /\ c.jobs[k].kind = kind /\ c.jobs[k].cand = c.jobs[i].cand /\ c.out[k] = "OK"

Chain(c) ==
  \A i \in Jobs(c) :
    /\ c.jobs[i].kind = "FINE_VERIFY" => c.jobs[i].via = 0
    /\ c.jobs[i].kind = "INCIDENT_CLIP_BUILD" => ComesFrom(c, i, "FINE_VERIFY")
    /\ c.jobs[i].kind \in Readout => ComesFrom(c, i, "INCIDENT_CLIP_BUILD")

\* A job that is repeated is over and brought nothing to build on.
Superseded(c) ==
  \A i, k \in Jobs(c) :
    /\ i < k /\ c.jobs[i].kind = c.jobs[k].kind /\ c.jobs[i].kind \in Observation
    /\ c.jobs[i].cand = c.jobs[k].cand
    => c.settled[i] # "waiting" /\ c.out[i] \in {"none", "FAILED", "NO_VISUAL"}

Past(c) ==
  /\ HintsKnown(c) /\ Placed(c)
  /\ OutsReflected(c) /\ OutsOfKind(c) /\ Chain(c) /\ Superseded(c)

\* What the taking of a hint job breaks until its search is issued, and the rest.
History(c) == HintsFollowed(c) /\ Past(c)

(* ... and what the stage and the selection say of them.                   *)

Staged(c) ==
  /\ c.stage = "INTAKE" => Len(c.jobs) = 0
  /\ c.stage \in {"INTAKE", "SEARCHING"} => c.cands = {}
  /\ c.selected \in c.cands \union {NoCand}
  /\ c.stage \in Reviewing <=> c.selected # NoCand

AwaitsSearch(c, i) == c.settled[i] = "waiting" /\ c.jobs[i].kind \in Analysis

\* The case waits for a hint or search job while SEARCHING, and then for the last one.
OneSearch(c) ==
  \A i \in Jobs(c) : AwaitsSearch(c, i) =>
    /\ c.stage = "SEARCHING"
    /\ \A k \in Jobs(c) : c.jobs[k].kind \in Analysis => k <= i

CandsCurrent(c) == \A d \in c.cands : d[1] = CurrentGeneration(c) /\ CurrentGeneration(c) # 0

WaitingPlaced(c) ==
  \A i \in Jobs(c) : c.settled[i] = "waiting" /\ c.jobs[i].kind \in Observation =>
    /\ c.jobs[i].cand = c.selected
    /\ \A k \in Jobs(c) : c.settled[k] = "waiting" /\ c.jobs[k].kind = c.jobs[i].kind => k = i

\* The jobs of the selected candidate, which are those of its generation.
Own(c, i) ==
  c.selected # NoCand /\ c.jobs[i].kind \in Observation /\ c.jobs[i].cand = c.selected

\* The last plate job of the case is the selected candidate's, if that has one and none succeeded.
PlateLast(c) ==
  \A p \in Jobs(c) :
    /\ Own(c, p) /\ c.jobs[p].kind = "PLATE_READ"
    /\ \A i \in Jobs(c) : Own(c, i) /\ c.jobs[i].kind = "PLATE_READ" => c.out[i] # "OK"
    => Own(c, LatestRecord(c, "PLATE_READ"))

Present(c) == Staged(c) /\ OneSearch(c) /\ CandsCurrent(c) /\ WaitingPlaced(c)

\* Reselecting breaks PlateLast until the missing jobs are issued.
CoreInv(c) == Shape(c) /\ History(c) /\ Present(c)
CaseInv(c) == CoreInv(c) /\ PlateLast(c)

-----------------------------------------------------------------------------
(* How one case follows another.                                           *)

\* The jobs of `taken` take effect, others may be given up, new ones wait.
Evolves(c, d, taken) ==
  /\ Len(c.jobs) <= Len(d.jobs)
  /\ \A i \in Jobs(c) :
       /\ i \in Jobs(d) /\ d.jobs[i] = c.jobs[i]
       /\ i \in taken => c.settled[i] = "waiting" /\ d.settled[i] \in {"REFLECTED", "EXHAUSTED"}
       /\ i \notin taken => \/ d.settled[i] = c.settled[i]
                            \/ c.settled[i] = "waiting" /\ d.settled[i] \in NotApplied
  /\ \A i \in Jobs(d) : i \notin Jobs(c) => d.settled[i] = "waiting"

\* A bound on the jobs the waiting ones may still lead to.
Due(c, kind, n) ==
  IF \E i \in Jobs(c) : c.settled[i] = "waiting" /\ c.jobs[i].kind = kind THEN n ELSE 0

Potential(c) == Due(c, "HINT_EXTRACT", 5) + Due(c, "COARSE_SEARCH", 4)
                + Due(c, "FINE_VERIFY", 3) + Due(c, "INCIDENT_CLIP_BUILD", 2)

\* The jobs there are and may be: a job of a kind counts with what may follow it.
Account(c) == Len(c.jobs) + Potential(c)

Cost(kind) == CASE kind = "HINT_EXTRACT" -> 6 [] kind = "COARSE_SEARCH" -> 5
                [] kind = "FINE_VERIFY" -> 4 [] kind = "INCIDENT_CLIP_BUILD" -> 3 [] OTHER -> 1

-----------------------------------------------------------------------------
(* Generations of candidates, and steps that leave most of a case alone.   *)

Reflected(c, i) == i \in Jobs(c) /\ c.jobs[i].kind = "COARSE_SEARCH" /\ c.settled[i] = "REFLECTED"

LEMMA GenerationFacts ==
  ASSUME NEW c, Shape(c)
  PROVE  /\ CurrentGeneration(c) # 0 => Reflected(c, CurrentGeneration(c))
         /\ \A i : Reflected(c, i) => CurrentGeneration(c) # 0 /\ i <= CurrentGeneration(c)
<1> DEFINE S == {i \in OfKind(c, {"COARSE_SEARCH"}) : c.settled[i] = "REFLECTED"}
<1>1. \A i : i \in S <=> Reflected(c, i)  BY ShapeFacts DEF OfKind, Reflected
<1>2. Len(c.jobs) \in Nat /\ S \subseteq 1 .. Len(c.jobs)
  BY <1>1, ShapeFacts DEF Reflected, Jobs
<1>3. CurrentGeneration(c) = Largest(S)  BY DEF CurrentGeneration
<1> HIDE DEF S
<1>4. /\ S = {} => Largest(S) = 0
      /\ S # {} => Largest(S) \in S /\ \A k \in S : k <= Largest(S)
  BY <1>2, LargestFacts
<1> QED BY <1>1, <1>2, <1>3, <1>4 DEF Reflected, Jobs

LEMMA GenerationSame ==
  ASSUME NEW c, NEW d, Shape(c), Shape(d), \A i : Reflected(c, i) <=> Reflected(d, i)
  PROVE  CurrentGeneration(c) = CurrentGeneration(d)
<1>1. {i \in OfKind(c, {"COARSE_SEARCH"}) : c.settled[i] = "REFLECTED"}
      = {i \in OfKind(d, {"COARSE_SEARCH"}) : d.settled[i] = "REFLECTED"}
  BY ShapeFacts DEF OfKind, Reflected
<1> QED BY <1>1 DEF CurrentGeneration

LEMMA LatestFacts ==
  ASSUME NEW c, Shape(c), NEW kind
  PROVE  /\ LatestRecord(c, kind) # 0 =>
              LatestRecord(c, kind) \in Jobs(c) /\ c.jobs[LatestRecord(c, kind)].kind = kind
         /\ \A i \in Jobs(c) : c.jobs[i].kind = kind =>
              LatestRecord(c, kind) # 0 /\ i <= LatestRecord(c, kind)
<1> DEFINE S == OfKind(c, {kind})
<1>1. \A i : i \in S <=> i \in Jobs(c) /\ c.jobs[i].kind = kind  BY ShapeFacts DEF OfKind
<1>2. Len(c.jobs) \in Nat /\ S \subseteq 1 .. Len(c.jobs)  BY <1>1, ShapeFacts DEF Jobs
<1>3. LatestRecord(c, kind) = Largest(S)  BY DEF LatestRecord
<1> HIDE DEF S
<1>4. /\ S = {} => Largest(S) = 0
      /\ S # {} => Largest(S) \in S /\ \A k \in S : k <= Largest(S)
  BY <1>2, LargestFacts
<1> QED BY <1>1, <1>2, <1>3, <1>4 DEF Jobs

LEMMA LatestSame ==
  ASSUME NEW c, NEW d, Shape(c), Shape(d), NEW kind,
         \A i : i \in Jobs(c) /\ c.jobs[i].kind = kind <=> i \in Jobs(d) /\ d.jobs[i].kind = kind
  PROVE  LatestRecord(d, kind) = LatestRecord(c, kind)
<1>1. OfKind(c, {kind}) = OfKind(d, {kind})  BY ShapeFacts DEF OfKind
<1> QED BY <1>1 DEF LatestRecord

LEMMA HistoryFrame ==
  ASSUME NEW c, NEW d, History(c), d.jobs = c.jobs, d.settled = c.settled, d.out = c.out
  PROVE  History(d)
<1>1. Jobs(d) = Jobs(c)  BY DEF Jobs
<1>2. HintsKnown(d) /\ HintsFollowed(d)  BY <1>1 DEF History, Past, HintsKnown, HintsFollowed, Follows
<1>3. Placed(d)  BY <1>1 DEF History, Past, Placed
<1>4. OutsReflected(d) /\ OutsOfKind(d) /\ Chain(d) /\ Superseded(d)
  BY <1>1 DEF History, Past, OutsReflected, OutsOfKind, Chain, ComesFrom, Superseded
<1> QED BY <1>2, <1>3, <1>4 DEF History, Past

LEMMA EvolvesFrame ==
  ASSUME NEW c, NEW d, Shape(c), d.jobs = c.jobs, d.settled = c.settled
  PROVE  Evolves(c, d, {}) /\ Potential(d) = Potential(c)
<1>1. Jobs(d) = Jobs(c) /\ Len(c.jobs) \in Nat  BY ShapeFacts DEF Jobs
<1> QED BY <1>1 DEF Evolves, Potential, Due

\* Settling jobs disturbs little, unless an observation or a search takes effect.
LEMMA SettleKeeps ==
  ASSUME NEW c, Shape(c), Past(c), Present(c), PlateLast(c), NEW ids, NEW why \in Reasons,
         why = "REFLECTED" =>
           \A i \in Jobs(c) : i \in ids /\ c.settled[i] = "waiting" => c.jobs[i].kind = "HINT_EXTRACT",
         NEW d, d = Settle(c, ids, why)
  PROVE  /\ Shape(d) /\ Past(d) /\ Present(d) /\ PlateLast(d) /\ SameCase(c, d)
         /\ d.jobs = c.jobs /\ d.out = c.out /\ Jobs(d) = Jobs(c)
         /\ \A i \in Jobs(c) : d.settled[i] = IF i \in ids /\ c.settled[i] = "waiting"
                                              THEN why ELSE c.settled[i]
         /\ CurrentGeneration(d) = CurrentGeneration(c)
<1>1. Shape(c) /\ Past(c) /\ Present(c) /\ PlateLast(c)  OBVIOUS
<1>2. /\ Shape(d) /\ SameCase(c, d) /\ d.jobs = c.jobs /\ d.out = c.out /\ Jobs(d) = Jobs(c)
      /\ \A i \in Jobs(c) : d.settled[i] = IF i \in ids /\ c.settled[i] = "waiting"
                                           THEN why ELSE c.settled[i]
  BY <1>1, SettleFacts
<1>3. \A i \in Jobs(c) : /\ d.settled[i] = "waiting" => c.settled[i] = "waiting"
                         /\ c.settled[i] # "waiting" => d.settled[i] = c.settled[i]
                         /\ c.jobs[i].kind # "HINT_EXTRACT" =>
                              (d.settled[i] = "REFLECTED" <=> c.settled[i] = "REFLECTED")
  <2>1. why # "waiting"  BY DEF Reasons, NotApplied
  <2> TAKE i \in Jobs(c)
  <2>2. \/ d.settled[i] = c.settled[i]
        \/ i \in ids /\ c.settled[i] = "waiting" /\ d.settled[i] = why
    BY <1>2
  <2> QED BY <2>1, <2>2
<1>4. CurrentGeneration(d) = CurrentGeneration(c)
  <2>1. \A i : Reflected(c, i) <=> Reflected(d, i)  BY <1>2, <1>3 DEF Reflected
  <2> QED BY <1>1, <1>2, <2>1, GenerationSame
<1>6. HintsKnown(d)  BY <1>1, <1>2 DEF Past, HintsKnown
<1>7. Placed(d)
  <2>1. \A i \in Jobs(c) : c.settled[i] = "REFLECTED" => d.settled[i] = "REFLECTED"  BY <1>3
  <2> QED BY <1>1, <1>2, <2>1 DEF Past, Placed
<1>8. OutsReflected(d) /\ OutsOfKind(d) /\ Chain(d)
  <2>1. \A i \in Jobs(c) : c.jobs[i].kind \in Observation =>
                             (d.settled[i] = "REFLECTED" <=> c.settled[i] = "REFLECTED")
    BY <1>3 DEF Observation, Readout
  <2> QED BY <1>1, <1>2, <2>1 DEF Past, OutsReflected, OutsOfKind, Chain, ComesFrom
<1>9. Superseded(d)  BY <1>1, <1>2, <1>3 DEF Past, Superseded
<1>10. Staged(d)  BY <1>1, <1>2 DEF Present, Staged, SameCase
<1>11. OneSearch(d)  BY <1>1, <1>2, <1>3 DEF Present, OneSearch, AwaitsSearch, SameCase
<1>12. CandsCurrent(d)  BY <1>1, <1>2, <1>4 DEF Present, CandsCurrent, SameCase
<1>13. WaitingPlaced(d)  BY <1>1, <1>2, <1>3 DEF Present, WaitingPlaced, SameCase
<1>14. PlateLast(d)
  <2>1. LatestRecord(d, "PLATE_READ") = LatestRecord(c, "PLATE_READ")  BY <1>1, <1>2, LatestSame
  <2>2. \A i : Own(d, i) <=> Own(c, i)  BY <1>2 DEF Own, SameCase
  <2> QED BY <1>1, <1>2, <2>1, <2>2 DEF PlateLast
<1> QED BY <1>2, <1>4, <1>6, <1>7, <1>8, <1>9, <1>10, <1>11, <1>12, <1>13, <1>14
        DEF Past, Present

\* Giving jobs up disturbs nothing.
LEMMA GivenUp ==
  ASSUME NEW c, CaseInv(c), NEW ids, NEW why \in NotApplied, NEW d, d = Settle(c, ids, why)
  PROVE  /\ CaseInv(d) /\ SameCase(c, d) /\ d.jobs = c.jobs /\ d.out = c.out /\ Jobs(d) = Jobs(c)
         /\ \A i \in Jobs(c) : d.settled[i] = IF i \in ids /\ c.settled[i] = "waiting"
                                              THEN why ELSE c.settled[i]
         /\ Evolves(c, d, {}) /\ CurrentGeneration(d) = CurrentGeneration(c)
<1>1. Shape(c) /\ History(c) /\ Past(c) /\ Present(c) /\ PlateLast(c)  BY DEF CaseInv, CoreInv, History
<1>2. /\ Shape(d) /\ Past(d) /\ Present(d) /\ PlateLast(d) /\ SameCase(c, d)
      /\ d.jobs = c.jobs /\ d.out = c.out /\ Jobs(d) = Jobs(c)
      /\ \A i \in Jobs(c) : d.settled[i] = IF i \in ids /\ c.settled[i] = "waiting"
                                           THEN why ELSE c.settled[i]
      /\ CurrentGeneration(d) = CurrentGeneration(c)
  <2>1. why \in Reasons /\ why # "REFLECTED"  BY DEF Reasons, NotApplied
  <2> QED BY <1>1, <2>1, SettleKeeps
<1>3. \A i \in Jobs(c) : /\ d.settled[i] \in {"REFLECTED", "EXHAUSTED"}
                              <=> c.settled[i] \in {"REFLECTED", "EXHAUSTED"}
                         /\ \/ d.settled[i] = c.settled[i]
                            \/ c.settled[i] = "waiting" /\ d.settled[i] \in NotApplied
  <2>1. why \notin {"waiting", "REFLECTED", "EXHAUSTED"}  BY DEF NotApplied
  <2> TAKE i \in Jobs(c)
  <2>2. \/ d.settled[i] = c.settled[i]
        \/ c.settled[i] = "waiting" /\ d.settled[i] = why
    BY <1>2
  <2> QED BY <2>1, <2>2
<1>4. Evolves(c, d, {})  BY <1>1, <1>2, <1>3, ShapeFacts DEF Evolves
<1>5. HintsFollowed(d)
  <2>1. \A i, s : Follows(d, i, s) <=> Follows(c, i, s)  BY <1>2 DEF Follows
  <2> QED BY <1>1, <1>2, <1>3, <2>1 DEF History, HintsFollowed
<1> QED BY <1>2, <1>4, <1>5 DEF CaseInv, CoreInv, History

-----------------------------------------------------------------------------
(* Issuing a job.                                                          *)

\* What holds of the new job's input, if it observes.
HasInput(c, job) ==
  LET from(kind) == /\ job.via \in Jobs(c) /\ c.jobs[job.via].kind = kind
                    /\ c.jobs[job.via].cand = job.cand /\ c.out[job.via] = "OK"
  IN /\ job.kind = "FINE_VERIFY" => job.via = 0
     /\ job.kind = "INCIDENT_CLIP_BUILD" => from("FINE_VERIFY")
     /\ job.kind \in Readout => from("INCIDENT_CLIP_BUILD")

\* Nothing to build on has come of such a job for the candidate so far.
StillDue(c, job) ==
  \A i \in Jobs(c) : c.jobs[i].kind = job.kind /\ c.jobs[i].cand = job.cand
                       => c.out[i] \in {"none", "FAILED", "NO_VISUAL"}

WellPlaced(c, job) ==
  /\ job.cand \in Cand /\ job.gen = job.cand[1] /\ Reflected(c, job.gen)
  /\ job.scope = c.jobs[job.gen].scope

LEMMA KindFacts ==
  /\ Analysis \intersect Observation = {} /\ Readout \subseteq Observation
  /\ Kinds = Analysis \union Observation
  /\ \A k \in Kinds : /\ k \in Analysis <=> k \in {"HINT_EXTRACT", "COARSE_SEARCH"}
                      /\ k \in Readout <=> k \in {"PLATE_READ", "OVERLAY_TIME_READ"}
                      /\ k \in Observation <=> k \in {"FINE_VERIFY", "INCIDENT_CLIP_BUILD"} \union Readout
BY DEF Kinds, Analysis, Observation, Readout

LEMMA IssueAny ==
  ASSUME NEW c, Shape(c), Past(c), NEW job \in JobRecord, NEW d, d = Issue(c, job),
         job.kind = "COARSE_SEARCH" => job.via <= Len(c.jobs),
         job.kind \in Observation => WellPlaced(c, job) /\ HasInput(c, job) /\ StillDue(c, job)
  PROVE  /\ Shape(d) /\ Issued(c, d, job)
         /\ Evolves(c, d, {}) /\ CurrentGeneration(d) = CurrentGeneration(c)
         /\ Past(d)
<1>1. Shape(d) /\ Issued(c, d, job)  BY IssueFacts
<1> DEFINE n == Len(d.jobs)
<1>2. /\ n = Len(c.jobs) + 1 /\ Len(c.jobs) \in Nat /\ n \in Jobs(d)
      /\ \A i \in Jobs(d) : i \in Jobs(c) \/ i = n
      /\ d.jobs[n] = job /\ d.settled[n] = "waiting" /\ d.out[n] = "none"
  BY <1>1, ShapeFacts DEF Issued, Jobs
<1>3. \A i \in Jobs(c) :
        /\ i \in Jobs(d) /\ i # n /\ i < n /\ d.jobs[i] = c.jobs[i] /\ d.out[i] = c.out[i]
        /\ \/ d.settled[i] = c.settled[i]
           \/ c.settled[i] = "waiting" /\ d.settled[i] = "SUPERSEDED"
  BY <1>1, <1>2 DEF Issued, Jobs
<1>4. \A i \in Jobs(c) : d.settled[i] = "REFLECTED" <=> c.settled[i] = "REFLECTED"
  BY <1>3
<1>5. Evolves(c, d, {})
  <2>1. \A i \in Jobs(c) : \/ d.settled[i] = c.settled[i]
                           \/ c.settled[i] = "waiting" /\ d.settled[i] \in NotApplied
    BY <1>3 DEF NotApplied
  <2> HIDE DEF n
  <2> QED BY <1>2, <1>3, <2>1 DEF Evolves, n
<1>6. CurrentGeneration(d) = CurrentGeneration(c)
  <2>1. \A i : Reflected(c, i) <=> Reflected(d, i)  BY <1>2, <1>3, <1>4 DEF Reflected
  <2> QED BY <1>1, <2>1, GenerationSame
<1> HIDE DEF n
<1>7. HintsKnown(d)
  <2>1. job.via \in Nat  BY DEF JobRecord
  <2> QED BY <1>2, <1>3, <2>1 DEF History, Past, HintsKnown
<1>8. Placed(d)
  <2>1. \A i \in Jobs(c) : i \in Jobs(d) /\ d.jobs[i] = c.jobs[i]
                           /\ (c.settled[i] = "REFLECTED" => d.settled[i] = "REFLECTED")
    BY <1>3, <1>4
  <2>2. job.kind \in Observation => WellPlaced(c, job)  OBVIOUS
  <2>3. ASSUME NEW i \in Jobs(d), d.jobs[i].kind \in Observation
        PROVE  /\ d.jobs[i].cand \in Cand /\ d.jobs[i].gen = d.jobs[i].cand[1] /\ d.jobs[i].gen \in Jobs(d)
               /\ d.jobs[d.jobs[i].gen].kind = "COARSE_SEARCH" /\ d.settled[d.jobs[i].gen] = "REFLECTED"
               /\ d.jobs[i].scope = d.jobs[d.jobs[i].gen].scope
    <3>1. CASE i = n  BY <1>2, <2>1, <2>2, <2>3, <3>1 DEF WellPlaced, Reflected
    <3>2. CASE i \in Jobs(c)  BY <2>1, <2>3, <3>2 DEF History, Past, Placed
    <3> QED BY <1>2, <3>1, <3>2
  <2> QED BY <2>3 DEF Placed
<1>9. OutsReflected(d)  BY <1>2, <1>3, <1>4 DEF History, Past, OutsReflected
<1>10. OutsOfKind(d)
  BY <1>2, <1>3 DEF History, Past, OutsOfKind
<1>11. Chain(d)
  <2>1. job.kind \in Readout \union {"FINE_VERIFY", "INCIDENT_CLIP_BUILD"} => HasInput(c, job)
    BY KindFacts DEF JobRecord, Observation
  <2>2. ASSUME NEW i \in Jobs(d)
        PROVE  /\ d.jobs[i].kind = "FINE_VERIFY" => d.jobs[i].via = 0
               /\ d.jobs[i].kind = "INCIDENT_CLIP_BUILD" => ComesFrom(d, i, "FINE_VERIFY")
               /\ d.jobs[i].kind \in Readout => ComesFrom(d, i, "INCIDENT_CLIP_BUILD")
    <3>1. CASE i = n
      <4>1. \A kind : /\ job.via \in Jobs(c) /\ c.jobs[job.via].kind = kind
                       /\ c.jobs[job.via].cand = job.cand /\ c.out[job.via] = "OK"
                      => ComesFrom(d, i, kind)
        BY <1>2, <1>3, <3>1, ZenonT(40) DEF ComesFrom
      <4>2. d.jobs[i] = job  BY <1>2, <3>1
      <4> QED BY <2>1, <4>1, <4>2 DEF HasInput
    <3>2. CASE i \in Jobs(c)
      BY <1>3, <3>2 DEF History, Past, Chain, ComesFrom
    <3> QED BY <1>2, <3>1, <3>2
  <2> QED BY <2>2 DEF Chain
<1>12. Superseded(d)
  <2>1. ASSUME NEW i \in Jobs(d), NEW k \in Jobs(d), i < k, d.jobs[i].kind = d.jobs[k].kind,
               d.jobs[i].kind \in Observation, d.jobs[i].cand = d.jobs[k].cand
        PROVE  d.settled[i] # "waiting" /\ d.out[i] \in {"none", "FAILED", "NO_VISUAL"}
    <3>1. i \in Jobs(c)  BY <1>2, <2>1 DEF Jobs
    <3>2. CASE k \in Jobs(c)
      <4>1. c.settled[i] # "waiting" /\ c.out[i] \in {"none", "FAILED", "NO_VISUAL"}
        BY <1>3, <2>1, <3>1, <3>2 DEF History, Past, Superseded
      <4> QED BY <1>3, <3>1, <4>1
    <3>3. CASE k = n
      <4>1. c.jobs[i].kind = job.kind /\ c.jobs[i].cand = job.cand /\ job.kind \in Observation
        BY <1>2, <1>3, <2>1, <3>1, <3>3
      <4>2. c.jobs[i].scope = job.scope
        BY <3>1, <4>1 DEF History, Past, Placed, WellPlaced
      <4>3. d.settled[i] # "waiting"
        <5>1. d.settled[i] = IF c.settled[i] = "waiting" THEN "SUPERSEDED" ELSE c.settled[i]
          BY <1>1, <3>1, <4>1, <4>2 DEF Issued
        <5> QED BY <5>1
      <4>4. d.out[i] \in {"none", "FAILED", "NO_VISUAL"}
        BY <1>3, <3>1, <4>1 DEF StillDue
      <4> QED BY <4>3, <4>4
    <3> QED BY <1>2, <3>2, <3>3
  <2> QED BY <2>1 DEF Superseded
<1> QED BY <1>1, <1>5, <1>6, <1>7, <1>8, <1>9, <1>10, <1>11, <1>12 DEF History, Past
\* Issuing an observation of the selected candidate.
LEMMA IssueObservation ==
  ASSUME NEW c, CoreInv(c), NEW job \in JobRecord, job.kind \in Observation,
         c.selected # NoCand, job.cand = c.selected,
         WellPlaced(c, job), HasInput(c, job), StillDue(c, job), NEW d, d = Issue(c, job)
  PROVE  /\ CoreInv(d) /\ Issued(c, d, job)
         /\ Evolves(c, d, {}) /\ CurrentGeneration(d) = CurrentGeneration(c)
         /\ PlateLast(c) \/ job.kind = "PLATE_READ" => PlateLast(d)
<1>1. Shape(c) /\ History(c) /\ Present(c)  BY DEF CoreInv
<1>2. job.kind \notin Analysis /\ job.kind # "COARSE_SEARCH" /\ job.kind # "HINT_EXTRACT"
  BY KindFacts DEF JobRecord
<1>3. /\ Shape(d) /\ Issued(c, d, job) /\ Evolves(c, d, {})
      /\ CurrentGeneration(d) = CurrentGeneration(c) /\ Past(d)
  BY <1>1, <1>2, IssueAny DEF History
<1> DEFINE n == Len(d.jobs)
<1>4. /\ n \in Jobs(d) /\ n \in Nat /\ n # 0 /\ n \notin Jobs(c) /\ SameCase(c, d)
      /\ \A i \in Jobs(d) : /\ i \in Jobs(c) \/ i = n
                            /\ i \in Nat /\ i <= n
      /\ d.jobs[n] = job /\ d.settled[n] = "waiting" /\ d.out[n] = "none"
  BY <1>1, <1>3, ShapeFacts DEF Issued, Jobs
<1>5. \A i \in Jobs(c) :
        /\ i \in Jobs(d) /\ i # n /\ d.jobs[i] = c.jobs[i] /\ d.out[i] = c.out[i]
        /\ \/ d.settled[i] = c.settled[i]
           \/ c.settled[i] = "waiting" /\ d.settled[i] = "SUPERSEDED" /\ c.jobs[i].kind = job.kind
  BY <1>3, <1>4 DEF Issued
<1>6. \A i \in Jobs(c) : c.jobs[i].kind = job.kind /\ c.jobs[i].scope = job.scope
                           => d.settled[i] # "waiting"
  BY <1>3 DEF Issued
<1> HIDE DEF n
<1>7. HintsFollowed(d)
  <2>1. \A i, s : Follows(d, i, s) <=> Follows(c, i, s)  BY <1>2, <1>4, <1>5 DEF Follows
  <2>2. \A i \in Jobs(d) : d.jobs[i].kind = "HINT_EXTRACT" =>
          i \in Jobs(c) /\ c.jobs[i].kind = "HINT_EXTRACT" /\ d.settled[i] = c.settled[i]
    BY <1>2, <1>4, <1>5
  <2> QED BY <1>1, <2>1, <2>2 DEF History, Past, HintsFollowed
<1>8. Staged(d)
  <2>1. c.stage # "INTAKE" /\ c.stage \in Reviewing  BY <1>1 DEF Present, Staged, Reviewing
  <2> QED BY <1>1, <1>4, <2>1 DEF Present, Staged, SameCase
<1>9. OneSearch(d)
  <2>1. \A i \in Jobs(d) : AwaitsSearch(d, i) => i \in Jobs(c) /\ AwaitsSearch(c, i)
    BY <1>2, <1>4, <1>5 DEF AwaitsSearch
  <2>2. \A i \in Jobs(d) : d.jobs[i].kind \in Analysis => i \in Jobs(c) /\ c.jobs[i].kind \in Analysis
    BY <1>2, <1>4, <1>5
  <2> QED BY <1>1, <1>4, <2>1, <2>2 DEF Present, OneSearch, SameCase
<1>10. CandsCurrent(d)  BY <1>1, <1>3, <1>4 DEF Present, CandsCurrent, SameCase
<1>11. WaitingPlaced(d)
  <2>1. \A i \in Jobs(c) : c.settled[i] = "waiting" /\ c.jobs[i].kind = job.kind
                             => c.jobs[i].scope = job.scope
    BY <1>1 DEF Present, WaitingPlaced, History, Past, Placed, WellPlaced
  <2>2. \A i \in Jobs(c) : d.settled[i] = "waiting" =>
          c.settled[i] = "waiting" /\ d.jobs[i] = c.jobs[i] /\ c.jobs[i].kind # job.kind
    BY <1>5, <1>6, <2>1
  <2>3. ASSUME NEW i \in Jobs(d), d.settled[i] = "waiting", d.jobs[i].kind \in Observation
        PROVE  /\ d.jobs[i].cand = d.selected
               /\ \A k \in Jobs(d) : d.settled[k] = "waiting" /\ d.jobs[k].kind = d.jobs[i].kind => k = i
    <3>1. d.selected = c.selected  BY <1>4 DEF SameCase
    <3>2. CASE i = n  BY <1>4, <2>2, <3>1, <3>2
    <3>3. CASE i \in Jobs(c)
      <4>1. d.jobs[i] = c.jobs[i] /\ c.settled[i] = "waiting" /\ c.jobs[i].kind # job.kind
        BY <2>2, <2>3, <3>3
      <4>2. /\ c.jobs[i].cand = c.selected
            /\ \A k \in Jobs(c) : c.settled[k] = "waiting" /\ c.jobs[k].kind = c.jobs[i].kind => k = i
        BY <1>1, <2>3, <3>3, <4>1 DEF Present, WaitingPlaced
      <4> QED BY <1>4, <2>2, <3>1, <3>3, <4>1, <4>2
    <3> QED BY <1>4, <3>2, <3>3
  <2> QED BY <2>3 DEF WaitingPlaced
<1>12. ASSUME PlateLast(c) \/ job.kind = "PLATE_READ" PROVE PlateLast(d)
  <2>1. \A i \in Jobs(c) : Own(d, i) <=> Own(c, i)  BY <1>4, <1>5 DEF Own, SameCase
  <2>2. Own(d, n)  BY <1>4 DEF Own, SameCase
  <2>3. CASE job.kind = "PLATE_READ"
    <3>1. LatestRecord(d, "PLATE_READ") = n
      <4>1. LatestRecord(d, "PLATE_READ") \in Jobs(d) /\ n <= LatestRecord(d, "PLATE_READ")
        BY <1>3, <1>4, <2>3, LatestFacts
      <4>2. LatestRecord(d, "PLATE_READ") \in Nat /\ LatestRecord(d, "PLATE_READ") <= n
        BY <1>4, <4>1
      <4>3. n \in Nat  BY <1>4
      <4> QED BY <4>1, <4>2, <4>3
    <3> QED BY <2>2, <3>1 DEF PlateLast
  <2>4. CASE job.kind # "PLATE_READ"
    <3>1. LatestRecord(d, "PLATE_READ") = LatestRecord(c, "PLATE_READ")
      <4>1. \A i : /\ i \in Jobs(c) /\ c.jobs[i].kind = "PLATE_READ"
                   <=> i \in Jobs(d) /\ d.jobs[i].kind = "PLATE_READ"
        BY <1>4, <1>5, <2>4
      <4> QED BY <1>1, <1>3, <4>1, LatestSame
    <3>2. \A i \in Jobs(d) : d.jobs[i].kind = "PLATE_READ" =>
            i \in Jobs(c) /\ c.jobs[i].kind = "PLATE_READ"
      BY <1>4, <1>5, <2>4
    <3>3. ASSUME NEW p \in Jobs(d), Own(d, p), d.jobs[p].kind = "PLATE_READ",
                 \A i \in Jobs(d) : Own(d, i) /\ d.jobs[i].kind = "PLATE_READ" => d.out[i] # "OK"
          PROVE  Own(d, LatestRecord(d, "PLATE_READ"))
      <4>1. Own(c, LatestRecord(c, "PLATE_READ"))
        BY <1>5, <1>12, <2>1, <2>4, <3>2, <3>3 DEF PlateLast
      <4>2. LatestRecord(c, "PLATE_READ") \in Jobs(c)
        BY <1>1, <3>2, <3>3, LatestFacts
      <4> QED BY <2>1, <3>1, <4>1, <4>2
    <3> QED BY <3>3 DEF PlateLast
  <2> QED BY <2>3, <2>4
<1> QED BY <1>3, <1>7, <1>8, <1>9, <1>10, <1>11, <1>12 DEF CoreInv, Present, History
-----------------------------------------------------------------------------
(* Following and accounting for several steps.                             *)

LEMMA EvolvesTwice ==
  ASSUME NEW c, NEW d, NEW e, NEW I, NEW J, Evolves(c, d, I), Evolves(d, e, J),
         \A i \in Jobs(d) : i \notin Jobs(c) => i \notin J /\ e.settled[i] = "waiting",
         Shape(c), Shape(d), Shape(e)
  PROVE  Evolves(c, e, I \union J)
<1>1. Len(c.jobs) <= Len(e.jobs)  BY ShapeFacts DEF Evolves
<1>2. ASSUME NEW i \in Jobs(c)
      PROVE  /\ i \in Jobs(e) /\ e.jobs[i] = c.jobs[i]
             /\ i \in I \union J => c.settled[i] = "waiting" /\ e.settled[i] \in {"REFLECTED", "EXHAUSTED"}
             /\ i \notin I \union J => \/ e.settled[i] = c.settled[i]
                                       \/ c.settled[i] = "waiting" /\ e.settled[i] \in NotApplied
  <2>1. i \in Jobs(d) /\ i \in Jobs(e) /\ e.jobs[i] = c.jobs[i]  BY <1>2 DEF Evolves
  <2>2. CASE i \in I
    <3>1. c.settled[i] = "waiting" /\ d.settled[i] \in {"REFLECTED", "EXHAUSTED"}
      BY <1>2, <2>2 DEF Evolves
    <3>2. d.settled[i] # "waiting"  BY <3>1
    <3>3. e.settled[i] = d.settled[i]  BY <2>1, <3>2 DEF Evolves
    <3> QED BY <2>1, <2>2, <3>1, <3>3
  <2>3. CASE i \notin I
    <3>1. \/ d.settled[i] = c.settled[i]
          \/ c.settled[i] = "waiting" /\ d.settled[i] \in NotApplied
      BY <1>2, <2>3 DEF Evolves
    <3>2. /\ i \in J => d.settled[i] = "waiting" /\ e.settled[i] \in {"REFLECTED", "EXHAUSTED"}
          /\ i \notin J => \/ e.settled[i] = d.settled[i]
                           \/ d.settled[i] = "waiting" /\ e.settled[i] \in NotApplied
      BY <2>1 DEF Evolves
    <3>3. "waiting" \notin NotApplied  BY DEF NotApplied
    <3> QED BY <2>1, <2>3, <3>1, <3>2, <3>3
  <2> QED BY <2>2, <2>3
<1>3. \A i \in Jobs(e) : i \notin Jobs(c) => e.settled[i] = "waiting"
  BY DEF Evolves
<1> QED BY <1>1, <1>2, <1>3 DEF Evolves

LEMMA DueFacts ==
  ASSUME NEW c, NEW kind, NEW n \in Nat
  PROVE  /\ Due(c, kind, n) \in {0, n}
         /\ Due(c, kind, n) = 0 <=> \/ n = 0
                                    \/ ~ \E i \in Jobs(c) : c.settled[i] = "waiting" /\ c.jobs[i].kind = kind
BY DEF Due

LEMMA AccountTyped ==
  ASSUME NEW c, Shape(c)
  PROVE  Potential(c) \in 0 .. 14 /\ Account(c) \in Nat /\ Len(c.jobs) <= Account(c)
<1>1. /\ Due(c, "HINT_EXTRACT", 5) \in {0, 5} /\ Due(c, "COARSE_SEARCH", 4) \in {0, 4}
      /\ Due(c, "FINE_VERIFY", 3) \in {0, 3} /\ Due(c, "INCIDENT_CLIP_BUILD", 2) \in {0, 2}
  BY DueFacts
<1>2. Potential(c) \in 0 .. 14  BY <1>1 DEF Potential
<1>3. Len(c.jobs) \in Nat  BY ShapeFacts
<1> QED BY <1>2, <1>3, SMTT(20) DEF Account

\* Fewer jobs wait: nothing more may follow.
LEMMA FewerWait ==
  ASSUME NEW c, NEW d, Shape(c), d.jobs = c.jobs,
         \A i \in Jobs(c) : d.settled[i] = "waiting" => c.settled[i] = "waiting"
  PROVE  Account(d) <= Account(c)
<1>1. Jobs(d) = Jobs(c) /\ Len(d.jobs) = Len(c.jobs) /\ Len(c.jobs) \in Nat  BY ShapeFacts DEF Jobs
<1>2. ASSUME NEW kind, NEW n \in Nat
      PROVE  Due(d, kind, n) <= Due(c, kind, n) /\ Due(c, kind, n) \in Nat /\ Due(d, kind, n) \in Nat
  BY <1>1 DEF Due
<1>3. Potential(d) <= Potential(c) /\ Potential(c) \in Nat /\ Potential(d) \in Nat
  <2> DEFINE hc == Due(c, "HINT_EXTRACT", 5)         hd == Due(d, "HINT_EXTRACT", 5)
             sc == Due(c, "COARSE_SEARCH", 4)        sd == Due(d, "COARSE_SEARCH", 4)
             fc == Due(c, "FINE_VERIFY", 3)          fd == Due(d, "FINE_VERIFY", 3)
             pc == Due(c, "INCIDENT_CLIP_BUILD", 2)  pd == Due(d, "INCIDENT_CLIP_BUILD", 2)
  <2>1. Potential(c) = hc + sc + fc + pc /\ Potential(d) = hd + sd + fd + pd  BY DEF Potential
  <2>2. /\ hc \in Nat /\ hd \in Nat /\ hd <= hc /\ sc \in Nat /\ sd \in Nat /\ sd <= sc
        /\ fc \in Nat /\ fd \in Nat /\ fd <= fc /\ pc \in Nat /\ pd \in Nat /\ pd <= pc
    BY <1>2
  <2> HIDE DEF hc, hd, sc, sd, fc, fd, pc, pd
  <2> QED BY <2>1, <2>2
<1> QED BY <1>1, <1>3 DEF Account

\* A new job costs at most what may follow it, and itself.
LEMMA IssueCosts ==
  ASSUME NEW c, NEW d, NEW job, Shape(c), Shape(d), Issued(c, d, job)
  PROVE  Account(d) <= Account(c) + Cost(job.kind)
<1>1. Len(d.jobs) = Len(c.jobs) + 1 /\ Len(c.jobs) \in Nat  BY ShapeFacts DEF Issued
<1>2. ASSUME NEW kind, NEW n \in Nat
      PROVE  /\ Due(c, kind, n) \in Nat /\ Due(d, kind, n) \in Nat /\ Due(d, kind, n) <= n
             /\ kind # job.kind => Due(d, kind, n) <= Due(c, kind, n)
  <2>1. \A i \in Jobs(d) : d.settled[i] = "waiting" /\ d.jobs[i].kind # job.kind =>
          i \in Jobs(c) /\ c.settled[i] = "waiting" /\ c.jobs[i] = d.jobs[i]
    BY DEF Issued
  <2> QED BY <2>1 DEF Due
<1> DEFINE hc == Due(c, "HINT_EXTRACT", 5)         hd == Due(d, "HINT_EXTRACT", 5)
           sc == Due(c, "COARSE_SEARCH", 4)        sd == Due(d, "COARSE_SEARCH", 4)
           fc == Due(c, "FINE_VERIFY", 3)          fd == Due(d, "FINE_VERIFY", 3)
           pc == Due(c, "INCIDENT_CLIP_BUILD", 2)  pd == Due(d, "INCIDENT_CLIP_BUILD", 2)
<1>3. /\ hc \in Nat /\ hd \in Nat /\ hd <= 5 /\ (job.kind # "HINT_EXTRACT" => hd <= hc)
      /\ sc \in Nat /\ sd \in Nat /\ sd <= 4 /\ (job.kind # "COARSE_SEARCH" => sd <= sc)
      /\ fc \in Nat /\ fd \in Nat /\ fd <= 3 /\ (job.kind # "FINE_VERIFY" => fd <= fc)
      /\ pc \in Nat /\ pd \in Nat /\ pd <= 2 /\ (job.kind # "INCIDENT_CLIP_BUILD" => pd <= pc)
  BY <1>2
<1>4. /\ Potential(c) = hc + sc + fc + pc /\ Potential(d) = hd + sd + fd + pd
      /\ Account(c) = Len(c.jobs) + Potential(c) /\ Account(d) = Len(d.jobs) + Potential(d)
  BY DEF Account, Potential
<1> HIDE DEF hc, hd, sc, sd, fc, fd, pc, pd
<1>10. SUFFICES Potential(d) + 1 <= Potential(c) + Cost(job.kind)
  <2>1. Potential(c) \in Nat /\ Potential(d) \in Nat  BY AccountTyped
  <2>2. Cost(job.kind) \in Nat  BY DEF Cost
  <2> QED BY <1>1, <1>4, <2>1, <2>2
<1>5. CASE job.kind = "HINT_EXTRACT"
  <2>1. Cost(job.kind) = 6 /\ sd <= sc /\ fd <= fc /\ pd <= pc  BY <1>3, <1>5 DEF Cost
  <2> QED BY <1>1, <1>3, <1>4, <2>1
<1>6. CASE job.kind = "COARSE_SEARCH"
  <2>1. Cost(job.kind) = 5 /\ hd <= hc /\ fd <= fc /\ pd <= pc  BY <1>3, <1>6 DEF Cost
  <2> QED BY <1>1, <1>3, <1>4, <2>1
<1>7. CASE job.kind = "FINE_VERIFY"
  <2>1. Cost(job.kind) = 4 /\ hd <= hc /\ sd <= sc /\ pd <= pc  BY <1>3, <1>7 DEF Cost
  <2> QED BY <1>1, <1>3, <1>4, <2>1
<1>8. CASE job.kind = "INCIDENT_CLIP_BUILD"
  <2>1. Cost(job.kind) = 3 /\ hd <= hc /\ sd <= sc /\ fd <= fc  BY <1>3, <1>8 DEF Cost
  <2> QED BY <1>1, <1>3, <1>4, <2>1
<1>9. CASE job.kind \notin {"HINT_EXTRACT", "COARSE_SEARCH", "FINE_VERIFY", "INCIDENT_CLIP_BUILD"}
  <2>1. Cost(job.kind) = 1 /\ hd <= hc /\ sd <= sc /\ fd <= fc /\ pd <= pc  BY <1>3, <1>9 DEF Cost
  <2> QED BY <1>1, <1>3, <1>4, <2>1
<1> QED BY <1>5, <1>6, <1>7, <1>8, <1>9
-----------------------------------------------------------------------------
(* The selected candidate and its jobs.                                    *)

LEMMA SelectedFacts ==
  ASSUME NEW c, CoreInv(c), c.selected # NoCand
  PROVE  /\ c.selected \in Cand /\ c.selected \in c.cands /\ c.stage \in Reviewing
         /\ c.selected[1] = CurrentGeneration(c) /\ CurrentGeneration(c) # 0
         /\ CurrentGeneration(c) \in Nat /\ Reflected(c, CurrentGeneration(c))
<1>1. Shape(c) /\ Staged(c) /\ CandsCurrent(c)  BY DEF CoreInv, Present
<1>2. c.selected \in c.cands /\ c.stage \in Reviewing  BY <1>1 DEF Staged
<1>3. c.selected \in Cand  BY <1>1, <1>2 DEF Shape, CaseRecord
<1>4. c.selected[1] = CurrentGeneration(c) /\ CurrentGeneration(c) # 0  BY <1>1, <1>2 DEF CandsCurrent
<1>5. Reflected(c, CurrentGeneration(c))  BY <1>1, <1>4, GenerationFacts
<1>6. CurrentGeneration(c) \in Nat  BY <1>1, <1>5, ShapeFacts DEF Reflected
<1> QED BY <1>2, <1>3, <1>4, <1>5, <1>6

LEMMA OwnFacts ==
  ASSUME NEW c, CoreInv(c)
  PROVE  /\ \A i \in Jobs(c) : Own(c, i) <=> c.jobs[i].kind \in Observation /\ IsCurrent(c, i)
         /\ \A i : i \in Mine(c) <=> i \in Jobs(c) /\ Own(c, i)
         /\ \A i \in Jobs(c) : Own(c, i) => WellPlaced(c, c.jobs[i])
<1>1. Shape(c) /\ Placed(c)  BY DEF CoreInv, History, Past
<1>2. ASSUME NEW i \in Jobs(c), c.jobs[i].kind \in Observation
      PROVE  /\ Own(c, i) <=> IsCurrent(c, i)
             /\ WellPlaced(c, c.jobs[i])
  <2>1. /\ c.jobs[i].cand \in Cand /\ c.jobs[i].gen = c.jobs[i].cand[1]
        /\ WellPlaced(c, c.jobs[i])
    BY <1>1, <1>2 DEF Placed, WellPlaced, Reflected
  <2>2. c.jobs[i].cand # NoCand  BY <2>1 DEF Cand, NoCand
  <2>3. CASE c.selected = NoCand  BY <2>1, <2>2, <2>3 DEF Own, IsCurrent
  <2>4. CASE c.selected # NoCand
    <3>1. c.selected[1] = CurrentGeneration(c)  BY <2>4, SelectedFacts
    <3> QED BY <1>2, <2>1, <2>4, <3>1 DEF Own, IsCurrent
  <2> QED BY <2>3, <2>4
<1>3. \A i : i \in Mine(c) <=> i \in Jobs(c) /\ Own(c, i)
  <2>1. \A i : i \in OfKind(c, Observation) <=> i \in Jobs(c) /\ c.jobs[i].kind \in Observation
    BY <1>1, ShapeFacts DEF OfKind
  <2> QED BY <1>2, <2>1 DEF Mine, Own
<1> QED BY <1>2, <1>3 DEF Own

LEMMA WaitingFacts ==
  ASSUME NEW c, Shape(c)
  PROVE  /\ \A i : i \in Waiting(c) <=> i \in Jobs(c) /\ c.settled[i] = "waiting"
         /\ SearchAwaited(c) <=> \E i \in Jobs(c) : AwaitsSearch(c, i)
<1>1. \A i : i \in Waiting(c) <=> i \in Jobs(c) /\ c.settled[i] = "waiting"
  BY ShapeFacts DEF Waiting
<1> QED BY <1>1, ShapeFacts DEF SearchAwaited, OfKind, AwaitsSearch

\* A candidate whose observations are not being prepared has none that waits.
LEMMA PreparingFacts ==
  ASSUME NEW c, CoreInv(c)
  PROVE  Preparing(c) <=> \E i \in Jobs(c) : c.settled[i] = "waiting" /\ c.jobs[i].kind \in Observation
<1>1. Shape(c) /\ Placed(c) /\ WaitingPlaced(c)  BY DEF CoreInv, History, Past, Present
<1>2. ASSUME NEW i \in Jobs(c), c.settled[i] = "waiting", c.jobs[i].kind \in Observation
      PROVE  Own(c, i)
  <2>1. c.jobs[i].cand \in Cand /\ c.jobs[i].cand = c.selected
    BY <1>1, <1>2 DEF Placed, WaitingPlaced
  <2>2. c.jobs[i].cand # NoCand  BY <2>1 DEF Cand, NoCand
  <2> QED BY <1>2, <2>1, <2>2 DEF Own
<1> QED BY <1>1, <1>2, OwnFacts, WaitingFacts DEF Preparing, Own

\* Of the jobs of a kind and a candidate that brought something to build on, there is one.
LEMMA OneSucceeds ==
  ASSUME NEW c, CoreInv(c), NEW i \in Jobs(c), NEW k \in Jobs(c),
         c.jobs[i].kind = c.jobs[k].kind, c.jobs[i].kind \in Observation,
         c.jobs[i].cand = c.jobs[k].cand,
         c.out[i] \notin {"none", "FAILED", "NO_VISUAL"}
  PROVE  /\ k <= i
         /\ c.out[k] \notin {"none", "FAILED", "NO_VISUAL"} => k = i
<1>1. i \in Nat /\ k \in Nat  BY ShapeFacts DEF CoreInv
<1>2. ~(i < k)  BY DEF CoreInv, History, Past, Superseded
<1>3. c.out[k] \notin {"none", "FAILED", "NO_VISUAL"} => ~(k < i)  BY DEF CoreInv, History, Past, Superseded
<1> QED BY <1>1, <1>2, <1>3

LEMMA ObservationJobFacts ==
  ASSUME NEW c, CoreInv(c), c.selected # NoCand, NEW kind \in Observation, NEW via \in Nat,
         NEW job, job = ObservationJob(c, kind, via)
  PROVE  /\ job \in JobRecord /\ job.kind = kind /\ job.via = via /\ job.cand = c.selected
         /\ WellPlaced(c, job)
<1>1. /\ c.selected \in Cand /\ c.selected[1] = CurrentGeneration(c)
      /\ CurrentGeneration(c) \in Nat /\ Reflected(c, CurrentGeneration(c))
  BY SelectedFacts
<1>2. c.jobs[CurrentGeneration(c)].scope \in Nat
  <2>1. c.jobs[CurrentGeneration(c)] \in JobRecord  BY <1>1, ShapeFacts DEF CoreInv, Reflected
  <2> QED BY <2>1 DEF JobRecord
<1>3. kind \in Kinds  BY KindFacts
<1>4. job = [kind |-> kind, scope |-> c.jobs[CurrentGeneration(c)].scope, cand |-> c.selected,
             gen |-> CurrentGeneration(c), via |-> via]
  BY DEF ObservationJob
<1>5. job \in JobRecord  BY <1>1, <1>2, <1>3, <1>4 DEF JobRecord
<1>6. WellPlaced(c, job)  BY <1>1, <1>4 DEF WellPlaced
<1> QED BY <1>4, <1>5, <1>6

\* d is c, perhaps after observations of its candidate were issued, worth n jobs at most.
Observes(c, d, n) ==
  /\ CoreInv(d) /\ Evolves(c, d, {}) /\ SameCase(c, d)
  /\ Account(d) <= Account(c) + n

LEMMA NothingIssued ==
  ASSUME NEW c, CoreInv(c), NEW n \in Nat
  PROVE  Observes(c, c, n)
<1>1. Shape(c)  BY DEF CoreInv
<1>2. Evolves(c, c, {})  BY <1>1, EvolvesFrame
<1>3. Account(c) <= Account(c) + n  BY <1>1, AccountTyped
<1> QED BY <1>2, <1>3 DEF Observes, SameCase

LEMMA ObservationIssued ==
  ASSUME NEW c, CoreInv(c), c.selected # NoCand, NEW kind \in Observation, NEW via \in Nat,
         NEW d, d = Issue(c, ObservationJob(c, kind, via)),
         kind = "FINE_VERIFY" => via = 0,
         kind = "INCIDENT_CLIP_BUILD" =>
           via \in Jobs(c) /\ c.jobs[via].kind = "FINE_VERIFY" /\ Own(c, via) /\ c.out[via] = "OK",
         kind \in Readout =>
           via \in Jobs(c) /\ c.jobs[via].kind = "INCIDENT_CLIP_BUILD" /\ Own(c, via) /\ c.out[via] = "OK",
         \A i \in Jobs(c) : Own(c, i) /\ c.jobs[i].kind = kind => c.out[i] \in {"none", "FAILED", "NO_VISUAL"}
  PROVE  /\ Observes(c, d, Cost(kind)) /\ Issued(c, d, ObservationJob(c, kind, via))
         /\ PlateLast(c) \/ kind = "PLATE_READ" => PlateLast(d)
<1> DEFINE job == ObservationJob(c, kind, via)
<1>1. /\ job \in JobRecord /\ job.kind = kind /\ job.via = via /\ job.cand = c.selected
      /\ WellPlaced(c, job)
  BY ObservationJobFacts
<1> HIDE DEF job
<1>2. HasInput(c, job)  BY <1>1 DEF HasInput, Own
<1>3. StillDue(c, job)  BY <1>1 DEF StillDue, Own
<1>4. d = Issue(c, job)  BY DEF job
<1>5. /\ CoreInv(d) /\ Issued(c, d, job) /\ Evolves(c, d, {})
      /\ PlateLast(c) \/ job.kind = "PLATE_READ" => PlateLast(d)
  BY <1>1, <1>2, <1>3, <1>4, IssueObservation
<1>6. Account(d) <= Account(c) + Cost(kind)  BY <1>1, <1>5, IssueCosts DEF CoreInv
<1> QED BY <1>1, <1>5, <1>6 DEF Observes, Issued, job
LEMMA FineIssued ==
  ASSUME NEW c, CoreInv(c), NEW d, d = IssueFine(c),
         \A i \in Jobs(c) : Own(c, i) /\ c.jobs[i].kind = "FINE_VERIFY"
                              => c.out[i] \in {"none", "FAILED", "NO_VISUAL"}
  PROVE  Observes(c, d, 4) /\ (PlateLast(c) => PlateLast(d))
<1>1. CASE c.selected = NoCand  BY <1>1, NothingIssued DEF IssueFine
<1>2. CASE c.selected # NoCand
  <2>1. CurrentGeneration(c) # 0  BY <1>2, SelectedFacts
  <2>2. d = Issue(c, ObservationJob(c, "FINE_VERIFY", 0))  BY <1>2, <2>1 DEF IssueFine
  <2>3. "FINE_VERIFY" \in Observation /\ "FINE_VERIFY" \notin Readout /\ 0 \in Nat
    BY DEF Observation, Readout
  <2>4. Cost("FINE_VERIFY") = 4  BY DEF Cost
  <2> QED BY <1>2, <2>2, <2>3, <2>4, ObservationIssued
<1> QED BY <1>1, <1>2

LEMMA ClipIssued ==
  ASSUME NEW c, CoreInv(c), NEW i \in Jobs(c), c.jobs[i].kind = "FINE_VERIFY", NEW d, d = FollowFine(c, i),
         Own(c, i) /\ c.out[i] = "OK" =>
           \A k \in Jobs(c) : Own(c, k) /\ c.jobs[k].kind = "INCIDENT_CLIP_BUILD"
                                => c.out[k] \in {"none", "FAILED", "NO_VISUAL"}
  PROVE  Observes(c, d, 3) /\ (PlateLast(c) => PlateLast(d))
<1>0. "FINE_VERIFY" \in Observation  BY DEF Observation
<1>1. Own(c, i) <=> IsCurrent(c, i)  BY <1>0, OwnFacts
<1>2. CASE ~(c.out[i] = "OK" /\ IsCurrent(c, i))  BY <1>2, NothingIssued DEF FollowFine
<1>3. CASE c.out[i] = "OK" /\ IsCurrent(c, i)
  <2>1. d = Issue(c, ObservationJob(c, "INCIDENT_CLIP_BUILD", i))  BY <1>3 DEF FollowFine
  <2>2. "INCIDENT_CLIP_BUILD" \in Observation /\ "INCIDENT_CLIP_BUILD" \notin Readout
    BY DEF Observation, Readout
  <2>3. i \in Nat /\ Own(c, i) /\ c.selected # NoCand
    BY <1>1, <1>3, ShapeFacts DEF CoreInv, Own
  <2>4. Cost("INCIDENT_CLIP_BUILD") = 3  BY DEF Cost
  <2> QED BY <1>3, <2>1, <2>2, <2>3, <2>4, ObservationIssued
<1> QED BY <1>2, <1>3

LEMMA ReadoutsIssued ==
  ASSUME NEW c, CoreInv(c), NEW clip \in Jobs(c), c.jobs[clip].kind = "INCIDENT_CLIP_BUILD",
         Own(c, clip), c.out[clip] = "OK", NEW kinds, NEW d, d = IssueReadouts(c, clip, kinds),
         \A i \in Jobs(c) : Own(c, i) /\ c.jobs[i].kind \in kinds \intersect Readout
                              => c.out[i] \in {"none", "FAILED", "NO_VISUAL"}
  PROVE  Observes(c, d, 2) /\ (PlateLast(c) \/ "PLATE_READ" \in kinds => PlateLast(d))
<1> DEFINE e == IF "PLATE_READ" \in kinds THEN Issue(c, ObservationJob(c, "PLATE_READ", clip)) ELSE c
<1>1. /\ d = IF "OVERLAY_TIME_READ" \in kinds
             THEN Issue(e, ObservationJob(e, "OVERLAY_TIME_READ", clip)) ELSE e
  BY DEF IssueReadouts
<1>2. /\ "PLATE_READ" \in Observation /\ "OVERLAY_TIME_READ" \in Observation
      /\ "PLATE_READ" \in Readout /\ "OVERLAY_TIME_READ" \in Readout
      /\ Cost("PLATE_READ") = 1 /\ Cost("OVERLAY_TIME_READ") = 1
  BY DEF Observation, Readout, Cost
<1>3. clip \in Nat /\ c.selected # NoCand /\ Shape(c)  BY ShapeFacts DEF CoreInv, Own
<1>4. \/ /\ "PLATE_READ" \in kinds /\ Issued(c, e, ObservationJob(c, "PLATE_READ", clip))
         /\ PlateLast(e)
      \/ "PLATE_READ" \notin kinds /\ e = c
  BY <1>2, <1>3, ObservationIssued
<1>5. Observes(c, e, 1)
  BY <1>2, <1>3, ObservationIssued, NothingIssued
<1> HIDE DEF e
<1>6. ObservationJob(c, "PLATE_READ", clip).kind = "PLATE_READ"
  BY <1>2, <1>3, ObservationJobFacts
<1>7. \A i \in Jobs(e) : \/ i \in Jobs(c) /\ e.jobs[i] = c.jobs[i] /\ e.out[i] = c.out[i]
                         \/ i \notin Jobs(c) /\ e.jobs[i].kind = "PLATE_READ"
  BY <1>4, <1>6 DEF Issued
<1>8. e.selected = c.selected /\ CoreInv(e) /\ Shape(e)  BY <1>5 DEF Observes, SameCase, CoreInv
<1>9. CASE "OVERLAY_TIME_READ" \notin kinds
  <2>1. e = d  BY <1>1, <1>9
  <2>2. Account(c) \in Nat /\ Account(e) \in Nat  BY <1>3, <1>8, AccountTyped
  <2>3. Account(e) <= Account(c) + 2  BY <1>5, <2>2 DEF Observes
  <2> QED BY <1>4, <1>5, <2>1, <2>3 DEF Observes
<1>10. CASE "OVERLAY_TIME_READ" \in kinds
  <2>1. clip \in Jobs(e) /\ e.jobs[clip] = c.jobs[clip] /\ e.out[clip] = c.out[clip]
    BY <1>4 DEF Issued
  <2>2. Own(e, clip)  BY <1>8, <2>1 DEF Own
  <2>3. \A i \in Jobs(e) : Own(e, i) /\ e.jobs[i].kind = "OVERLAY_TIME_READ"
                             => e.out[i] \in {"none", "FAILED", "NO_VISUAL"}
    BY <1>2, <1>7, <1>8, <1>10 DEF Own
  <2>4. d = Issue(e, ObservationJob(e, "OVERLAY_TIME_READ", clip))  BY <1>1, <1>10
  <2>5. /\ Observes(e, d, 1) /\ Issued(e, d, ObservationJob(e, "OVERLAY_TIME_READ", clip))
        /\ PlateLast(e) => PlateLast(d)
    BY <1>2, <1>3, <1>8, <2>1, <2>2, <2>3, <2>4, ObservationIssued
  <2>6. ObservationJob(e, "OVERLAY_TIME_READ", clip).kind = "OVERLAY_TIME_READ"
    BY <1>2, <1>3, <1>8, ObservationJobFacts
  <2>7. \A i \in Jobs(e) : i \notin Jobs(c) => d.settled[i] = "waiting"
    <3>1. \A i \in Jobs(e) : i \notin Jobs(c) => e.settled[i] = "waiting"
      BY <1>5 DEF Observes, Evolves
    <3> QED BY <1>7, <2>5, <2>6, <3>1 DEF Issued
  <2>8. Evolves(c, d, {})
    <3>1. Shape(d) /\ Evolves(c, e, {}) /\ Evolves(e, d, {})  BY <1>5, <2>5 DEF Observes, CoreInv
    <3>2. Evolves(c, d, {} \union {})  BY <1>3, <1>8, <2>7, <3>1, EvolvesTwice
    <3> QED BY <3>2
  <2>9. Account(d) <= Account(c) + 2
    <3>1. Account(c) \in Nat /\ Account(e) \in Nat /\ Account(d) \in Nat
      BY <1>3, <1>8, <2>5, AccountTyped DEF Observes, CoreInv
    <3> QED BY <1>5, <2>5, <3>1 DEF Observes
  <2>10. SameCase(c, d)  BY <1>5, <2>5 DEF Observes, SameCase
  <2> QED BY <1>4, <2>5, <2>8, <2>9, <2>10 DEF Observes
<1> QED BY <1>9, <1>10
LEMMA LastSuccessFacts ==
  ASSUME NEW c, CoreInv(c), NEW kind, NEW via, NEW last, last = LastSuccess(c, kind, via)
  PROVE  LET Fits(i) == /\ i \in Jobs(c) /\ Own(c, i) /\ c.jobs[i].kind = kind
                        /\ c.jobs[i].via = via /\ c.out[i] \notin {"none", "FAILED"}
         IN /\ last # 0 => Fits(last)
            /\ \A i : Fits(i) => last # 0 /\ i <= last
<1> DEFINE S == {i \in Mine(c) \intersect OfKind(c, {kind}) :
                   c.jobs[i].via = via /\ c.out[i] \notin {"none", "FAILED"}}
           Fits(i) == /\ i \in Jobs(c) /\ Own(c, i) /\ c.jobs[i].kind = kind
                      /\ c.jobs[i].via = via /\ c.out[i] \notin {"none", "FAILED"}
<1>1. \A i : i \in OfKind(c, {kind}) <=> i \in Jobs(c) /\ c.jobs[i].kind = kind
  BY ShapeFacts DEF OfKind, CoreInv
<1>2. \A i : i \in S <=> Fits(i)  BY <1>1, OwnFacts
<1>3. last = Largest(S)  BY DEF LastSuccess
<1>4. Len(c.jobs) \in Nat /\ S \subseteq 1 .. Len(c.jobs) /\ 0 \notin S
  BY <1>2, ShapeFacts DEF CoreInv, Jobs
<1> HIDE DEF S
<1>5. /\ S = {} => last = 0
      /\ S # {} => last \in S /\ \A k \in S : k <= last
  BY <1>3, <1>4, LargestFacts
<1>6. /\ last # 0 => Fits(last)
      /\ \A i : Fits(i) => last # 0 /\ i <= last
  BY <1>2, <1>4, <1>5
<1> QED BY <1>6

\* A plate job of the candidate goes back to a Fine and a clip of the same that succeeded.
LEMMA PlateComesFrom ==
  ASSUME NEW c, CoreInv(c), NEW p \in Jobs(c), Own(c, p), c.jobs[p].kind \in Readout
  PROVE  \E k, f \in Jobs(c) :
           /\ c.jobs[p].via = k /\ Own(c, k) /\ c.jobs[k].kind = "INCIDENT_CLIP_BUILD" /\ c.out[k] = "OK"
           /\ c.jobs[k].via = f /\ Own(c, f) /\ c.jobs[f].kind = "FINE_VERIFY" /\ c.out[f] = "OK"
           /\ c.jobs[f].via = 0
<1>1. Chain(c)  BY DEF CoreInv, History, Past
<1>2. {"FINE_VERIFY", "INCIDENT_CLIP_BUILD"} \subseteq Observation  BY DEF Observation
<1> DEFINE k == c.jobs[p].via  f == c.jobs[k].via
<1>3. k \in Jobs(c) /\ c.jobs[k].kind = "INCIDENT_CLIP_BUILD" /\ c.jobs[k].cand = c.jobs[p].cand
      /\ c.out[k] = "OK"
  BY <1>1 DEF Chain, ComesFrom
<1>4. f \in Jobs(c) /\ c.jobs[f].kind = "FINE_VERIFY" /\ c.jobs[f].cand = c.jobs[k].cand
      /\ c.out[f] = "OK" /\ c.jobs[f].via = 0
  BY <1>1, <1>3 DEF Chain, ComesFrom
<1> QED BY <1>2, <1>3, <1>4 DEF Own

LEMMA MissingIssued ==
  ASSUME NEW c, CoreInv(c), c.selected # NoCand, ~Preparing(c), NEW d, d = IssueMissing(c)
  PROVE  Observes(c, d, 4) /\ PlateLast(d)
<1> DEFINE fine == LastSuccess(c, "FINE_VERIFY", 0)
           clip == LastSuccess(c, "INCIDENT_CLIP_BUILD", fine)
           Plate(i) == i \in Jobs(c) /\ Own(c, i) /\ c.jobs[i].kind = "PLATE_READ"
<1>0. /\ {"FINE_VERIFY", "INCIDENT_CLIP_BUILD", "PLATE_READ"} \subseteq Observation
      /\ "FINE_VERIFY" \notin Readout /\ "PLATE_READ" \in Readout
  BY DEF Observation, Readout
<1>1. /\ fine # 0 => /\ fine \in Jobs(c) /\ Own(c, fine) /\ c.jobs[fine].kind = "FINE_VERIFY"
                     /\ c.out[fine] \notin {"none", "FAILED"}
      /\ \A i \in Jobs(c) : /\ Own(c, i) /\ c.jobs[i].kind = "FINE_VERIFY" /\ c.jobs[i].via = 0
                            /\ c.out[i] \notin {"none", "FAILED"}
                            => fine # 0 /\ i <= fine
  BY LastSuccessFacts
<1>2. /\ clip # 0 => /\ clip \in Jobs(c) /\ Own(c, clip) /\ c.jobs[clip].kind = "INCIDENT_CLIP_BUILD"
                     /\ c.out[clip] \notin {"none", "FAILED"}
      /\ \A i \in Jobs(c) : /\ Own(c, i) /\ c.jobs[i].kind = "INCIDENT_CLIP_BUILD" /\ c.jobs[i].via = fine
                            /\ c.out[i] \notin {"none", "FAILED"}
                            => clip # 0 /\ i <= clip
  BY LastSuccessFacts
<1> HIDE DEF fine, clip
<1>3. /\ Shape(c) /\ Chain(c) /\ OutsOfKind(c) /\ Superseded(c)  BY DEF CoreInv, History, Past
<1>4. fine # 0 => c.out[fine] \in {"OK", "NOT_OBSERVED", "NO_VISUAL"}
  BY <1>1, <1>3 DEF OutsOfKind
<1>5. clip # 0 => c.out[clip] = "OK"  BY <1>0, <1>2, <1>3 DEF OutsOfKind
<1>6. \A i \in Jobs(c) : c.jobs[i].kind = "FINE_VERIFY" => c.jobs[i].via = 0  BY <1>3 DEF Chain
\* The Fine that said OK is the one found, ...
<1>7. ASSUME NEW f \in Jobs(c), Own(c, f), c.jobs[f].kind = "FINE_VERIFY", c.out[f] = "OK"
      PROVE  fine = f
  <2>1. fine # 0 /\ f <= fine  BY <1>1, <1>6, <1>7
  <2>2. fine <= f
    <3>1. c.jobs[f].kind = c.jobs[fine].kind /\ c.jobs[f].cand = c.jobs[fine].cand
      BY <1>1, <1>7, <2>1 DEF Own
    <3> QED BY <1>0, <1>1, <1>7, <2>1, <3>1, OneSucceeds
  <2>3. f \in Nat /\ fine \in Nat  BY <1>1, <1>3, <2>1, ShapeFacts
  <2> QED BY <2>1, <2>2, <2>3
\* ... and so is the clip that was built from it.
<1>8. ASSUME NEW k \in Jobs(c), Own(c, k), c.jobs[k].kind = "INCIDENT_CLIP_BUILD", c.out[k] = "OK"
      PROVE  fine # 0 /\ c.out[fine] = "OK" /\ clip = k
  <2>1. PICK f \in Jobs(c) : /\ c.jobs[k].via = f /\ c.jobs[f].kind = "FINE_VERIFY"
                             /\ c.jobs[f].cand = c.jobs[k].cand /\ c.out[f] = "OK"
    BY <1>3, <1>8 DEF Chain, ComesFrom
  <2>2. Own(c, f)  BY <1>0, <1>8, <2>1 DEF Own
  <2>3. fine = f  BY <1>7, <2>1, <2>2
  <2>4. f # 0  BY <1>3, <2>1, ShapeFacts
  <2>5. clip # 0 /\ k <= clip  BY <1>2, <1>8, <2>1, <2>3
  <2>6. clip <= k
    <3>1. c.jobs[clip].kind = c.jobs[k].kind /\ c.jobs[clip].cand = c.jobs[k].cand
      BY <1>2, <1>8, <2>5 DEF Own
    <3> QED BY <1>0, <1>2, <1>8, <2>5, <3>1, OneSucceeds
  <2>7. k \in Nat /\ clip \in Nat  BY <1>2, <1>3, <2>5, ShapeFacts
  <2> QED BY <2>1, <2>3, <2>4, <2>5, <2>6, <2>7
<1>9. ASSUME NEW p, Plate(p)
      PROVE  fine # 0 /\ c.out[fine] = "OK" /\ clip # 0 /\ c.jobs[p].via = clip
  <2>1. PICK k \in Jobs(c) : /\ c.jobs[p].via = k /\ Own(c, k)
                             /\ c.jobs[k].kind = "INCIDENT_CLIP_BUILD" /\ c.out[k] = "OK"
    BY <1>0, <1>9, PlateComesFrom
  <2>2. k # 0  BY <1>3, <2>1, ShapeFacts
  <2> QED BY <1>8, <2>1, <2>2
<1>10. (\A p : ~Plate(p)) => PlateLast(c)  BY DEF PlateLast
<1>11. CASE fine = 0 \/ (fine # 0 /\ c.out[fine] = "NO_VISUAL")
  <2>1. d = IssueFine(c)  BY <1>11 DEF IssueMissing, fine
  <2>2. PlateLast(c)  BY <1>9, <1>10, <1>11
  <2>3. ASSUME NEW i \in Jobs(c), Own(c, i), c.jobs[i].kind = "FINE_VERIFY"
        PROVE  c.out[i] \in {"none", "FAILED", "NO_VISUAL"}
    <3>1. CASE fine = 0  BY <1>1, <1>6, <2>3, <3>1
    <3>2. CASE fine # 0 /\ c.out[fine] = "NO_VISUAL" /\ c.out[i] \notin {"none", "FAILED"}
      <4>1. i <= fine  BY <1>1, <1>6, <2>3, <3>2
      <4>2. c.jobs[i].cand = c.jobs[fine].cand  BY <1>1, <2>3, <3>2 DEF Own
      <4>3. i \in Nat /\ fine \in Nat  BY <1>1, <1>3, <3>2, ShapeFacts
      <4>4. CASE i = fine  BY <3>2, <4>4
      <4>5. CASE i < fine  BY <1>0, <1>1, <1>3, <2>3, <3>2, <4>2, <4>5 DEF Superseded
      <4> QED BY <4>1, <4>3, <4>4, <4>5
    <3> QED BY <1>11, <3>1, <3>2
  <2> QED BY <2>1, <2>2, <2>3, FineIssued
<1>12. CASE fine # 0 /\ c.out[fine] = "NOT_OBSERVED"
  <2>1. d = c  BY <1>12 DEF IssueMissing, fine
  <2>2. PlateLast(c)  BY <1>9, <1>10, <1>12
  <2> QED BY <2>1, <2>2, NothingIssued
<1>13. CASE fine # 0 /\ c.out[fine] = "OK" /\ clip = 0
  <2>1. d = FollowFine(c, fine)  BY <1>13 DEF IssueMissing, fine, clip
  <2>2. PlateLast(c)  BY <1>9, <1>10, <1>13
  <2>3. ASSUME NEW k \in Jobs(c), Own(c, k), c.jobs[k].kind = "INCIDENT_CLIP_BUILD"
        PROVE  c.out[k] \in {"none", "FAILED", "NO_VISUAL"}
    <3>1. c.out[k] # "OK"  BY <1>8, <1>13, <2>3, ShapeFacts DEF CoreInv
    <3> QED BY <1>0, <1>3, <2>3, <3>1 DEF OutsOfKind
  <2>4. Observes(c, d, 3) /\ PlateLast(d)  BY <1>1, <1>13, <2>1, <2>2, <2>3, ClipIssued
  <2>5. Account(c) \in Nat /\ Account(d) \in Nat  BY <1>3, <2>4, AccountTyped DEF Observes, CoreInv
  <2>6. Account(d) <= Account(c) + 4  BY <2>4, <2>5 DEF Observes
  <2> QED BY <2>4, <2>6 DEF Observes
<1>14. CASE fine # 0 /\ c.out[fine] = "OK" /\ clip # 0
  <2> DEFINE missing == MissingReadouts(c, clip)
  <2>1. d = IssueReadouts(c, clip, missing)  BY <1>14 DEF IssueMissing, fine, clip
  <2>2. ASSUME NEW i \in Jobs(c), Own(c, i), c.jobs[i].kind \in missing \intersect Readout
        PROVE  c.out[i] \in {"none", "FAILED", "NO_VISUAL"}
    <3>1. c.jobs[i].via = clip
      <4>1. PICK k \in Jobs(c) : /\ c.jobs[i].via = k /\ Own(c, k)
                                 /\ c.jobs[k].kind = "INCIDENT_CLIP_BUILD" /\ c.out[k] = "OK"
        BY <2>2, PlateComesFrom
      <4> QED BY <1>8, <4>1
    <3>2. LastSuccess(c, c.jobs[i].kind, clip) = 0  BY <2>2 DEF MissingReadouts
    <3> QED BY <2>2, <3>1, <3>2, LastSuccessFacts
  <2>3. PlateLast(c) \/ "PLATE_READ" \in missing
    <3>1. CASE "PLATE_READ" \notin missing
      <4> DEFINE p == LastSuccess(c, "PLATE_READ", clip)
      <4>1. p # 0  BY <1>0, <3>1 DEF MissingReadouts
      <4>2. Plate(p) /\ c.out[p] \notin {"none", "FAILED"}  BY <4>1, LastSuccessFacts
      <4>3. c.out[p] = "OK"
        <5>1. "PLATE_READ" \in Observation \ {"FINE_VERIFY"}  BY <1>0
        <5> HIDE DEF p
        <5> QED BY <1>3, <4>2, <5>1 DEF OutsOfKind
      <4> HIDE DEF p
      <4> QED BY <4>2, <4>3 DEF PlateLast
    <3> QED BY <3>1
  <2> HIDE DEF missing
  <2>4. Observes(c, d, 2) /\ PlateLast(d)  BY <1>2, <1>5, <1>14, <2>1, <2>2, <2>3, ReadoutsIssued
  <2>5. Account(c) \in Nat /\ Account(d) \in Nat  BY <1>3, <2>4, AccountTyped DEF Observes, CoreInv
  <2>6. Account(d) <= Account(c) + 4  BY <2>4, <2>5 DEF Observes
  <2> QED BY <2>4, <2>6 DEF Observes
<1> QED BY <1>4, <1>11, <1>12, <1>13, <1>14
-----------------------------------------------------------------------------
(* Results of observations.                                                *)

\* The stage may move within the review, and what no invariant speaks of may change.
LEMMA CaseFrame ==
  ASSUME NEW c, CoreInv(c), NEW d, Shape(d),
         d.jobs = c.jobs, d.settled = c.settled, d.out = c.out, d.cands = c.cands,
         d.selected = c.selected,
         d.stage = c.stage \/ (d.stage \in Reviewing /\ c.stage \in Reviewing)
  PROVE  /\ CoreInv(d) /\ (PlateLast(c) => PlateLast(d))
         /\ Evolves(c, d, {}) /\ Account(d) = Account(c) /\ Jobs(d) = Jobs(c)
         /\ \A i : Own(d, i) <=> Own(c, i)
<1>1. Shape(c) /\ History(c) /\ Present(c)  BY DEF CoreInv
<1>2. Jobs(d) = Jobs(c) /\ Len(d.jobs) = Len(c.jobs)  BY DEF Jobs
<1>3. Evolves(c, d, {}) /\ Account(d) = Account(c)  BY <1>1, EvolvesFrame DEF Account
<1>4. History(d)  BY <1>1, HistoryFrame
<1>5. CurrentGeneration(d) = CurrentGeneration(c)
  BY <1>1, <1>2, GenerationSame DEF Reflected
<1>6. Staged(d)
  BY <1>1 DEF Present, Staged, Reviewing
<1>7. OneSearch(d)
  <2>1. \A i \in Jobs(d) : AwaitsSearch(d, i) <=> AwaitsSearch(c, i)  BY DEF AwaitsSearch
  <2> QED BY <1>1, <1>2, <2>1 DEF Present, OneSearch, Reviewing
<1>8. CandsCurrent(d) /\ WaitingPlaced(d)
  BY <1>1, <1>2, <1>5 DEF Present, CandsCurrent, WaitingPlaced
<1>9. \A i : Own(d, i) <=> Own(c, i)  BY DEF Own
<1>10. PlateLast(c) => PlateLast(d)
  <2>1. LatestRecord(d, "PLATE_READ") = LatestRecord(c, "PLATE_READ")  BY <1>1, <1>2, LatestSame
  <2> QED BY <1>2, <1>9, <2>1 DEF PlateLast
<1> QED BY <1>2, <1>3, <1>4, <1>6, <1>7, <1>8, <1>9, <1>10 DEF CoreInv, Present

\* The only job of its kind that waits is done.
LEMMA WaitEnds ==
  ASSUME NEW c, NEW d, Shape(c), d.jobs = c.jobs, NEW i \in Jobs(c), c.jobs[i].kind \in Kinds,
         c.settled[i] = "waiting", d.settled[i] # "waiting",
         \A k \in Jobs(c) : d.settled[k] = "waiting" => c.settled[k] = "waiting",
         \A k \in Jobs(c) : c.settled[k] = "waiting" /\ c.jobs[k].kind = c.jobs[i].kind => k = i
  PROVE  Account(d) + Cost(c.jobs[i].kind) <= Account(c) + 1
<1>1. Jobs(d) = Jobs(c) /\ Len(d.jobs) = Len(c.jobs) /\ Len(c.jobs) \in Nat  BY ShapeFacts DEF Jobs
<1>2. ASSUME NEW kind, NEW n \in Nat
      PROVE  /\ Due(c, kind, n) \in Nat /\ Due(d, kind, n) \in Nat /\ Due(d, kind, n) <= Due(c, kind, n)
             /\ kind = c.jobs[i].kind => Due(d, kind, n) = 0 /\ Due(c, kind, n) = n
  BY <1>1 DEF Due
<1> DEFINE hc == Due(c, "HINT_EXTRACT", 5)         hd == Due(d, "HINT_EXTRACT", 5)
           sc == Due(c, "COARSE_SEARCH", 4)        sd == Due(d, "COARSE_SEARCH", 4)
           fc == Due(c, "FINE_VERIFY", 3)          fd == Due(d, "FINE_VERIFY", 3)
           pc == Due(c, "INCIDENT_CLIP_BUILD", 2)  pd == Due(d, "INCIDENT_CLIP_BUILD", 2)
           kind == c.jobs[i].kind
<1>3. /\ hc \in Nat /\ hd \in Nat /\ hd <= hc /\ (kind = "HINT_EXTRACT" => hd = 0 /\ hc = 5)
      /\ sc \in Nat /\ sd \in Nat /\ sd <= sc /\ (kind = "COARSE_SEARCH" => sd = 0 /\ sc = 4)
      /\ fc \in Nat /\ fd \in Nat /\ fd <= fc /\ (kind = "FINE_VERIFY" => fd = 0 /\ fc = 3)
      /\ pc \in Nat /\ pd \in Nat /\ pd <= pc /\ (kind = "INCIDENT_CLIP_BUILD" => pd = 0 /\ pc = 2)
  BY <1>2
<1>4. /\ Potential(c) = hc + sc + fc + pc /\ Potential(d) = hd + sd + fd + pd
      /\ Account(c) = Len(c.jobs) + Potential(c) /\ Account(d) = Len(d.jobs) + Potential(d)
  BY DEF Account, Potential
<1> HIDE DEF hc, hd, sc, sd, fc, fd, pc, pd, kind
<1>5. SUFFICES Potential(d) + Cost(kind) <= Potential(c) + 1
  <2>1. Potential(c) \in Nat /\ Potential(d) \in Nat  BY <1>3, <1>4
  <2>2. Cost(kind) \in Nat  BY DEF Cost
  <2> QED BY <1>1, <1>4, <2>1, <2>2 DEF kind
<1>6. CASE kind = "HINT_EXTRACT"
  <2>1. Cost(kind) = 6 /\ hd = 0 /\ hc = 5  BY <1>3, <1>6 DEF Cost
  <2> QED BY <1>3, <1>4, <2>1
<1>7. CASE kind = "COARSE_SEARCH"
  <2>1. Cost(kind) = 5 /\ sd = 0 /\ sc = 4  BY <1>3, <1>7 DEF Cost
  <2> QED BY <1>3, <1>4, <2>1
<1>8. CASE kind = "FINE_VERIFY"
  <2>1. Cost(kind) = 4 /\ fd = 0 /\ fc = 3  BY <1>3, <1>8 DEF Cost
  <2> QED BY <1>3, <1>4, <2>1
<1>9. CASE kind = "INCIDENT_CLIP_BUILD"
  <2>1. Cost(kind) = 3 /\ pd = 0 /\ pc = 2  BY <1>3, <1>9 DEF Cost
  <2> QED BY <1>3, <1>4, <2>1
<1>10. CASE kind \notin {"HINT_EXTRACT", "COARSE_SEARCH", "FINE_VERIFY", "INCIDENT_CLIP_BUILD"}
  <2>1. Cost(kind) = 1  BY <1>10 DEF Cost
  <2> QED BY <1>3, <1>4, <2>1
<1> QED BY <1>6, <1>7, <1>8, <1>9, <1>10

\* d is c after the outcome of job i was recorded.
Recorded(c, d, i, said) ==
  /\ d.jobs = c.jobs /\ Jobs(d) = Jobs(c) /\ SameCase(c, d)
  /\ d.settled[i] = "REFLECTED" /\ d.out[i] = said
  /\ \A k \in Jobs(c) : k # i => d.settled[k] = c.settled[k] /\ d.out[k] = c.out[k]

LEMMA RecordFacts ==
  ASSUME NEW c, Shape(c), NEW i \in Jobs(c), c.settled[i] = "waiting", NEW said \in Said,
         NEW d, d = [Settle(c, {i}, "REFLECTED") EXCEPT !.out[i] = said]
  PROVE  Shape(d) /\ Recorded(c, d, i, said)
<1> DEFINE m == Settle(c, {i}, "REFLECTED")
<1>2. /\ Shape(m) /\ SameCase(c, m) /\ m.jobs = c.jobs /\ m.out = c.out /\ Jobs(m) = Jobs(c)
      /\ \A k \in Jobs(c) : m.settled[k] = IF k \in {i} /\ c.settled[k] = "waiting"
                                           THEN "REFLECTED" ELSE c.settled[k]
  <2> "REFLECTED" \in Reasons  BY DEF Reasons
  <2> QED BY SettleFacts
<1> HIDE DEF m
<1>3. /\ d = [m EXCEPT !.out = [m.out EXCEPT ![i] = said]] /\ m \in CaseRecord
      /\ m.out \in Seq(Said) /\ Len(m.out) = Len(m.jobs) /\ i \in 1 .. Len(m.out)
  BY <1>2, ShapeFacts DEF Shape, CaseRecord, Jobs, m
<1> DEFINE o == [m.out EXCEPT ![i] = said]
<1>4. /\ o \in Seq(Said) /\ Len(o) = Len(m.jobs)
      /\ \A k \in 1 .. Len(m.out) : o[k] = IF k = i THEN said ELSE m.out[k]
  BY <1>3
<1> HIDE DEF o
<1>5. /\ d \in CaseRecord /\ d.out = o /\ d.jobs = c.jobs /\ d.settled = m.settled /\ SameCase(c, d)
  BY <1>2, <1>3, <1>4 DEF CaseRecord, SameCase, o
<1>6. Shape(d) /\ Jobs(d) = Jobs(c)  BY <1>2, <1>4, <1>5 DEF Shape, Jobs
<1>7. d.settled[i] = "REFLECTED" /\ d.out[i] = said
  BY <1>2, <1>3, <1>4, <1>5
<1>8. \A k \in Jobs(c) : k # i => d.settled[k] = c.settled[k] /\ d.out[k] = c.out[k]
  BY <1>2, <1>3, <1>4, <1>5 DEF Jobs
<1> QED BY <1>5, <1>6, <1>7, <1>8 DEF Recorded

\* What follows from a job that succeeded has not been issued.
Unfollowed(d, i) ==
  /\ d.jobs[i].kind = "FINE_VERIFY" /\ d.out[i] = "OK" =>
       \A k \in Jobs(d) : ~(d.jobs[k].kind = "INCIDENT_CLIP_BUILD" /\ d.jobs[k].cand = d.jobs[i].cand)
  /\ d.jobs[i].kind = "INCIDENT_CLIP_BUILD" /\ d.out[i] = "OK" =>
       \A k \in Jobs(d) : ~(d.jobs[k].kind \in Readout /\ d.jobs[k].cand = d.jobs[i].cand)

LEMMA OutcomeKept ==
  ASSUME NEW c, CaseInv(c), NEW i \in Jobs(c), c.settled[i] = "waiting",
         c.jobs[i].kind \in Observation,
         NEW said \in {"OK", "NOT_OBSERVED", "NO_VISUAL", "FAILED"},
         c.jobs[i].kind # "FINE_VERIFY" => said \in {"OK", "FAILED"},
         NEW d, Shape(d), Recorded(c, d, i, said)
  PROVE  /\ CaseInv(d) /\ Evolves(c, d, {i}) /\ Unfollowed(d, i)
         /\ Account(d) + Cost(c.jobs[i].kind) <= Account(c) + 1
<1>1. Shape(c) /\ History(c) /\ Present(c) /\ PlateLast(c)  BY DEF CaseInv, CoreInv
<1>5. d.jobs = c.jobs /\ SameCase(c, d)  BY DEF Recorded
<1>6. Shape(d) /\ Jobs(d) = Jobs(c)  BY DEF Recorded
<1>11. c.out[i] = "none"  BY <1>1 DEF History, Past, OutsReflected
<1>7. /\ d.settled[i] = "REFLECTED" /\ d.out[i] = said
      /\ \A k \in Jobs(c) : k # i => d.settled[k] = c.settled[k] /\ d.out[k] = c.out[k]
      /\ \A k \in Jobs(c) : d.settled[k] = "waiting" => c.settled[k] = "waiting" /\ k # i
      /\ \A k \in Jobs(c) : c.settled[k] = "REFLECTED" => d.settled[k] = "REFLECTED"
      /\ \A k \in Jobs(c) : c.out[k] = "OK" => d.out[k] = "OK"
  BY <1>11 DEF Recorded
<1>8. c.jobs[i].kind \notin Analysis /\ c.jobs[i].kind \in Kinds
      /\ c.jobs[i].kind # "COARSE_SEARCH" /\ c.jobs[i].kind # "HINT_EXTRACT"
  BY KindFacts DEF Analysis, Kinds
<1>9. Evolves(c, d, {i})
  <2>1. Len(c.jobs) <= Len(d.jobs)  BY <1>1, <1>5, ShapeFacts
  <2>2. \A k \in Jobs(c) : /\ k \in {i} => c.settled[k] = "waiting" /\ d.settled[k] = "REFLECTED"
                           /\ k \notin {i} => d.settled[k] = c.settled[k]
    BY <1>7
  <2> QED BY <1>5, <1>6, <2>1, <2>2 DEF Evolves
<1>10. CurrentGeneration(d) = CurrentGeneration(c)
  <2>1. \A k : Reflected(c, k) <=> Reflected(d, k)  BY <1>5, <1>6, <1>7, <1>8 DEF Reflected
  <2> QED BY <1>1, <1>6, <2>1, GenerationSame
<1>12. HintsKnown(d) /\ HintsFollowed(d)
  <2>1. \A k, s : Follows(d, k, s) <=> Follows(c, k, s)  BY <1>5, <1>6 DEF Follows
  <2>2. \A k \in Jobs(c) : c.jobs[k].kind = "HINT_EXTRACT" => d.settled[k] = c.settled[k]
    BY <1>7, <1>8
  <2>3. HintsKnown(d)  BY <1>1, <1>5, <1>6 DEF History, Past, HintsKnown
  <2> QED BY <1>1, <1>5, <1>6, <2>1, <2>2, <2>3 DEF History, Past, HintsFollowed
<1>13. Placed(d)
  <2>1. \A k \in Jobs(c) : c.settled[k] = "REFLECTED" => d.settled[k] = "REFLECTED"  BY <1>7
  <2> QED BY <1>1, <1>5, <1>6, <2>1 DEF History, Past, Placed
<1>14. OutsReflected(d)
  <2>1. \A k \in Jobs(c) : k # i => d.settled[k] = c.settled[k] /\ d.out[k] = c.out[k]  BY <1>7
  <2>2. said # "none"  OBVIOUS
  <2> QED BY <1>1, <1>5, <1>6, <1>7, <2>1, <2>2 DEF History, Past, OutsReflected
<1>15. OutsOfKind(d)
  BY <1>1, <1>5, <1>6, <1>7 DEF History, Past, OutsOfKind
<1>16. Chain(d)
  <2>1. \A k \in Jobs(c) : c.out[k] = "OK" => d.out[k] = "OK"  BY <1>7, <1>11
  <2> QED BY <1>1, <1>5, <1>6, <2>1 DEF History, Past, Chain, ComesFrom
<1>17. Superseded(d)
  <2>1. ASSUME NEW j \in Jobs(c), NEW k \in Jobs(c), j < k, c.jobs[j].kind = c.jobs[k].kind,
               c.jobs[j].kind \in Observation, c.jobs[j].cand = c.jobs[k].cand
        PROVE  d.settled[j] # "waiting" /\ d.out[j] \in {"none", "FAILED", "NO_VISUAL"}
    <3>1. c.settled[j] # "waiting" /\ c.out[j] \in {"none", "FAILED", "NO_VISUAL"}
      BY <1>1, <2>1 DEF History, Past, Superseded
    <3> QED BY <1>7, <3>1
  <2> QED BY <1>5, <1>6, <2>1 DEF Superseded
<1>18. Staged(d)  BY <1>1, <1>5 DEF Present, Staged, SameCase
<1>19. OneSearch(d)
  BY <1>1, <1>5, <1>6, <1>7 DEF Present, OneSearch, AwaitsSearch, SameCase
<1>20. CandsCurrent(d)  BY <1>1, <1>5, <1>10 DEF Present, CandsCurrent, SameCase
<1>21. WaitingPlaced(d)
  BY <1>1, <1>5, <1>6, <1>7 DEF Present, WaitingPlaced, SameCase
<1>22. PlateLast(d)
  <2>1. LatestRecord(d, "PLATE_READ") = LatestRecord(c, "PLATE_READ")
    BY <1>1, <1>5, <1>6, LatestSame
  <2>2. \A k : Own(d, k) <=> Own(c, k)  BY <1>5 DEF Own, SameCase
  <2>3. \A k \in Jobs(c) : d.out[k] # "OK" => c.out[k] # "OK"  BY <1>7, <1>11
  <2> QED BY <1>1, <1>5, <1>6, <2>1, <2>2, <2>3 DEF PlateLast
<1>23. Account(d) + Cost(c.jobs[i].kind) <= Account(c) + 1
  <2>1. \A k \in Jobs(c) : c.settled[k] = "waiting" /\ c.jobs[k].kind = c.jobs[i].kind => k = i
    BY <1>1 DEF Present, WaitingPlaced
  <2>2. d.settled[i] # "waiting"  BY <1>7
  <2> QED BY <1>1, <1>5, <1>7, <1>8, <2>1, <2>2, WaitEnds
\* A job that was built on another of this kind and candidate would make this one its elder.
<1>24. ASSUME NEW f \in Jobs(c), c.jobs[f].kind = c.jobs[i].kind, c.jobs[f].cand = c.jobs[i].cand,
              c.out[f] = "OK", said = "OK"
       PROVE  FALSE
  <2>1. f # i  BY <1>11, <1>24
  <2>2. f \in Nat /\ i \in Nat  BY <1>1, ShapeFacts
  <2>3. ~(i < f)  BY <1>1, <1>24 DEF History, Past, Superseded
  <2>4. ~(f < i)  BY <1>1, <1>24 DEF History, Past, Superseded
  <2> QED BY <2>1, <2>2, <2>3, <2>4
<1>25. Unfollowed(d, i)
  <2>1. d.out[i] = said /\ d.jobs = c.jobs  BY <1>5, <1>7
  <2>2. Chain(c) /\ i \in Jobs(c)  BY <1>1 DEF History, Past
  <2> QED BY <1>6, <1>24, <2>1, <2>2 DEF Unfollowed, Chain, ComesFrom
<1> QED BY <1>5, <1>6, <1>7, <1>9, <1>12, <1>13, <1>14, <1>15, <1>16, <1>17, <1>18, <1>19, <1>20,
           <1>21, <1>22, <1>23, <1>25 DEF CaseInv, CoreInv, History, Past, Present
LEMMA EvolvesThen ==
  ASSUME NEW c, NEW d, NEW e, NEW I, Shape(c), Shape(d), Shape(e), Jobs(d) = Jobs(c),
         Evolves(c, d, I), Evolves(d, e, {})
  PROVE  Evolves(c, e, I)
<1>1. \A i \in Jobs(d) : i \notin Jobs(c) => i \notin {} /\ e.settled[i] = "waiting"  OBVIOUS
<1>2. Evolves(c, e, I \union {})  BY <1>1, EvolvesTwice
<1>3. I \union {} = I  OBVIOUS
<1> QED BY <1>2, <1>3

LEMMA GateFacts ==
  ASSUME NEW c, CaseInv(c), NEW d \in Gate(c)
  PROVE  /\ CaseInv(d) /\ Evolves(c, d, {}) /\ Account(d) = Account(c) /\ Jobs(d) = Jobs(c)
         /\ d.jobs = c.jobs /\ d.settled = c.settled /\ d.out = c.out /\ d.processed = c.processed
         /\ \A i : Own(d, i) <=> Own(c, i)
         /\ d = c \/ (d.stage = "READY" /\ c.stage = "EVIDENCE_REVIEW" /\ ReadoutsSettled(c))
<1>1. CoreInv(c) /\ PlateLast(c) /\ Shape(c)  BY DEF CaseInv, CoreInv
<1>2. \/ d = c
      \/ d = [c EXCEPT !.stage = "READY"] /\ c.stage = "EVIDENCE_REVIEW" /\ ReadoutsSettled(c)
  BY DEF Gate
<1>3. /\ Shape(d) /\ d.jobs = c.jobs /\ d.settled = c.settled /\ d.out = c.out /\ d.cands = c.cands
      /\ d.selected = c.selected /\ d.processed = c.processed
      /\ d.stage = c.stage \/ (d.stage \in Reviewing /\ c.stage \in Reviewing)
      /\ d = c \/ (d.stage = "READY" /\ c.stage = "EVIDENCE_REVIEW" /\ ReadoutsSettled(c))
  <2>1. CASE d = c  BY <1>1, <2>1
  <2>2. CASE d = [c EXCEPT !.stage = "READY"] /\ c.stage = "EVIDENCE_REVIEW" /\ ReadoutsSettled(c)
    <3>1. c \in CaseRecord  BY <1>1 DEF Shape
    <3>2. "READY" \in Reviewing /\ "EVIDENCE_REVIEW" \in Reviewing  BY DEF Reviewing
    <3>3. d \in CaseRecord  BY <2>2, <3>1, <3>2 DEF CaseRecord
    <3>4. /\ d.jobs = c.jobs /\ d.settled = c.settled /\ d.out = c.out /\ d.cands = c.cands
          /\ d.selected = c.selected /\ d.processed = c.processed /\ d.stage = "READY"
      BY <2>2, <3>1 DEF CaseRecord
    <3> QED BY <1>1, <2>2, <3>2, <3>3, <3>4 DEF Shape
  <2> QED BY <1>2, <2>1, <2>2
<1>4. /\ CoreInv(d) /\ PlateLast(d)
      /\ Evolves(c, d, {}) /\ Account(d) = Account(c) /\ Jobs(d) = Jobs(c)
      /\ \A i : Own(d, i) <=> Own(c, i)
  BY <1>1, <1>3, CaseFrame
<1> QED BY <1>3, <1>4 DEF CaseInv

-----------------------------------------------------------------------------
(* The readouts of the selected candidate.                                 *)

\* All readouts of a candidate are over the one clip of it that succeeded.
LEMMA OneClip ==
  ASSUME NEW c, CoreInv(c), NEW i \in Jobs(c), NEW k \in Jobs(c), Own(c, i), Own(c, k),
         c.jobs[i].kind \in Readout, c.jobs[k].kind \in Readout
  PROVE  c.jobs[i].via = c.jobs[k].via
<1>1. PICK x \in Jobs(c) : /\ c.jobs[i].via = x /\ Own(c, x) /\ c.jobs[x].kind = "INCIDENT_CLIP_BUILD"
                           /\ c.out[x] = "OK"
  BY PlateComesFrom
<1>2. PICK y \in Jobs(c) : /\ c.jobs[k].via = y /\ Own(c, y) /\ c.jobs[y].kind = "INCIDENT_CLIP_BUILD"
                           /\ c.out[y] = "OK"
  BY PlateComesFrom
<1>3. y = x
  <2>1. /\ c.jobs[x].kind = c.jobs[y].kind /\ c.jobs[x].kind \in Observation
        /\ c.jobs[x].cand = c.jobs[y].cand
        /\ c.out[x] \notin {"none", "FAILED", "NO_VISUAL"} /\ c.out[y] \notin {"none", "FAILED", "NO_VISUAL"}
    BY <1>1, <1>2 DEF Own
  <2> QED BY <2>1, OneSucceeds
<1> QED BY <1>1, <1>2, <1>3

\* A readout of the selected candidate that was reflected.
Read(c, kind, i) ==
  i \in Jobs(c) /\ Own(c, i) /\ c.jobs[i].kind = kind /\ c.settled[i] = "REFLECTED"

LEMMA SettledReadoutFacts ==
  ASSUME NEW c, CoreInv(c), NEW kind \in Readout, NEW r, r = SettledReadout(c, kind)
  PROVE  /\ r # 0 => Read(c, kind, r)
         /\ \A p \in Jobs(c) : Own(c, p) /\ c.jobs[p].kind = "PLATE_READ" =>
              \A i \in Jobs(c) : Read(c, kind, i) => r # 0 /\ i <= r
<1> DEFINE P == Mine(c) \intersect OfKind(c, {"PLATE_READ"})
           plate == Largest(P)
           S == {i \in Mine(c) \intersect OfKind(c, {kind}) :
                   c.jobs[i].via = c.jobs[plate].via /\ c.settled[i] = "REFLECTED"}
<1>1. r = IF plate = 0 THEN 0 ELSE Largest(S)  BY DEF SettledReadout
<1>2. Shape(c) /\ Len(c.jobs) \in Nat  BY ShapeFacts DEF CoreInv
<1>3. \A p : p \in P <=> p \in Jobs(c) /\ Own(c, p) /\ c.jobs[p].kind = "PLATE_READ"
  BY <1>2, OwnFacts, ShapeFacts DEF OfKind
<1>4. \A i : i \in S <=> Read(c, kind, i) /\ c.jobs[i].via = c.jobs[plate].via
  BY <1>2, OwnFacts, ShapeFacts DEF OfKind, Read
<1> HIDE DEF P, S
<1>5. P \subseteq 1 .. Len(c.jobs) /\ S \subseteq 1 .. Len(c.jobs)
  BY <1>3, <1>4 DEF Read, Jobs
<1>6. /\ P = {} => plate = 0
      /\ P # {} => plate \in P
  BY <1>2, <1>5, LargestFacts
<1>7. /\ S = {} => Largest(S) = 0
      /\ S # {} => Largest(S) \in S /\ \A k \in S : k <= Largest(S)
  BY <1>2, <1>5, LargestFacts
<1> HIDE DEF plate
<1>8. r # 0 => Read(c, kind, r)  BY <1>1, <1>4, <1>7
<1>9. ASSUME NEW p \in Jobs(c), Own(c, p), c.jobs[p].kind = "PLATE_READ",
             NEW i \in Jobs(c), Read(c, kind, i)
      PROVE  r # 0 /\ i <= r
  <2>1. plate \in P /\ plate # 0  BY <1>3, <1>5, <1>6, <1>9
  <2>2. /\ plate \in Jobs(c) /\ Own(c, plate) /\ c.jobs[plate].kind \in Readout
    BY <1>3, <2>1 DEF Readout
  <2>3. c.jobs[i].via = c.jobs[plate].via
    BY <1>9, <2>2, OneClip DEF Read
  <2>4. i \in S  BY <1>4, <1>9, <2>3
  <2> QED BY <1>1, <1>5, <1>7, <2>1, <2>4
<1> QED BY <1>8, <1>9

\* READY is about the candidate that is selected.
Ready(c) == c.stage = "READY" => \A kind \in Readout : \E i \in Jobs(c) : Read(c, kind, i)

LEMMA ReadyMeans ==
  ASSUME NEW c, CoreInv(c)
  PROVE  ReadoutsSettled(c) <=> \A kind \in Readout : \E i \in Jobs(c) : Read(c, kind, i)
<1>1. ASSUME ReadoutsSettled(c), NEW kind \in Readout PROVE \E i \in Jobs(c) : Read(c, kind, i)
  <2>1. SettledReadout(c, kind) # 0  BY <1>1 DEF ReadoutsSettled
  <2>2. Read(c, kind, SettledReadout(c, kind))  BY <2>1, SettledReadoutFacts
  <2> QED BY <2>2 DEF Read
<1>2. ASSUME \A kind \in Readout : \E i \in Jobs(c) : Read(c, kind, i), NEW kind \in Readout
      PROVE  SettledReadout(c, kind) # 0
  <2>1. PICK p \in Jobs(c) : Read(c, "PLATE_READ", p)  BY <1>2 DEF Readout
  <2>2. PICK i \in Jobs(c) : Read(c, kind, i)  BY <1>2
  <2>3. Own(c, p) /\ c.jobs[p].kind = "PLATE_READ"  BY <2>1 DEF Read
  <2> QED BY <2>2, <2>3, SettledReadoutFacts
<1> QED BY <1>1, <1>2 DEF ReadoutsSettled

\* Readouts stay while the candidate does.
LEMMA ReadyKept ==
  ASSUME NEW c, NEW d, NEW taken, Evolves(c, d, taken), Ready(c),
         d.stage = "READY" => c.stage = "READY" /\ d.selected = c.selected
  PROVE  Ready(d)
<1> SUFFICES ASSUME d.stage = "READY", NEW kind \in Readout PROVE \E i \in Jobs(d) : Read(d, kind, i)
  BY DEF Ready
<1>1. PICK i \in Jobs(c) : Read(c, kind, i)  BY DEF Ready
<1>2. i \in Jobs(d) /\ d.jobs[i] = c.jobs[i] /\ d.settled[i] = "REFLECTED"
  BY <1>1 DEF Evolves, Read
<1> QED BY <1>1, <1>2 DEF Read, Own

LEMMA GateReady ==
  ASSUME NEW c, CaseInv(c), Ready(c), NEW d \in Gate(c)
  PROVE  Ready(d)
<1>1. /\ CaseInv(d) /\ Evolves(c, d, {}) /\ Jobs(d) = Jobs(c) /\ d.jobs = c.jobs /\ d.settled = c.settled
      /\ \A i : Own(d, i) <=> Own(c, i)
      /\ d = c \/ (d.stage = "READY" /\ c.stage = "EVIDENCE_REVIEW" /\ ReadoutsSettled(c))
  BY GateFacts
<1>2. ReadoutsSettled(c) => \A kind \in Readout : \E i \in Jobs(c) : Read(c, kind, i)
  BY ReadyMeans DEF CaseInv
<1> QED BY <1>1, <1>2 DEF Ready, Read

\* What a delivered job leaves behind: it is settled, and nothing more may follow than was due.
Applied(c, d, i) ==
  /\ CaseInv(d) /\ Evolves(c, d, {i}) /\ Account(d) <= Account(c) /\ d.processed = c.processed
  /\ Ready(c) => Ready(d)

LEMMA ObservationApplied ==
  ASSUME NEW c, CaseInv(c), NEW i \in Jobs(c), c.settled[i] = "waiting",
         c.jobs[i].kind \in Observation,
         ledger[i].content \in {"OK", "NOT_OBSERVED", "NO_VISUAL", "FAILED"},
         c.jobs[i].kind # "FINE_VERIFY" => ledger[i].content \in {"OK", "FAILED"},
         NEW d \in Apply(c, i)
  PROVE  Applied(c, d, i) /\ d.settled[i] = "REFLECTED"
<1> DEFINE said == ledger[i].content
           r == [Settle(c, {i}, "REFLECTED") EXCEPT !.out[i] = said]
           kind == c.jobs[i].kind
<1>1. Shape(c)  BY DEF CaseInv, CoreInv
<1>2. kind \in Observation /\ kind \notin Analysis /\ kind # "HINT_EXTRACT" /\ kind # "COARSE_SEARCH"
  BY <1>1, KindFacts, ShapeFacts DEF JobRecord, Analysis
<1>3. PICK e \in Gate(r) : d = IF kind = "FINE_VERIFY" THEN FollowFine(e, i)
                               ELSE IF kind = "INCIDENT_CLIP_BUILD" THEN FollowClip(e, i) ELSE e
  <2>1. Apply(c, i) = IF kind = "FINE_VERIFY" THEN {FollowFine(e, i) : e \in Gate(r)}
                      ELSE IF kind = "INCIDENT_CLIP_BUILD" THEN {FollowClip(e, i) : e \in Gate(r)}
                      ELSE Gate(r)
    BY <1>2 DEF Apply, ApplyObservation
  <2> HIDE DEF r, kind
  <2> QED BY <2>1
<1>4. Shape(r) /\ Recorded(c, r, i, said)
  <2>1. said \in Said  BY DEF Said
  <2> HIDE DEF said
  <2> QED BY <1>1, <2>1, RecordFacts
<1> HIDE DEF r
<1>5. /\ CaseInv(r) /\ Evolves(c, r, {i}) /\ Unfollowed(r, i)
      /\ Account(r) + Cost(kind) <= Account(c) + 1
  <2>1. /\ said \in {"OK", "NOT_OBSERVED", "NO_VISUAL", "FAILED"}
        /\ c.jobs[i].kind # "FINE_VERIFY" => said \in {"OK", "FAILED"}
    OBVIOUS
  <2> HIDE DEF said
  <2> QED BY <1>4, <2>1, OutcomeKept
<1>6. /\ r.jobs = c.jobs /\ Jobs(r) = Jobs(c) /\ r.settled[i] = "REFLECTED" /\ r.out[i] = said
      /\ r.processed = c.processed
  BY <1>4 DEF Recorded, SameCase
<1>7. /\ CaseInv(e) /\ Evolves(r, e, {}) /\ Account(e) = Account(r) /\ Jobs(e) = Jobs(r)
      /\ e.jobs = r.jobs /\ e.settled = r.settled /\ e.out = r.out /\ e.processed = r.processed
  BY <1>5, GateFacts
<1>8. Evolves(c, e, {i})
  BY <1>1, <1>4, <1>5, <1>6, <1>7, EvolvesThen DEF CaseInv, CoreInv
<1>9. Account(e) + Cost(kind) <= Account(c) + 1 /\ Account(e) \in Nat /\ Account(c) \in Nat
  BY <1>1, <1>5, <1>7, AccountTyped DEF CaseInv, CoreInv
<1> SUFFICES ASSUME NEW n \in Nat, Cost(kind) = n + 1, Observes(e, d, n), PlateLast(d)
             PROVE  Applied(c, d, i) /\ d.settled[i] = "REFLECTED"
  <2>1. CoreInv(e) /\ PlateLast(e) /\ i \in Jobs(e) /\ e.jobs[i].kind = kind /\ e.out[i] = said
    BY <1>6, <1>7 DEF CaseInv
  <2>2. CASE kind = "FINE_VERIFY"
    <3>1. d = FollowFine(e, i)  BY <1>3, <2>2
    <3>2. Own(e, i) /\ e.out[i] = "OK" =>
            \A k \in Jobs(e) : Own(e, k) /\ e.jobs[k].kind = "INCIDENT_CLIP_BUILD"
                                 => e.out[k] \in {"none", "FAILED", "NO_VISUAL"}
      BY <1>5, <1>6, <1>7, <2>2 DEF Own, Unfollowed
    <3>3. Observes(e, d, 3) /\ PlateLast(d)  BY <2>1, <2>2, <3>1, <3>2, ClipIssued
    <3>4. Cost(kind) = 3 + 1  BY <2>2 DEF Cost
    <3> QED BY <3>3, <3>4
  <2>3. CASE kind = "INCIDENT_CLIP_BUILD"
    <3>1. d = FollowClip(e, i)  BY <1>3, <2>3
    <3>2. Own(e, i) <=> IsCurrent(e, i)  BY <1>2, <2>1, OwnFacts
    <3>3. Cost(kind) = 2 + 1  BY <2>3 DEF Cost
    <3>4. CASE ~(e.out[i] = "OK" /\ IsCurrent(e, i))
      <4>1. d = e  BY <3>1, <3>4 DEF FollowClip
      <4>2. Observes(e, d, 2)  BY <2>1, <4>1, NothingIssued
      <4> QED BY <2>1, <3>3, <4>1, <4>2
    <3>5. CASE e.out[i] = "OK" /\ IsCurrent(e, i)
      <4>1. d = IssueReadouts(e, i, Readout)  BY <3>1, <3>5 DEF FollowClip
      <4>2. \A k \in Jobs(e) : Own(e, k) /\ e.jobs[k].kind \in Readout \intersect Readout
                                 => e.out[k] \in {"none", "FAILED", "NO_VISUAL"}
        BY <1>5, <1>6, <1>7, <2>1, <2>3, <3>2, <3>5 DEF Own, Unfollowed
      <4>3. Observes(e, d, 2) /\ PlateLast(d)
        BY <2>1, <2>3, <3>2, <3>5, <4>1, <4>2, ReadoutsIssued
      <4> QED BY <3>3, <4>3
    <3> QED BY <3>4, <3>5
  <2>4. CASE kind \notin {"FINE_VERIFY", "INCIDENT_CLIP_BUILD"}
    <3>1. d = e  BY <1>3, <2>4
    <3>2. Cost(kind) = 0 + 1  BY <1>2, <2>4 DEF Cost
    <3>3. Observes(e, d, 0)  BY <2>1, <3>1, NothingIssued
    <3> QED BY <2>1, <3>1, <3>2, <3>3
  <2> QED BY <2>2, <2>3, <2>4
<1>10. CaseInv(d) /\ Shape(d) /\ Shape(e) /\ Evolves(e, d, {}) /\ d.processed = c.processed
  BY <1>6, <1>7 DEF Observes, SameCase, CaseInv, CoreInv
<1>11. Evolves(c, d, {i})
  BY <1>1, <1>6, <1>7, <1>8, <1>10, EvolvesThen
<1>12. Account(d) <= Account(c)
  <2>1. Account(d) <= Account(e) + n /\ Account(d) \in Nat  BY <1>10, AccountTyped DEF Observes
  <2> QED BY <1>9, <2>1
<1>13. d.settled[i] = "REFLECTED"
  <2>1. i \in Jobs(e) /\ e.settled[i] = "REFLECTED"  BY <1>6, <1>7
  <2> QED BY <1>10, <2>1 DEF Evolves
<1>14. Ready(c) => Ready(d)
  <2>1. Ready(c) => Ready(r)  BY <1>4, <1>5, ReadyKept DEF Recorded, SameCase
  <2>2. Ready(r) => Ready(e)  BY <1>5, GateReady
  <2>3. Ready(e) => Ready(d)  BY <1>10, ReadyKept DEF Observes, SameCase
  <2> QED BY <2>1, <2>2, <2>3
<1> QED BY <1>10, <1>11, <1>12, <1>13, <1>14 DEF Applied
-----------------------------------------------------------------------------
(* Issuing hint and search jobs.                                           *)

\* A hint or search job may be issued while searching, if none is waited for.
LEMMA AnalysisIssued ==
  ASSUME NEW c, Shape(c), Past(c), Present(c), PlateLast(c), c.stage = "SEARCHING", ~SearchAwaited(c),
         NEW job \in JobRecord, job.kind \in Analysis, job.kind = "COARSE_SEARCH" => job.via <= Len(c.jobs),
         NEW d, d = Issue(c, job)
  PROVE  /\ Shape(d) /\ Past(d) /\ Present(d) /\ PlateLast(d) /\ Issued(c, d, job)
         /\ Evolves(c, d, {}) /\ Account(d) <= Account(c) + Cost(job.kind)
<1>1. job.kind \notin Observation  BY KindFacts
<1>2. /\ Shape(d) /\ Past(d) /\ Issued(c, d, job) /\ Evolves(c, d, {})
      /\ CurrentGeneration(d) = CurrentGeneration(c)
  BY <1>1, IssueAny
<1>3. Account(d) <= Account(c) + Cost(job.kind)  BY <1>2, IssueCosts
<1> DEFINE n == Len(d.jobs)
<1>4. /\ n \in Jobs(d) /\ n \in Nat /\ SameCase(c, d) /\ d.jobs[n] = job /\ d.settled[n] = "waiting"
      /\ \A i \in Jobs(d) : /\ i \in Jobs(c) \/ i = n
                            /\ i \in Nat /\ i <= n
  BY <1>2, ShapeFacts DEF Issued, Jobs
<1>5. \A i \in Jobs(c) :
        /\ i \in Jobs(d) /\ d.jobs[i] = c.jobs[i]
        /\ d.settled[i] = "waiting" => c.settled[i] = "waiting"
  BY <1>2 DEF Issued
<1> HIDE DEF n
<1>6. c.cands = {} /\ c.selected = NoCand  BY DEF Present, Staged
<1>7. Staged(d)  BY <1>4, <1>6 DEF Present, Staged, SameCase
<1>8. OneSearch(d)
  <2>1. \A i \in Jobs(d) : AwaitsSearch(d, i) => i = n
    BY <1>4, <1>5, WaitingFacts DEF AwaitsSearch
  <2> QED BY <1>4, <2>1 DEF OneSearch, SameCase
<1>9. CandsCurrent(d)  BY <1>4, <1>6 DEF CandsCurrent, SameCase
<1>10. WaitingPlaced(d)
  <2>1. \A i \in Jobs(d) : d.settled[i] = "waiting" /\ d.jobs[i].kind \in Observation =>
          i \in Jobs(c) /\ c.settled[i] = "waiting" /\ c.jobs[i] = d.jobs[i]
    BY <1>1, <1>4, <1>5
  <2>2. \A k \in Jobs(d) : d.jobs[k].kind \in Observation => k \in Jobs(c)
    BY <1>1, <1>4
  <2> QED BY <1>4, <2>1, <2>2 DEF Present, WaitingPlaced, SameCase
<1>11. PlateLast(d)  BY <1>4, <1>6 DEF PlateLast, Own, SameCase
<1> QED BY <1>2, <1>3, <1>7, <1>8, <1>9, <1>10, <1>11 DEF Present

\* Hint jobs keep what was said of them if the new job follows none that was without a search.
LEMMA HintsStay ==
  ASSUME NEW c, NEW d, NEW job, Shape(c), Shape(d), HintsFollowed(c), HintsKnown(c), Issued(c, d, job),
         \/ job.kind = "HINT_EXTRACT"
         \/ job.kind = "COARSE_SEARCH" /\ job.via = 0
         \/ job.kind = "COARSE_SEARCH" /\ Follows(c, job.via, job.scope)
  PROVE  HintsFollowed(d)
<1> DEFINE n == Len(d.jobs)
<1>1. /\ n \in Jobs(d) /\ n \in Nat /\ n # 0 /\ d.jobs[n] = job /\ d.settled[n] = "waiting"
      /\ \A i \in Jobs(d) : /\ i \in Jobs(c) \/ i = n
                            /\ i \in Nat /\ i # 0
      /\ \A i \in Jobs(c) : i < n
  BY ShapeFacts DEF Issued, Jobs
<1>2. \A i \in Jobs(c) : /\ i \in Jobs(d) /\ d.jobs[i] = c.jobs[i]
                         /\ d.settled[i] \in {"REFLECTED", "EXHAUSTED"}
                              <=> c.settled[i] \in {"REFLECTED", "EXHAUSTED"}
  BY DEF Issued
<1> HIDE DEF n
<1>3. \A i, s : Follows(c, i, s) => Follows(d, i, s)  BY <1>2 DEF Follows
<1>4. \A i \in Jobs(c) : \A s : Follows(d, i, s) => Follows(c, i, s)
  <2> TAKE i \in Jobs(c)
  <2> TAKE s
  <2> HAVE Follows(d, i, s)
  <2>1. PICK k \in Jobs(d) : d.jobs[k].kind = "COARSE_SEARCH" /\ d.jobs[k].via = i /\ d.jobs[k].scope = s
    BY DEF Follows
  <2>2. CASE k \in Jobs(c)  BY <1>2, <2>1, <2>2 DEF Follows
  <2>3. CASE k = n
    <3>1. job.kind = "COARSE_SEARCH" /\ job.via = i /\ job.scope = s  BY <1>1, <2>1, <2>3
    <3>2. i # 0  BY <1>1, <1>2
    <3> QED BY <3>1, <3>2
  <2> QED BY <1>1, <2>2, <2>3
<1>5. ASSUME job.kind = "HINT_EXTRACT" PROVE \A t : ~Follows(d, n, t)
  <2>1. ASSUME NEW k \in Jobs(d), d.jobs[k].kind = "COARSE_SEARCH", d.jobs[k].via = n PROVE FALSE
    <3>1. k \in Jobs(c) /\ c.jobs[k] = d.jobs[k]  BY <1>1, <1>2, <1>5, <2>1
    <3>2. n < k  BY <2>1, <3>1 DEF HintsKnown
    <3>3. k < n /\ k \in Nat /\ n \in Nat  BY <1>1, <3>1
    <3> QED BY <3>2, <3>3
  <2> QED BY <2>1 DEF Follows
<1>6. ASSUME NEW i \in Jobs(d), d.jobs[i].kind = "HINT_EXTRACT"
      PROVE  IF d.settled[i] \in {"REFLECTED", "EXHAUSTED"}
             THEN \E s \in Nat : Follows(d, i, s) /\ \A t \in Nat : Follows(d, i, t) => t = s
             ELSE \A t \in Nat : ~Follows(d, i, t)
  <2>1. CASE i \in Jobs(c)  BY <1>2, <1>3, <1>4, <1>6, <2>1 DEF HintsFollowed
  <2>2. CASE i = n  BY <1>1, <1>5, <1>6, <2>2
  <2> QED BY <1>1, <2>1, <2>2
<1> QED BY <1>6 DEF HintsFollowed

LEMMA AnalysisStarts ==
  ASSUME NEW c, CaseInv(c), c.stage = "SEARCHING", ~SearchAwaited(c), NEW described \in BOOLEAN,
         NEW d, d = BeginAnalysis(c, described)
  PROVE  CaseInv(d) /\ Evolves(c, d, {}) /\ Account(d) <= Account(c) + 6 /\ d.processed = c.processed
<1>1. Shape(c) /\ HintsFollowed(c) /\ Past(c) /\ HintsKnown(c) /\ Present(c) /\ PlateLast(c)
  BY DEF CaseInv, CoreInv, History, Past
<1> DEFINE job == IF described THEN AnalysisJob("HINT_EXTRACT", 0, 0)
                  ELSE AnalysisJob("COARSE_SEARCH", Len(c.jobs) + 1, 0)
<1>2. d = Issue(c, job)  BY DEF BeginAnalysis, IssueInitialSearch
<1>3. Len(c.jobs) \in Nat  BY <1>1, ShapeFacts
<1>4. /\ job \in JobRecord /\ job.kind \in Analysis /\ job.via = 0
      /\ job.kind = IF described THEN "HINT_EXTRACT" ELSE "COARSE_SEARCH"
  <2>1. /\ \A scope \in Nat : AnalysisJob("HINT_EXTRACT", scope, 0) \in JobRecord
        /\ \A scope \in Nat : AnalysisJob("COARSE_SEARCH", scope, 0) \in JobRecord
    BY DEF AnalysisJob, JobRecord, Kinds, Analysis
  <2>2. /\ \A scope : AnalysisJob("HINT_EXTRACT", scope, 0).kind = "HINT_EXTRACT"
        /\ \A scope : AnalysisJob("COARSE_SEARCH", scope, 0).kind = "COARSE_SEARCH"
        /\ \A kind, scope : AnalysisJob(kind, scope, 0).via = 0
    BY DEF AnalysisJob
  <2> QED BY <1>3, <2>1, <2>2 DEF Analysis
<1> HIDE DEF job
<1>5. /\ Shape(d) /\ Past(d) /\ Present(d) /\ PlateLast(d) /\ Issued(c, d, job)
      /\ Evolves(c, d, {}) /\ Account(d) <= Account(c) + Cost(job.kind)
  BY <1>1, <1>2, <1>3, <1>4, AnalysisIssued
<1>6. HintsFollowed(d)  BY <1>1, <1>4, <1>5, HintsStay
<1>7. Account(d) <= Account(c) + 6
  <2>1. Cost(job.kind) \in {5, 6}  BY <1>4 DEF Cost
  <2>2. Account(c) \in Nat /\ Account(d) \in Nat  BY <1>1, <1>5, AccountTyped
  <2> QED BY <1>5, <2>1, <2>2
<1> QED BY <1>5, <1>6, <1>7 DEF CaseInv, CoreInv, History, Issued, SameCase

\* RETRY_SEARCH repeats the last search, so it follows what that followed.
LEMMA SearchRepeated ==
  ASSUME NEW c, CaseInv(c), c.stage = "SEARCHING", ~SearchAwaited(c),
         NEW prior \in Jobs(c), c.jobs[prior].kind = "COARSE_SEARCH", NEW d, d = IssueSameInput(c, prior)
  PROVE  CaseInv(d) /\ Evolves(c, d, {}) /\ Account(d) <= Account(c) + 6 /\ d.processed = c.processed
<1>1. Shape(c) /\ HintsFollowed(c) /\ Past(c) /\ HintsKnown(c) /\ Present(c) /\ PlateLast(c)
  BY DEF CaseInv, CoreInv, History, Past
<1> DEFINE job == c.jobs[prior]
<1>2. /\ d = Issue(c, job) /\ job \in JobRecord /\ job.kind \in Analysis /\ job.kind = "COARSE_SEARCH"
      /\ job.via <= Len(c.jobs) /\ Follows(c, job.via, job.scope)
  <2>1. job \in JobRecord /\ prior \in Nat /\ Len(c.jobs) \in Nat /\ prior <= Len(c.jobs)
    BY <1>1, ShapeFacts DEF Jobs
  <2>2. job.via \in Nat /\ job.via < prior  BY <1>1, <2>1 DEF JobRecord, HintsKnown
  <2> QED BY <2>1, <2>2 DEF IssueSameInput, Analysis, Follows
<1> HIDE DEF job
<1>3. /\ Shape(d) /\ Past(d) /\ Present(d) /\ PlateLast(d) /\ Issued(c, d, job)
      /\ Evolves(c, d, {}) /\ Account(d) <= Account(c) + Cost(job.kind)
  BY <1>1, <1>2, AnalysisIssued
<1>4. HintsFollowed(d)  BY <1>1, <1>2, <1>3, HintsStay
<1>5. Account(d) <= Account(c) + 6
  <2>1. Cost(job.kind) = 5  BY <1>2 DEF Cost
  <2>2. Account(c) \in Nat /\ Account(d) \in Nat  BY <1>1, <1>3, AccountTyped
  <2> QED BY <1>3, <2>1, <2>2
<1> QED BY <1>3, <1>4, <1>5 DEF CaseInv, CoreInv, History, Issued, SameCase
-----------------------------------------------------------------------------
(* Results of hint and search jobs.                                        *)

LEMMA EvolvesAfter ==
  ASSUME NEW c, NEW d, NEW e, NEW J, Shape(c), Shape(d), Shape(e), Jobs(d) = Jobs(c),
         Evolves(c, d, {}), Evolves(d, e, J)
  PROVE  Evolves(c, e, J)
<1>1. \A i \in Jobs(d) : i \notin Jobs(c) => i \notin J /\ e.settled[i] = "waiting"  OBVIOUS
<1>2. Evolves(c, e, {} \union J)  BY <1>1, EvolvesTwice
<1>3. {} \union J = J  OBVIOUS
<1> QED BY <1>2, <1>3

LEMMA OnlySearch ==
  ASSUME NEW c, Shape(c), OneSearch(c), NEW i \in Jobs(c), AwaitsSearch(c, i)
  PROVE  \A k \in Jobs(c) : AwaitsSearch(c, k) => k = i
<1>1. \A k \in Jobs(c) : AwaitsSearch(c, k) => k <= i /\ i <= k
  BY DEF OneSearch, AwaitsSearch
<1>2. \A k \in Jobs(c) : k \in Nat  BY ShapeFacts
<1> QED BY <1>1, <1>2

LEMMA HintsApplied ==
  ASSUME NEW c, CaseInv(c), NEW i \in Jobs(c), c.settled[i] = "waiting", c.jobs[i].kind = "HINT_EXTRACT",
         NEW unclear \in BOOLEAN, NEW why \in {"REFLECTED", "EXHAUSTED"},
         NEW d, d = HintsArrive(c, i, unclear, why)
  PROVE  Applied(c, d, i) /\ d.settled[i] = why
<1> DEFINE b == [c EXCEPT !.unclear = unclear]
           m == Settle(b, {i}, why)
           job == AnalysisJob("COARSE_SEARCH", Len(m.jobs) + 1, i)
<1>1. d = Issue(m, job)  BY DEF HintsArrive, IssueInitialSearch
<1>2. CoreInv(c) /\ PlateLast(c) /\ Shape(c) /\ OneSearch(c) /\ HintsFollowed(c)
  BY DEF CaseInv, CoreInv, Present, History
<1>3. /\ Shape(b) /\ b.jobs = c.jobs /\ b.settled = c.settled /\ b.out = c.out /\ b.cands = c.cands
      /\ b.selected = c.selected /\ b.stage = c.stage /\ b.processed = c.processed
  <2>1. c \in CaseRecord  BY <1>2 DEF Shape
  <2>2. /\ b \in CaseRecord
        /\ b.jobs = c.jobs /\ b.settled = c.settled /\ b.out = c.out /\ b.cands = c.cands
        /\ b.selected = c.selected /\ b.stage = c.stage /\ b.processed = c.processed
    BY <2>1 DEF CaseRecord
  <2> QED BY <1>2, <2>2 DEF Shape
<1> HIDE DEF b
<1>4. /\ CoreInv(b) /\ PlateLast(b) /\ Evolves(c, b, {}) /\ Account(b) = Account(c) /\ Jobs(b) = Jobs(c)
  BY <1>2, <1>3, CaseFrame
<1>5. /\ Shape(m) /\ Past(m) /\ Present(m) /\ PlateLast(m) /\ SameCase(b, m)
      /\ m.jobs = b.jobs /\ m.out = b.out /\ Jobs(m) = Jobs(b)
      /\ \A k \in Jobs(b) : m.settled[k] = IF k \in {i} /\ b.settled[k] = "waiting"
                                           THEN why ELSE b.settled[k]
  <2>1. Shape(b) /\ Past(b) /\ Present(b) /\ PlateLast(b)  BY <1>4 DEF CoreInv, History
  <2>2. why \in Reasons  BY DEF Reasons
  <2>3. \A k \in Jobs(b) : k \in {i} /\ b.settled[k] = "waiting" => b.jobs[k].kind = "HINT_EXTRACT"
    BY <1>3
  <2> QED BY <2>1, <2>2, <2>3, SettleKeeps
<1> HIDE DEF m
<1>6. /\ m.settled[i] = why
      /\ \A k \in Jobs(c) : k # i => m.settled[k] = c.settled[k]
  BY <1>3, <1>4, <1>5
<1>7. "HINT_EXTRACT" \in Analysis /\ "COARSE_SEARCH" \in Analysis /\ "HINT_EXTRACT" \in Kinds
  BY DEF Analysis, Kinds
<1>8. c.stage = "SEARCHING" /\ \A k \in Jobs(c) : AwaitsSearch(c, k) => k = i
  <2>1. AwaitsSearch(c, i)  BY <1>7 DEF AwaitsSearch
  <2> QED BY <1>2, <2>1, OnlySearch DEF OneSearch
<1>9. m.stage = "SEARCHING" /\ m.processed = c.processed  BY <1>3, <1>5, <1>8 DEF SameCase
<1>10. ~SearchAwaited(m)
  <2>1. \A k \in Jobs(m) : ~AwaitsSearch(m, k)
    BY <1>3, <1>4, <1>5, <1>6, <1>8 DEF AwaitsSearch
  <2> QED BY <1>5, <2>1, WaitingFacts
<1>11. Evolves(b, m, {i})
  <2>1. Len(b.jobs) <= Len(m.jobs)  BY <1>3, <1>5, ShapeFacts
  <2> QED BY <1>3, <1>4, <1>5, <1>6, <2>1 DEF Evolves
<1>12. Account(m) + 6 <= Account(c) + 1
  <2>1. \A k \in Jobs(b) : b.settled[k] = "waiting" /\ b.jobs[k].kind = b.jobs[i].kind => k = i
    BY <1>3, <1>4, <1>7, <1>8 DEF AwaitsSearch
  <2>2. \A k \in Jobs(b) : m.settled[k] = "waiting" => b.settled[k] = "waiting"
    BY <1>3, <1>4, <1>6
  <2>3. b.jobs[i].kind = "HINT_EXTRACT" /\ i \in Jobs(b) /\ b.settled[i] = "waiting" /\ m.settled[i] # "waiting"
    BY <1>3, <1>4, <1>6
  <2>4. Account(m) + Cost(b.jobs[i].kind) <= Account(b) + 1
    BY <1>3, <1>5, <1>7, <2>1, <2>2, <2>3, WaitEnds
  <2>5. Cost("HINT_EXTRACT") = 6  BY DEF Cost
  <2> QED BY <1>4, <2>3, <2>4, <2>5
<1>13. i \in Nat /\ i # 0 /\ i <= Len(m.jobs) /\ Len(m.jobs) \in Nat
  BY <1>2, <1>3, <1>5, ShapeFacts DEF Jobs
<1>14. /\ job \in JobRecord /\ job.kind = "COARSE_SEARCH" /\ job.via = i /\ job.scope = Len(m.jobs) + 1
  <2>1. job = [kind |-> "COARSE_SEARCH", scope |-> Len(m.jobs) + 1, cand |-> NoCand, gen |-> 0, via |-> i]
    BY DEF AnalysisJob
  <2> HIDE DEF job
  <2>2. Len(m.jobs) + 1 \in Nat /\ "COARSE_SEARCH" \in Kinds  BY <1>7, <1>13 DEF Kinds
  <2> QED BY <1>13, <2>1, <2>2 DEF JobRecord
<1> HIDE DEF job
<1>15. /\ Shape(d) /\ Past(d) /\ Present(d) /\ PlateLast(d) /\ Issued(m, d, job)
       /\ Evolves(m, d, {}) /\ Account(d) <= Account(m) + Cost(job.kind)
  BY <1>1, <1>5, <1>7, <1>9, <1>10, <1>13, <1>14, AnalysisIssued
<1>16. Account(d) <= Account(c)
  <2>1. Cost(job.kind) = 5  BY <1>14 DEF Cost
  <2>2. Account(c) \in Nat /\ Account(m) \in Nat /\ Account(d) \in Nat
    BY <1>2, <1>5, <1>15, AccountTyped
  <2> QED BY <1>12, <1>15, <2>1, <2>2
<1>17. Evolves(c, d, {i})
  <2>1. Evolves(b, d, {i})  BY <1>3, <1>5, <1>11, <1>15, EvolvesThen
  <2> QED BY <1>2, <1>3, <1>4, <1>15, <2>1, EvolvesAfter
<1> DEFINE n == Len(d.jobs)
<1>18. /\ \A k \in Jobs(d) : k \in Jobs(c) \/ k = n
       /\ n \in Jobs(d) /\ d.jobs[n] = job /\ n \notin Jobs(c)
       /\ \A k \in Jobs(c) : k \in Jobs(d) /\ d.jobs[k] = c.jobs[k]
  BY <1>3, <1>4, <1>5, <1>15, ShapeFacts DEF Issued, Jobs
<1>19. \A k \in Jobs(c) : c.jobs[k].kind = "HINT_EXTRACT" => d.settled[k] = m.settled[k]
  <2>1. "HINT_EXTRACT" # job.kind  BY <1>14
  <2> QED BY <1>3, <1>4, <1>5, <1>15, <2>1 DEF Issued
<1> HIDE DEF n
<1>20. d.settled[i] = why  BY <1>6, <1>19
<1>21. HintsFollowed(d)
  <2>1. \A k \in Jobs(c) : \A s : k # i => (Follows(d, k, s) <=> Follows(c, k, s))
    BY <1>14, <1>18 DEF Follows
  <2>2. \A s : ~ \E k \in Jobs(c) : /\ c.jobs[k].kind = "COARSE_SEARCH" /\ c.jobs[k].via = i
                                    /\ c.jobs[k].scope = s
    <3>1. \A t \in Nat : ~Follows(c, i, t)  BY <1>2 DEF HintsFollowed
    <3>2. \A k \in Jobs(c) : c.jobs[k].scope \in Nat  BY <1>2, ShapeFacts DEF JobRecord
    <3> QED BY <3>1, <3>2 DEF Follows
  <2>3. \A s : Follows(d, i, s) <=> s = job.scope
    BY <1>14, <1>18, <2>2 DEF Follows
  <2>4. ASSUME NEW k \in Jobs(d), d.jobs[k].kind = "HINT_EXTRACT"
        PROVE  IF d.settled[k] \in {"REFLECTED", "EXHAUSTED"}
               THEN \E s \in Nat : Follows(d, k, s) /\ \A t \in Nat : Follows(d, k, t) => t = s
               ELSE \A t \in Nat : ~Follows(d, k, t)
    <3>1. k \in Jobs(c) /\ c.jobs[k].kind = "HINT_EXTRACT"  BY <1>14, <1>18, <2>4
    <3>2. CASE k = i
      <4>1. job.scope \in Nat  BY <1>14 DEF JobRecord
      <4> QED BY <1>20, <2>3, <3>2, <4>1
    <3>3. CASE k # i
      <4>1. d.settled[k] = c.settled[k]  BY <1>6, <1>19, <3>1, <3>3
      <4> QED BY <1>2, <2>1, <3>1, <3>3, <4>1 DEF HintsFollowed
    <3> QED BY <3>2, <3>3
  <2> QED BY <2>4 DEF HintsFollowed
<1>22. d.processed = c.processed  BY <1>9, <1>15 DEF Issued, SameCase
<1>23. Ready(d)  BY <1>9, <1>15 DEF Issued, SameCase, Ready
<1> QED BY <1>15, <1>16, <1>17, <1>20, <1>21, <1>22, <1>23 DEF Applied, CaseInv, CoreInv, History

\* What is not selected is not observed.
LEMMA NothingObserved ==
  ASSUME NEW c, CoreInv(c), c.selected = NoCand
  PROVE  \A i \in Jobs(c) : c.settled[i] = "waiting" => c.jobs[i].kind \notin Observation
<1>1. NoCand \notin Cand  BY DEF NoCand, Cand
<1>2. \A i \in Jobs(c) : c.jobs[i].kind \in Observation => c.jobs[i].cand \in Cand
  BY DEF CoreInv, History, Past, Placed
<1>3. \A i \in Jobs(c) : c.settled[i] = "waiting" /\ c.jobs[i].kind \in Observation
                           => c.jobs[i].cand = c.selected
  BY DEF CoreInv, Present, WaitingPlaced
<1> QED BY <1>1, <1>2, <1>3

\* d is c after the search i took effect; its candidates, if any, are the present ones.
Searched(c, d, i) ==
  /\ d.jobs = c.jobs /\ d.out = c.out /\ d.processed = c.processed /\ d.selected = NoCand
  /\ d.settled[i] = "REFLECTED" /\ \A k \in Jobs(c) : k # i => d.settled[k] = c.settled[k]
  /\ \/ d.stage = "SEARCHING" /\ d.cands = {}
     \/ d.stage = "CANDIDATE_REVIEW" /\ \A x \in d.cands : x[1] = i

\* No job waits for an outcome about the candidates of search i, nor is there any.
Unobserved(d, i) ==
  \A k \in Jobs(d) : d.jobs[k].kind \in Observation => d.settled[k] # "waiting" /\ d.jobs[k].cand[1] # i

LEMMA SearchReflected ==
  ASSUME NEW c, CaseInv(c), NEW i \in Jobs(c), c.settled[i] = "waiting", c.jobs[i].kind = "COARSE_SEARCH",
         NEW d, Shape(d), Searched(c, d, i)
  PROVE  /\ CaseInv(d) /\ Evolves(c, d, {i}) /\ Account(d) + 5 <= Account(c) + 1
         /\ Jobs(d) = Jobs(c) /\ CurrentGeneration(d) = i /\ Unobserved(d, i)
<1>1. /\ Shape(c) /\ History(c) /\ HintsFollowed(c) /\ Past(c) /\ Staged(c) /\ OneSearch(c) /\ CoreInv(c)
  BY DEF CaseInv, CoreInv, History, Present
<1>2. /\ d.jobs = c.jobs /\ d.out = c.out /\ d.selected = NoCand /\ Jobs(d) = Jobs(c)
      /\ Len(d.jobs) = Len(c.jobs) /\ Len(c.jobs) \in Nat
      /\ d.settled[i] = "REFLECTED" /\ \A k \in Jobs(c) : k # i => d.settled[k] = c.settled[k]
  BY <1>1, ShapeFacts DEF Searched, Jobs
<1>3. "COARSE_SEARCH" \in Analysis /\ "COARSE_SEARCH" \notin Observation /\ "COARSE_SEARCH" \in Kinds
      /\ Analysis \intersect Observation = {}
  BY KindFacts DEF Analysis, Observation, Readout, Kinds
<1>4. AwaitsSearch(c, i)  BY <1>3 DEF AwaitsSearch
<1>5. /\ c.stage = "SEARCHING" /\ (\A k \in Jobs(c) : AwaitsSearch(c, k) => k = i)
      /\ (\A k \in Jobs(c) : c.jobs[k].kind \in Analysis => k <= i)
  BY <1>1, <1>4, OnlySearch DEF OneSearch
<1>6. \A k \in Jobs(c) : c.settled[k] = "waiting" => c.jobs[k].kind \notin Observation
  <2>1. c.selected = NoCand  BY <1>1, <1>5 DEF Staged, Reviewing
  <2> QED BY <1>1, <2>1, NothingObserved
<1>7. \A k \in Jobs(c) : d.settled[k] # "waiting"
  <2> SUFFICES ASSUME NEW k \in Jobs(c), k # i, c.settled[k] = "waiting" PROVE FALSE
    BY <1>2
  <2>1. c.jobs[k].kind \in Kinds  BY <1>1, ShapeFacts DEF JobRecord
  <2>2. c.jobs[k].kind \in Analysis  BY <1>6, <2>1, KindFacts
  <2> QED BY <1>5, <2>2 DEF AwaitsSearch
<1>8. \A k : Reflected(d, k) <=> Reflected(c, k) \/ k = i
  BY <1>2 DEF Reflected
<1>9. CurrentGeneration(d) = i
  <2>1. CurrentGeneration(d) # 0 /\ i <= CurrentGeneration(d) /\ Reflected(d, CurrentGeneration(d))
    BY <1>8, GenerationFacts
  <2>2. CurrentGeneration(d) \in Jobs(c) /\ c.jobs[CurrentGeneration(d)].kind \in Analysis
    BY <1>2, <1>3, <2>1 DEF Reflected
  <2>3. CurrentGeneration(d) <= i /\ CurrentGeneration(d) \in Nat /\ i \in Nat
    BY <1>1, <1>5, <2>2, ShapeFacts
  <2> QED BY <2>1, <2>3
<1>10. \A k \in Jobs(c) : c.jobs[k].kind \in Observation => c.jobs[k].cand[1] # i
  <2> SUFFICES ASSUME NEW k \in Jobs(c), c.jobs[k].kind \in Observation PROVE c.jobs[k].cand[1] # i
    OBVIOUS
  <2>1. c.jobs[k].gen = c.jobs[k].cand[1] /\ c.settled[c.jobs[k].gen] = "REFLECTED"
    BY <1>1 DEF Past, Placed
  <2> QED BY <2>1
<1>11. Past(d)
  <2>1. HintsKnown(d)  BY <1>1, <1>2 DEF Past, HintsKnown
  <2>2. Placed(d)  BY <1>1, <1>2 DEF Past, Placed
  <2>3. \A k \in Jobs(c) : c.jobs[k].kind \in Observation => d.settled[k] = c.settled[k]
    BY <1>2, <1>3
  <2>4. OutsReflected(d)  BY <1>1, <1>2, <2>3 DEF Past, OutsReflected
  <2>5. OutsOfKind(d)  BY <1>1, <1>2 DEF Past, OutsOfKind
  <2>6. Chain(d)  BY <1>1, <1>2 DEF Past, Chain, ComesFrom
  <2>7. Superseded(d)  BY <1>1, <1>2, <2>3 DEF Past, Superseded
  <2> QED BY <2>1, <2>2, <2>4, <2>5, <2>6, <2>7 DEF Past
<1>12. HintsFollowed(d)
  <2>1. \A k, s : Follows(d, k, s) <=> Follows(c, k, s)  BY <1>2 DEF Follows
  <2>2. \A k \in Jobs(c) : c.jobs[k].kind = "HINT_EXTRACT" => d.settled[k] = c.settled[k]
    BY <1>2
  <2> QED BY <1>1, <1>2, <2>1, <2>2 DEF HintsFollowed
<1>13. Present(d)
  <2>1. Staged(d)
    <3>1. d.stage \in {"SEARCHING", "CANDIDATE_REVIEW"} /\ (d.stage = "SEARCHING" => d.cands = {})
      BY DEF Searched
    <3> QED BY <1>2, <3>1 DEF Staged, Reviewing
  <2>2. OneSearch(d)  BY <1>2, <1>7 DEF OneSearch, AwaitsSearch
  <2>3. CandsCurrent(d)
    <3>1. \A x \in d.cands : x[1] = i  BY DEF Searched
    <3>2. i # 0  BY <1>1, ShapeFacts
    <3> QED BY <1>9, <3>1, <3>2 DEF CandsCurrent
  <2>4. WaitingPlaced(d)  BY <1>2, <1>7 DEF WaitingPlaced
  <2> QED BY <2>1, <2>2, <2>3, <2>4 DEF Present
<1>14. PlateLast(d)  BY <1>2 DEF PlateLast, Own
<1>15. Evolves(c, d, {i})  BY <1>2 DEF Evolves
<1>16. Account(d) + 5 <= Account(c) + 1
  <2>1. \A k \in Jobs(c) : c.settled[k] = "waiting" /\ c.jobs[k].kind = c.jobs[i].kind => k = i
    BY <1>3, <1>5 DEF AwaitsSearch
  <2>2. \A k \in Jobs(c) : d.settled[k] = "waiting" => c.settled[k] = "waiting"  BY <1>7
  <2>3. Account(d) + Cost(c.jobs[i].kind) <= Account(c) + 1
    BY <1>1, <1>2, <1>3, <2>1, <2>2, WaitEnds
  <2>4. Cost(c.jobs[i].kind) = 5  BY DEF Cost
  <2> QED BY <2>3, <2>4
<1>17. Unobserved(d, i)  BY <1>2, <1>7, <1>10 DEF Unobserved
<1> QED BY <1>2, <1>9, <1>11, <1>12, <1>13, <1>14, <1>15, <1>16, <1>17 DEF CaseInv, CoreInv, History

\* d is c with a candidate of the list selected.
Moved(c, d, cand) ==
  /\ d.jobs = c.jobs /\ d.settled = c.settled /\ d.out = c.out /\ d.cands = c.cands
  /\ d.processed = c.processed
  /\ d.selected = cand /\ d.stage = "EVIDENCE_REVIEW"

LEMMA SelectMoves ==
  ASSUME NEW c, CoreInv(c), c.stage \in {"CANDIDATE_REVIEW"} \union Reviewing, NEW cand \in c.cands,
         \A i \in Jobs(c) : c.settled[i] = "waiting" => c.jobs[i].kind \notin Observation,
         NEW d, d = [c EXCEPT !.selected = cand, !.stage = "EVIDENCE_REVIEW"]
  PROVE  /\ CoreInv(d) /\ Moved(c, d, cand) /\ Evolves(c, d, {}) /\ Account(d) = Account(c)
         /\ Jobs(d) = Jobs(c) /\ d.selected # NoCand /\ ~Preparing(d)
         /\ CurrentGeneration(d) = CurrentGeneration(c)
<1>1. Shape(c) /\ History(c) /\ Staged(c) /\ OneSearch(c) /\ CandsCurrent(c) /\ c \in CaseRecord
  BY DEF CoreInv, Present, Shape
<1>2. cand \in Cand /\ cand # NoCand
  <2>1. c.cands \subseteq Cand  BY <1>1 DEF CaseRecord
  <2> QED BY <2>1 DEF Cand, NoCand
<1>3. d \in CaseRecord /\ Moved(c, d, cand)
  BY <1>1, <1>2 DEF CaseRecord, Moved, Reviewing
<1>4. Shape(d)  BY <1>1, <1>3 DEF Shape, Moved
<1>5. Jobs(d) = Jobs(c) /\ Len(d.jobs) = Len(c.jobs)  BY <1>3 DEF Jobs, Moved
<1>6. Evolves(c, d, {}) /\ Account(d) = Account(c)
  BY <1>1, <1>3, EvolvesFrame DEF Account, Moved
<1>7. History(d)  BY <1>1, <1>3, HistoryFrame DEF Moved
<1>8. CurrentGeneration(d) = CurrentGeneration(c)
  <2>1. \A i : Reflected(c, i) <=> Reflected(d, i)  BY <1>3, <1>5 DEF Reflected, Moved
  <2> QED BY <1>1, <1>4, <2>1, GenerationSame
<1>9. Staged(d)  BY <1>2, <1>3 DEF Staged, Moved, Reviewing
<1>10. \A i \in Jobs(d) : d.settled[i] # "waiting"
  <2> SUFFICES ASSUME NEW i \in Jobs(c), c.settled[i] = "waiting" PROVE FALSE
    BY <1>3, <1>5 DEF Moved
  <2>1. c.jobs[i].kind \in Kinds  BY <1>1, ShapeFacts DEF JobRecord
  <2>2. c.jobs[i].kind \in Analysis  BY <2>1, KindFacts
  <2>3. c.stage = "SEARCHING"  BY <1>1, <2>2 DEF OneSearch, AwaitsSearch
  <2> QED BY <2>3 DEF Reviewing
<1>11. OneSearch(d) /\ WaitingPlaced(d)  BY <1>10 DEF OneSearch, WaitingPlaced, AwaitsSearch
<1>12. CandsCurrent(d)  BY <1>1, <1>3, <1>8 DEF CandsCurrent, Moved
<1>13. CoreInv(d)  BY <1>4, <1>7, <1>9, <1>11, <1>12 DEF CoreInv, Present
<1>14. ~Preparing(d)  BY <1>10, <1>13, PreparingFacts
<1> QED BY <1>2, <1>3, <1>5, <1>6, <1>8, <1>13, <1>14 DEF Moved

\* A search that failed is done ...
LEMMA FailureSearched ==
  ASSUME NEW c, CaseInv(c), NEW i \in Jobs(c), c.settled[i] = "waiting", c.jobs[i].kind = "COARSE_SEARCH",
         NEW how \in {"retry", "fatal"}, NEW d, d = SearchFails(c, i, how)
  PROVE  Shape(d) /\ Searched(c, d, i)
<1> DEFINE b == [c EXCEPT !.failed = how]
<1>1. Shape(c) /\ c \in CaseRecord /\ Staged(c) /\ OneSearch(c)
  BY DEF CaseInv, CoreInv, Shape, Present
<1>2. /\ Shape(b) /\ b.jobs = c.jobs /\ b.settled = c.settled /\ b.out = c.out /\ b.cands = c.cands
      /\ b.selected = c.selected /\ b.stage = c.stage /\ b.processed = c.processed
  <2>1. /\ b \in CaseRecord
        /\ b.jobs = c.jobs /\ b.settled = c.settled /\ b.out = c.out /\ b.cands = c.cands
        /\ b.selected = c.selected /\ b.stage = c.stage /\ b.processed = c.processed
    BY <1>1 DEF CaseRecord
  <2> QED BY <1>1, <2>1 DEF Shape
<1>3. d = Settle(b, {i}, "REFLECTED") /\ "REFLECTED" \in Reasons  BY DEF SearchFails, Reasons
<1> HIDE DEF b
<1>4. /\ Shape(d) /\ SameCase(b, d) /\ d.jobs = b.jobs /\ d.out = b.out /\ Jobs(d) = Jobs(b)
      /\ \A k \in Jobs(b) : d.settled[k] = IF k \in {i} /\ b.settled[k] = "waiting"
                                           THEN "REFLECTED" ELSE b.settled[k]
  BY <1>2, <1>3, SettleFacts
<1>5. c.stage = "SEARCHING" /\ c.cands = {} /\ c.selected = NoCand
  <2>1. c.stage = "SEARCHING"  BY <1>1 DEF OneSearch, AwaitsSearch, Analysis
  <2> QED BY <1>1, <2>1 DEF Staged, Reviewing
<1>6. Jobs(b) = Jobs(c)  BY <1>2 DEF Jobs
<1> QED BY <1>2, <1>4, <1>5, <1>6 DEF Searched, SameCase

\* ... and so is one that brought candidates.
LEMMA CandidatesSearched ==
  ASSUME NEW c, CaseInv(c), NEW i \in Jobs(c), c.settled[i] = "waiting", c.jobs[i].kind = "COARSE_SEARCH",
         NEW found \in Nat, NEW d, d = ReceiveCandidates(c, i, found)
  PROVE  Shape(d) /\ Searched(c, d, i) /\ d.stage = "CANDIDATE_REVIEW"
<1> DEFINE list == {<<i, rank>> : rank \in 1 .. found}
           b == [c EXCEPT !.cands = list, !.selected = NoCand, !.failed = "no", !.stage = "CANDIDATE_REVIEW"]
<1>1. Shape(c) /\ c \in CaseRecord /\ i \in Nat \ {0}
  BY ShapeFacts DEF CaseInv, CoreInv, Shape
<1>2. list \subseteq Cand /\ \A x \in list : x[1] = i
  <2>1. \A rank \in 1 .. found : <<i, rank>> \in Cand /\ <<i, rank>>[1] = i  BY <1>1 DEF Cand
  <2> QED BY <2>1
<1> HIDE DEF list
<1>3. /\ Shape(b) /\ b.jobs = c.jobs /\ b.settled = c.settled /\ b.out = c.out /\ b.cands = list
      /\ b.selected = NoCand /\ b.stage = "CANDIDATE_REVIEW" /\ b.processed = c.processed
  <2>1. /\ b \in CaseRecord
        /\ b.jobs = c.jobs /\ b.settled = c.settled /\ b.out = c.out /\ b.cands = list
        /\ b.selected = NoCand /\ b.stage = "CANDIDATE_REVIEW" /\ b.processed = c.processed
    BY <1>1, <1>2 DEF CaseRecord
  <2> QED BY <1>1, <2>1 DEF Shape
<1>4. d = Settle(b, {i}, "REFLECTED") /\ "REFLECTED" \in Reasons
  BY DEF ReceiveCandidates, Reasons, list
<1> HIDE DEF b
<1>5. /\ Shape(d) /\ SameCase(b, d) /\ d.jobs = b.jobs /\ d.out = b.out /\ Jobs(d) = Jobs(b)
      /\ \A k \in Jobs(b) : d.settled[k] = IF k \in {i} /\ b.settled[k] = "waiting"
                                           THEN "REFLECTED" ELSE b.settled[k]
  BY <1>3, <1>4, SettleFacts
<1>6. Jobs(b) = Jobs(c)  BY <1>3 DEF Jobs
<1> QED BY <1>2, <1>3, <1>5, <1>6 DEF Searched, SameCase

LEMMA SearchApplied ==
  ASSUME NEW c, CaseInv(c), NEW i \in Jobs(c), c.settled[i] = "waiting", c.jobs[i].kind = "COARSE_SEARCH",
         ledger[i].found \in Nat,
         ledger[i].run = "FAILED" => ledger[i].content \in {"retry", "fatal"},
         NEW d, d = ApplySearch(c, i)
  PROVE  Applied(c, d, i) /\ d.settled[i] = "REFLECTED"
<1>0. Shape(c) /\ Account(c) \in Nat  BY AccountTyped DEF CaseInv, CoreInv
<1>1. CASE ledger[i].run = "FAILED"
  <2>1. d = SearchFails(c, i, ledger[i].content)  BY <1>1 DEF ApplySearch
  <2>2. Shape(d) /\ Searched(c, d, i)  BY <1>1, <2>1, FailureSearched
  <2>3. CaseInv(d) /\ Evolves(c, d, {i}) /\ Account(d) + 5 <= Account(c) + 1
    BY <2>2, SearchReflected
  <2>4. Account(d) \in Nat  BY <2>2, AccountTyped
  <2>5. Account(d) <= Account(c)  BY <1>0, <2>3, <2>4
  <2> QED BY <2>2, <2>3, <2>5 DEF Applied, Searched, Ready
<1>2. CASE ledger[i].run # "FAILED"
  <2> DEFINE b == ReceiveCandidates(c, i, ledger[i].found)
  <2>1. d = SelectTopRanked(b, i)  BY <1>2 DEF ApplySearch
  <2>2. Shape(b) /\ Searched(c, b, i) /\ b.stage = "CANDIDATE_REVIEW"  BY CandidatesSearched
  <2> HIDE DEF b
  <2>3. /\ CaseInv(b) /\ Evolves(c, b, {i}) /\ Account(b) + 5 <= Account(c) + 1
        /\ Jobs(b) = Jobs(c) /\ CurrentGeneration(b) = i /\ Unobserved(b, i)
    BY <2>2, SearchReflected
  <2>4. Account(b) \in Nat  BY <2>2, AccountTyped
  <2>5. CASE <<i, 1>> \notin b.cands
    <3>1. d = b  BY <2>1, <2>5 DEF SelectTopRanked
    <3>2. Account(d) <= Account(c)  BY <1>0, <2>3, <2>4, <3>1
    <3> QED BY <2>2, <2>3, <3>1, <3>2 DEF Applied, Searched, Ready
  <2>6. CASE <<i, 1>> \in b.cands
    <3> DEFINE top == <<i, 1>>
               s == [b EXCEPT !.selected = top, !.stage = "EVIDENCE_REVIEW"]
    <3>1. d = IssueFine(s)  BY <2>1, <2>6 DEF SelectTopRanked
    <3>2. /\ CoreInv(s) /\ Moved(b, s, top) /\ Evolves(b, s, {}) /\ Account(s) = Account(b)
          /\ Jobs(s) = Jobs(b)
      <4>1. CoreInv(b) /\ b.stage \in {"CANDIDATE_REVIEW"} \union Reviewing /\ top \in b.cands
        BY <2>2, <2>3, <2>6 DEF CaseInv
      <4>2. \A k \in Jobs(b) : b.settled[k] = "waiting" => b.jobs[k].kind \notin Observation
        BY <2>3 DEF Unobserved
      <4> HIDE DEF top
      <4> QED BY <4>1, <4>2, SelectMoves
    <3>3. top[1] = i  OBVIOUS
    <3> HIDE DEF s, top
    <3>4. \A k \in Jobs(s) : ~Own(s, k)
      <4>1. s.jobs = b.jobs /\ s.selected = top  BY <3>2 DEF Moved
      <4> QED BY <2>3, <3>2, <3>3, <4>1 DEF Own, Unobserved
    <3>5. PlateLast(s)  BY <3>4 DEF PlateLast
    <3>6. Observes(s, d, 4) /\ PlateLast(d)  BY <3>1, <3>2, <3>4, <3>5, FineIssued
    <3>7. CaseInv(d) /\ Shape(d) /\ Shape(s) /\ Evolves(s, d, {}) /\ Account(d) <= Account(s) + 4
      BY <3>2, <3>6 DEF Observes, CaseInv, CoreInv
    <3>8. Evolves(c, s, {i})  BY <1>0, <2>2, <2>3, <3>2, <3>7, EvolvesThen
    <3>9. Evolves(c, d, {i})  BY <1>0, <2>3, <3>2, <3>7, <3>8, EvolvesThen
    <3>10. Account(d) <= Account(c)
      <4>1. Account(d) \in Nat  BY <3>7, AccountTyped
      <4> QED BY <1>0, <2>3, <2>4, <3>2, <3>7, <4>1
    <3>11. d.stage = "EVIDENCE_REVIEW" /\ d.processed = c.processed
      BY <2>2, <3>2, <3>6 DEF Observes, SameCase, Moved, Searched
    <3>12. d.settled[i] = "REFLECTED"
      <4>1. s.settled[i] = "REFLECTED" /\ i \in Jobs(s)  BY <2>2, <2>3, <3>2 DEF Moved, Searched
      <4> QED BY <3>7, <4>1 DEF Evolves
    <3> QED BY <3>7, <3>9, <3>10, <3>11, <3>12 DEF Applied, Ready
  <2> QED BY <2>5, <2>6
<1> QED BY <1>1, <1>2

-----------------------------------------------------------------------------
(* What a command does to a case.                                          *)

Commanded(c, d) ==
  /\ CaseInv(d) /\ Evolves(c, d, {}) /\ Account(d) <= Account(c) + 6 /\ d.processed = c.processed
  /\ Ready(c) => Ready(d)

\* A step that settles nothing new and issues nothing may come before or after.
LEMMA EvolvesSame ==
  ASSUME NEW c, NEW d, NEW e, NEW I, Evolves(c, d, I), e.jobs = d.jobs, e.settled = d.settled
  PROVE  Evolves(c, e, I)
<1>1. Jobs(e) = Jobs(d)  BY DEF Jobs
<1> QED BY <1>1 DEF Evolves

LEMMA CommandedAfter ==
  ASSUME NEW c, NEW d, NEW e, Shape(c), CaseInv(d), Jobs(d) = Jobs(c), Evolves(c, d, {}),
         Account(d) <= Account(c), d.processed = c.processed, Ready(c) => Ready(d), Commanded(d, e)
  PROVE  Commanded(c, e)
<1>1. Shape(d) /\ Shape(e) /\ CaseInv(e)  BY DEF CaseInv, CoreInv, Commanded
<1>2. Evolves(c, e, {})  BY <1>1, EvolvesAfter DEF Commanded
<1>3. Account(e) <= Account(c) + 6
  <2>1. Account(c) \in Nat /\ Account(d) \in Nat /\ Account(e) \in Nat  BY <1>1, AccountTyped
  <2>2. Account(e) <= Account(d) + 6  BY DEF Commanded
  <2> QED BY <2>1, <2>2
<1> QED BY <1>1, <1>2, <1>3 DEF Commanded

LEMMA GateCommanded ==
  ASSUME NEW c, NEW d, Commanded(c, d), NEW e \in Gate(d)
  PROVE  Commanded(c, e)
<1>1. CaseInv(d) /\ Ready(c) => Ready(d)  BY DEF Commanded
<1>2. /\ CaseInv(e) /\ Account(e) = Account(d) /\ e.jobs = d.jobs /\ e.settled = d.settled
      /\ e.processed = d.processed
  BY GateFacts DEF Commanded
<1>3. Evolves(c, e, {})  BY <1>2, EvolvesSame DEF Commanded
<1>4. Ready(d) => Ready(e)  BY GateReady DEF Commanded
<1> QED BY <1>2, <1>3, <1>4 DEF Commanded

\* Waiting for the deadline's searches ends first.
LEMMA ViewFacts ==
  ASSUME CaseInv(case)
  PROVE  /\ CaseInv(View) /\ Evolves(case, View, {}) /\ Jobs(View) = Jobs(case)
         /\ View.jobs = case.jobs /\ View.out = case.out /\ SameCase(case, View)
         /\ Account(View) <= Account(case) /\ (Ready(case) => Ready(View))
         /\ \A i \in Jobs(case) : \/ View.settled[i] = case.settled[i]
                                  \/ /\ i \in late /\ case.settled[i] = "waiting"
                                     /\ View.settled[i] = "STOPPED_WAITING"
<1> DEFINE ids == late \intersect Waiting(case)
<1>1. View = Settle(case, ids, "STOPPED_WAITING") /\ "STOPPED_WAITING" \in NotApplied
  BY DEF View, StopExpired, NotApplied
<1>2. Shape(case)  BY DEF CaseInv, CoreInv
<1> HIDE DEF ids
<1>3. /\ CaseInv(View) /\ SameCase(case, View) /\ View.jobs = case.jobs /\ View.out = case.out
      /\ Jobs(View) = Jobs(case)
      /\ \A i \in Jobs(case) : View.settled[i] = IF i \in ids /\ case.settled[i] = "waiting"
                                                 THEN "STOPPED_WAITING" ELSE case.settled[i]
      /\ Evolves(case, View, {})
  BY <1>1, GivenUp
<1>4. \A i \in Jobs(case) : View.settled[i] = "waiting" => case.settled[i] = "waiting"
  BY <1>3
<1>5. Account(View) <= Account(case)  BY <1>2, <1>3, <1>4, FewerWait
<1>6. Ready(case) => Ready(View)  BY <1>3, ReadyKept DEF SameCase
<1> QED BY <1>3, <1>5, <1>6 DEF ids

\* Nothing that waits is left behind when the case goes back to the search.
LEMMA Regressed ==
  ASSUME NEW c, CaseInv(c),
         \A i \in Jobs(c) : c.settled[i] = "waiting" => c.jobs[i].kind \notin Observation,
         NEW d, d = Regress(c)
  PROVE  /\ CaseInv(d) /\ Evolves(c, d, {}) /\ Account(d) = Account(c) /\ Jobs(d) = Jobs(c)
         /\ d.jobs = c.jobs /\ d.settled = c.settled /\ d.processed = c.processed
         /\ d.stage = "SEARCHING"
<1>1. /\ Shape(c) /\ History(c) /\ Staged(c) /\ OneSearch(c) /\ c \in CaseRecord
  BY DEF CaseInv, CoreInv, Present, Shape
<1>2. /\ d \in CaseRecord
      /\ d.jobs = c.jobs /\ d.settled = c.settled /\ d.out = c.out /\ d.processed = c.processed
      /\ d.stage = "SEARCHING" /\ d.cands = {} /\ d.selected = NoCand
  BY <1>1 DEF CaseRecord, Regress
<1>3. Shape(d) /\ Jobs(d) = Jobs(c)  BY <1>1, <1>2 DEF Shape, Jobs
<1>4. Evolves(c, d, {}) /\ Account(d) = Account(c)  BY <1>1, <1>2, EvolvesFrame DEF Account
<1>5. History(d)  BY <1>1, <1>2, HistoryFrame
<1>6. Present(d)
  <2>1. Staged(d)  BY <1>2 DEF Staged, Reviewing
  <2>2. OneSearch(d)  BY <1>1, <1>2, <1>3 DEF OneSearch, AwaitsSearch
  <2>3. CandsCurrent(d)  BY <1>2 DEF CandsCurrent
  <2>4. WaitingPlaced(d)  BY <1>2, <1>3 DEF WaitingPlaced
  <2> QED BY <2>1, <2>2, <2>3, <2>4 DEF Present
<1>7. PlateLast(d)  BY <1>2 DEF PlateLast, Own
<1> QED BY <1>2, <1>3, <1>4, <1>5, <1>6, <1>7 DEF CaseInv, CoreInv

LEMMA StartsOver ==
  ASSUME NEW c, CaseInv(c), c.stage = "SEARCHING" => ~SearchAwaited(c), NEW d, d = StartOver(c)
  PROVE  /\ CaseInv(d) /\ Evolves(c, d, {}) /\ Account(d) <= Account(c) /\ Jobs(d) = Jobs(c)
         /\ d.processed = c.processed /\ d.stage = "SEARCHING" /\ ~SearchAwaited(d)
<1>1. Shape(c) /\ c \in CaseRecord /\ Len(c.jobs) \in Nat  BY ShapeFacts DEF CaseInv, CoreInv, Shape
<1>2. CASE c.stage = "SEARCHING"
  <2>1. d = c  BY <1>2 DEF StartOver
  <2>2. Evolves(c, d, {})  BY <1>1, <2>1, EvolvesFrame
  <2>3. Account(d) <= Account(c)  BY <1>1, <2>1, AccountTyped
  <2> QED BY <1>2, <2>1, <2>2, <2>3
<1>3. CASE c.stage # "SEARCHING"
  <2> DEFINE ids == Waiting(c)
             m == Settle(c, ids, "SUPERSEDED")
  <2>1. d = Regress(m)
    <3>1. d = Settle(Regress(c), ids, "SUPERSEDED")  BY <1>3 DEF StartOver
    <3> DEFINE s == [i \in DOMAIN c.settled |-> IF i \in ids /\ c.settled[i] = "waiting"
                                                 THEN "SUPERSEDED" ELSE c.settled[i]]
    <3>2. m = [c EXCEPT !.settled = s]  BY DEF Settle
    <3>3. Regress(c).settled = c.settled  BY <1>1 DEF Regress, CaseRecord
    <3>4. d = [Regress(c) EXCEPT !.settled = s]  BY <3>1, <3>3 DEF Settle
    <3> HIDE DEF s, m, ids
    <3> QED BY <1>1, <3>2, <3>4 DEF Regress, CaseRecord
  <2>2. /\ CaseInv(m) /\ SameCase(c, m) /\ m.jobs = c.jobs /\ Jobs(m) = Jobs(c)
        /\ \A i \in Jobs(c) : m.settled[i] = IF i \in ids /\ c.settled[i] = "waiting"
                                             THEN "SUPERSEDED" ELSE c.settled[i]
        /\ Evolves(c, m, {})
    <3>1. "SUPERSEDED" \in NotApplied  BY DEF NotApplied
    <3> HIDE DEF ids
    <3> QED BY <3>1, GivenUp
  <2>3. \A i : i \in ids <=> i \in Jobs(c) /\ c.settled[i] = "waiting"  BY <1>1, WaitingFacts
  <2> HIDE DEF m, ids
  <2>4. \A i \in Jobs(m) : m.settled[i] # "waiting"  BY <2>2, <2>3
  <2>5. Account(m) <= Account(c)
    <3>1. \A i \in Jobs(c) : m.settled[i] = "waiting" => c.settled[i] = "waiting"  BY <2>2, <2>4
    <3> QED BY <1>1, <2>2, <3>1, FewerWait
  <2>6. /\ CaseInv(d) /\ Evolves(m, d, {}) /\ Account(d) = Account(m) /\ Jobs(d) = Jobs(m)
        /\ d.jobs = m.jobs /\ d.settled = m.settled /\ d.processed = m.processed
        /\ d.stage = "SEARCHING"
    BY <2>1, <2>2, <2>4, Regressed
  <2>7. ~SearchAwaited(d)
    <3>1. Shape(d)  BY <2>6 DEF CaseInv, CoreInv
    <3> QED BY <2>4, <2>6, <3>1, WaitingFacts DEF AwaitsSearch
  <2>8. Evolves(c, d, {})  BY <2>2, <2>6, EvolvesSame
  <2> QED BY <2>2, <2>5, <2>6, <2>7, <2>8 DEF SameCase
<1> QED BY <1>2, <1>3

\* START and EDIT_HINT: the case is back at the search, waits for none and begins one.
LEMMA BeginsCommanded ==
  ASSUME NEW c, CaseInv(c), c.stage = "SEARCHING", ~SearchAwaited(c), NEW b, Shape(b),
         b.jobs = c.jobs, b.settled = c.settled, b.out = c.out, b.cands = c.cands,
         b.selected = c.selected, b.stage = c.stage, b.processed = c.processed,
         NEW described \in BOOLEAN, NEW d, d = BeginAnalysis(b, described)
  PROVE  Commanded(c, d)
<1>1. CoreInv(c) /\ PlateLast(c) /\ Shape(c)  BY DEF CaseInv, CoreInv
<1>2. /\ CoreInv(b) /\ (PlateLast(c) => PlateLast(b))
      /\ Evolves(c, b, {}) /\ Account(b) = Account(c) /\ Jobs(b) = Jobs(c)
  BY <1>1, CaseFrame
<1>3. CaseInv(b)  BY <1>1, <1>2 DEF CaseInv
<1>4. ~SearchAwaited(b)
  <2>1. \A i \in Jobs(b) : AwaitsSearch(b, i) <=> AwaitsSearch(c, i)  BY DEF AwaitsSearch
  <2> QED BY <1>1, <1>2, <2>1, WaitingFacts
<1>5. CaseInv(d) /\ Evolves(b, d, {}) /\ Account(d) <= Account(b) + 6 /\ d.processed = b.processed
  BY <1>3, <1>4, AnalysisStarts
<1>6. Evolves(c, d, {})  BY <1>1, <1>2, <1>5, EvolvesAfter DEF CaseInv, CoreInv
<1>7. Ready(d)
  <2>1. d.stage = b.stage
    <3>1. PICK job \in JobRecord : d = Issue(b, job)
      <4>1. Len(b.jobs) + 1 \in Nat  BY <1>1, ShapeFacts
      <4>2. \A scope \in Nat : /\ AnalysisJob("HINT_EXTRACT", scope, 0) \in JobRecord
                               /\ AnalysisJob("COARSE_SEARCH", scope, 0) \in JobRecord
        BY DEF AnalysisJob, JobRecord, Kinds, Analysis
      <4>3. CASE described
        <5>1. d = Issue(b, AnalysisJob("HINT_EXTRACT", 0, 0))  BY <4>3 DEF BeginAnalysis
        <5> QED BY <4>2, <5>1
      <4>4. CASE ~described
        <5>1. d = Issue(b, AnalysisJob("COARSE_SEARCH", Len(b.jobs) + 1, 0))
          BY <4>4 DEF BeginAnalysis, IssueInitialSearch
        <5> QED BY <4>1, <4>2, <5>1
      <4> QED BY <4>3, <4>4
    <3> QED BY <3>1, IssueFacts DEF Issued, SameCase
  <2> QED BY <2>1 DEF Ready
<1> QED BY <1>2, <1>5, <1>6, <1>7 DEF Commanded

LEMMA StartCommanded ==
  ASSUME NEW c, CaseInv(c), c.stage = "INTAKE", NEW described \in BOOLEAN,
         NEW d, d = BeginAnalysis([c EXCEPT !.stage = "SEARCHING"], described)
  PROVE  Commanded(c, d)
<1> DEFINE b == [c EXCEPT !.stage = "SEARCHING"]
<1>1. /\ Shape(c) /\ History(c) /\ Staged(c) /\ PlateLast(c) /\ c \in CaseRecord
  BY DEF CaseInv, CoreInv, Present, Shape
<1>2. /\ Shape(b) /\ b.jobs = c.jobs /\ b.settled = c.settled /\ b.out = c.out /\ b.cands = c.cands
      /\ b.selected = c.selected /\ b.processed = c.processed /\ b.stage = "SEARCHING"
  <2>1. /\ b \in CaseRecord
        /\ b.jobs = c.jobs /\ b.settled = c.settled /\ b.out = c.out /\ b.cands = c.cands
        /\ b.selected = c.selected /\ b.processed = c.processed /\ b.stage = "SEARCHING"
    BY <1>1 DEF CaseRecord
  <2> QED BY <1>1, <2>1 DEF Shape
<1>3. d = BeginAnalysis(b, described)  OBVIOUS
<1> HIDE DEF b
<1>4. Len(b.jobs) = 0 /\ Jobs(b) = {} /\ Jobs(c) = Jobs(b)  BY <1>1, <1>2 DEF Staged, Jobs
<1>5. History(b)  BY <1>1, <1>2, HistoryFrame
<1>6. Present(b)
  <2>1. Staged(b)  BY <1>1, <1>2 DEF Staged, Reviewing
  <2>2. CandsCurrent(b)  BY <1>1, <1>2 DEF Staged, CandsCurrent
  <2>3. OneSearch(b) /\ WaitingPlaced(b)  BY <1>4 DEF OneSearch, WaitingPlaced
  <2> QED BY <2>1, <2>2, <2>3 DEF Present
<1>7. PlateLast(b)  BY <1>4 DEF PlateLast
<1>8. CaseInv(b)  BY <1>2, <1>5, <1>6, <1>7 DEF CaseInv, CoreInv
<1>9. ~SearchAwaited(b)  BY <1>2, <1>4, WaitingFacts
<1>10. Commanded(b, d)  BY <1>2, <1>3, <1>8, <1>9, BeginsCommanded
<1>11. Evolves(c, b, {}) /\ Account(b) <= Account(c)
  <2>1. Evolves(c, b, {}) /\ Potential(b) = Potential(c)  BY <1>1, <1>2, EvolvesFrame
  <2> QED BY <1>1, <1>2, <2>1, AccountTyped DEF Account
<1>12. Ready(b)  BY <1>2 DEF Ready
<1> QED BY <1>1, <1>2, <1>4, <1>8, <1>10, <1>11, <1>12, CommandedAfter

LEMMA EditCommanded ==
  ASSUME NEW c, CaseInv(c), c.stage = "SEARCHING" => ~SearchAwaited(c), NEW described \in BOOLEAN,
         NEW d, d = BeginAnalysis([StartOver(c) EXCEPT !.unclear = FALSE, !.failed = "no"], described)
  PROVE  Commanded(c, d)
<1> DEFINE s == StartOver(c)
           b == [s EXCEPT !.unclear = FALSE, !.failed = "no"]
<1>1. d = BeginAnalysis(b, described)  OBVIOUS
<1>2. /\ CaseInv(s) /\ Evolves(c, s, {}) /\ Account(s) <= Account(c) /\ Jobs(s) = Jobs(c)
      /\ s.processed = c.processed /\ s.stage = "SEARCHING" /\ ~SearchAwaited(s)
  BY StartsOver
<1> HIDE DEF s
<1>3. Shape(s) /\ s \in CaseRecord /\ Shape(c)  BY <1>2 DEF CaseInv, CoreInv, Shape
<1>4. /\ Shape(b) /\ b.jobs = s.jobs /\ b.settled = s.settled /\ b.out = s.out /\ b.cands = s.cands
      /\ b.selected = s.selected /\ b.processed = s.processed /\ b.stage = s.stage
  <2>1. /\ b \in CaseRecord
        /\ b.jobs = s.jobs /\ b.settled = s.settled /\ b.out = s.out /\ b.cands = s.cands
        /\ b.selected = s.selected /\ b.processed = s.processed /\ b.stage = s.stage
    BY <1>3 DEF CaseRecord
  <2> QED BY <1>3, <2>1 DEF Shape
<1> HIDE DEF b
<1>5. Commanded(s, d)  BY <1>1, <1>2, <1>4, BeginsCommanded
<1>6. Ready(s)  BY <1>2 DEF Ready
<1> QED BY <1>2, <1>3, <1>5, <1>6, CommandedAfter

\* RETRY_SEARCH from c, which may have gone back from an empty list of candidates.
LEMMA RetryCommanded ==
  ASSUME NEW c, CaseInv(c), NEW v, v = IF c.stage = "CANDIDATE_REVIEW" THEN Regress(c) ELSE c,
         c.stage \in {"SEARCHING", "CANDIDATE_REVIEW"}, ~SearchAwaited(c),
         NEW prior, prior = LatestRecord(c, "COARSE_SEARCH"), prior # 0,
         NEW d, d = IssueSameInput(v, prior)
  PROVE  Commanded(c, d)
<1>1. Shape(c) /\ CoreInv(c) /\ Staged(c)  BY DEF CaseInv, CoreInv, Present
<1>2. \A i \in Jobs(c) : c.settled[i] = "waiting" => c.jobs[i].kind \notin Observation
  <2>1. c.selected = NoCand  BY <1>1 DEF Staged, Reviewing
  <2> QED BY <1>1, <2>1, NothingObserved
<1>3. prior \in Jobs(c) /\ c.jobs[prior].kind = "COARSE_SEARCH"  BY <1>1, LatestFacts
<1>4. /\ CaseInv(v) /\ Evolves(c, v, {}) /\ Account(v) <= Account(c) /\ Jobs(v) = Jobs(c)
      /\ v.jobs = c.jobs /\ v.settled = c.settled /\ v.processed = c.processed /\ v.stage = "SEARCHING"
  <2>1. Account(c) \in Nat /\ Evolves(c, c, {})  BY <1>1, AccountTyped, EvolvesFrame
  <2>2. CASE c.stage = "CANDIDATE_REVIEW"
    <3>1. v = Regress(c)  BY <2>2
    <3>2. /\ CaseInv(v) /\ Evolves(c, v, {}) /\ Account(v) = Account(c) /\ Jobs(v) = Jobs(c)
          /\ v.jobs = c.jobs /\ v.settled = c.settled /\ v.processed = c.processed
          /\ v.stage = "SEARCHING"
      BY <1>2, <3>1, Regressed
    <3> QED BY <2>1, <3>2
  <2>3. CASE c.stage = "SEARCHING"
    <3>1. v = c  BY <2>3
    <3> QED BY <2>1, <2>3, <3>1
  <2> QED BY <2>2, <2>3
<1>5. ~SearchAwaited(v)
  <2>1. \A i \in Jobs(v) : AwaitsSearch(v, i) <=> AwaitsSearch(c, i)  BY <1>4 DEF AwaitsSearch
  <2>2. Shape(v)  BY <1>4 DEF CaseInv, CoreInv
  <2> QED BY <1>1, <1>4, <2>1, <2>2, WaitingFacts
<1>6. CaseInv(d) /\ Evolves(v, d, {}) /\ Account(d) <= Account(v) + 6 /\ d.processed = v.processed
  BY <1>3, <1>4, <1>5, SearchRepeated
<1>7. Ready(v) /\ Ready(d)
  <2>1. v.jobs[prior] \in JobRecord /\ Shape(v)  BY <1>1, <1>3, <1>4, ShapeFacts DEF CaseInv, CoreInv
  <2>2. d.stage = v.stage  BY <2>1, IssueFacts DEF IssueSameInput, Issued, SameCase
  <2> QED BY <1>4, <2>2 DEF Ready
<1>8. Commanded(v, d)  BY <1>6, <1>7 DEF Commanded
<1> QED BY <1>1, <1>4, <1>7, <1>8, CommandedAfter

\* A command that issues observation jobs at most.
LEMMA ObservesCommanded ==
  ASSUME NEW c, NEW d, NEW n \in 0 .. 6, CoreInv(c), Observes(c, d, n), PlateLast(d)
  PROVE  Commanded(c, d)
<1>1. Account(d) <= Account(c) + 6
  <2>1. Account(c) \in Nat /\ Account(d) \in Nat  BY AccountTyped DEF CoreInv, Observes
  <2>2. Account(d) <= Account(c) + n  BY DEF Observes
  <2> QED BY <2>1, <2>2
<1>2. Ready(c) => Ready(d)  BY ReadyKept DEF Observes, SameCase
<1> QED BY <1>1, <1>2 DEF Observes, Commanded, CaseInv, SameCase

\* What RETRY_PLATE_READ repeats is the selected candidate's and has failed.
LEMMA RetryTarget ==
  ASSUME NEW c, CaseInv(c), PlateFailed(c), NEW last, last = LatestRecord(c, "PLATE_READ")
  PROVE  /\ last \in Jobs(c) /\ c.jobs[last].kind = "PLATE_READ" /\ Own(c, last)
         /\ \A p \in Jobs(c) : Own(c, p) /\ c.jobs[p].kind = "PLATE_READ"
                                 => c.out[p] \in {"none", "FAILED", "NO_VISUAL"}
<1>1. CoreInv(c) /\ PlateLast(c) /\ Shape(c) /\ Past(c)  BY DEF CaseInv, CoreInv, History
<1> DEFINE r == SettledReadout(c, "PLATE_READ")
<1>2. "PLATE_READ" \in Readout /\ "PLATE_READ" \in Observation \ {"FINE_VERIFY"}
  BY DEF Readout, Observation
<1>3. r # 0 /\ c.out[r] = "FAILED"  BY <1>2 DEF PlateFailed, ReadoutsSettled
<1>4. Read(c, "PLATE_READ", r)
      /\ \A p \in Jobs(c) : Own(c, p) /\ c.jobs[p].kind = "PLATE_READ" =>
           \A i \in Jobs(c) : Read(c, "PLATE_READ", i) => i <= r
  BY <1>1, <1>2, <1>3, SettledReadoutFacts
<1> HIDE DEF r
<1>5. r \in Jobs(c) /\ Own(c, r) /\ c.jobs[r].kind = "PLATE_READ"  BY <1>4 DEF Read
<1>6. ASSUME NEW p \in Jobs(c), Own(c, p), c.jobs[p].kind = "PLATE_READ"
      PROVE  c.out[p] \in {"none", "FAILED", "NO_VISUAL"}
  <2> SUFFICES ASSUME c.out[p] = "OK" PROVE FALSE
    BY <1>1, <1>2, <1>6 DEF Past, OutsOfKind
  <2>1. c.settled[p] = "REFLECTED"  BY <1>1 DEF Past, OutsReflected
  <2>2. p <= r  BY <1>4, <1>5, <1>6, <2>1 DEF Read
  <2>3. p < r
    <3>1. p # r  BY <1>3
    <3>2. p \in Nat /\ r \in Nat  BY <1>1, <1>5, ShapeFacts
    <3> QED BY <2>2, <3>1, <3>2
  <2> QED BY <1>1, <1>2, <1>5, <1>6, <2>3 DEF Past, Superseded, Own
<1>7. Own(c, last)
  <2>1. \A i \in Jobs(c) : Own(c, i) /\ c.jobs[i].kind = "PLATE_READ" => c.out[i] # "OK"
    BY <1>6
  <2> QED BY <1>1, <1>5, <2>1 DEF PlateLast
<1>8. last \in Jobs(c) /\ c.jobs[last].kind = "PLATE_READ"
  BY <1>1, <1>5, LatestFacts
<1> QED BY <1>6, <1>7, <1>8

LEMMA PlateCommanded ==
  ASSUME NEW c, CaseInv(c), PlateFailed(c),
         NEW d, d = IssueSameInput(c, LatestRecord(c, "PLATE_READ"))
  PROVE  Commanded(c, d)
<1> DEFINE last == LatestRecord(c, "PLATE_READ")
           job == c.jobs[last]
<1>1. CoreInv(c) /\ PlateLast(c) /\ Shape(c) /\ Past(c)  BY DEF CaseInv, CoreInv, History
<1>2. /\ last \in Jobs(c) /\ job.kind = "PLATE_READ" /\ Own(c, last)
      /\ \A p \in Jobs(c) : Own(c, p) /\ c.jobs[p].kind = "PLATE_READ"
                              => c.out[p] \in {"none", "FAILED", "NO_VISUAL"}
  BY RetryTarget
<1>3. d = Issue(c, job)  BY DEF IssueSameInput
<1>4. job \in JobRecord /\ job.kind \in Observation /\ job.kind \in Readout
      /\ job.kind \notin {"FINE_VERIFY", "INCIDENT_CLIP_BUILD"}
      /\ c.selected # NoCand /\ job.cand = c.selected
  BY <1>1, <1>2, ShapeFacts DEF Own, Observation, Readout
<1>5. WellPlaced(c, job)  BY <1>1, <1>2, OwnFacts
<1>6. HasInput(c, job)
  <2>1. ComesFrom(c, last, "INCIDENT_CLIP_BUILD")  BY <1>1, <1>2, <1>4 DEF Past, Chain
  <2> QED BY <1>4, <2>1 DEF ComesFrom, HasInput
<1>7. StillDue(c, job)
  <2> SUFFICES ASSUME NEW i \in Jobs(c), c.jobs[i].kind = job.kind, c.jobs[i].cand = job.cand
               PROVE  c.out[i] \in {"none", "FAILED", "NO_VISUAL"}
    BY DEF StillDue
  <2>1. Own(c, i)  BY <1>4 DEF Own
  <2> QED BY <1>2, <2>1
<1> HIDE DEF job, last
<1>8. /\ CoreInv(d) /\ Issued(c, d, job) /\ Evolves(c, d, {}) /\ PlateLast(d)
  BY <1>1, <1>3, <1>4, <1>5, <1>6, <1>7, <1>2, IssueObservation
<1>9. Account(d) <= Account(c) + 1
  <2>1. Account(d) <= Account(c) + Cost(job.kind)  BY <1>1, <1>8, IssueCosts DEF CoreInv
  <2>2. Cost(job.kind) = 1  BY <1>2 DEF Cost
  <2> QED BY <2>1, <2>2
<1>10. Observes(c, d, 1)  BY <1>8, <1>9 DEF Observes, Issued
<1> QED BY <1>1, <1>8, <1>10, ObservesCommanded

LEMMA ReselectCommanded ==
  ASSUME NEW c, CaseInv(c), NEW cand, MayReselect(c, cand), NEW d, d = Reselect(c, cand)
  PROVE  Commanded(c, d)
<1> DEFINE s == [c EXCEPT !.selected = cand, !.stage = "EVIDENCE_REVIEW"]
<1>1. CoreInv(c) /\ Shape(c)  BY DEF CaseInv, CoreInv
<1>2. d = IssueMissing(s)  BY DEF Reselect
<1>3. cand \in c.cands /\ c.stage \in {"CANDIDATE_REVIEW"} \union Reviewing /\ ~Preparing(c)
  BY DEF MayReselect
<1>4. \A i \in Jobs(c) : c.settled[i] = "waiting" => c.jobs[i].kind \notin Observation
  BY <1>1, <1>3, PreparingFacts
<1>5. /\ CoreInv(s) /\ Moved(c, s, cand) /\ Evolves(c, s, {}) /\ Account(s) = Account(c)
      /\ Jobs(s) = Jobs(c) /\ s.selected # NoCand /\ ~Preparing(s)
  BY <1>1, <1>3, <1>4, SelectMoves
<1> HIDE DEF s
<1>6. Observes(s, d, 4) /\ PlateLast(d)  BY <1>2, <1>5, MissingIssued
<1>7. Commanded(s, d)  BY <1>5, <1>6, ObservesCommanded
<1>8. d.stage = "EVIDENCE_REVIEW" /\ d.processed = c.processed
  BY <1>5, <1>6 DEF Observes, SameCase, Moved
<1>9. Evolves(c, d, {}) /\ Account(d) <= Account(c) + 6 /\ CaseInv(d)
  <2>1. Shape(s) /\ Shape(d)  BY <1>5, <1>6 DEF Observes, CoreInv
  <2> QED BY <1>1, <1>5, <1>7, <2>1, EvolvesAfter DEF Commanded
<1> QED BY <1>8, <1>9 DEF Commanded, Ready

LEMMA EvidenceCommanded ==
  ASSUME NEW c, CaseInv(c), c.stage \in Reviewing, NEW d, d = [c EXCEPT !.stage = "EVIDENCE_REVIEW"]
  PROVE  Commanded(c, d)
<1>1. CoreInv(c) /\ PlateLast(c) /\ Shape(c) /\ c \in CaseRecord  BY DEF CaseInv, CoreInv, Shape
<1>2. /\ d \in CaseRecord /\ d.jobs = c.jobs /\ d.settled = c.settled /\ d.out = c.out
      /\ d.cands = c.cands /\ d.selected = c.selected /\ d.processed = c.processed
      /\ d.stage = "EVIDENCE_REVIEW"
  BY <1>1 DEF CaseRecord, Reviewing
<1>3. Shape(d)  BY <1>1, <1>2 DEF Shape
<1>4. d.stage \in Reviewing  BY <1>2 DEF Reviewing
<1>5. /\ CoreInv(d) /\ (PlateLast(c) => PlateLast(d)) /\ Evolves(c, d, {}) /\ Account(d) = Account(c)
  BY <1>1, <1>2, <1>3, <1>4, CaseFrame
<1>6. Account(d) <= Account(c) + 6
  <2>1. Account(c) \in Nat  BY <1>1, AccountTyped
  <2> QED BY <1>5, <2>1
<1> QED BY <1>1, <1>2, <1>5, <1>6 DEF Commanded, CaseInv, Ready

LEMMA StopCommanded ==
  ASSUME NEW c, CaseInv(c), NEW ids, NEW d, d = Settle(c, ids, "CANCELLED")
  PROVE  Commanded(c, d)
<1>1. Shape(c) /\ "CANCELLED" \in NotApplied  BY DEF CaseInv, CoreInv, NotApplied
<1>2. /\ CaseInv(d) /\ SameCase(c, d) /\ d.jobs = c.jobs /\ Evolves(c, d, {})
      /\ \A i \in Jobs(c) : d.settled[i] = IF i \in ids /\ c.settled[i] = "waiting"
                                           THEN "CANCELLED" ELSE c.settled[i]
  BY <1>1, GivenUp
<1>3. \A i \in Jobs(c) : d.settled[i] = "waiting" => c.settled[i] = "waiting"  BY <1>2
<1>4. Account(d) <= Account(c) + 6
  <2>1. Account(d) <= Account(c)  BY <1>1, <1>2, <1>3, FewerWait
  <2>2. Account(c) \in Nat /\ Account(d) \in Nat  BY <1>1, <1>2, AccountTyped DEF CaseInv, CoreInv
  <2> QED BY <2>1, <2>2
<1>5. Ready(c) => Ready(d)  BY <1>2, ReadyKept DEF SameCase
<1> QED BY <1>2, <1>4, <1>5 DEF Commanded, SameCase

-----------------------------------------------------------------------------
(* The inductive invariant of the state: the case and the rows of its jobs. *)

Rows ==
  [run : {"open", "SUCCEEDED", "FAILED", "STALE", "CANCELLED"}, content : Said, found : Nat,
   asked : BOOLEAN, notice : BOOLEAN, receipt : BOOLEAN]

\* What the row of a job says of the reason the case settled it for.
Fits(row, kind, reason) ==
  /\ row.notice => row.run = "STALE" /\ kind = "HINT_EXTRACT"
  /\ row.receipt => reason # "waiting"
  /\ reason \in {"REFLECTED", "EXHAUSTED"} => row.receipt
  /\ reason = "REFLECTED" => row.run \in {"SUCCEEDED", "FAILED"}
  /\ reason = "EXHAUSTED" => row.notice
  /\ row.run = "FAILED" /\ kind = "COARSE_SEARCH" => row.content \in {"retry", "fatal"}
  /\ row.run \in {"SUCCEEDED", "FAILED"} /\ kind \in Observation =>
       /\ row.content \in {"OK", "NOT_OBSERVED", "NO_VISUAL", "FAILED"}
       /\ kind # "FINE_VERIFY" => row.content \in {"OK", "FAILED"}

Matches(rows, c) ==
  /\ rows \in Seq(Rows) /\ Len(rows) = Len(c.jobs)
  /\ \A i \in Jobs(c) : Fits(rows[i], c.jobs[i].kind, c.settled[i])

TakenAre(c) == \A i : i \in c.processed <=> i \in Jobs(c) /\ c.settled[i] = "REFLECTED"

\* Every job there is or may still be was paid for by a command.
Bounded == Account(case) <= 6 * (MaxCommands - budget)

Inv ==
  /\ CaseInv(case) /\ Ready(case) /\ TakenAre(case) /\ Matches(ledger, case)
  /\ late \union held \subseteq Jobs(case) /\ budget \in 0 .. MaxCommands
  /\ Bounded

LEMMA OpenRowFacts ==
  /\ OpenRow \in Rows /\ OpenRow.run = "open" /\ ~OpenRow.notice /\ ~OpenRow.receipt
  /\ \A kind : Fits(OpenRow, kind, "waiting")
<1>1. OpenRow \in Rows  BY DEF OpenRow, Rows, Said
<1>2. OpenRow.run = "open" /\ ~OpenRow.notice /\ ~OpenRow.receipt  BY DEF OpenRow
<1> QED BY <1>1, <1>2 DEF Fits

LEMMA ConcatFacts ==
  ASSUME NEW S, NEW s \in Seq(S), NEW t \in Seq(S)
  PROVE  /\ s \o t \in Seq(S) /\ Len(s \o t) = Len(s) + Len(t)
         /\ \A i \in 1 .. Len(s) : (s \o t)[i] = s[i]
         /\ \A i \in 1 .. Len(s) + Len(t) : i > Len(s) => (s \o t)[i] = t[i - Len(s)]
OBVIOUS

\* Jobs that have a row keep it, new ones get an open one.
LEMMA EnqueueFacts ==
  ASSUME NEW rows \in Seq(Rows), NEW c, NEW d, Shape(c), Shape(d), Len(rows) = Len(c.jobs),
         Len(c.jobs) <= Len(d.jobs), NEW e, e = Enqueue(rows, d)
  PROVE  /\ e \in Seq(Rows) /\ Len(e) = Len(d.jobs)
         /\ \A i \in Jobs(c) : e[i] = rows[i]
         /\ \A i \in Jobs(d) : i \notin Jobs(c) => e[i] = OpenRow
<1> DEFINE n == Len(d.jobs) - Len(rows)
           t == [k \in 1 .. n |-> OpenRow]
<1>1. Len(c.jobs) \in Nat /\ Len(d.jobs) \in Nat /\ n \in Nat  BY ShapeFacts
<1>2. e = rows \o t  BY DEF Enqueue
<1>3. t \in Seq(Rows) /\ Len(t) = n /\ \A k \in 1 .. n : t[k] = OpenRow
  <2>1. t \in [1 .. n -> Rows]  BY OpenRowFacts
  <2> HIDE DEF n
  <2> QED BY <1>1, <2>1
<1> HIDE DEF t
<1>4. /\ e \in Seq(Rows) /\ Len(e) = Len(rows) + n
      /\ \A i \in 1 .. Len(rows) : e[i] = rows[i]
      /\ \A i \in 1 .. Len(rows) + n : i > Len(rows) => e[i] = t[i - Len(rows)]
  <2> HIDE DEF n
  <2>1. /\ rows \o t \in Seq(Rows) /\ Len(rows \o t) = Len(rows) + Len(t)
        /\ \A i \in 1 .. Len(rows) : (rows \o t)[i] = rows[i]
        /\ \A i \in 1 .. Len(rows) + Len(t) : i > Len(rows) => (rows \o t)[i] = t[i - Len(rows)]
    BY <1>3, ConcatFacts, ZenonT(40)
  <2> QED BY <1>2, <1>3, <2>1
<1>5. Len(e) = Len(d.jobs)  BY <1>1, <1>4
<1>6. ASSUME NEW i \in Jobs(d), i \notin Jobs(c) PROVE e[i] = OpenRow
  <2>1. i \in 1 .. Len(rows) + n /\ i > Len(rows) /\ i - Len(rows) \in 1 .. n
    BY <1>1, <1>6 DEF Jobs
  <2> QED BY <1>3, <1>4, <2>1
<1> QED BY <1>4, <1>5, <1>6 DEF Jobs

\* The rows go on fitting the case if those do that change.
LEMMA MatchesNext ==
  ASSUME NEW c, NEW d, NEW taken, Shape(c), Shape(d), Evolves(c, d, taken),
         NEW rows, Matches(rows, c),
         NEW new \in Seq(Rows), Len(new) = Len(rows),
         \A i \in Jobs(c) : \/ Fits(new[i], c.jobs[i].kind, d.settled[i])
                            \/ i \notin taken /\ new[i] = rows[i]
  PROVE  Matches(Enqueue(new, d), d)
<1> DEFINE e == Enqueue(new, d)
<1>1. Len(new) = Len(c.jobs) /\ Len(c.jobs) <= Len(d.jobs)  BY DEF Matches, Evolves
<1>2. /\ e \in Seq(Rows) /\ Len(e) = Len(d.jobs)
      /\ \A i \in Jobs(c) : e[i] = new[i]
      /\ \A i \in Jobs(d) : i \notin Jobs(c) => e[i] = OpenRow
  BY <1>1, EnqueueFacts
<1> SUFFICES Matches(e, d)  OBVIOUS
<1> HIDE DEF e
<1>3. ASSUME NEW i \in Jobs(d) PROVE Fits(e[i], d.jobs[i].kind, d.settled[i])
  <2>1. CASE i \notin Jobs(c)
    <3>1. e[i] = OpenRow /\ d.settled[i] = "waiting"  BY <1>2, <2>1 DEF Evolves
    <3> QED BY <3>1, OpenRowFacts
  <2>2. CASE i \in Jobs(c) /\ Fits(new[i], c.jobs[i].kind, d.settled[i])
    <3>1. e[i] = new[i] /\ d.jobs[i] = c.jobs[i]  BY <1>2, <2>2 DEF Evolves
    <3> QED BY <2>2, <3>1
  <2>3. CASE i \in Jobs(c) /\ i \notin taken /\ new[i] = rows[i]
    <3>1. e[i] = rows[i] /\ d.jobs[i] = c.jobs[i]  BY <1>2, <2>3 DEF Evolves
    <3>2. Fits(rows[i], c.jobs[i].kind, c.settled[i])  BY <2>3 DEF Matches
    <3>3. \/ d.settled[i] = c.settled[i]
          \/ c.settled[i] = "waiting" /\ d.settled[i] \in NotApplied
      BY <2>3 DEF Evolves
    <3>4. CASE d.settled[i] = c.settled[i]  BY <3>1, <3>2, <3>4
    <3>5. CASE c.settled[i] = "waiting" /\ d.settled[i] \in NotApplied
      <4>1. d.settled[i] \notin {"waiting", "REFLECTED", "EXHAUSTED"}  BY <3>5 DEF NotApplied
      <4> QED BY <3>1, <3>2, <3>5, <4>1 DEF Fits
    <3> QED BY <3>3, <3>4, <3>5
  <2> QED BY <2>1, <2>2, <2>3
<1> QED BY <1>2, <1>3 DEF Matches

\* Which results took effect, after a step that took none and one that took one.
LEMMA TakenSame ==
  ASSUME NEW c, NEW d, TakenAre(c), Evolves(c, d, {}), d.processed = c.processed
  PROVE  TakenAre(d)
<1>1. \A i \in Jobs(c) : i \in Jobs(d) /\ (d.settled[i] = "REFLECTED" <=> c.settled[i] = "REFLECTED")
  BY DEF Evolves, NotApplied
<1>2. \A i \in Jobs(d) : i \notin Jobs(c) => d.settled[i] # "REFLECTED"  BY DEF Evolves
<1> QED BY <1>1, <1>2 DEF TakenAre

LEMMA TakenMore ==
  ASSUME NEW c, NEW d, NEW i \in Jobs(c), TakenAre(c), Evolves(c, d, {i}),
         d.processed = IF d.settled[i] = "REFLECTED" THEN c.processed \union {i} ELSE c.processed
  PROVE  TakenAre(d)
<1>1. \A k \in Jobs(c) : k # i => k \in Jobs(d) /\ (d.settled[k] = "REFLECTED" <=> c.settled[k] = "REFLECTED")
  BY DEF Evolves, NotApplied
<1>2. \A k \in Jobs(d) : k \notin Jobs(c) => d.settled[k] # "REFLECTED"  BY DEF Evolves
<1>3. i \in Jobs(d) /\ c.settled[i] # "REFLECTED"  BY DEF Evolves
<1> QED BY <1>1, <1>2, <1>3 DEF TakenAre

-----------------------------------------------------------------------------
(* The steps of the specification.                                         *)

LEMMA InvFacts ==
  ASSUME Inv
  PROVE  /\ CaseInv(case) /\ CoreInv(case) /\ Shape(case) /\ Ready(case) /\ TakenAre(case)
         /\ Matches(ledger, case) /\ ledger \in Seq(Rows) /\ Len(ledger) = Len(case.jobs)
         /\ DOMAIN ledger = Jobs(case) /\ DOMAIN case.jobs = Jobs(case) /\ DOMAIN case.settled = Jobs(case)
         /\ \A i \in Jobs(case) : /\ ledger[i] \in Rows /\ i \in Nat \ {0}
                                  /\ Fits(ledger[i], case.jobs[i].kind, case.settled[i])
         /\ late \union held \subseteq Jobs(case)
         /\ budget \in 0 .. MaxCommands /\ MaxCommands \in Nat
         /\ Account(case) \in Nat /\ Account(case) <= 6 * (MaxCommands - budget)
         /\ Jobs(case) \subseteq JobId
<1>1. /\ CaseInv(case) /\ CoreInv(case) /\ Shape(case) /\ Ready(case) /\ TakenAre(case)
      /\ Matches(ledger, case) /\ late \union held \subseteq Jobs(case)
      /\ budget \in 0 .. MaxCommands /\ MaxCommands \in Nat
      /\ Account(case) <= 6 * (MaxCommands - budget)
  BY CaseJobsAssumption DEF Inv, CaseInv, CoreInv, Bounded
<1>2. ledger \in Seq(Rows) /\ Len(ledger) = Len(case.jobs)
  BY <1>1 DEF Matches
<1>3. DOMAIN ledger = Jobs(case) /\ \A i \in Jobs(case) : ledger[i] \in Rows
  BY <1>2 DEF Jobs
<1>4. Account(case) \in Nat /\ Len(case.jobs) <= Account(case) /\ Len(case.jobs) \in Nat
  BY <1>1, AccountTyped, ShapeFacts
<1>5. Len(case.jobs) <= 6 * MaxCommands  BY <1>1, <1>4
<1>6. Jobs(case) \subseteq JobId
  <2> DEFINE n == 6 * MaxCommands
  <2>1. n \in Nat /\ Len(case.jobs) <= n  BY <1>1, <1>5
  <2> HIDE DEF n
  <2>2. 1 .. Len(case.jobs) \subseteq 1 .. n  BY <1>4, <2>1
  <2> QED BY <2>2 DEF Jobs, JobId, n
<1> QED BY <1>1, <1>2, <1>3, <1>4, <1>6, ShapeFacts DEF Matches

LEMMA SucceedKeeps ==
  ASSUME Inv, budget > 0, NEW c, Commanded(View, c), NEW rows, Matches(rows, case), Succeed(c, rows)
  PROVE  /\ Inv' /\ Evolves(case, case', {}) /\ Len(case.jobs) <= Len(case'.jobs)
         /\ ledger' = Enqueue(rows, case')
<1>1. /\ CaseInv(View) /\ Evolves(case, View, {}) /\ Jobs(View) = Jobs(case)
      /\ Account(View) <= Account(case) /\ (Ready(case) => Ready(View))
      /\ SameCase(case, View)
  BY InvFacts, ViewFacts
<1>2. PICK d \in Gate(c) : case' = d /\ ledger' = Enqueue(rows, d)  BY DEF Succeed
<1>3. budget' = budget - 1 /\ late' = late /\ held' = held  BY DEF Succeed
<1>4. Commanded(View, d)  BY GateCommanded
<1>5. Commanded(case, d)
  <2>1. View.processed = case.processed  BY <1>1 DEF SameCase
  <2> QED BY <1>1, <1>4, <2>1, InvFacts, CommandedAfter
<1>6. Evolves(case, d, {}) /\ d.processed = case.processed /\ CaseInv(d) /\ Shape(d) /\ Ready(d)
  BY <1>5, InvFacts DEF Commanded, CaseInv, CoreInv
<1>7. Matches(Enqueue(rows, d), d)
  <2>1. rows \in Seq(Rows) /\ Len(rows) = Len(rows)  BY DEF Matches
  <2> QED BY <1>6, <2>1, InvFacts, MatchesNext
<1>8. TakenAre(d)  BY <1>6, InvFacts, TakenSame
<1>9. Account(d) <= 6 * (MaxCommands - (budget - 1)) /\ budget - 1 \in 0 .. MaxCommands
  <2>1. Account(d) \in Nat /\ Account(d) <= Account(case) + 6  BY <1>5, <1>6, AccountTyped DEF Commanded
  <2> QED BY <2>1, InvFacts
<1>10. late \union held \subseteq Jobs(d)  BY <1>6, InvFacts DEF Evolves
<1> QED BY <1>2, <1>3, <1>6, <1>7, <1>8, <1>9, <1>10 DEF Inv, Bounded, Evolves

\* A command evolves the case; the rows there were keep what Delivery sees of them.
Kept(rows) ==
  /\ Matches(rows, case)
  /\ \A i \in Jobs(case) : /\ rows[i].run \in {"SUCCEEDED", "FAILED"} <=> HasResult(i)
                           /\ rows[i].notice = ledger[i].notice /\ rows[i].receipt = ledger[i].receipt

Ordered ==
  /\ Inv' /\ Evolves(case, case', {})
  /\ \E rows : Kept(rows) /\ ledger' = Enqueue(rows, case')

LEMMA KeptSame ==
  ASSUME Inv
  PROVE  Kept(ledger)
BY InvFacts DEF Kept, HasResult

LEMMA CancelKept ==
  ASSUME Inv, NEW stopped, NEW queued, \A i \in queued : ledger[i].run = "open"
  PROVE  Kept(RequestCancel(stopped, queued))
<1> DEFINE rows == RequestCancel(stopped, queued)
<1>1. \A i \in Jobs(case) :
        rows[i] = IF i \in queued THEN [ledger[i] EXCEPT !.run = "CANCELLED", !.asked = TRUE]
                  ELSE IF i \in stopped /\ ledger[i].run \in {"open", "STALE"}
                  THEN [ledger[i] EXCEPT !.asked = TRUE] ELSE ledger[i]
  BY InvFacts DEF RequestCancel
<1>2. \A i \in Jobs(case) :
        /\ rows[i] \in Rows
        /\ rows[i].run = IF i \in queued THEN "CANCELLED" ELSE ledger[i].run
        /\ rows[i].notice = ledger[i].notice /\ rows[i].receipt = ledger[i].receipt
        /\ rows[i].content = ledger[i].content
  <2> TAKE i \in Jobs(case)
  <2>1. ledger[i] \in Rows  BY InvFacts
  <2> HIDE DEF rows
  <2>2. CASE i \in queued
    <3>1. rows[i] = [ledger[i] EXCEPT !.run = "CANCELLED", !.asked = TRUE]  BY <1>1, <2>2
    <3> QED BY <2>1, <2>2, <3>1 DEF Rows
  <2>3. CASE i \notin queued
    <3>1. rows[i] = ledger[i] \/ rows[i] = [ledger[i] EXCEPT !.asked = TRUE]  BY <1>1, <2>3
    <3> QED BY <2>1, <2>3, <3>1 DEF Rows
  <2> QED BY <2>2, <2>3
<1>3. rows \in Seq(Rows) /\ Len(rows) = Len(case.jobs)
  <2>1. DOMAIN rows = Jobs(case) /\ Len(case.jobs) \in Nat  BY InvFacts, ShapeFacts DEF RequestCancel
  <2>2. rows = [i \in Jobs(case) |-> rows[i]]  BY <2>1 DEF RequestCancel
  <2>3. rows \in [1 .. Len(case.jobs) -> Rows]
    <3> HIDE DEF rows
    <3> QED BY <1>2, <2>2 DEF Jobs
  <2> HIDE DEF rows
  <2> QED BY <2>1, <2>3
<1> SUFFICES Kept(rows)  OBVIOUS
<1> HIDE DEF rows
<1>4. ASSUME NEW i \in Jobs(case)
      PROVE  Fits(rows[i], case.jobs[i].kind, case.settled[i])
  <2>1. Fits(ledger[i], case.jobs[i].kind, case.settled[i])  BY InvFacts
  <2>2. CASE i \notin queued
    <3>1. rows[i].run = ledger[i].run  BY <1>2, <2>2
    <3> QED BY <1>2, <2>1, <3>1 DEF Fits
  <2>3. CASE i \in queued
    <3>1. rows[i].run = "CANCELLED" /\ ledger[i].run = "open"  BY <1>2, <2>3
    <3> QED BY <1>2, <2>1, <3>1 DEF Fits
  <2> QED BY <2>2, <2>3
<1>5. \A i \in Jobs(case) : /\ rows[i].run \in {"SUCCEEDED", "FAILED"} <=> HasResult(i)
                            /\ rows[i].notice = ledger[i].notice /\ rows[i].receipt = ledger[i].receipt
  BY <1>2 DEF HasResult
<1> QED BY <1>3, <1>4, <1>5 DEF Kept, Matches

LEMMA CommandKeeps ==
  ASSUME Inv, Command
  PROVE  Ordered
<1>0. CaseInv(case) /\ CaseInv(View) /\ SameCase(case, View) /\ View.jobs = case.jobs
  BY InvFacts, ViewFacts
<1> SUFFICES ASSUME budget > 0, NEW c, Commanded(View, c), NEW rows, Kept(rows), Succeed(c, rows)
             PROVE  Ordered
  <2>1. Kept(ledger)  BY KeptSame
  <2>2. CASE \E described \in BOOLEAN : StartAnalysis(described)
    <3>1. PICK described \in BOOLEAN : StartAnalysis(described)  BY <2>2
    <3>2. case.stage = "INTAKE" /\ budget > 0  BY <3>1 DEF StartAnalysis, Allowed
    <3> DEFINE c == BeginAnalysis([case EXCEPT !.stage = "SEARCHING"], described)
    <3>3. Succeed(c, ledger)  BY <3>1 DEF StartAnalysis
    <3>4. View = case
      <4>1. Jobs(case) = {}  BY <1>0, <3>2 DEF CaseInv, CoreInv, Present, Staged, Jobs
      <4>2. late = {}  BY <4>1, InvFacts
      <4>3. Shape(case) /\ DOMAIN case.settled = {}  BY <4>1, InvFacts
      <4>4. [i \in DOMAIN case.settled |-> IF i \in late \intersect Waiting(case) /\ case.settled[i] = "waiting"
                                           THEN "STOPPED_WAITING" ELSE case.settled[i]] = case.settled
        <5>1. case.settled \in Seq(State)  BY <4>3 DEF Shape, CaseRecord
        <5>2. case.settled = [i \in DOMAIN case.settled |-> case.settled[i]]  BY <5>1
        <5> QED BY <4>3, <5>2
      <4>5. View = [case EXCEPT !.settled = case.settled]  BY <4>4 DEF View, StopExpired, Settle
      <4> QED BY <4>3, <4>5 DEF Shape, CaseRecord
    <3>5. Commanded(case, c)
      <4> HIDE DEF c
      <4>1. c = BeginAnalysis([case EXCEPT !.stage = "SEARCHING"], described)  BY DEF c
      <4> QED BY <1>0, <3>2, <4>1, StartCommanded
    <3> HIDE DEF c
    <3> QED BY <2>1, <3>2, <3>3, <3>4, <3>5
  <2>3. CASE \E described \in BOOLEAN : EditHint(described)
    <3>1. PICK described \in BOOLEAN : EditHint(described)  BY <2>3
    <3> DEFINE c == BeginAnalysis([StartOver(View) EXCEPT !.unclear = FALSE, !.failed = "no"], described)
    <3>2. budget > 0 /\ Succeed(c, ledger) /\ (View.stage = "SEARCHING" => ~SearchAwaited(View))
      BY <3>1 DEF EditHint, Allowed
    <3>3. Commanded(View, c)  BY <1>0, <3>2, EditCommanded
    <3> HIDE DEF c
    <3> QED BY <2>1, <3>2, <3>3
  <2>4. CASE StopAnalysis
    <3> DEFINE stopped == Waiting(View) \intersect OfKind(View, Analysis)
               c == Settle(View, stopped, "CANCELLED")
    <3>1. budget > 0
          /\ \E queued \in SUBSET {i \in stopped : ledger[i].run = "open"} :
               Succeed(c, RequestCancel(stopped, queued))
      BY <2>4 DEF StopAnalysis, Allowed
    <3>2. Commanded(View, c)
      <4> HIDE DEF stopped
      <4> QED BY <1>0, StopCommanded
    <3> HIDE DEF c, stopped
    <3>3. PICK queued \in SUBSET {i \in stopped : ledger[i].run = "open"} :
            Succeed(c, RequestCancel(stopped, queued))
      BY <3>1
    <3>4. Kept(RequestCancel(stopped, queued))  BY CancelKept
    <3> QED BY <3>1, <3>2, <3>3, <3>4
  <2>5. CASE RetrySearch
    <3> DEFINE prior == LatestRecord(View, "COARSE_SEARCH")
               v == IF View.stage = "CANDIDATE_REVIEW" THEN Regress(View) ELSE View
               c == IssueSameInput(v, prior)
    <3>1. budget > 0 /\ RetrySearchOffered(View) /\ prior # 0 /\ Succeed(c, ledger)
      BY <2>5 DEF RetrySearch, Allowed
    <3>2. ~SearchAwaited(View) /\ View.stage \in {"SEARCHING", "CANDIDATE_REVIEW"}
      BY <3>1 DEF RetrySearchOffered, Halted, Halts, HaltReason, NoCandidates
    <3>3. Commanded(View, c)
      <4>1. prior # 0  BY <3>1
      <4> QED BY <1>0, <3>2, <4>1, RetryCommanded
    <3> HIDE DEF c
    <3> QED BY <2>1, <3>1, <3>3
  <2>6. CASE RetryPlateRead
    <3> DEFINE c == IssueSameInput(View, LatestRecord(View, "PLATE_READ"))
    <3>1. budget > 0 /\ PlateFailed(View) /\ Succeed(c, ledger)
      BY <2>6 DEF RetryPlateRead, RetryPlateOffered, Allowed
    <3>2. Commanded(View, c)  BY <1>0, <3>1, PlateCommanded
    <3> HIDE DEF c
    <3> QED BY <2>1, <3>1, <3>2
  <2>7. CASE EvidenceCommand
    <3> DEFINE c == [View EXCEPT !.stage = "EVIDENCE_REVIEW"]
    <3>1. budget > 0 /\ View.stage \in Reviewing /\ Succeed(c, ledger)
      BY <2>7 DEF EvidenceCommand, Allowed
    <3>2. Commanded(View, c)  BY <1>0, <3>1, EvidenceCommanded
    <3> HIDE DEF c
    <3> QED BY <2>1, <3>1, <3>2
  <2>8. CASE \E cand \in case.cands : SelectOther(cand)
    <3>1. PICK cand \in case.cands : SelectOther(cand)  BY <2>8
    <3> DEFINE c == Reselect(View, cand)
    <3>2. budget > 0 /\ MayReselect(View, cand) /\ Succeed(c, ledger)
      BY <3>1 DEF SelectOther, Allowed
    <3>3. Commanded(View, c)  BY <1>0, <3>2, ReselectCommanded
    <3> HIDE DEF c
    <3> QED BY <2>1, <3>2, <3>3
  <2> QED BY <2>2, <2>3, <2>4, <2>5, <2>6, <2>7, <2>8 DEF Command
<1>1. Inv' /\ Evolves(case, case', {}) /\ ledger' = Enqueue(rows, case')
  BY SucceedKeeps DEF Kept
<1> QED BY <1>1 DEF Ordered

\* What a row says of the end of its job.
Over(row) == row.run \in {"SUCCEEDED", "FAILED"} \/ row.notice

\* The row of job i ends, the others and the case stay.
Ended(i) ==
  /\ Inv' /\ case' = case /\ i \in Jobs(case) /\ ~Over(ledger[i])
  /\ DOMAIN ledger' = DOMAIN ledger /\ ledger'[i].receipt = ledger[i].receipt
  /\ \A k \in Jobs(case) : k # i => ledger'[k] = ledger[k]

LEMMA RunEndsKeeps ==
  ASSUME Inv, NEW i, RunEnds(i)
  PROVE  Ended(i)
<1> DEFINE kind == case.jobs[i].kind
<1>1. i \in Jobs(case) /\ Runs(i)
  BY InvFacts DEF RunEnds, RunSucceeds, RunFails, RunIsLost, RunIsCancelled, Runs
<1>2. case' = case /\ late' = late /\ held' = held /\ budget' = budget
  BY DEF RunEnds, RunSucceeds, RunFails, RunIsLost, RunIsCancelled
<1>3. /\ ledger[i].run = "open" /\ ledger[i] \in Rows /\ Fits(ledger[i], kind, case.settled[i])
      /\ kind \in Kinds
  <2>1. case.jobs[i] \in JobRecord  BY <1>1, InvFacts, ShapeFacts
  <2> QED BY <1>1, <2>1, InvFacts DEF Runs, JobRecord
<1>4. ~ledger[i].notice /\ case.settled[i] \notin {"REFLECTED", "EXHAUSTED"}
  BY <1>3 DEF Fits
<1>5. SUFFICES ASSUME NEW row \in Rows, ledger' = [ledger EXCEPT ![i] = row],
                      row.receipt = ledger[i].receipt, Fits(row, kind, case.settled[i])
               PROVE  Ended(i)
  <2> DEFINE old == ledger[i]
  <2>0. /\ "HINT_EXTRACT" \notin Observation /\ "COARSE_SEARCH" \notin Observation
        /\ old \in Rows /\ Fits(old, kind, case.settled[i])
    BY <1>3 DEF Observation, Readout
  <2>1. CASE RunSucceeds(i)
    <3>1. PICK content \in Results(kind), n \in Counts(i) :
            ledger' = [ledger EXCEPT ![i].run = "SUCCEEDED", ![i].content = content, ![i].found = n]
      BY <2>1 DEF RunSucceeds
    <3> DEFINE row == [old EXCEPT !.run = "SUCCEEDED", !.content = content, !.found = n]
    <3>2. n \in Nat  BY CaseJobsAssumption DEF Counts
    <3>3. content \in Said
          /\ (kind \in Observation => /\ content \in {"OK", "NOT_OBSERVED", "NO_VISUAL", "FAILED"}
                                      /\ kind # "FINE_VERIFY" => content = "OK")
      BY <2>0, CaseJobsAssumption DEF Results, Said
    <3>4. row \in Rows  BY <2>0, <3>2, <3>3 DEF Rows
    <3>5. /\ row.run = "SUCCEEDED" /\ row.content = content
          /\ row.receipt = old.receipt /\ row.notice = old.notice
      BY <2>0 DEF Rows
    <3>6. ledger' = [ledger EXCEPT ![i] = row]  BY <3>1
    <3> HIDE DEF row
    <3>7. Fits(row, kind, case.settled[i])  BY <1>4, <2>0, <3>3, <3>5 DEF Fits
    <3> QED BY <3>4, <3>5, <3>6, <3>7
  <2>2. CASE RunFails(i)
    <3>1. PICK content \in Failures(kind) :
            ledger' = [ledger EXCEPT ![i].run = "FAILED", ![i].content = content]
      BY <2>2 DEF RunFails
    <3> DEFINE row == [old EXCEPT !.run = "FAILED", !.content = content]
    <3>2. content \in IF kind = "COARSE_SEARCH" THEN {"retry", "fatal"} ELSE {"FAILED"}
      BY DEF Failures
    <3>3. row \in Rows  BY <2>0, <3>2 DEF Rows, Said
    <3>4. /\ row.run = "FAILED" /\ row.content = content
          /\ row.receipt = old.receipt /\ row.notice = old.notice
      BY <2>0 DEF Rows
    <3>5. ledger' = [ledger EXCEPT ![i] = row]  BY <3>1
    <3> HIDE DEF row
    <3>6. Fits(row, kind, case.settled[i])  BY <1>4, <2>0, <3>2, <3>4 DEF Fits
    <3> QED BY <3>3, <3>4, <3>5, <3>6
  <2>3. CASE RunIsLost(i)
    <3> DEFINE told == kind = "HINT_EXTRACT" /\ ~old.asked
               row == [old EXCEPT !.run = "STALE", !.notice = told]
    <3>1. ledger' = [ledger EXCEPT ![i] = row]  BY <2>3 DEF RunIsLost
    <3>2. told \in BOOLEAN  OBVIOUS
    <3>3. told => kind = "HINT_EXTRACT"  OBVIOUS
    <3> HIDE DEF told
    <3>4. row \in Rows  BY <2>0, <3>2 DEF Rows
    <3>5. row.run = "STALE" /\ row.receipt = old.receipt /\ row.notice = told
      BY <2>0 DEF Rows
    <3> HIDE DEF row
    <3>6. Fits(row, kind, case.settled[i])  BY <1>4, <2>0, <3>3, <3>5 DEF Fits
    <3> QED BY <3>1, <3>4, <3>5, <3>6
  <2>4. CASE RunIsCancelled(i)
    <3> DEFINE row == [old EXCEPT !.run = "CANCELLED"]
    <3>1. ledger' = [ledger EXCEPT ![i] = row]  BY <2>4 DEF RunIsCancelled
    <3>2. row \in Rows  BY <2>0 DEF Rows
    <3>3. row.run = "CANCELLED" /\ row.receipt = old.receipt /\ row.notice = old.notice
      BY <2>0 DEF Rows
    <3> HIDE DEF row
    <3>4. Fits(row, kind, case.settled[i])  BY <1>4, <2>0, <3>3 DEF Fits
    <3> QED BY <3>1, <3>2, <3>3, <3>4
  <2> QED BY <2>1, <2>2, <2>3, <2>4 DEF RunEnds
<1>6. /\ ledger' \in Seq(Rows) /\ Len(ledger') = Len(case.jobs) /\ DOMAIN ledger' = DOMAIN ledger
      /\ ledger'[i] = row /\ \A k \in Jobs(case) : k # i => ledger'[k] = ledger[k]
  BY <1>1, <1>5, InvFacts
<1>7. Matches(ledger', case)
  BY <1>5, <1>6, InvFacts DEF Matches
<1>8. Inv'  BY <1>2, <1>7, InvFacts DEF Inv, Bounded
<1> QED BY <1>1, <1>2, <1>3, <1>4, <1>5, <1>6, <1>8 DEF Ended, Over

\* What one process reads or lets go, and the clock.
LEMMA AsideKeeps ==
  ASSUME Inv, NEW i, DeadlinePasses(i) \/ PickUp(i) \/ LetGo(i)
  PROVE  Inv' /\ case' = case /\ ledger' = ledger
<1>1. case' = case /\ ledger' = ledger /\ budget' = budget
  BY DEF DeadlinePasses, PickUp, LetGo
<1>2. late' \union held' \subseteq late \union held \union Jobs(case)
  BY InvFacts, WaitingFacts DEF DeadlinePasses, PickUp, LetGo, Deliverable
<1> QED BY <1>1, <1>2, InvFacts DEF Inv, Bounded

-----------------------------------------------------------------------------
(* Deliveries.                                                             *)

\* The rows with a receipt for job i, and the commit of a delivery.
Stamped(i)   == [ledger EXCEPT ![i].receipt = TRUE]
Receipted(i) == ledger' = Enqueue(Stamped(i), case')

\* A delivery takes the outcome, comes too late for it, or repeats what was done.
Delivered(i) ==
  /\ Inv' /\ i \in Jobs(case) /\ Over(ledger[i]) /\ Receipted(i)
  /\ \/ /\ case.settled[i] = "waiting" /\ Evolves(case, case', {i})
     \/ /\ Evolves(case, case', {}) /\ case'.settled[i] \in NotApplied
     \/ case' = case /\ ledger[i].receipt

LEMMA ReplaceFacts ==
  ASSUME NEW S, NEW s \in Seq(S), NEW i \in 1 .. Len(s), NEW e \in S, NEW t, t = [s EXCEPT ![i] = e]
  PROVE  t \in Seq(S) /\ Len(t) = Len(s) /\ t[i] = e /\ \A k \in 1 .. Len(s) : k # i => t[k] = s[k]
OBVIOUS

LEMMA ReceiptFacts ==
  ASSUME Inv, NEW i \in Jobs(case), NEW rows, rows = Stamped(i)
  PROVE  /\ rows \in Seq(Rows) /\ Len(rows) = Len(ledger)
         /\ \A k \in Jobs(case) : k # i => rows[k] = ledger[k]
         /\ rows[i].receipt /\ rows[i].run = ledger[i].run /\ rows[i].content = ledger[i].content
         /\ rows[i].notice = ledger[i].notice
         /\ \A kind, reason : reason # "waiting" /\ (reason = "REFLECTED" => HasResult(i))
                              /\ (reason = "EXHAUSTED" => ledger[i].notice)
                              /\ Fits(ledger[i], kind, case.settled[i]) => Fits(rows[i], kind, reason)
<1> DEFINE row == [ledger[i] EXCEPT !.receipt = TRUE]
<1>1. rows = [ledger EXCEPT ![i] = row]  BY DEF Stamped
<1>2. ledger[i] \in Rows /\ ledger \in Seq(Rows) /\ DOMAIN ledger = Jobs(case)  BY InvFacts
<1>3. /\ row \in Rows /\ row.receipt /\ row.run = ledger[i].run /\ row.content = ledger[i].content
      /\ row.notice = ledger[i].notice
  BY <1>2 DEF Rows
<1> HIDE DEF row
<1>4. /\ rows \in Seq(Rows) /\ Len(rows) = Len(ledger) /\ rows[i] = row
      /\ \A k \in Jobs(case) : k # i => rows[k] = ledger[k]
  <2>1. Jobs(case) = 1 .. Len(ledger) /\ ledger \in Seq(Rows) /\ i \in 1 .. Len(ledger)
    BY InvFacts DEF Jobs
  <2>2. row \in Rows  BY <1>3
  <2>3. /\ rows \in Seq(Rows) /\ Len(rows) = Len(ledger) /\ rows[i] = row
        /\ \A k \in 1 .. Len(ledger) : k # i => rows[k] = ledger[k]
    BY <1>1, <2>1, <2>2, ReplaceFacts
  <2> QED BY <2>1, <2>3
<1>5. \A kind, reason : reason # "waiting" /\ (reason = "REFLECTED" => HasResult(i))
                        /\ (reason = "EXHAUSTED" => ledger[i].notice)
                        /\ Fits(ledger[i], kind, case.settled[i]) => Fits(row, kind, reason)
  BY <1>3 DEF Fits, HasResult
<1> QED BY <1>3, <1>4, <1>5

LEMMA ReceivedKeeps ==
  ASSUME Inv, NEW i \in Jobs(case), NEW c, Received(i, c), CaseInv(c), Ready(c), TakenAre(c),
         Account(c) <= Account(case), NEW taken \in {{}, {i}}, Evolves(case, c, taken),
         c.settled[i] # "waiting", c.settled[i] = "REFLECTED" => HasResult(i),
         c.settled[i] = "EXHAUSTED" => ledger[i].notice
  PROVE  Inv' /\ case' = c /\ Receipted(i)
<1> DEFINE rows == Stamped(i)
<1>1. case' = c /\ ledger' = Enqueue(rows, c) /\ held' \in {held, held \ {i}} /\ late' = late /\ budget' = budget
  BY DEF Received, Stamped
<1>2. Shape(c) /\ Shape(case)  BY InvFacts DEF CaseInv, CoreInv
<1>3. /\ rows \in Seq(Rows) /\ Len(rows) = Len(ledger)
      /\ \A k \in Jobs(case) : k # i => rows[k] = ledger[k]
      /\ Fits(rows[i], case.jobs[i].kind, c.settled[i])
  BY ReceiptFacts, InvFacts, ZenonT(40)
<1>4. Receipted(i)  BY <1>1 DEF Receipted
<1> HIDE DEF rows
<1>5. Matches(Enqueue(rows, c), c)
  <2>1. \A k \in Jobs(case) : \/ Fits(rows[k], case.jobs[k].kind, c.settled[k])
                              \/ k \notin taken /\ rows[k] = ledger[k]
    BY <1>3
  <2>2. Matches(ledger, case)  BY InvFacts
  <2> QED BY <1>2, <1>3, <2>1, <2>2, MatchesNext
<1>6. Account(c) <= 6 * (MaxCommands - budget)
  <2>1. Account(c) \in Nat  BY <1>2, AccountTyped
  <2> QED BY <2>1, InvFacts
<1>7. late \union held \subseteq Jobs(c)  BY InvFacts DEF Evolves
<1>8. Inv'  BY <1>1, <1>5, <1>6, <1>7, InvFacts DEF Inv, Bounded
<1> QED BY <1>1, <1>4, <1>8

\* A result that is applied.
LEMMA ResultApplied ==
  ASSUME Inv, NEW i \in Jobs(case), HasResult(i), View.settled[i] = "waiting", NEW d \in Apply(View, i)
  PROVE  Applied(View, d, i) /\ d.settled[i] = "REFLECTED"
<1> DEFINE kind == View.jobs[i].kind
<1>1. /\ CaseInv(View) /\ Shape(View) /\ i \in Jobs(View) /\ View.jobs = case.jobs
      /\ Fits(ledger[i], kind, case.settled[i]) /\ ledger[i] \in Rows
  BY InvFacts, ViewFacts DEF CaseInv, CoreInv
<1>2. kind \in Kinds  BY <1>1, ShapeFacts DEF JobRecord
<1>3. ledger[i].run \in {"SUCCEEDED", "FAILED"}  BY DEF HasResult
<1>4. CASE kind = "HINT_EXTRACT"
  <2> DEFINE unclear == ledger[i].content = "UNCLEAR"
  <2>1. d = HintsArrive(View, i, unclear, "REFLECTED")  BY <1>4 DEF Apply
  <2>2. unclear \in BOOLEAN  OBVIOUS
  <2> HIDE DEF unclear
  <2> QED BY <1>1, <1>4, <2>1, <2>2, HintsApplied
<1>5. CASE kind = "COARSE_SEARCH"
  <2>1. d = ApplySearch(View, i)  BY <1>5 DEF Apply
  <2>2. ledger[i].found \in Nat  BY <1>1 DEF Rows
  <2>3. ledger[i].run = "FAILED" => ledger[i].content \in {"retry", "fatal"}  BY <1>1, <1>5 DEF Fits
  <2> QED BY <1>1, <1>5, <2>1, <2>2, <2>3, SearchApplied
<1>6. CASE kind \in Observation
  <2>1. /\ ledger[i].content \in {"OK", "NOT_OBSERVED", "NO_VISUAL", "FAILED"}
        /\ kind # "FINE_VERIFY" => ledger[i].content \in {"OK", "FAILED"}
    BY <1>1, <1>3, <1>6 DEF Fits
  <2> QED BY <1>1, <1>6, <2>1, ObservationApplied
<1> QED BY <1>2, <1>4, <1>5, <1>6 DEF Kinds, Analysis

LEMMA DeliverResultKeeps ==
  ASSUME Inv, NEW i, DeliverResult(i)
  PROVE  Delivered(i)
<1>1. /\ i \in Jobs(case) /\ HasResult(i) /\ ~ResultFaults(View, i) /\ Over(ledger[i])
      /\ ledger[i] \in Rows /\ Fits(ledger[i], case.jobs[i].kind, case.settled[i])
  BY InvFacts DEF DeliverResult, HasResult, Over
<1>2. /\ Shape(case) /\ CaseInv(case) /\ TakenAre(case) /\ Ready(case) /\ Account(case) \in Nat
  BY InvFacts
<1>3. /\ CaseInv(View) /\ Shape(View) /\ Evolves(case, View, {}) /\ Jobs(View) = Jobs(case)
      /\ View.processed = case.processed /\ Account(View) <= Account(case) /\ Ready(View)
      /\ \/ View.settled[i] = case.settled[i]
         \/ case.settled[i] = "waiting" /\ View.settled[i] = "STOPPED_WAITING"
  BY <1>1, <1>2, ViewFacts DEF SameCase, CaseInv, CoreInv
<1>4. TakenAre(View)  BY <1>2, <1>3, TakenSame
<1>5. ~ledger[i].notice  BY <1>1 DEF Fits, HasResult
<1>6. CASE i \in case.processed /\ Received(i, case)
  <2>1. case.settled[i] = "REFLECTED"  BY <1>2, <1>6 DEF TakenAre
  <2>2. Evolves(case, case, {}) /\ Account(case) <= Account(case)  BY <1>2, EvolvesFrame
  <2>3. Inv' /\ case' = case /\ Receipted(i)
    BY <1>1, <1>2, <1>6, <2>1, <2>2, ReceivedKeeps
  <2>4. ledger[i].receipt  BY <1>1, <2>1 DEF Fits
  <2> QED BY <1>1, <2>3, <2>4 DEF Delivered
<1>7. CASE /\ i \notin case.processed /\ Awaits(View, i)
           /\ \E d \in Apply(View, i) : Received(i, [d EXCEPT !.processed = @ \union {i}])
  <2>1. View.settled[i] = "waiting" /\ case.settled[i] = "waiting"  BY <1>3, <1>7 DEF Awaits
  <2>2. PICK d \in Apply(View, i) : Received(i, [d EXCEPT !.processed = @ \union {i}])  BY <1>7
  <2>3. Applied(View, d, i) /\ d.settled[i] = "REFLECTED"  BY <1>1, <2>1, ResultApplied
  <2> DEFINE e == [d EXCEPT !.processed = @ \union {i}]
  <2>4. Shape(d) /\ d \in CaseRecord /\ CoreInv(d) /\ PlateLast(d)
    BY <2>3 DEF Applied, CaseInv, CoreInv, Shape
  <2>5. /\ Shape(e) /\ e.jobs = d.jobs /\ e.settled = d.settled /\ e.out = d.out /\ e.cands = d.cands
        /\ e.selected = d.selected /\ e.stage = d.stage /\ e.processed = d.processed \union {i}
    <3>1. i \in Nat  BY <1>1, InvFacts
    <3>2. /\ e \in CaseRecord
          /\ e.jobs = d.jobs /\ e.settled = d.settled /\ e.out = d.out /\ e.cands = d.cands
          /\ e.selected = d.selected /\ e.stage = d.stage /\ e.processed = d.processed \union {i}
      BY <2>4, <3>1 DEF CaseRecord
    <3> QED BY <2>4, <3>2 DEF Shape
  <2>6. Received(i, e)  BY <2>2
  <2> HIDE DEF e
  <2>7. CoreInv(e) /\ PlateLast(e) /\ Account(e) = Account(d) /\ Evolves(d, e, {})
    BY <2>4, <2>5, CaseFrame
  <2>8. CaseInv(e)  BY <2>7 DEF CaseInv
  <2>9. Evolves(case, e, {i})
    <3>1. Evolves(case, d, {i})  BY <1>2, <1>3, <2>3, <2>4, EvolvesAfter DEF Applied
    <3> QED BY <2>5, <3>1, EvolvesSame
  <2>10. Account(e) <= Account(case)
    <3>1. Account(d) \in Nat /\ Account(View) \in Nat  BY <1>3, <2>4, AccountTyped
    <3> QED BY <1>2, <1>3, <2>3, <2>7, <3>1 DEF Applied
  <2>11. Ready(e)  BY <1>3, <2>3, <2>5, <2>7, ReadyKept DEF Applied
  <2>12. TakenAre(e)
    <3>1. e.processed = case.processed \union {i} /\ e.settled[i] = "REFLECTED"
      BY <1>3, <2>3, <2>5 DEF Applied
    <3> QED BY <1>1, <1>2, <2>9, <3>1, TakenMore
  <2>13. e.settled[i] = "REFLECTED"  BY <2>3, <2>5
  <2>14. Inv' /\ case' = e /\ Receipted(i)
    BY <1>1, <2>6, <2>8, <2>9, <2>10, <2>11, <2>12, <2>13, ReceivedKeeps
  <2> QED BY <1>1, <2>1, <2>9, <2>14 DEF Delivered
<1>8. CASE i \notin case.processed /\ ~Awaits(View, i) /\ Received(i, View)
  <2>1. View.settled[i] \in NotApplied
    BY <1>1, <1>3, <1>8 DEF ResultFaults
  <2>2. View.settled[i] \notin {"waiting", "REFLECTED", "EXHAUSTED"}  BY <2>1 DEF NotApplied
  <2>3. Inv' /\ case' = View /\ Receipted(i)
    BY <1>1, <1>3, <1>4, <1>8, <2>2, ReceivedKeeps
  <2> QED BY <1>1, <1>3, <2>1, <2>3 DEF Delivered
<1> QED BY <1>6, <1>7, <1>8 DEF DeliverResult

LEMMA DeliverNoticeKeeps ==
  ASSUME Inv, NEW i, DeliverNotice(i)
  PROVE  Delivered(i)
<1>1. /\ i \in Jobs(case) /\ ledger[i].notice /\ ~NoticeFaults(case, i) /\ Over(ledger[i])
      /\ ledger[i] \in Rows /\ Fits(ledger[i], case.jobs[i].kind, case.settled[i])
  BY InvFacts DEF DeliverNotice, Over
<1>2. /\ Shape(case) /\ CaseInv(case) /\ TakenAre(case) /\ Ready(case) /\ Account(case) \in Nat
  BY InvFacts
<1>3. case.jobs[i].kind = "HINT_EXTRACT" /\ ~HasResult(i)  BY <1>1 DEF Fits, HasResult
<1>4. CASE Awaits(case, i)
  <2> DEFINE e == HintsArrive(case, i, FALSE, "EXHAUSTED")
  <2>1. Received(i, e)  BY <1>4 DEF DeliverNotice
  <2>2. case.settled[i] = "waiting"  BY <1>4 DEF Awaits
  <2>3. Applied(case, e, i) /\ e.settled[i] = "EXHAUSTED"
    BY <1>1, <1>2, <1>3, <2>2, HintsApplied
  <2> HIDE DEF e
  <2>4. TakenAre(e)
    <3>1. e.processed = case.processed /\ e.settled[i] # "REFLECTED"  BY <2>3 DEF Applied
    <3> QED BY <1>1, <1>2, <2>3, <3>1, TakenMore DEF Applied
  <2>5. /\ CaseInv(e) /\ Ready(e) /\ Account(e) <= Account(case) /\ Evolves(case, e, {i})
    BY <1>2, <2>3 DEF Applied
  <2>6. Inv' /\ case' = e /\ Receipted(i)
    BY <1>1, <2>1, <2>3, <2>4, <2>5, ReceivedKeeps
  <2> QED BY <1>1, <2>2, <2>5, <2>6 DEF Delivered
<1>5. CASE ~Awaits(case, i)
  <2>1. Received(i, case)  BY <1>5 DEF DeliverNotice
  <2>2. case.settled[i] # "waiting" /\ case.settled[i] # "REFLECTED"
    BY <1>1, <1>3, <1>5 DEF Awaits, Fits, HasResult
  <2>3. Evolves(case, case, {}) /\ Account(case) <= Account(case)  BY <1>2, EvolvesFrame
  <2>4. Inv' /\ case' = case /\ Receipted(i)
    BY <1>1, <1>2, <2>1, <2>2, <2>3, ReceivedKeeps
  <2>5. CASE case.settled[i] \in NotApplied
    BY <1>1, <2>3, <2>4, <2>5 DEF Delivered
  <2>6. CASE case.settled[i] = "EXHAUSTED"
    <3>1. ledger[i].receipt  BY <1>1, <2>6 DEF Fits
    <3> QED BY <1>1, <2>4, <3>1 DEF Delivered
  <2>7. case.settled[i] \in State  BY <1>1, <1>2, ShapeFacts
  <2> QED BY <2>2, <2>5, <2>6, <2>7 DEF State, Reasons
<1> QED BY <1>4, <1>5

-----------------------------------------------------------------------------
(* The invariant, and the properties that the runs check.                  *)

LEMMA NoSearchNoCost ==
  ASSUME NEW c, Len(c.jobs) = 0
  PROVE  Jobs(c) = {} /\ Account(c) = 0
<1>1. Jobs(c) = {}  BY DEF Jobs
<1>2. Potential(c) = 0  BY <1>1 DEF Potential, Due
<1> QED BY <1>1, <1>2 DEF Account

LEMMA InitInv ==
  ASSUME Init
  PROVE  Inv
<1>1. /\ case = EmptyCase /\ ledger = <<>> /\ late = {} /\ held = {} /\ budget = MaxCommands
      /\ MaxCommands \in Nat
  BY CaseJobsAssumption DEF Init
<1>2. /\ case \in CaseRecord /\ case.stage = "INTAKE" /\ case.jobs = <<>> /\ case.settled = <<>>
      /\ case.out = <<>> /\ case.cands = {} /\ case.selected = NoCand /\ case.processed = {}
  BY <1>1 DEF EmptyCase, CaseRecord
<1>3. Len(case.jobs) = 0 /\ Shape(case)  BY <1>2 DEF Shape
<1>4. Jobs(case) = {} /\ Account(case) = 0  BY <1>3, NoSearchNoCost
<1>5. History(case)
  BY <1>4 DEF History, Past, HintsFollowed, HintsKnown, Placed, OutsReflected, OutsOfKind, Chain,
              Superseded
<1>6. Present(case)
  BY <1>2, <1>3, <1>4 DEF Present, Staged, OneSearch, CandsCurrent, WaitingPlaced, Reviewing
<1>7. CaseInv(case)  BY <1>3, <1>4, <1>5, <1>6 DEF CaseInv, CoreInv, PlateLast
<1>8. Matches(ledger, case)
  <2>1. ledger \in Seq(Rows) /\ Len(ledger) = 0  BY <1>1
  <2> QED BY <1>3, <1>4, <2>1 DEF Matches
<1>9. TakenAre(case) /\ Ready(case)  BY <1>2, <1>4 DEF TakenAre, Ready
<1>10. Bounded /\ budget \in 0 .. MaxCommands
  <2>1. MaxCommands - budget = 0  BY <1>1
  <2> QED BY <1>1, <1>4, <2>1 DEF Bounded
<1> QED BY <1>1, <1>7, <1>8, <1>9, <1>10 DEF Inv

\* The kinds of step there are, for the invariant and for the contract.
LEMMA StepKinds ==
  ASSUME Inv, [Next]_vars
  PROVE  \/ Ordered
         \/ \E i : Ended(i) \/ Delivered(i)
         \/ Inv' /\ case' = case /\ ledger' = ledger
<1>1. CASE UNCHANGED vars
  BY <1>1, InvFacts DEF vars, Inv, Bounded
<1>2. CASE Command  BY <1>2, CommandKeeps
<1>3. ASSUME NEW i \in JobId, RunEnds(i) \/ DeadlinePasses(i) \/ PickUp(i) \/ Deliver(i) \/ LetGo(i)
      PROVE  \/ \E k : Ended(k) \/ Delivered(k)
             \/ Inv' /\ case' = case /\ ledger' = ledger
  BY <1>3, RunEndsKeeps, AsideKeeps, DeliverResultKeeps, DeliverNoticeKeeps DEF Deliver
<1> QED BY <1>1, <1>2, <1>3 DEF Next

\* The inductive invariant of the case, its rows and its deliveries.
THEOREM CaseInvariant == Spec => []Inv
<1>1. Init => Inv  BY InitInv
<1>2. Inv /\ [Next]_vars => Inv'
  BY StepKinds DEF Ordered, Ended, Delivered
<1> QED BY <1>1, <1>2, PTL DEF Spec

\* The case and its rows are well formed, and no command leads to more than six jobs.
THEOREM CaseIsWellFormed == Spec => []CaseTypeOK
<1>1. ASSUME Inv PROVE CaseTypeOK
  <2>1. case \in CaseRecord /\ DOMAIN case.out = Jobs(case) /\ Staged(case)
    BY <1>1, InvFacts, ShapeFacts DEF Shape, CoreInv, Present
  <2>2. \A i \in Jobs(case) : case.settled[i] \in {"waiting"} \union Reasons
    BY <1>1, InvFacts, ShapeFacts DEF State
  <2>3. case.stage \in {"INTAKE", "SEARCHING", "CANDIDATE_REVIEW"} \union Reviewing
        /\ case.failed \in {"no", "retry", "fatal"} /\ case.unclear \in BOOLEAN
    BY <2>1 DEF CaseRecord
  <2> QED BY <1>1, <2>1, <2>2, <2>3, InvFacts DEF CaseTypeOK, Staged
<1> QED BY <1>1, CaseInvariant, PTL

\* No search is lost and none is made twice: one hint or search job is awaited
\* at a time, while SEARCHING, and each hint job that is over leads to one search.
THEOREM SearchesComeDue == Spec => []SearchesAreDue
<1>1. ASSUME Inv PROVE AwaitedOnlyWhileSearching
  <2> SUFFICES ASSUME SearchAwaited(case)
               PROVE  /\ case.stage = "SEARCHING"
                      /\ Cardinality(Waiting(case) \intersect OfKind(case, Analysis)) = 1
    BY DEF AwaitedOnlyWhileSearching
  <2>1. Shape(case) /\ OneSearch(case)  BY <1>1, InvFacts DEF CoreInv, Present
  <2>2. PICK i \in Jobs(case) : AwaitsSearch(case, i)  BY <2>1, WaitingFacts
  <2>3. \A k \in Jobs(case) : AwaitsSearch(case, k) => k = i  BY <2>1, <2>2, OnlySearch
  <2>4. Waiting(case) \intersect OfKind(case, Analysis) = {i}
    <3>1. \A k : k \in Waiting(case) \intersect OfKind(case, Analysis)
                   <=> k \in Jobs(case) /\ AwaitsSearch(case, k)
      BY <2>1, WaitingFacts, ShapeFacts DEF OfKind, AwaitsSearch
    <3> QED BY <2>2, <2>3, <3>1
  <2> QED BY <2>1, <2>2, <2>4, FS_Singleton DEF OneSearch
<1>2. ASSUME Inv PROVE OneSearchPerHint
  <2> SUFFICES ASSUME NEW i \in OfKind(case, {"HINT_EXTRACT"})
               PROVE  Cardinality({case.jobs[k].scope :
                        k \in {k \in OfKind(case, {"COARSE_SEARCH"}) : case.jobs[k].via = i}})
                      = IF case.settled[i] \in {"REFLECTED", "EXHAUSTED"} THEN 1 ELSE 0
    BY DEF OneSearchPerHint
  <2> DEFINE scopes == {case.jobs[k].scope :
                          k \in {k \in OfKind(case, {"COARSE_SEARCH"}) : case.jobs[k].via = i}}
  <2>1. Shape(case) /\ HintsFollowed(case)  BY <1>2, InvFacts DEF CoreInv, History
  <2>2. i \in Jobs(case) /\ case.jobs[i].kind = "HINT_EXTRACT"  BY <2>1, ShapeFacts DEF OfKind
  <2>3. \A s : s \in scopes <=> Follows(case, i, s)
    BY <2>1, ShapeFacts DEF OfKind, Follows
  <2>4. \A s : Follows(case, i, s) => s \in Nat
    BY <2>1, ShapeFacts DEF Follows, JobRecord
  <2> HIDE DEF scopes
  <2>5. CASE case.settled[i] \in {"REFLECTED", "EXHAUSTED"}
    <3>1. PICK s \in Nat : Follows(case, i, s) /\ \A t \in Nat : Follows(case, i, t) => t = s
      BY <2>1, <2>2, <2>5 DEF HintsFollowed
    <3>2. scopes = {s}  BY <2>3, <2>4, <3>1
    <3>3. Cardinality(scopes) = 1  BY <3>2, FS_Singleton
    <3> QED BY <2>5, <3>3 DEF scopes
  <2>6. CASE case.settled[i] \notin {"REFLECTED", "EXHAUSTED"}
    <3>1. \A t \in Nat : ~Follows(case, i, t)  BY <2>1, <2>2, <2>6 DEF HintsFollowed
    <3>2. scopes = {}  BY <2>3, <2>4, <3>1
    <3>3. Cardinality(scopes) = 0  BY <3>2, FS_EmptySet
    <3> QED BY <2>6, <3>3 DEF scopes
  <2> QED BY <2>5, <2>6
<1> QED BY <1>1, <1>2, CaseInvariant, PTL DEF SearchesAreDue

\* The results that changed the case are those of the jobs settled as reflected:
\* what was stopped, superseded or timed out never takes effect.
THEOREM ReflectedIsProcessed == Spec => []ProcessedIsReflected
<1>1. ASSUME Inv PROVE ProcessedIsReflected
  <2>1. \A i : i \in case.processed <=> i \in DOMAIN case.jobs /\ case.settled[i] = "REFLECTED"
    BY <1>1, InvFacts DEF TakenAre
  <2> QED BY <2>1 DEF ProcessedIsReflected
<1> QED BY <1>1, CaseInvariant, PTL

\* No delivery, however late or repeated, runs into a state check that would
\* roll it back for ever.
THEOREM DeliveriesDoNotFault == Spec => []NoDeliveryFault
<1>1. ASSUME Inv, NEW c \in {case, View}, NEW i \in held PROVE ~SearchOver(c, i)
  <2>1. i \in Jobs(c) /\ CaseInv(c)  BY <1>1, InvFacts, ViewFacts
  <2> QED BY <2>1 DEF SearchOver, Awaits, CaseInv, CoreInv, Present, OneSearch, AwaitsSearch
<1>2. ASSUME Inv, NEW i \in held, HasResult(i) PROVE ~ResultFaults(View, i)
  <2>1. /\ i \in Jobs(case) /\ TakenAre(case) /\ Fits(ledger[i], case.jobs[i].kind, case.settled[i])
        /\ case.settled[i] \in State
    BY <1>2, InvFacts, ShapeFacts
  <2>2. /\ View.processed = case.processed
        /\ \/ View.settled[i] = case.settled[i]
           \/ case.settled[i] = "waiting" /\ View.settled[i] = "STOPPED_WAITING"
    BY <1>2, <2>1, InvFacts, ViewFacts DEF SameCase
  <2>3. ~SearchOver(View, i)  BY <1>1, <1>2
  <2>4. ~(Awaits(View, i) /\ ledger[i].receipt)
    BY <2>1, <2>2 DEF Awaits, Fits
  <2>5. case.settled[i] # "EXHAUSTED"
    BY <1>2, <2>1 DEF HasResult, Fits
  <2>6. i \notin case.processed /\ ~Awaits(View, i) => View.settled[i] \in NotApplied
    BY <2>1, <2>2, <2>5 DEF TakenAre, Awaits, State, Reasons, NotApplied
  <2> QED BY <2>2, <2>3, <2>4, <2>6 DEF ResultFaults
<1>3. ASSUME Inv, NEW i \in held, ledger[i].notice PROVE ~NoticeFaults(case, i)
  <2>1. i \in Jobs(case) /\ Fits(ledger[i], case.jobs[i].kind, case.settled[i])  BY <1>3, InvFacts
  <2>2. ~SearchOver(case, i)  BY <1>1, <1>3
  <2> QED BY <2>1, <2>2 DEF NoticeFaults, Awaits, Fits
<1>4. Inv => NoDeliveryFault  BY <1>2, <1>3 DEF NoDeliveryFault
<1> QED BY <1>4, CaseInvariant, PTL

\* The observation jobs waited for are the selected candidate's, one of a kind.
THEOREM WaitingJobsAreSelected == Spec => []WaitingIsSelected
<1>1. ASSUME Inv PROVE Waiting(case) \intersect OfKind(case, Observation) \subseteq Mine(case)
  <2> SUFFICES ASSUME NEW i \in Waiting(case) \intersect OfKind(case, Observation)
               PROVE  i \in Mine(case)
    OBVIOUS
  <2>1. i \in Jobs(case) /\ case.settled[i] = "waiting" /\ case.jobs[i].kind \in Observation
    BY <1>1, InvFacts, WaitingFacts DEF OfKind
  <2>2. case.jobs[i].cand = case.selected
    BY <1>1, <2>1, InvFacts DEF CoreInv, Present, WaitingPlaced
  <2>3. case.selected # NoCand  BY <1>1, <2>1, InvFacts, NothingObserved
  <2> QED BY <1>1, <2>1, <2>2, <2>3, InvFacts, OwnFacts DEF Own
<1>2. ASSUME Inv, NEW i \in Waiting(case), NEW k \in Waiting(case), case.jobs[i].kind = case.jobs[k].kind
      PROVE  i = k
  <2>1. /\ i \in Jobs(case) /\ case.settled[i] = "waiting" /\ k \in Jobs(case) /\ case.settled[k] = "waiting"
        /\ case.jobs[i].kind \in Kinds /\ OneSearch(case) /\ WaitingPlaced(case) /\ Shape(case)
    BY <1>2, InvFacts, WaitingFacts, ShapeFacts DEF CoreInv, Present, JobRecord
  <2>2. CASE case.jobs[i].kind \in Analysis
    <3>1. AwaitsSearch(case, i) /\ AwaitsSearch(case, k)  BY <1>2, <2>1, <2>2 DEF AwaitsSearch
    <3> QED BY <2>1, <3>1, OnlySearch
  <2>3. CASE case.jobs[i].kind \in Observation  BY <1>2, <2>1, <2>3 DEF WaitingPlaced
  <2> QED BY <2>1, <2>2, <2>3, KindFacts
<1>3. Inv => WaitingIsSelected  BY <1>1, <1>2 DEF WaitingIsSelected
<1> QED BY <1>3, CaseInvariant, PTL

\* READY is about the selected candidate: both of its readouts are settled.
THEOREM ReadyIsRead == Spec => []ReadyHasReadouts
<1>1. Inv => ReadyHasReadouts
  BY InvFacts, ReadyMeans DEF Ready, ReadyHasReadouts
<1> QED BY <1>1, CaseInvariant, PTL

\* RETRY_PLATE_READ repeats the last plate job of the case, which is the
\* selected candidate's whenever that is offered.
THEOREM RetriesAreSelected == Spec => []RetryTargetsSelected
<1>1. ASSUME Inv, RetryPlateOffered(View) PROVE IsCurrent(View, LatestRecord(View, "PLATE_READ"))
  <2> DEFINE last == LatestRecord(View, "PLATE_READ")
  <2>1. CaseInv(View) /\ PlateFailed(View)  BY <1>1, InvFacts, ViewFacts DEF RetryPlateOffered
  <2>2. last \in Jobs(View) /\ Own(View, last)  BY <2>1, RetryTarget
  <2> HIDE DEF last
  <2>3. IsCurrent(View, last)  BY <2>1, <2>2, OwnFacts DEF CaseInv
  <2> QED BY <2>3 DEF last
<1> QED BY <1>1, CaseInvariant, PTL DEF RetryTargetsSelected

-----------------------------------------------------------------------------
(* The Case and the Runtime keep the contract of result delivery.          *)

Wished(c, k) ==
  IF k \notin Jobs(c) THEN "none"
  ELSE IF c.settled[k] = "waiting" THEN "wanted"
  ELSE IF c.settled[k] \in {"REFLECTED", "EXHAUSTED"} THEN "taken" ELSE "dropped"

Wishes(c)    == [k \in JobId |-> Wished(c, k)]
Told(rows)   == {k \in DOMAIN rows : Over(rows[k])}
Closed(rows) == {k \in DOMAIN rows : rows[k].receipt}

LEMMA WishSteps ==
  ASSUME NEW c, NEW d, Shape(c), Shape(d), NEW taken, Evolves(c, d, taken), NEW k
  PROVE  /\ Wished(c, k) \in Contract!Wish
         /\ k \notin taken => Wished(d, k) \in Contract!MayBecome(Wished(c, k))
         /\ k \in taken /\ k \in Jobs(c) => Wished(c, k) = "wanted" /\ Wished(d, k) = "taken"
<1>1. CASE k \in Jobs(c)
  <2>1. /\ k \in Jobs(d)
        /\ k \in taken => c.settled[k] = "waiting" /\ d.settled[k] \in {"REFLECTED", "EXHAUSTED"}
        /\ k \notin taken => \/ d.settled[k] = c.settled[k]
                             \/ c.settled[k] = "waiting" /\ d.settled[k] \in NotApplied
    BY <1>1 DEF Evolves
  <2>2. CASE c.settled[k] = "waiting"
    <3>1. Wished(c, k) = "wanted"  BY <1>1, <2>2 DEF Wished
    <3>2. k \in taken => Wished(d, k) = "taken"  BY <2>1 DEF Wished
    <3>3. k \notin taken => Wished(d, k) \in {"wanted", "dropped"}
      BY <2>1, <2>2 DEF Wished, NotApplied
    <3> QED BY <3>1, <3>2, <3>3 DEF Contract!Wish, Contract!MayBecome
  <2>3. CASE c.settled[k] # "waiting"
    <3>1. Wished(d, k) = Wished(c, k)  BY <1>1, <2>1, <2>3 DEF Wished
    <3>2. k \notin taken  BY <2>1, <2>3
    <3>3. Wished(c, k) \in {"taken", "dropped"}  BY <1>1, <2>3 DEF Wished
    <3> QED BY <3>1, <3>2, <3>3 DEF Contract!Wish, Contract!MayBecome
  <2> QED BY <2>2, <2>3
<1>2. CASE k \notin Jobs(c)
  <2>1. k \in Jobs(d) => d.settled[k] = "waiting"  BY <1>2 DEF Evolves
  <2>2. Wished(c, k) = "none" /\ Wished(d, k) \in {"none", "wanted"}
    BY <1>2, <2>1 DEF Wished
  <2> QED BY <1>2, <2>2 DEF Contract!Wish, Contract!MayBecome
<1> QED BY <1>1, <1>2

\* Orders for new jobs neither tell nor close anything.
LEMMA OrdersTellNothing ==
  ASSUME NEW rows \in Seq(Rows), NEW c, NEW d, Shape(c), Shape(d), Len(rows) = Len(c.jobs),
         Len(c.jobs) <= Len(d.jobs), NEW e, e = Enqueue(rows, d)
  PROVE  Told(e) = Told(rows) /\ Closed(e) = Closed(rows)
<1>1. /\ e \in Seq(Rows) /\ Len(e) = Len(d.jobs)
      /\ \A i \in Jobs(c) : e[i] = rows[i]
      /\ \A i \in Jobs(d) : i \notin Jobs(c) => e[i] = OpenRow
  BY EnqueueFacts
<1>2. /\ DOMAIN rows = Jobs(c) /\ DOMAIN e = Jobs(d) /\ Jobs(c) \subseteq Jobs(d)
  BY <1>1, ShapeFacts DEF Jobs
<1>3. ~Over(OpenRow) /\ ~OpenRow.receipt  BY OpenRowFacts DEF Over
<1> QED BY <1>1, <1>2, <1>3 DEF Told, Closed

\* What the contract sees of a state.
LEMMA SeenByContract ==
  ASSUME Inv, Inv'
  PROVE  /\ [k \in JobId |-> WishOf(k)] = Wishes(case)
         /\ [k \in JobId |-> WishOf(k)]' = Wishes(case')
         /\ {k \in DOMAIN ledger : HasResult(k) \/ ledger[k].notice} = Told(ledger)
         /\ {k \in DOMAIN ledger : HasResult(k) \/ ledger[k].notice}' = Told(ledger')
         /\ {k \in DOMAIN ledger : ledger[k].receipt} = Closed(ledger)
         /\ {k \in DOMAIN ledger : ledger[k].receipt}' = Closed(ledger')
<1>1. Shape(case) /\ Shape(case')  BY DEF Inv, CaseInv, CoreInv
<1>2. DOMAIN case.settled = Jobs(case) /\ DOMAIN case'.settled = Jobs(case')
  BY <1>1, ShapeFacts
<1>3. [k \in JobId |-> WishOf(k)] = Wishes(case)  BY <1>2 DEF WishOf, Wishes, Wished
<1>4. [k \in JobId |-> WishOf(k)]' = Wishes(case')  BY <1>2 DEF WishOf, Wishes, Wished
<1>5. {k \in DOMAIN ledger : HasResult(k) \/ ledger[k].notice} = Told(ledger)
  BY DEF Told, Over, HasResult
<1>6. {k \in DOMAIN ledger : HasResult(k) \/ ledger[k].notice}' = Told(ledger')
  BY DEF Told, Over, HasResult
<1> QED BY <1>3, <1>4, <1>5, <1>6 DEF Closed

LEMMA EvolvesNone ==
  ASSUME NEW c, Shape(c)
  PROVE  Evolves(c, c, {})
BY ShapeFacts DEF Evolves

\* Wishes move as the contract lets them, but for the one that is taken.
LEMMA WishesMove ==
  ASSUME NEW c, NEW d, Shape(c), Shape(d), NEW taken, Evolves(c, d, taken)
  PROVE  /\ Wishes(d) \in [JobId -> Contract!Wish]
         /\ \A k \in JobId \ taken : Wishes(d)[k] \in Contract!MayBecome(Wishes(c)[k])
         /\ \A k \in JobId \intersect taken \intersect Jobs(c) :
              Wishes(c)[k] = "wanted" /\ Wishes(d)[k] = "taken"
<1>1. \A k : Wished(d, k) \in Contract!Wish  BY EvolvesNone, WishSteps
<1>2. \A k : /\ k \notin taken => Wished(d, k) \in Contract!MayBecome(Wished(c, k))
             /\ k \in taken /\ k \in Jobs(c) => Wished(c, k) = "wanted" /\ Wished(d, k) = "taken"
  BY WishSteps
<1> QED BY <1>1, <1>2 DEF Wishes

\* A command or an answer that concerns no job is a decision of the Case.
LEMMA OrderedDecides ==
  ASSUME Inv, Ordered
  PROVE  Contract!Decide
<1>1. /\ Inv' /\ Evolves(case, case', {}) /\ Shape(case) /\ Shape(case')
      /\ Len(case.jobs) <= Len(case'.jobs)
  BY DEF Ordered, Inv, CaseInv, CoreInv, Evolves
<1>2. PICK rows : Kept(rows) /\ ledger' = Enqueue(rows, case')  BY DEF Ordered
<1>3. /\ rows \in Seq(Rows) /\ Len(rows) = Len(case.jobs)
      /\ \A i \in Jobs(case) : /\ rows[i].run \in {"SUCCEEDED", "FAILED"} <=> HasResult(i)
                               /\ rows[i].notice = ledger[i].notice /\ rows[i].receipt = ledger[i].receipt
  BY <1>2 DEF Kept, Matches
<1>4. DOMAIN rows = Jobs(case) /\ DOMAIN ledger = Jobs(case)
  BY <1>3, InvFacts DEF Jobs
<1>5. Told(rows) = Told(ledger) /\ Closed(rows) = Closed(ledger)
  BY <1>3, <1>4 DEF Told, Closed, Over, HasResult
<1>6. Told(ledger') = Told(ledger) /\ Closed(ledger') = Closed(ledger)
  BY <1>1, <1>2, <1>3, <1>5, OrdersTellNothing
<1>7. /\ Wishes(case') \in [JobId -> Contract!Wish]
      /\ \A k \in JobId : Wishes(case')[k] \in Contract!MayBecome(Wishes(case)[k])
  BY <1>1, WishesMove
<1> QED BY <1>1, <1>6, <1>7, SeenByContract DEF Contract!Decide

\* The run of a job ends: its outcome is there, unless it timed out in silence.
LEMMA EndedEnds ==
  ASSUME Inv, NEW i, Ended(i)
  PROVE  (i \in JobId /\ Contract!End(i)) \/ UNCHANGED Contract!vars
<1>1. /\ Inv' /\ case' = case /\ i \in Jobs(case) /\ ~Over(ledger[i])
      /\ DOMAIN ledger' = DOMAIN ledger /\ ledger'[i].receipt = ledger[i].receipt
      /\ \A k \in Jobs(case) : k # i => ledger'[k] = ledger[k]
  BY DEF Ended
<1>2. DOMAIN ledger = Jobs(case) /\ i \in JobId  BY <1>1, InvFacts
<1>3. Closed(ledger') = Closed(ledger)  BY <1>1, <1>2 DEF Closed
<1>4. Wishes(case') = Wishes(case)  BY <1>1
<1>5. CASE Over(ledger'[i])
  <2>1. Told(ledger') = Told(ledger) \union {i} /\ i \notin Told(ledger)
    BY <1>1, <1>2, <1>5 DEF Told
  <2>2. Wishes(case)[i] # "none"  BY <1>1, <1>2 DEF Wishes, Wished
  <2> QED BY <1>1, <1>2, <1>3, <1>4, <2>1, <2>2, SeenByContract DEF Contract!End
<1>6. CASE ~Over(ledger'[i])
  <2>1. Told(ledger') = Told(ledger)  BY <1>1, <1>2, <1>6 DEF Told
  <2> QED BY <1>1, <1>3, <1>4, <2>1, SeenByContract DEF Contract!vars
<1> QED BY <1>5, <1>6

\* A delivery takes what is wanted, acknowledges what is not, or finds it done.
LEMMA DeliveredTakes ==
  ASSUME Inv, NEW i, Delivered(i)
  PROVE  \/ Contract!Decide
         \/ \E j \in Told(ledger) \ Closed(ledger) :
              j \in JobId /\ (Contract!Take(j) \/ Contract!Acknowledge(j))
<1>1. Inv' /\ i \in Jobs(case) /\ Over(ledger[i]) /\ ledger' = Enqueue(Stamped(i), case')
  BY DEF Delivered, Receipted
<1>2. /\ Shape(case) /\ Shape(case') /\ ledger \in Seq(Rows) /\ Len(ledger) = Len(case.jobs)
      /\ DOMAIN ledger = Jobs(case) /\ i \in JobId /\ ledger[i] \in Rows
      /\ ledger[i].receipt => case.settled[i] # "waiting"
  BY <1>1, InvFacts DEF Inv, CaseInv, CoreInv, Fits
<1>3. /\ Stamped(i) \in Seq(Rows) /\ Len(Stamped(i)) = Len(case.jobs)
      /\ Told(Stamped(i)) = Told(ledger) /\ Closed(Stamped(i)) = Closed(ledger) \union {i}
  <2>1. /\ Stamped(i) \in Seq(Rows) /\ Len(Stamped(i)) = Len(ledger)
        /\ \A k \in Jobs(case) : k # i => Stamped(i)[k] = ledger[k]
        /\ Stamped(i)[i].receipt /\ Stamped(i)[i].run = ledger[i].run
        /\ Stamped(i)[i].notice = ledger[i].notice
    BY <1>1, ReceiptFacts
  <2>2. DOMAIN Stamped(i) = DOMAIN ledger  BY DEF Stamped
  <2>3. Told(Stamped(i)) = Told(ledger)  BY <1>2, <2>1, <2>2 DEF Told, Over
  <2>4. Closed(Stamped(i)) = Closed(ledger) \union {i}
    BY <1>1, <1>2, <2>1, <2>2 DEF Closed
  <2> QED BY <1>2, <2>1, <2>3, <2>4
<1>4. ASSUME NEW taken, Evolves(case, case', taken)
      PROVE  /\ Told(ledger') = Told(ledger) /\ Closed(ledger') = Closed(ledger) \union {i}
             /\ Wishes(case') \in [JobId -> Contract!Wish]
             /\ \A k \in JobId \ taken : Wishes(case')[k] \in Contract!MayBecome(Wishes(case)[k])
             /\ \A k \in JobId \intersect taken \intersect Jobs(case) :
                  Wishes(case)[k] = "wanted" /\ Wishes(case')[k] = "taken"
  <2>1. Len(case.jobs) <= Len(case'.jobs)  BY <1>4 DEF Evolves
  <2>2. Told(ledger') = Told(Stamped(i)) /\ Closed(ledger') = Closed(Stamped(i))
    BY <1>1, <1>2, <1>3, <2>1, OrdersTellNothing
  <2> QED BY <1>2, <1>3, <1>4, <2>2, WishesMove
<1>5. CASE ~ledger[i].receipt /\ case.settled[i] = "waiting" /\ Evolves(case, case', {i})
  <2>1. i \in Told(ledger) \ Closed(ledger)  BY <1>1, <1>2, <1>5 DEF Told, Closed
  <2>2. Contract!Take(i)
    BY <1>1, <1>2, <1>4, <1>5, SeenByContract DEF Contract!Take, Contract!OthersMove
  <2> QED BY <1>2, <2>1, <2>2
<1>6. CASE ~ledger[i].receipt /\ Evolves(case, case', {}) /\ case'.settled[i] \in NotApplied
  <2>1. i \in Told(ledger) \ Closed(ledger)  BY <1>1, <1>2, <1>6 DEF Told, Closed
  <2>2. Wishes(case')[i] = "dropped"
    <3>1. i \in Jobs(case')  BY <1>1, <1>6 DEF Evolves
    <3> QED BY <1>2, <1>6, <3>1 DEF Wishes, Wished, NotApplied
  <2>3. Wishes(case)[i] \in {"wanted", "dropped"}
    <3>1. case.settled[i] = case'.settled[i] \/ case.settled[i] = "waiting"
      BY <1>1, <1>6 DEF Evolves
    <3> QED BY <1>1, <1>2, <1>6, <3>1 DEF Wishes, Wished, NotApplied
  <2>4. Contract!Acknowledge(i)
    BY <1>1, <1>2, <1>4, <1>6, <2>2, <2>3, SeenByContract DEF Contract!Acknowledge, Contract!OthersMove
  <2> QED BY <1>2, <2>1, <2>4
<1>7. CASE ledger[i].receipt
  <2>1. Evolves(case, case', {})
    BY <1>2, <1>7, EvolvesNone DEF Delivered
  <2>2. i \in Closed(ledger)  BY <1>1, <1>2, <1>7 DEF Closed
  <2>3. Closed(ledger') = Closed(ledger)  BY <1>4, <2>1, <2>2
  <2> QED BY <1>1, <1>4, <2>1, <2>3, SeenByContract DEF Contract!Decide
<1> QED BY <1>5, <1>6, <1>7 DEF Delivered

\* Each outcome takes effect at most once, while it is wanted, in the step that
\* writes its receipt: the Case implements the contract of result delivery.
THEOREM CaseDelivers == Spec => Delivers
<1>1. Init => Contract!Init
  <2> SUFFICES ASSUME Init PROVE Contract!Init
    OBVIOUS
  <2>1. DOMAIN case.settled = {} /\ DOMAIN ledger = {}  BY DEF Init, EmptyCase
  <2> QED BY <2>1 DEF Contract!Init, WishOf
<1>2. ASSUME Inv, [Next]_vars PROVE [Contract!Next]_Contract!vars
  <2>1. CASE Ordered  BY <1>2, <2>1, OrderedDecides DEF Contract!Next
  <2>2. ASSUME NEW i, Ended(i) PROVE [Contract!Next]_Contract!vars
    BY <1>2, <2>2, EndedEnds DEF Contract!Next
  <2>3. ASSUME NEW i, Delivered(i) PROVE [Contract!Next]_Contract!vars
    <3>1. Inv'  BY <2>3 DEF Delivered
    <3>2. CASE Contract!Decide  BY <3>2 DEF Contract!Next
    <3>3. ASSUME NEW j \in Told(ledger) \ Closed(ledger),
                 j \in JobId, Contract!Take(j) \/ Contract!Acknowledge(j)
          PROVE  Contract!Next
      BY <1>2, <3>1, <3>3, SeenByContract DEF Contract!Next
    <3> QED BY <1>2, <2>3, <3>2, <3>3, DeliveredTakes
  <2>4. CASE Inv' /\ case' = case /\ ledger' = ledger
    BY <2>4 DEF Contract!vars, WishOf, HasResult
  <2> QED BY <1>2, <2>1, <2>2, <2>3, <2>4, StepKinds
<1> QED BY <1>1, <1>2, CaseInvariant, PTL DEF Spec, Delivers, Contract!Spec
(* What the user is told and offered: the search, the selection and the    *)
(* outcomes of a case lead on from every state.                            *)

\* Of the hint and search jobs the last one decides what the user is told.
SearchTold(c) ==
  c.stage = "SEARCHING" =>
    \E i \in Jobs(c) :
      /\ c.jobs[i].kind \in Analysis
      /\ \A k \in Jobs(c) : c.jobs[k].kind \in Analysis => k <= i
      /\ \/ c.settled[i] \in {"waiting"} \union Halts
         \/ c.settled[i] = "REFLECTED" /\ c.jobs[i].kind = "COARSE_SEARCH" /\ c.failed # "no"

\* What speaks of a search follows one.
SearchMade(c) ==
  c.stage = "CANDIDATE_REVIEW" \/ c.failed # "no" => \E i \in Jobs(c) : c.jobs[i].kind = "COARSE_SEARCH"

\* A list that has candidates is never left without a selection.
NothingFound(c) == c.stage = "CANDIDATE_REVIEW" => c.cands = {}

Fine(c, f) == Own(c, f) /\ c.jobs[f].kind = "FINE_VERIFY"

\* The selected candidate has a Fine: one that saw or missed the event, or else
\* the last Fine of the case.
FineMade(c) ==
  c.selected # NoCand =>
    \E f \in Jobs(c) :
      /\ Fine(c, f)
      /\ \/ c.out[f] \in {"OK", "NOT_OBSERVED"}
         \/ \A k \in Jobs(c) : c.jobs[k].kind = "FINE_VERIFY" => k <= f

\* Job i of a case has a job of a kind about the same candidate.
HasNext(c, i, kind) == \E k \in Jobs(c) : c.jobs[k].kind = kind /\ c.jobs[k].cand = c.jobs[i].cand

\* After a Fine that saw the event comes a clip, and after a clip both readouts.
FollowedBy(c, i) ==
  c.out[i] = "OK" =>
    /\ c.jobs[i].kind = "FINE_VERIFY" => HasNext(c, i, "INCIDENT_CLIP_BUILD")
    /\ c.jobs[i].kind = "INCIDENT_CLIP_BUILD" => \A kind \in Readout : HasNext(c, i, kind)

\* ... of every job but x, which is being followed.
Followed(c, x) == \A i \in Jobs(c) : i # x => FollowedBy(c, i)

LastOf(c, i) ==
  \A k \in Jobs(c) : c.jobs[k].kind = c.jobs[i].kind /\ c.jobs[k].cand = c.jobs[i].cand => k <= i

\* The last observation of a kind about a candidate one may select is not given up.
Observed(c) ==
  \A i \in Jobs(c) : c.jobs[i].kind \in Observation /\ c.jobs[i].cand \in c.cands /\ LastOf(c, i)
                       => c.settled[i] \in {"waiting", "REFLECTED"}

Guide(c) == /\ SearchTold(c) /\ SearchMade(c) /\ NothingFound(c)
            /\ FineMade(c) /\ Followed(c, 0) /\ Observed(c)

\* What a row says of an observation is what the case was told.
SaysSo(row, kind, said) ==
  kind \in Observation =>
    /\ row.run = "FAILED" => row.content = "FAILED"
    /\ row.run = "SUCCEEDED" => row.content # "FAILED"
    /\ said # "none" => row.content = said

RowsSaySo(rows, c) == \A i \in Jobs(c) : SaysSo(rows[i], c.jobs[i].kind, c.out[i])

LateSearches(c) == \A i \in late : c.jobs[i].kind = "COARSE_SEARCH"

GuideInv == Guide(case) /\ RowsSaySo(ledger, case) /\ LateSearches(case)

\* From c to d jobs are only added, and only job x is told an outcome.
Grows(c, d, x) ==
  /\ \A i \in Jobs(c) : i \in Jobs(d) /\ d.jobs[i] = c.jobs[i] /\ (i # x => d.out[i] = c.out[i])
  /\ \A i \in Jobs(d) : i \notin Jobs(c) => d.out[i] = "none"

\* A step after which everything that guided the user still does.
Guides(c, d) ==
  /\ Grows(c, d, 0)
  /\ \A x : Followed(c, x) => Followed(d, x)
  /\ Observed(c) => Observed(d)
  /\ FineMade(c) => FineMade(d)
  /\ SearchTold(c) => SearchTold(d)
  /\ SearchMade(c) => SearchMade(d)
  /\ NothingFound(c) => NothingFound(d)

LEMMA GuidesSame ==
  ASSUME NEW c
  PROVE  Guides(c, c)
BY DEF Guides, Grows

LEMMA GuidesTwice ==
  ASSUME NEW c, NEW d, NEW e, Guides(c, d), Guides(d, e), Shape(c)
  PROVE  Guides(c, e)
<1>1. Grows(c, d, 0) /\ Grows(d, e, 0)  BY DEF Guides
<1>2. \A i \in Jobs(c) : i # 0  BY ShapeFacts
<1>3. \A i \in Jobs(d) : i # 0  BY DEF Jobs
<1>4. Grows(c, e, 0)  BY <1>1, <1>2, <1>3 DEF Grows
<1> QED BY <1>4 DEF Guides

LEMMA GuidesGuide ==
  ASSUME NEW c, NEW d, Guide(c), Guides(c, d)
  PROVE  Guide(d)
BY DEF Guide, Guides

LEMMA GrowsFollowed ==
  ASSUME NEW c, NEW d, NEW y, Grows(c, d, y), NEW x, Followed(c, x), y # x => y \notin Jobs(c)
  PROVE  Followed(d, x)
<1>1. \A kind : \A i \in Jobs(c) : HasNext(c, i, kind) => HasNext(d, i, kind)  BY DEF Grows, HasNext
<1>2. ASSUME NEW i \in Jobs(d), i # x  PROVE FollowedBy(d, i)
  <2>1. CASE i \notin Jobs(c)  BY <2>1 DEF Grows, FollowedBy
  <2>2. CASE i \in Jobs(c)
    <3>1. d.jobs[i] = c.jobs[i] /\ d.out[i] = c.out[i]  BY <1>2, <2>2 DEF Grows
    <3>2. FollowedBy(c, i)  BY <1>2, <2>2 DEF Followed
    <3> QED BY <1>1, <2>2, <3>1, <3>2 DEF FollowedBy
  <2> QED BY <2>1, <2>2
<1> QED BY <1>2 DEF Followed

\* What the jobs of a case are, after one was issued.
LEMMA IssuedGrows ==
  ASSUME NEW c, NEW d, NEW job, Shape(c), Shape(d), Issued(c, d, job), NEW n, n = Len(d.jobs)
  PROVE  /\ Grows(c, d, 0) /\ SameCase(c, d) /\ (SearchMade(c) => SearchMade(d))
         /\ NothingFound(c) => NothingFound(d)
         /\ n \in Jobs(d) /\ n \notin Jobs(c) /\ n # 0
         /\ d.jobs[n] = job /\ d.settled[n] = "waiting" /\ d.out[n] = "none"
         /\ \A i \in Jobs(d) : i \in Nat /\ i <= n /\ (i \in Jobs(c) \/ i = n)
         /\ \A i \in Jobs(c) : ~(n <= i)
<1>1. /\ Len(c.jobs) \in Nat /\ n = Len(c.jobs) + 1 /\ SameCase(c, d)
      /\ d.jobs[n] = job /\ d.settled[n] = "waiting" /\ d.out[n] = "none"
  BY ShapeFacts DEF Issued
<1>2. /\ n \in Jobs(d) /\ n \notin Jobs(c) /\ n # 0
      /\ \A i \in Jobs(d) : i \in Nat /\ i <= n /\ (i \in Jobs(c) \/ i = n)
      /\ \A i \in Jobs(c) : ~(n <= i)
  BY <1>1 DEF Jobs
<1>3. Grows(c, d, 0)  BY <1>1, <1>2 DEF Grows, Issued
<1>4. SearchMade(c) => SearchMade(d)  BY <1>1, <1>3 DEF SearchMade, Grows, SameCase
<1>5. NothingFound(c) => NothingFound(d)  BY <1>1 DEF NothingFound, SameCase
<1> QED BY <1>1, <1>2, <1>3, <1>4, <1>5

\* A new search or hint job is the one that counts.
LEMMA AnalysisGuides ==
  ASSUME NEW c, NEW d, NEW job \in JobRecord, job.kind \in Analysis, Shape(c), Shape(d), Issued(c, d, job)
  PROVE  Guides(c, d) /\ SearchTold(d)
<1> DEFINE n == Len(d.jobs)
<1>1. /\ Grows(c, d, 0) /\ SameCase(c, d) /\ (SearchMade(c) => SearchMade(d))
      /\ NothingFound(c) => NothingFound(d)
      /\ n \in Jobs(d) /\ n \notin Jobs(c) /\ n # 0
      /\ d.jobs[n] = job /\ d.settled[n] = "waiting" /\ d.out[n] = "none"
      /\ \A i \in Jobs(d) : i \in Nat /\ i <= n /\ (i \in Jobs(c) \/ i = n)
      /\ \A i \in Jobs(c) : ~(n <= i)
  BY IssuedGrows
<1> HIDE DEF n
<1>2. job.kind \notin Observation /\ job.kind # "FINE_VERIFY"
  BY KindFacts DEF JobRecord, Observation
<1>3. \A i \in Jobs(c) : /\ i \in Jobs(d) /\ d.jobs[i] = c.jobs[i] /\ d.out[i] = c.out[i]
                         /\ c.jobs[i].kind \in Observation => d.settled[i] = c.settled[i]
  BY <1>1, <1>2 DEF Issued
<1>4. \A x : Followed(c, x) => Followed(d, x)
  <2>1. 0 \notin Jobs(c)  BY DEF Jobs
  <2> QED BY <1>1, <2>1, GrowsFollowed
<1>5. ASSUME Observed(c) PROVE Observed(d)
  <2>1. ASSUME NEW i \in Jobs(d), d.jobs[i].kind \in Observation, d.jobs[i].cand \in d.cands, LastOf(d, i)
        PROVE  d.settled[i] \in {"waiting", "REFLECTED"}
    <3>1. i \in Jobs(c)  BY <1>1, <1>2, <2>1
    <3>2. LastOf(c, i)  BY <1>3, <2>1, <3>1 DEF LastOf
    <3> QED BY <1>1, <1>3, <1>5, <2>1, <3>1, <3>2 DEF Observed, SameCase
  <2> QED BY <2>1 DEF Observed
<1>6. ASSUME FineMade(c) PROVE FineMade(d)
  <2>1. SUFFICES ASSUME c.selected # NoCand
                 PROVE  \E f \in Jobs(d) : /\ Fine(d, f)
                                           /\ \/ d.out[f] \in {"OK", "NOT_OBSERVED"}
                                              \/ \A k \in Jobs(d) : d.jobs[k].kind = "FINE_VERIFY" => k <= f
    BY <1>1 DEF FineMade, SameCase
  <2>2. PICK f \in Jobs(c) : /\ Fine(c, f)
                             /\ \/ c.out[f] \in {"OK", "NOT_OBSERVED"}
                                \/ \A k \in Jobs(c) : c.jobs[k].kind = "FINE_VERIFY" => k <= f
    BY <1>6, <2>1 DEF FineMade
  <2>3. f \in Jobs(d) /\ Fine(d, f) /\ d.out[f] = c.out[f]
    BY <1>1, <1>3, <2>2 DEF Fine, Own, SameCase
  <2>4. \A k \in Jobs(d) : d.jobs[k].kind = "FINE_VERIFY" => k \in Jobs(c) /\ c.jobs[k].kind = "FINE_VERIFY"
    BY <1>1, <1>2, <1>3
  <2> QED BY <2>2, <2>3, <2>4
<1>7. SearchTold(d)
  <2>1. d.jobs[n].kind \in Analysis /\ d.settled[n] = "waiting"  BY <1>1
  <2> QED BY <1>1, <2>1 DEF SearchTold
<1> QED BY <1>1, <1>4, <1>5, <1>6, <1>7 DEF Guides

\* A new observation of the selected candidate takes the place of the one before.
LEMMA ObservationGuides ==
  ASSUME NEW c, NEW d, CoreInv(c), Shape(d), c.selected # NoCand,
         NEW job, job.kind \in Observation, job.cand = c.selected, Issued(c, d, job)
  PROVE  /\ Guides(c, d)
         /\ job.kind = "FINE_VERIFY" => FineMade(d)
         /\ \E k \in Jobs(d) : d.jobs[k].kind = job.kind /\ d.jobs[k].cand = c.selected
<1> DEFINE n == Len(d.jobs)
<1>0. Shape(c) /\ WaitingPlaced(c) /\ Staged(c)  BY DEF CoreInv, Present
<1>1. /\ Grows(c, d, 0) /\ SameCase(c, d) /\ (SearchMade(c) => SearchMade(d))
      /\ NothingFound(c) => NothingFound(d)
      /\ n \in Jobs(d) /\ n \notin Jobs(c) /\ n # 0
      /\ d.jobs[n] = job /\ d.settled[n] = "waiting" /\ d.out[n] = "none"
      /\ \A i \in Jobs(d) : i \in Nat /\ i <= n /\ (i \in Jobs(c) \/ i = n)
      /\ \A i \in Jobs(c) : ~(n <= i)
  BY <1>0, IssuedGrows
<1> HIDE DEF n
<1>3. \A i \in Jobs(c) : /\ i \in Jobs(d) /\ d.jobs[i] = c.jobs[i] /\ d.out[i] = c.out[i]
                         /\ \/ d.settled[i] = c.settled[i]
                            \/ c.settled[i] = "waiting" /\ c.jobs[i].kind = job.kind
  BY <1>1 DEF Issued
<1>4. \A x : Followed(c, x) => Followed(d, x)
  <2>1. 0 \notin Jobs(c)  BY DEF Jobs
  <2> QED BY <1>1, <2>1, GrowsFollowed
<1>5. ASSUME Observed(c) PROVE Observed(d)
  <2>1. ASSUME NEW i \in Jobs(d), d.jobs[i].kind \in Observation, d.jobs[i].cand \in d.cands, LastOf(d, i)
        PROVE  d.settled[i] \in {"waiting", "REFLECTED"}
    <3>1. CASE i = n  BY <1>1, <3>1
    <3>2. CASE i \in Jobs(c)
      <4>1. LastOf(c, i)  BY <1>3, <2>1, <3>2 DEF LastOf
      <4>2. c.settled[i] \in {"waiting", "REFLECTED"}
        BY <1>1, <1>3, <1>5, <2>1, <3>2, <4>1 DEF Observed, SameCase
      <4>3. ~(c.settled[i] = "waiting" /\ c.jobs[i].kind = job.kind)
        <5>1. SUFFICES ASSUME c.settled[i] = "waiting", c.jobs[i].kind = job.kind PROVE FALSE  OBVIOUS
        <5>2. c.jobs[i].cand = c.selected  BY <1>0, <3>2, <5>1 DEF WaitingPlaced
        <5>3. n <= i  BY <1>1, <1>3, <2>1, <3>2, <5>1, <5>2 DEF LastOf
        <5> QED BY <1>1, <3>2, <5>3
      <4> QED BY <1>3, <3>2, <4>2, <4>3
    <3> QED BY <1>1, <3>1, <3>2
  <2> QED BY <2>1 DEF Observed
<1>6. ASSUME job.kind = "FINE_VERIFY" PROVE FineMade(d)
  <2>1. Fine(d, n)  BY <1>1, <1>6 DEF Fine, Own, SameCase
  <2> QED BY <1>1, <2>1 DEF FineMade
<1>7. ASSUME FineMade(c), job.kind # "FINE_VERIFY" PROVE FineMade(d)
  <2>2. PICK f \in Jobs(c) : /\ Fine(c, f)
                             /\ \/ c.out[f] \in {"OK", "NOT_OBSERVED"}
                                \/ \A k \in Jobs(c) : c.jobs[k].kind = "FINE_VERIFY" => k <= f
    BY <1>7 DEF FineMade
  <2>3. f \in Jobs(d) /\ Fine(d, f) /\ d.out[f] = c.out[f]
    BY <1>1, <1>3, <2>2 DEF Fine, Own, SameCase
  <2>4. \A k \in Jobs(d) : d.jobs[k].kind = "FINE_VERIFY" => k \in Jobs(c) /\ c.jobs[k].kind = "FINE_VERIFY"
    BY <1>1, <1>3, <1>7
  <2> QED BY <2>2, <2>3, <2>4 DEF FineMade
<1>8. SearchTold(d)
  <2>1. d.stage # "SEARCHING"  BY <1>0, <1>1 DEF Staged, SameCase, Reviewing
  <2> QED BY <2>1 DEF SearchTold
<1> QED BY <1>1, <1>4, <1>5, <1>6, <1>7, <1>8 DEF Guides

-----------------------------------------------------------------------------
(* The chain of observations.                                              *)

LEMMA ObservationStep ==
  ASSUME NEW c, CoreInv(c), c.selected # NoCand, NEW kind \in Observation, NEW via \in Nat,
         NEW d, d = Issue(c, ObservationJob(c, kind, via))
  PROVE  /\ Guides(c, d) /\ Shape(d)
         /\ kind = "FINE_VERIFY" => FineMade(d)
         /\ \E k \in Jobs(d) : d.jobs[k].kind = kind /\ d.jobs[k].cand = c.selected
<1> DEFINE job == ObservationJob(c, kind, via)
<1>1. job \in JobRecord /\ job.kind = kind /\ job.cand = c.selected  BY ObservationJobFacts
<1>2. d = Issue(c, job)  OBVIOUS
<1> HIDE DEF job
<1>3. Shape(d) /\ Issued(c, d, job)  BY <1>1, <1>2, IssueFacts DEF CoreInv
<1> QED BY <1>1, <1>3, ObservationGuides

LEMMA FineStep ==
  ASSUME NEW c, CoreInv(c), c.selected # NoCand, NEW d, d = IssueFine(c)
  PROVE  Guides(c, d) /\ FineMade(d)
<1>1. CurrentGeneration(c) # 0  BY SelectedFacts
<1>2. d = Issue(c, ObservationJob(c, "FINE_VERIFY", 0))  BY <1>1 DEF IssueFine
<1>3. "FINE_VERIFY" \in Observation /\ 0 \in Nat  BY DEF Observation
<1> QED BY <1>2, <1>3, ObservationStep

\* Job i has been followed, and the others are.
LEMMA FollowedNow ==
  ASSUME NEW c, NEW i, Followed(c, i), i \in Jobs(c) => FollowedBy(c, i)
  PROVE  Followed(c, 0)
BY DEF Followed

LEMMA FineFollowed ==
  ASSUME NEW c, CoreInv(c), NEW i \in Jobs(c), Own(c, i), c.jobs[i].kind = "FINE_VERIFY",
         NEW d, d = FollowFine(c, i)
  PROVE  Guides(c, d) /\ (Followed(c, i) => Followed(d, 0))
<1>1. "FINE_VERIFY" \in Observation /\ "INCIDENT_CLIP_BUILD" \in Observation
      /\ "FINE_VERIFY" # "INCIDENT_CLIP_BUILD"
  BY DEF Observation
<1>2. IsCurrent(c, i)  BY <1>1, OwnFacts
<1>3. CASE c.out[i] # "OK"
  <2>1. d = c  BY <1>3 DEF FollowFine
  <2>2. FollowedBy(c, i)  BY <1>3 DEF FollowedBy
  <2> QED BY <2>1, <2>2, GuidesSame, FollowedNow
<1>4. CASE c.out[i] = "OK"
  <2>1. d = Issue(c, ObservationJob(c, "INCIDENT_CLIP_BUILD", i))  BY <1>2, <1>4 DEF FollowFine
  <2>2. i \in Nat /\ c.selected # NoCand /\ c.jobs[i].cand = c.selected
    BY ShapeFacts DEF CoreInv, Own
  <2>3. /\ Guides(c, d)
        /\ \E k \in Jobs(d) : d.jobs[k].kind = "INCIDENT_CLIP_BUILD" /\ d.jobs[k].cand = c.selected
    BY <1>1, <2>1, <2>2, ObservationStep
  <2>4. d.jobs[i] = c.jobs[i]  BY <2>3 DEF Guides, Grows
  <2>5. FollowedBy(d, i)  BY <2>2, <2>3, <2>4 DEF FollowedBy, HasNext
  <2>6. Followed(c, i) => Followed(d, i)  BY <2>3 DEF Guides
  <2> QED BY <2>3, <2>5, <2>6, FollowedNow
<1> QED BY <1>3, <1>4

LEMMA ReadoutsStep ==
  ASSUME NEW c, CoreInv(c), NEW clip \in Jobs(c), c.jobs[clip].kind = "INCIDENT_CLIP_BUILD",
         Own(c, clip), c.out[clip] = "OK", NEW kinds, NEW d, d = IssueReadouts(c, clip, kinds),
         \A i \in Jobs(c) : Own(c, i) /\ c.jobs[i].kind \in kinds \intersect Readout
                              => c.out[i] \in {"none", "FAILED", "NO_VISUAL"}
  PROVE  /\ Guides(c, d)
         /\ \A kind \in kinds \intersect Readout :
              \E k \in Jobs(d) : d.jobs[k].kind = kind /\ d.jobs[k].cand = c.selected
<1> DEFINE e == IF "PLATE_READ" \in kinds THEN Issue(c, ObservationJob(c, "PLATE_READ", clip)) ELSE c
<1>1. /\ d = IF "OVERLAY_TIME_READ" \in kinds
             THEN Issue(e, ObservationJob(e, "OVERLAY_TIME_READ", clip)) ELSE e
  BY DEF IssueReadouts
<1>2. /\ "PLATE_READ" \in Observation /\ "OVERLAY_TIME_READ" \in Observation
      /\ Readout = {"PLATE_READ", "OVERLAY_TIME_READ"}
  BY DEF Observation, Readout
<1>3. clip \in Nat /\ c.selected # NoCand /\ Shape(c)  BY ShapeFacts DEF CoreInv, Own
<1>4. /\ Guides(c, e) /\ CoreInv(e) /\ e.selected = c.selected
      /\ "PLATE_READ" \in kinds =>
           \E k \in Jobs(e) : e.jobs[k].kind = "PLATE_READ" /\ e.jobs[k].cand = c.selected
  <2>1. CASE "PLATE_READ" \notin kinds  BY <2>1, GuidesSame
  <2>2. CASE "PLATE_READ" \in kinds
    <3>1. e = Issue(c, ObservationJob(c, "PLATE_READ", clip))  BY <2>2
    <3> HIDE DEF e
    <3>2. Observes(c, e, Cost("PLATE_READ"))
      <4>1. "PLATE_READ" \in Readout /\ "PLATE_READ" # "FINE_VERIFY" /\ "PLATE_READ" # "INCIDENT_CLIP_BUILD"
        BY <1>2
      <4>2. \A i \in Jobs(c) : Own(c, i) /\ c.jobs[i].kind = "PLATE_READ"
                                 => c.out[i] \in {"none", "FAILED", "NO_VISUAL"}
        BY <2>2, <4>1
      <4> QED BY <1>2, <1>3, <3>1, <4>1, <4>2, ObservationIssued
    <3> QED BY <1>2, <1>3, <3>1, <3>2, ObservationStep DEF Observes, SameCase
  <2> QED BY <2>1, <2>2
<1> HIDE DEF e
<1>5. CASE "OVERLAY_TIME_READ" \notin kinds
  <2>1. d = e  BY <1>1, <1>5
  <2> QED BY <1>2, <1>4, <1>5, <2>1
<1>6. CASE "OVERLAY_TIME_READ" \in kinds
  <2>1. d = Issue(e, ObservationJob(e, "OVERLAY_TIME_READ", clip))  BY <1>1, <1>6
  <2>2. /\ Guides(e, d)
        /\ \E k \in Jobs(d) : d.jobs[k].kind = "OVERLAY_TIME_READ" /\ d.jobs[k].cand = e.selected
    BY <1>2, <1>3, <1>4, <2>1, ObservationStep
  <2>3. Guides(c, d)  BY <1>3, <1>4, <2>2, GuidesTwice
  <2>4. \A k \in Jobs(e) : k \in Jobs(d) /\ d.jobs[k] = e.jobs[k]  BY <2>2 DEF Guides, Grows
  <2>5. "PLATE_READ" \in kinds =>
          \E k \in Jobs(d) : d.jobs[k].kind = "PLATE_READ" /\ d.jobs[k].cand = c.selected
    BY <1>4, <2>4
  <2> QED BY <1>2, <1>4, <2>2, <2>3, <2>5
<1> QED BY <1>5, <1>6

LEMMA ClipFollowed ==
  ASSUME NEW c, CoreInv(c), NEW i \in Jobs(c), Own(c, i), c.jobs[i].kind = "INCIDENT_CLIP_BUILD",
         Unfollowed(c, i), NEW d, d = FollowClip(c, i)
  PROVE  Guides(c, d) /\ (Followed(c, i) => Followed(d, 0))
<1>1. "INCIDENT_CLIP_BUILD" \in Observation /\ "FINE_VERIFY" # "INCIDENT_CLIP_BUILD"
  BY DEF Observation
<1>2. IsCurrent(c, i) /\ c.jobs[i].cand = c.selected  BY <1>1, OwnFacts DEF Own
<1>3. CASE c.out[i] # "OK"
  <2>1. d = c  BY <1>3 DEF FollowClip
  <2>2. FollowedBy(c, i)  BY <1>3 DEF FollowedBy
  <2> QED BY <2>1, <2>2, GuidesSame, FollowedNow
<1>4. CASE c.out[i] = "OK"
  <2>1. d = IssueReadouts(c, i, Readout)  BY <1>2, <1>4 DEF FollowClip
  <2>2. \A k \in Jobs(c) : Own(c, k) /\ c.jobs[k].kind \in Readout \intersect Readout
                             => c.out[k] \in {"none", "FAILED", "NO_VISUAL"}
    BY <1>2, <1>4 DEF Own, Unfollowed
  <2>3. /\ Guides(c, d)
        /\ \A kind \in Readout \intersect Readout :
             \E k \in Jobs(d) : d.jobs[k].kind = kind /\ d.jobs[k].cand = c.selected
    BY <1>4, <2>1, <2>2, ReadoutsStep
  <2>4. d.jobs[i] = c.jobs[i]  BY <2>3 DEF Guides, Grows
  <2>5. FollowedBy(d, i)  BY <1>1, <1>2, <2>3, <2>4 DEF FollowedBy, HasNext
  <2>6. Followed(c, i) => Followed(d, i)  BY <2>3 DEF Guides
  <2> QED BY <2>3, <2>5, <2>6, FollowedNow
<1> QED BY <1>3, <1>4

\* A selected candidate that is looked at again gets a Fine, or has one that is enough.
LEMMA MissingStep ==
  ASSUME NEW c, CoreInv(c), c.selected # NoCand, ~Preparing(c), NEW d, d = IssueMissing(c)
  PROVE  Guides(c, d) /\ FineMade(d)
<1> DEFINE fine == LastSuccess(c, "FINE_VERIFY", 0)
           clip == LastSuccess(c, "INCIDENT_CLIP_BUILD", fine)
<1>0. /\ {"FINE_VERIFY", "INCIDENT_CLIP_BUILD", "PLATE_READ"} \subseteq Observation
      /\ "FINE_VERIFY" \notin Readout /\ Readout \subseteq Observation
  BY DEF Observation, Readout
<1>1. fine # 0 => /\ fine \in Jobs(c) /\ Own(c, fine) /\ c.jobs[fine].kind = "FINE_VERIFY"
                  /\ c.out[fine] \notin {"none", "FAILED"}
  BY LastSuccessFacts
<1>2. clip # 0 => /\ clip \in Jobs(c) /\ Own(c, clip) /\ c.jobs[clip].kind = "INCIDENT_CLIP_BUILD"
                  /\ c.out[clip] \notin {"none", "FAILED"}
  BY LastSuccessFacts
<1> HIDE DEF fine, clip
<1>3. Shape(c) /\ OutsOfKind(c)  BY DEF CoreInv, History, Past
<1>4. fine # 0 => c.out[fine] \in {"OK", "NOT_OBSERVED", "NO_VISUAL"}
  BY <1>1, <1>3 DEF OutsOfKind
<1>5. clip # 0 => c.out[clip] = "OK"  BY <1>0, <1>2, <1>3 DEF OutsOfKind
<1>6. fine # 0 /\ c.out[fine] \in {"OK", "NOT_OBSERVED"} => FineMade(c)
  BY <1>1 DEF FineMade, Fine
<1>7. CASE fine = 0 \/ (fine # 0 /\ c.out[fine] = "NO_VISUAL")
  <2>1. d = IssueFine(c)  BY <1>7 DEF IssueMissing, fine
  <2> QED BY <2>1, FineStep
<1>8. CASE fine # 0 /\ c.out[fine] = "NOT_OBSERVED"
  <2>1. d = c  BY <1>8 DEF IssueMissing, fine
  <2> QED BY <1>6, <1>8, <2>1, GuidesSame
<1>9. CASE fine # 0 /\ c.out[fine] = "OK" /\ clip = 0
  <2>1. d = FollowFine(c, fine)  BY <1>9 DEF IssueMissing, fine, clip
  <2>2. Guides(c, d)  BY <1>1, <1>9, <2>1, FineFollowed
  <2> QED BY <1>6, <1>9, <2>2 DEF Guides
<1>10. CASE fine # 0 /\ c.out[fine] = "OK" /\ clip # 0
  <2> DEFINE missing == MissingReadouts(c, clip)
  <2>1. d = IssueReadouts(c, clip, missing)  BY <1>10 DEF IssueMissing, fine, clip
  <2>2. ASSUME NEW i \in Jobs(c), Own(c, i), c.jobs[i].kind \in missing \intersect Readout
        PROVE  c.out[i] \in {"none", "FAILED", "NO_VISUAL"}
    <3>1. PICK k \in Jobs(c) : /\ c.jobs[i].via = k /\ Own(c, k)
                               /\ c.jobs[k].kind = "INCIDENT_CLIP_BUILD" /\ c.out[k] = "OK"
      BY <2>2, PlateComesFrom
    <3>2. k = clip
      <4>1. c.jobs[k].kind = c.jobs[clip].kind /\ c.jobs[k].cand = c.jobs[clip].cand
        BY <1>2, <1>10, <3>1 DEF Own
      <4> QED BY <1>0, <1>2, <1>5, <1>10, <3>1, <4>1, OneSucceeds
    <3>3. LastSuccess(c, c.jobs[i].kind, clip) = 0  BY <2>2 DEF MissingReadouts
    <3> QED BY <2>2, <3>1, <3>2, <3>3, LastSuccessFacts
  <2> HIDE DEF missing
  <2>3. Guides(c, d)  BY <1>2, <1>5, <1>10, <2>1, <2>2, ReadoutsStep
  <2> QED BY <1>6, <1>10, <2>3 DEF Guides
<1> QED BY <1>4, <1>7, <1>8, <1>9, <1>10

\* Nothing of what guides the user is about the stage within the review.
LEMMA GuideFrame ==
  ASSUME NEW c, NEW d, d.jobs = c.jobs, d.settled = c.settled, d.out = c.out, d.cands = c.cands,
         d.selected = c.selected, d.failed = c.failed,
         d.stage = c.stage \/ (d.stage \in Reviewing /\ c.stage \in Reviewing)
  PROVE  Guides(c, d)
<1>1. Jobs(d) = Jobs(c)  BY DEF Jobs
<1>2. Grows(c, d, 0)  BY <1>1 DEF Grows
<1>3. \A x : Followed(c, x) => Followed(d, x)  BY <1>1 DEF Followed, FollowedBy, HasNext
<1>4. Observed(c) => Observed(d)  BY <1>1 DEF Observed, LastOf
<1>5. FineMade(c) => FineMade(d)  BY <1>1 DEF FineMade, Fine, Own
<1>6. SearchTold(c) => SearchTold(d)  BY <1>1 DEF SearchTold, Reviewing
<1>7. SearchMade(c) => SearchMade(d)  BY <1>1 DEF SearchMade, Reviewing
<1>8. NothingFound(c) => NothingFound(d)  BY DEF NothingFound, Reviewing
<1> QED BY <1>2, <1>3, <1>4, <1>5, <1>6, <1>7, <1>8 DEF Guides

LEMMA GateGuides ==
  ASSUME NEW c, Shape(c), NEW d \in Gate(c)
  PROVE  Guides(c, d)
<1>1. CASE d = c  BY <1>1, GuidesSame
<1>2. CASE d = [c EXCEPT !.stage = "READY"] /\ c.stage = "EVIDENCE_REVIEW"
  <2>1. /\ d.jobs = c.jobs /\ d.settled = c.settled /\ d.out = c.out /\ d.cands = c.cands
        /\ d.selected = c.selected /\ d.failed = c.failed /\ d.stage = "READY"
    BY <1>2 DEF Shape, CaseRecord
  <2> QED BY <1>2, <2>1, GuideFrame DEF Reviewing
<1> QED BY <1>1, <1>2 DEF Gate

\* Which steps tell the user of a search is up to each of them: what stays
\* without that, when jobs are settled for which no observation is given up.
LEMMA SettledGuides ==
  ASSUME NEW c, NEW d, d.jobs = c.jobs, d.out = c.out, d.cands = c.cands, d.selected = c.selected,
         \A i \in Jobs(c) : c.jobs[i].kind \in Observation => d.settled[i] = c.settled[i]
  PROVE  /\ Grows(c, d, 0) /\ Jobs(d) = Jobs(c)
         /\ \A x : Followed(c, x) => Followed(d, x)
         /\ Observed(c) => Observed(d)
         /\ FineMade(c) => FineMade(d)
<1>1. Jobs(d) = Jobs(c)  BY DEF Jobs
<1>2. Grows(c, d, 0)  BY <1>1 DEF Grows
<1>3. \A x : Followed(c, x) => Followed(d, x)  BY <1>1 DEF Followed, FollowedBy, HasNext
<1>4. Observed(c) => Observed(d)  BY <1>1 DEF Observed, LastOf
<1>5. FineMade(c) => FineMade(d)  BY <1>1 DEF FineMade, Fine, Own
<1> QED BY <1>1, <1>2, <1>3, <1>4, <1>5

\* What there is without candidates.
LEMMA NothingSelected ==
  ASSUME NEW c, c.cands = {}, c.selected = NoCand
  PROVE  FineMade(c) /\ Observed(c) /\ NothingFound(c)
BY DEF FineMade, Observed, NothingFound

\* An observation is told its outcome.
LEMMA RecordGuides ==
  ASSUME NEW c, CaseInv(c), Guide(c), NEW i \in Jobs(c), c.settled[i] = "waiting",
         c.jobs[i].kind \in Observation, NEW said, NEW d, Recorded(c, d, i, said)
  PROVE  /\ Grows(c, d, i) /\ Followed(d, i) /\ Observed(d) /\ FineMade(d)
         /\ SearchTold(d) /\ SearchMade(d) /\ NothingFound(d)
<1>1. /\ d.jobs = c.jobs /\ Jobs(d) = Jobs(c) /\ SameCase(c, d)
      /\ d.settled[i] = "REFLECTED" /\ d.out[i] = said
      /\ \A k \in Jobs(c) : k # i => d.settled[k] = c.settled[k] /\ d.out[k] = c.out[k]
  BY DEF Recorded
<1>2. /\ SearchTold(c) /\ SearchMade(c) /\ NothingFound(c)
      /\ FineMade(c) /\ Followed(c, 0) /\ Observed(c)
  BY DEF Guide
<1>3. Grows(c, d, i)  BY <1>1 DEF Grows
<1>4. Followed(d, i)
  <2>1. \A k \in Jobs(c) : FollowedBy(c, k)
    <3>1. 0 \notin Jobs(c)  BY DEF Jobs
    <3> QED BY <1>2, <3>1 DEF Followed
  <2> QED BY <1>1, <2>1 DEF Followed, FollowedBy, HasNext
<1>5. Observed(d)  BY <1>1, <1>2 DEF Observed, LastOf, SameCase
<1>6. FineMade(d)
  <2>1. SUFFICES ASSUME d.selected # NoCand
                 PROVE  \E f \in Jobs(d) : /\ Fine(d, f)
                                           /\ \/ d.out[f] \in {"OK", "NOT_OBSERVED"}
                                              \/ \A k \in Jobs(d) : d.jobs[k].kind = "FINE_VERIFY" => k <= f
    BY DEF FineMade
  <2>2. PICK f \in Jobs(c) : /\ Fine(c, f)
                             /\ \/ c.out[f] \in {"OK", "NOT_OBSERVED"}
                                \/ \A k \in Jobs(c) : c.jobs[k].kind = "FINE_VERIFY" => k <= f
    BY <1>1, <1>2, <2>1 DEF FineMade, SameCase
  <2>3. c.out[i] = "none"  BY DEF CaseInv, CoreInv, History, Past, OutsReflected
  <2>4. Fine(d, f)  BY <1>1, <2>2 DEF Fine, Own, SameCase
  <2> QED BY <1>1, <2>2, <2>3, <2>4
<1>7. SearchTold(d)
  <2>1. \A k \in Jobs(c) : c.jobs[k].kind \in Analysis => k # i
    BY KindFacts DEF Observation, Analysis, Readout
  <2> QED BY <1>1, <1>2, <2>1 DEF SearchTold, SameCase
<1>8. SearchMade(d) /\ NothingFound(d)  BY <1>1, <1>2 DEF SearchMade, NothingFound, SameCase
<1> QED BY <1>3, <1>4, <1>5, <1>6, <1>7, <1>8

LEMMA GrowsTwice ==
  ASSUME NEW c, NEW d, NEW e, NEW x, Grows(c, d, x), Grows(d, e, 0)
  PROVE  Grows(c, e, x) /\ (x \in Jobs(d) => e.out[x] = d.out[x])
<1>1. 0 \notin Jobs(c) /\ 0 \notin Jobs(d)  BY DEF Jobs
<1> QED BY <1>1 DEF Grows

\* d is c after the outcome of observation i was taken.
LEMMA ObservationLed ==
  ASSUME NEW c, CaseInv(c), Guide(c), NEW i \in Jobs(c), c.settled[i] = "waiting",
         c.jobs[i].kind \in Observation,
         ledger[i].content \in {"OK", "NOT_OBSERVED", "NO_VISUAL", "FAILED"},
         c.jobs[i].kind # "FINE_VERIFY" => ledger[i].content \in {"OK", "FAILED"},
         NEW d \in Apply(c, i)
  PROVE  Guide(d) /\ Grows(c, d, i) /\ d.out[i] = ledger[i].content
<1> DEFINE said == ledger[i].content
           r == [Settle(c, {i}, "REFLECTED") EXCEPT !.out[i] = said]
           kind == c.jobs[i].kind
<1>1. Shape(c)  BY DEF CaseInv, CoreInv
<1>2. kind \in Observation /\ kind \notin Analysis /\ kind # "HINT_EXTRACT" /\ kind # "COARSE_SEARCH"
  BY <1>1, KindFacts, ShapeFacts DEF JobRecord, Analysis
<1>3. PICK e \in Gate(r) : d = IF kind = "FINE_VERIFY" THEN FollowFine(e, i)
                               ELSE IF kind = "INCIDENT_CLIP_BUILD" THEN FollowClip(e, i) ELSE e
  <2>1. Apply(c, i) = IF kind = "FINE_VERIFY" THEN {FollowFine(e, i) : e \in Gate(r)}
                      ELSE IF kind = "INCIDENT_CLIP_BUILD" THEN {FollowClip(e, i) : e \in Gate(r)}
                      ELSE Gate(r)
    BY <1>2 DEF Apply, ApplyObservation
  <2> HIDE DEF r, kind
  <2> QED BY <2>1
<1>4. Shape(r) /\ Recorded(c, r, i, said)
  <2>1. said \in Said  BY DEF Said
  <2> HIDE DEF said
  <2> QED BY <1>1, <2>1, RecordFacts
<1> HIDE DEF r
<1>5. CaseInv(r) /\ Unfollowed(r, i)
  <2>1. /\ said \in {"OK", "NOT_OBSERVED", "NO_VISUAL", "FAILED"}
        /\ c.jobs[i].kind # "FINE_VERIFY" => said \in {"OK", "FAILED"}
    OBVIOUS
  <2> HIDE DEF said
  <2> QED BY <1>4, <2>1, OutcomeKept
<1>6. r.jobs = c.jobs /\ Jobs(r) = Jobs(c) /\ r.out[i] = said /\ r.selected = c.selected
  BY <1>4 DEF Recorded, SameCase
<1>7. /\ Grows(c, r, i) /\ Followed(r, i) /\ Observed(r) /\ FineMade(r)
      /\ SearchTold(r) /\ SearchMade(r) /\ NothingFound(r)
  BY <1>4, RecordGuides
<1>8. CaseInv(e) /\ e.jobs = r.jobs /\ e.out = r.out /\ Jobs(e) = Jobs(r) /\ \A k : Own(e, k) <=> Own(r, k)
  BY <1>5, GateFacts
<1>9. Guides(r, e)  BY <1>4, GateGuides
<1>10. Own(e, i) /\ CoreInv(e) /\ i \in Jobs(e) /\ e.jobs[i].kind = kind
  <2>1. c.jobs[i].cand = c.selected /\ c.jobs[i].cand \in Cand
    BY DEF CaseInv, CoreInv, History, Past, Placed, Present, WaitingPlaced
  <2>2. c.selected # NoCand  BY <2>1 DEF Cand, NoCand
  <2>3. Own(r, i)  BY <1>2, <1>6, <2>1, <2>2 DEF Own
  <2> QED BY <1>6, <1>8, <2>3 DEF CaseInv
<1>11. Unfollowed(e, i)  BY <1>5, <1>8 DEF Unfollowed
<1> SUFFICES ASSUME Guides(e, d), Followed(e, i) => Followed(d, 0)
             PROVE  Guide(d) /\ Grows(c, d, i) /\ d.out[i] = said
  <2>1. CASE kind = "FINE_VERIFY"
    <3>1. d = FollowFine(e, i)  BY <1>3, <2>1
    <3> QED BY <1>10, <2>1, <3>1, FineFollowed
  <2>2. CASE kind = "INCIDENT_CLIP_BUILD"
    <3>1. d = FollowClip(e, i)  BY <1>3, <2>2
    <3> QED BY <1>10, <1>11, <2>2, <3>1, ClipFollowed
  <2>3. CASE kind \notin {"FINE_VERIFY", "INCIDENT_CLIP_BUILD"}
    <3>1. d = e  BY <1>3, <2>3
    <3>2. FollowedBy(e, i)  BY <1>10, <2>3 DEF FollowedBy
    <3> QED BY <3>1, <3>2, GuidesSame, FollowedNow
  <2> QED BY <2>1, <2>2, <2>3
<1>12. Guides(r, d)  BY <1>4, <1>9, GuidesTwice
<1>13. Grows(c, d, i) /\ d.out[i] = said
  <2>1. Grows(r, d, 0) /\ i \in Jobs(r)  BY <1>6, <1>12 DEF Guides
  <2> QED BY <1>6, <1>7, <2>1, GrowsTwice
<1>14. Followed(d, 0)  BY <1>7, <1>9 DEF Guides
<1>15. Observed(d) /\ FineMade(d) /\ SearchTold(d) /\ SearchMade(d) /\ NothingFound(d)
  BY <1>7, <1>12 DEF Guides
<1> QED BY <1>13, <1>14, <1>15 DEF Guide

-----------------------------------------------------------------------------
(* Searches.                                                               *)

\* A search that failed is the last there is.
LEMMA FailureLed ==
  ASSUME NEW c, CaseInv(c), Guide(c), NEW i \in Jobs(c), c.settled[i] = "waiting",
         c.jobs[i].kind = "COARSE_SEARCH", NEW how \in {"retry", "fatal"}, NEW d, d = SearchFails(c, i, how)
  PROVE  Guide(d) /\ Grows(c, d, 0)
<1>1. Shape(c) /\ OneSearch(c)  BY DEF CaseInv, CoreInv, Present
<1>2. Shape(d) /\ Searched(c, d, i)  BY FailureSearched
<1>3. d.failed = how /\ d.stage = c.stage /\ d.cands = c.cands /\ d.selected = c.selected
  BY <1>1 DEF SearchFails, Settle, Shape, CaseRecord
<1>4. i \in Jobs(c) /\ AwaitsSearch(c, i)  BY DEF AwaitsSearch, Analysis
<1>5. c.stage = "SEARCHING" /\ \A k \in Jobs(c) : c.jobs[k].kind \in Analysis => k <= i
  BY <1>1, <1>4 DEF OneSearch
<1>6. "COARSE_SEARCH" \notin Observation /\ "COARSE_SEARCH" \in Analysis
  BY DEF Observation, Readout, Analysis
<1>7. /\ Grows(c, d, 0) /\ Jobs(d) = Jobs(c)
      /\ \A x : Followed(c, x) => Followed(d, x)
      /\ Observed(c) => Observed(d)
      /\ FineMade(c) => FineMade(d)
  BY <1>2, <1>3, <1>6, SettledGuides DEF Searched
<1>8. SearchTold(d)
  BY <1>2, <1>3, <1>5, <1>6, <1>7 DEF SearchTold, Searched
<1>9. SearchMade(d)  BY <1>2, <1>7 DEF SearchMade, Searched
<1>10. NothingFound(d)  BY <1>3, <1>5 DEF NothingFound
<1> QED BY <1>7, <1>8, <1>9, <1>10 DEF Guide

LEMMA ListLed ==
  ASSUME NEW c, CaseInv(c), Guide(c), NEW i \in Jobs(c), c.settled[i] = "waiting",
         c.jobs[i].kind = "COARSE_SEARCH", NEW found \in Nat,
         NEW d, d = SelectTopRanked(ReceiveCandidates(c, i, found), i)
  PROVE  Guide(d) /\ Grows(c, d, 0)
<1> DEFINE b == ReceiveCandidates(c, i, found)
<1>0. Shape(c)  BY DEF CaseInv, CoreInv
<1>1. d = SelectTopRanked(b, i)  OBVIOUS
<1>2. Shape(b) /\ Searched(c, b, i) /\ b.stage = "CANDIDATE_REVIEW"  BY CandidatesSearched
<1>3. b.cands = {<<i, rank>> : rank \in 1 .. found} /\ b.selected = NoCand /\ b.failed = "no"
  BY <1>0 DEF ReceiveCandidates, Settle, Shape, CaseRecord
<1> HIDE DEF b
<1>4. CaseInv(b) /\ Jobs(b) = Jobs(c) /\ Unobserved(b, i)  BY <1>2, SearchReflected
<1>5. Grows(c, b, 0)  BY <1>2, <1>4 DEF Grows, Searched
<1>6. Followed(b, 0)
  <2>1. 0 \notin Jobs(c)  BY DEF Jobs
  <2> QED BY <1>5, <2>1, GrowsFollowed DEF Guide
<1>7. SearchMade(b)  BY <1>2, <1>4 DEF SearchMade, Searched
<1>8. FineMade(b) /\ SearchTold(b)  BY <1>2, <1>3 DEF FineMade, SearchTold
<1>9. Observed(b)
  <2>1. \A x \in b.cands : x[1] = i  BY <1>3
  <2> QED BY <1>4, <2>1 DEF Observed, Unobserved
<1>10. CASE <<i, 1>> \notin b.cands
  <2>1. d = b  BY <1>1, <1>10 DEF SelectTopRanked
  <2>2. b.cands = {}
    <3>1. 1 \notin 1 .. found  BY <1>3, <1>10
    <3>2. \A rank : rank \notin 1 .. found  BY <3>1
    <3> QED BY <1>3, <3>2
  <2>3. NothingFound(b)  BY <2>2 DEF NothingFound
  <2> QED BY <1>5, <1>6, <1>7, <1>8, <1>9, <2>1, <2>3 DEF Guide
<1>11. CASE <<i, 1>> \in b.cands
  <2> DEFINE top == <<i, 1>>
             s == [b EXCEPT !.selected = top, !.stage = "EVIDENCE_REVIEW"]
  <2>1. d = IssueFine(s)  BY <1>1, <1>11 DEF SelectTopRanked
  <2>2. CoreInv(s) /\ Moved(b, s, top) /\ Jobs(s) = Jobs(b) /\ s.selected # NoCand
    <3>1. CoreInv(b) /\ b.stage \in {"CANDIDATE_REVIEW"} \union Reviewing /\ top \in b.cands
      BY <1>2, <1>4, <1>11 DEF CaseInv
    <3>2. \A k \in Jobs(b) : b.settled[k] = "waiting" => b.jobs[k].kind \notin Observation
      BY <1>4 DEF Unobserved
    <3> HIDE DEF top
    <3> QED BY <3>1, <3>2, SelectMoves
  <2>3. s.failed = b.failed  BY <1>2 DEF Shape, CaseRecord
  <2> HIDE DEF s, top
  <2>4. /\ s.jobs = b.jobs /\ s.settled = b.settled /\ s.out = b.out /\ s.cands = b.cands
        /\ s.stage = "EVIDENCE_REVIEW"
    BY <2>2 DEF Moved
  <2>5. Guides(s, d) /\ FineMade(d)  BY <2>1, <2>2, FineStep
  <2>6. Grows(b, s, 0) /\ Followed(s, 0)
    BY <1>6, <2>2, <2>4 DEF Grows, Followed, FollowedBy, HasNext
  <2>7. Observed(s)  BY <1>9, <2>2, <2>4 DEF Observed, LastOf
  <2>8. SearchTold(s) /\ NothingFound(s)  BY <2>4 DEF SearchTold, NothingFound
  <2>9. SearchMade(s)  BY <1>3, <2>3, <2>4 DEF SearchMade
  <2>10. Grows(c, d, 0)
    <3>1. Grows(c, s, 0)  BY <1>5, <2>6, GrowsTwice
    <3> QED BY <2>5, <3>1, GrowsTwice DEF Guides
  <2> QED BY <2>5, <2>6, <2>7, <2>8, <2>9, <2>10 DEF Guide, Guides
<1> QED BY <1>10, <1>11

LEMMA SearchLed ==
  ASSUME NEW c, CaseInv(c), Guide(c), NEW i \in Jobs(c), c.settled[i] = "waiting",
         c.jobs[i].kind = "COARSE_SEARCH", ledger[i].found \in Nat,
         ledger[i].run = "FAILED" => ledger[i].content \in {"retry", "fatal"},
         NEW d, d = ApplySearch(c, i)
  PROVE  Guide(d) /\ Grows(c, d, 0)
<1>1. CASE ledger[i].run = "FAILED"
  <2>1. d = SearchFails(c, i, ledger[i].content)  BY <1>1 DEF ApplySearch
  <2> QED BY <1>1, <2>1, FailureLed
<1>2. CASE ledger[i].run # "FAILED"
  <2>1. d = SelectTopRanked(ReceiveCandidates(c, i, ledger[i].found), i)  BY <1>2 DEF ApplySearch
  <2> QED BY <2>1, ListLed
<1> QED BY <1>1, <1>2

\* A search or hint job is issued for a case without candidates.
LEMMA AnalysisLed ==
  ASSUME NEW c, Shape(c), Followed(c, 0), Observed(c), FineMade(c), SearchMade(c), NothingFound(c),
         NEW job \in JobRecord, job.kind \in Analysis, NEW d, d = Issue(c, job)
  PROVE  Guide(d) /\ Grows(c, d, 0) /\ SameCase(c, d)
<1>1. Shape(d) /\ Issued(c, d, job)  BY IssueFacts
<1>2. Guides(c, d) /\ SearchTold(d)  BY <1>1, AnalysisGuides
<1> QED BY <1>1, <1>2 DEF Guides, Guide, Issued

LEMMA HintsLed ==
  ASSUME NEW c, CaseInv(c), Guide(c), NEW i \in Jobs(c), c.jobs[i].kind = "HINT_EXTRACT",
         NEW unclear \in BOOLEAN, NEW why \in {"REFLECTED", "EXHAUSTED"},
         NEW d, d = HintsArrive(c, i, unclear, why)
  PROVE  Guide(d) /\ Grows(c, d, 0)
<1> DEFINE b == [c EXCEPT !.unclear = unclear]
           m == Settle(b, {i}, why)
           job == AnalysisJob("COARSE_SEARCH", Len(m.jobs) + 1, i)
<1>1. d = Issue(m, job)  BY DEF HintsArrive, IssueInitialSearch
<1>2. Shape(c) /\ i \in Nat  BY ShapeFacts DEF CaseInv, CoreInv
<1>3. /\ Shape(b) /\ b.jobs = c.jobs /\ b.settled = c.settled /\ b.out = c.out /\ b.cands = c.cands
      /\ b.selected = c.selected /\ b.stage = c.stage /\ b.failed = c.failed
  <2>1. /\ b \in CaseRecord
        /\ b.jobs = c.jobs /\ b.settled = c.settled /\ b.out = c.out /\ b.cands = c.cands
        /\ b.selected = c.selected /\ b.stage = c.stage /\ b.failed = c.failed
    BY <1>2 DEF Shape, CaseRecord
  <2> QED BY <1>2, <2>1 DEF Shape
<1> HIDE DEF b
<1>4. /\ Shape(m) /\ SameCase(b, m) /\ m.jobs = b.jobs /\ m.out = b.out
      /\ \A k \in Jobs(b) : m.settled[k] = IF k \in {i} /\ b.settled[k] = "waiting"
                                           THEN why ELSE b.settled[k]
  <2>1. why \in Reasons  BY DEF Reasons
  <2> QED BY <1>3, <2>1, SettleFacts
<1> HIDE DEF m
<1>5. /\ m.jobs = c.jobs /\ m.out = c.out /\ m.cands = c.cands /\ m.selected = c.selected
      /\ m.stage = c.stage /\ m.failed = c.failed /\ Jobs(b) = Jobs(c)
  BY <1>3, <1>4 DEF SameCase, Jobs
<1>6. "HINT_EXTRACT" \notin Observation  BY DEF Observation, Readout
<1>7. \A k \in Jobs(c) : c.jobs[k].kind \in Observation => m.settled[k] = c.settled[k]
  BY <1>3, <1>4, <1>5, <1>6
<1>8. /\ Grows(c, m, 0) /\ Jobs(m) = Jobs(c)
      /\ Followed(m, 0) /\ Observed(m) /\ FineMade(m)
  BY <1>5, <1>7, SettledGuides DEF Guide
<1>9. SearchMade(m) /\ NothingFound(m)  BY <1>5, <1>8 DEF Guide, SearchMade, NothingFound
<1>10. job \in JobRecord /\ job.kind \in Analysis
  <2>1. job = [kind |-> "COARSE_SEARCH", scope |-> Len(m.jobs) + 1, cand |-> NoCand, gen |-> 0, via |-> i]
    BY DEF AnalysisJob
  <2> HIDE DEF job
  <2>2. Len(m.jobs) + 1 \in Nat /\ "COARSE_SEARCH" \in Kinds /\ "COARSE_SEARCH" \in Analysis
    BY <1>4, ShapeFacts DEF Kinds, Analysis
  <2> QED BY <1>2, <2>1, <2>2 DEF JobRecord
<1> HIDE DEF job
<1>11. Guide(d) /\ Grows(m, d, 0)  BY <1>1, <1>4, <1>8, <1>9, <1>10, AnalysisLed
<1> QED BY <1>8, <1>11, GrowsTwice

-----------------------------------------------------------------------------
(* Commands.                                                               *)

\* What has expired is a search, and the user may repeat it.
LEMMA ViewGuides ==
  ASSUME Inv, GuideInv
  PROVE  Guide(View) /\ Grows(case, View, 0)
<1>1. /\ Guide(case) /\ LateSearches(case) /\ Jobs(View) = Jobs(case) /\ View.jobs = case.jobs
      /\ View.out = case.out /\ SameCase(case, View)
      /\ \A i \in Jobs(case) : \/ View.settled[i] = case.settled[i]
                               \/ /\ i \in late /\ case.settled[i] = "waiting"
                                  /\ View.settled[i] = "STOPPED_WAITING"
  BY InvFacts, ViewFacts DEF GuideInv
<1>2. "COARSE_SEARCH" \notin Observation  BY DEF Observation, Readout
<1>3. \A i \in Jobs(case) : case.jobs[i].kind \in Observation => View.settled[i] = case.settled[i]
  BY <1>1, <1>2 DEF LateSearches
<1>4. Grows(case, View, 0) /\ Followed(View, 0) /\ Observed(View) /\ FineMade(View)
  <2>1. View.cands = case.cands /\ View.selected = case.selected  BY <1>1 DEF SameCase
  <2> HIDE DEF View
  <2> QED BY <1>1, <1>3, <2>1, SettledGuides DEF Guide
<1>5. SearchTold(View)  BY <1>1 DEF Guide, SearchTold, SameCase, Halts
<1>6. SearchMade(View) /\ NothingFound(View)
  BY <1>1 DEF Guide, SearchMade, NothingFound, SameCase
<1> QED BY <1>4, <1>5, <1>6 DEF Guide

\* START and EDIT_HINT begin a search where there are no candidates.
LEMMA BeginsLed ==
  ASSUME NEW c, Shape(c), Followed(c, 0), SearchMade(c), c.stage = "SEARCHING", c.cands = {}, c.selected = NoCand,
         NEW described \in BOOLEAN, NEW d, d = BeginAnalysis(c, described)
  PROVE  Guide(d) /\ Grows(c, d, 0)
<1>1. FineMade(c) /\ Observed(c) /\ NothingFound(c)  BY NothingSelected
<1>2. PICK job \in JobRecord : job.kind \in Analysis /\ d = Issue(c, job)
  <2>1. Len(c.jobs) + 1 \in Nat  BY ShapeFacts
  <2>2. \A scope \in Nat : /\ AnalysisJob("HINT_EXTRACT", scope, 0) \in JobRecord
                           /\ AnalysisJob("COARSE_SEARCH", scope, 0) \in JobRecord
                           /\ AnalysisJob("HINT_EXTRACT", scope, 0).kind \in Analysis
                           /\ AnalysisJob("COARSE_SEARCH", scope, 0).kind \in Analysis
    BY DEF AnalysisJob, JobRecord, Kinds, Analysis
  <2>3. CASE described
    <3>1. d = Issue(c, AnalysisJob("HINT_EXTRACT", 0, 0))  BY <2>3 DEF BeginAnalysis
    <3> QED BY <2>2, <3>1
  <2>4. CASE ~described
    <3>1. d = Issue(c, AnalysisJob("COARSE_SEARCH", Len(c.jobs) + 1, 0))
      BY <2>4 DEF BeginAnalysis, IssueInitialSearch
    <3> QED BY <2>1, <2>2, <3>1
  <2> QED BY <2>3, <2>4
<1> QED BY <1>1, <1>2, AnalysisLed

LEMMA StartLed ==
  ASSUME NEW c, CaseInv(c), Guide(c), c.stage = "INTAKE", NEW described \in BOOLEAN,
         NEW d, d = BeginAnalysis([c EXCEPT !.stage = "SEARCHING"], described)
  PROVE  Guide(d) /\ Grows(c, d, 0)
<1> DEFINE b == [c EXCEPT !.stage = "SEARCHING"]
<1>1. Shape(c) /\ Staged(c) /\ c \in CaseRecord  BY DEF CaseInv, CoreInv, Present, Shape
<1>2. d = BeginAnalysis(b, described)  OBVIOUS
<1>3. /\ Shape(b) /\ b.jobs = c.jobs /\ b.out = c.out /\ b.settled = c.settled /\ b.failed = c.failed
      /\ b.stage = "SEARCHING" /\ b.cands = {} /\ b.selected = NoCand
  <2>1. c.cands = {} /\ c.selected = NoCand  BY <1>1 DEF Staged
  <2>2. /\ b \in CaseRecord
        /\ b.jobs = c.jobs /\ b.out = c.out /\ b.settled = c.settled /\ b.failed = c.failed
        /\ b.stage = "SEARCHING" /\ b.cands = c.cands /\ b.selected = c.selected
    BY <1>1 DEF CaseRecord
  <2> QED BY <1>1, <2>1, <2>2 DEF Shape
<1> HIDE DEF b
<1>4. Grows(c, b, 0) /\ Followed(b, 0)
  <2>1. Jobs(b) = Jobs(c)  BY <1>3 DEF Jobs
  <2> QED BY <1>3, <2>1 DEF Grows, Guide, Followed, FollowedBy, HasNext
<1>5. SearchMade(b)
  <2>1. Jobs(b) = Jobs(c)  BY <1>3 DEF Jobs
  <2> QED BY <1>3, <2>1 DEF Guide, SearchMade
<1>6. Guide(d) /\ Grows(b, d, 0)  BY <1>2, <1>3, <1>4, <1>5, BeginsLed
<1> QED BY <1>4, <1>6, GrowsTwice

LEMMA RegressFacts ==
  ASSUME NEW c, Shape(c), NEW d, d = Regress(c)
  PROVE  /\ Shape(d) /\ d.jobs = c.jobs /\ d.out = c.out /\ d.settled = c.settled /\ Jobs(d) = Jobs(c)
         /\ d.failed = c.failed /\ d.stage = "SEARCHING" /\ d.cands = {} /\ d.selected = NoCand
<1>1. /\ d \in CaseRecord /\ d.jobs = c.jobs /\ d.out = c.out /\ d.settled = c.settled
      /\ d.failed = c.failed /\ d.stage = "SEARCHING" /\ d.cands = {} /\ d.selected = NoCand
  BY DEF Regress, Shape, CaseRecord
<1> QED BY <1>1 DEF Shape, Jobs

LEMMA StartOverFacts ==
  ASSUME NEW c, CaseInv(c), NEW d, d = StartOver(c)
  PROVE  /\ Shape(d) /\ d.jobs = c.jobs /\ d.out = c.out /\ Jobs(d) = Jobs(c)
         /\ d.stage = "SEARCHING" /\ d.cands = {} /\ d.selected = NoCand
<1>1. Shape(c) /\ Staged(c)  BY DEF CaseInv, CoreInv, Present
<1>2. CASE c.stage = "SEARCHING"
  <2>1. d = c  BY <1>2 DEF StartOver
  <2> QED BY <1>1, <1>2, <2>1 DEF Staged
<1>3. CASE c.stage # "SEARCHING"
  <2> DEFINE r == Regress(c)
             ids == Waiting(c)
  <2>1. d = Settle(r, ids, "SUPERSEDED")  BY <1>3 DEF StartOver
  <2>2. /\ Shape(r) /\ r.jobs = c.jobs /\ r.out = c.out /\ Jobs(r) = Jobs(c)
        /\ r.stage = "SEARCHING" /\ r.cands = {} /\ r.selected = NoCand
    BY <1>1, RegressFacts
  <2>3. "SUPERSEDED" \in Reasons  BY DEF Reasons, NotApplied
  <2> HIDE DEF r, ids
  <2>4. Shape(d) /\ SameCase(r, d) /\ d.jobs = r.jobs /\ d.out = r.out /\ Jobs(d) = Jobs(r)
    BY <2>1, <2>2, <2>3, SettleFacts
  <2> QED BY <2>2, <2>4 DEF SameCase
<1> QED BY <1>2, <1>3

LEMMA EditLed ==
  ASSUME NEW c, CaseInv(c), Guide(c), NEW described \in BOOLEAN,
         NEW d, d = BeginAnalysis([StartOver(c) EXCEPT !.unclear = FALSE, !.failed = "no"], described)
  PROVE  Guide(d) /\ Grows(c, d, 0)
<1> DEFINE s == StartOver(c)
           b == [s EXCEPT !.unclear = FALSE, !.failed = "no"]
<1>1. d = BeginAnalysis(b, described)  OBVIOUS
<1>2. /\ Shape(s) /\ s.jobs = c.jobs /\ s.out = c.out /\ Jobs(s) = Jobs(c)
      /\ s.stage = "SEARCHING" /\ s.cands = {} /\ s.selected = NoCand
  BY StartOverFacts
<1> HIDE DEF s
<1>3. /\ Shape(b) /\ b.jobs = c.jobs /\ b.out = c.out /\ b.failed = "no"
      /\ b.stage = "SEARCHING" /\ b.cands = {} /\ b.selected = NoCand
  <2>1. /\ b \in CaseRecord /\ b.jobs = s.jobs /\ b.out = s.out /\ b.settled = s.settled /\ b.failed = "no"
        /\ b.stage = "SEARCHING" /\ b.cands = {} /\ b.selected = NoCand
    BY <1>2 DEF Shape, CaseRecord
  <2> QED BY <1>2, <2>1 DEF Shape
<1> HIDE DEF b
<1>4. Grows(c, b, 0) /\ Followed(b, 0)
  <2>1. Jobs(b) = Jobs(c)  BY <1>3 DEF Jobs
  <2> QED BY <1>3, <2>1 DEF Grows, Guide, Followed, FollowedBy, HasNext
<1>5. SearchMade(b)  BY <1>3 DEF SearchMade
<1>6. Guide(d) /\ Grows(b, d, 0)  BY <1>1, <1>3, <1>4, <1>5, BeginsLed
<1> QED BY <1>4, <1>6, GrowsTwice

\* The search is what a stop leaves to be repeated.
LEMMA StopLed ==
  ASSUME NEW c, CaseInv(c), Guide(c), NEW ids, \A i \in ids : c.jobs[i].kind \in Analysis,
         NEW d, d = Settle(c, ids, "CANCELLED")
  PROVE  Guide(d) /\ Grows(c, d, 0)
<1>1. Shape(c) /\ "CANCELLED" \in Reasons  BY DEF CaseInv, CoreInv, Reasons, NotApplied
<1>2. /\ SameCase(c, d) /\ d.jobs = c.jobs /\ d.out = c.out /\ Jobs(d) = Jobs(c)
      /\ \A i \in Jobs(c) : d.settled[i] = IF i \in ids /\ c.settled[i] = "waiting"
                                           THEN "CANCELLED" ELSE c.settled[i]
  BY <1>1, SettleFacts
<1>3. \A i \in Jobs(c) : c.jobs[i].kind \in Observation => d.settled[i] = c.settled[i]
  BY <1>2 DEF Analysis, Observation, Readout
<1>4. Grows(c, d, 0) /\ Followed(d, 0) /\ Observed(d) /\ FineMade(d)
  BY <1>2, <1>3, SettledGuides DEF Guide, SameCase
<1>5. SearchTold(d)  BY <1>2 DEF Guide, SearchTold, SameCase, Halts
<1>6. SearchMade(d) /\ NothingFound(d)  BY <1>2 DEF Guide, SearchMade, NothingFound, SameCase
<1> QED BY <1>4, <1>5, <1>6 DEF Guide

LEMMA RepeatLed ==
  ASSUME NEW c, CaseInv(c), Guide(c), NEW v, v = IF c.stage = "CANDIDATE_REVIEW" THEN Regress(c) ELSE c,
         c.stage \in {"SEARCHING", "CANDIDATE_REVIEW"},
         NEW prior, prior = LatestRecord(c, "COARSE_SEARCH"), prior # 0,
         NEW d, d = IssueSameInput(v, prior)
  PROVE  Guide(d) /\ Grows(c, d, 0)
<1>1. Shape(c) /\ Staged(c)  BY DEF CaseInv, CoreInv, Present
<1>2. prior \in Jobs(c) /\ c.jobs[prior].kind = "COARSE_SEARCH" /\ c.jobs[prior] \in JobRecord
  BY <1>1, LatestFacts, ShapeFacts
<1>3. /\ Shape(v) /\ v.jobs = c.jobs /\ v.out = c.out /\ Jobs(v) = Jobs(c) /\ v.failed = c.failed
      /\ v.stage = "SEARCHING" /\ v.cands = {} /\ v.selected = NoCand
  <2>1. CASE c.stage = "CANDIDATE_REVIEW"
    <3>1. v = Regress(c)  BY <2>1
    <3> QED BY <1>1, <3>1, RegressFacts
  <2>2. CASE c.stage = "SEARCHING"
    <3>1. v = c  BY <2>2
    <3> QED BY <1>1, <2>2, <3>1 DEF Staged
  <2> QED BY <2>1, <2>2
<1>4. Grows(c, v, 0) /\ Followed(v, 0) /\ SearchMade(v)
  BY <1>2, <1>3 DEF Grows, Guide, Followed, FollowedBy, HasNext, SearchMade
<1>5. FineMade(v) /\ Observed(v) /\ NothingFound(v)  BY <1>3, NothingSelected
<1>6. Guide(d) /\ Grows(v, d, 0)
  <2>1. d = Issue(v, c.jobs[prior])  BY <1>3 DEF IssueSameInput
  <2>2. c.jobs[prior].kind \in Analysis  BY <1>2 DEF Analysis
  <2> QED BY <1>2, <1>3, <1>4, <1>5, <2>1, <2>2, AnalysisLed
<1> QED BY <1>4, <1>6, GrowsTwice

LEMMA PlateLed ==
  ASSUME NEW c, CaseInv(c), Guide(c), PlateFailed(c),
         NEW d, d = IssueSameInput(c, LatestRecord(c, "PLATE_READ"))
  PROVE  Guide(d) /\ Grows(c, d, 0)
<1> DEFINE last == LatestRecord(c, "PLATE_READ")
           job == c.jobs[last]
<1>1. Shape(c) /\ CoreInv(c)  BY DEF CaseInv, CoreInv
<1>2. last \in Jobs(c) /\ Own(c, last)  BY RetryTarget
<1>3. job \in JobRecord /\ job.kind \in Observation /\ job.cand = c.selected /\ c.selected # NoCand
  BY <1>1, <1>2, ShapeFacts DEF Own
<1>4. d = Issue(c, job)  BY DEF IssueSameInput
<1> HIDE DEF job
<1>5. Shape(d) /\ Issued(c, d, job)  BY <1>1, <1>3, <1>4, IssueFacts
<1>6. Guides(c, d)  BY <1>1, <1>3, <1>5, ObservationGuides
<1> QED BY <1>6, GuidesGuide DEF Guides

LEMMA ReselectLed ==
  ASSUME NEW c, CaseInv(c), Guide(c), NEW cand, MayReselect(c, cand), NEW d, d = Reselect(c, cand)
  PROVE  Guide(d) /\ Grows(c, d, 0)
<1> DEFINE s == [c EXCEPT !.selected = cand, !.stage = "EVIDENCE_REVIEW"]
<1>1. CoreInv(c) /\ Shape(c)  BY DEF CaseInv, CoreInv
<1>2. d = IssueMissing(s)  BY DEF Reselect
<1>3. cand \in c.cands /\ c.stage \in {"CANDIDATE_REVIEW"} \union Reviewing /\ ~Preparing(c)
  BY DEF MayReselect
<1>4. \A i \in Jobs(c) : c.settled[i] = "waiting" => c.jobs[i].kind \notin Observation
  BY <1>1, <1>3, PreparingFacts
<1>5. CoreInv(s) /\ Moved(c, s, cand) /\ Jobs(s) = Jobs(c) /\ s.selected # NoCand /\ ~Preparing(s)
  BY <1>1, <1>3, <1>4, SelectMoves
<1>6. s.failed = c.failed  BY <1>1 DEF Shape, CaseRecord
<1> HIDE DEF s
<1>7. /\ s.jobs = c.jobs /\ s.settled = c.settled /\ s.out = c.out /\ s.cands = c.cands
      /\ s.stage = "EVIDENCE_REVIEW"
  BY <1>5 DEF Moved
<1>8. Guides(s, d) /\ FineMade(d)  BY <1>2, <1>5, MissingStep
<1>9. Grows(c, s, 0) /\ Followed(s, 0) /\ Observed(s)
  BY <1>5, <1>7 DEF Guide, Grows, Followed, FollowedBy, HasNext, Observed, LastOf
<1>10. SearchTold(s) /\ NothingFound(s)  BY <1>7 DEF SearchTold, NothingFound
<1>11. SearchMade(s)  BY <1>5, <1>6, <1>7 DEF Guide, SearchMade
<1>12. Grows(c, d, 0)  BY <1>8, <1>9, GrowsTwice DEF Guides
<1> QED BY <1>8, <1>9, <1>10, <1>11, <1>12 DEF Guide, Guides

LEMMA EvidenceLed ==
  ASSUME NEW c, CaseInv(c), Guide(c), c.stage \in Reviewing, NEW d, d = [c EXCEPT !.stage = "EVIDENCE_REVIEW"]
  PROVE  Guide(d) /\ Grows(c, d, 0)
<1>1. /\ d.jobs = c.jobs /\ d.settled = c.settled /\ d.out = c.out /\ d.cands = c.cands
      /\ d.selected = c.selected /\ d.failed = c.failed /\ d.stage \in Reviewing
  BY DEF CaseInv, CoreInv, Shape, CaseRecord, Reviewing
<1>2. Guides(c, d)  BY <1>1, GuideFrame
<1> QED BY <1>2, GuidesGuide DEF Guides

-----------------------------------------------------------------------------
(* Steps.                                                                  *)

\* The rows say what the case was told, when it goes from c to d.
LEMMA GuidedNext ==
  ASSUME Inv, GuideInv, Shape(case'), Guide(case'), NEW i, Grows(case, case', i), late' = late,
         NEW rows \in Seq(Rows), Len(rows) = Len(case.jobs), RowsSaySo(rows, case),
         i \in Jobs(case) => case'.out[i] = rows[i].content, ledger' = Enqueue(rows, case')
  PROVE  GuideInv'
<1>1. Shape(case) /\ Len(case.jobs) \in Nat /\ Len(case'.jobs) \in Nat /\ late \subseteq Jobs(case)
  BY InvFacts, ShapeFacts
<1>2. Len(case.jobs) <= Len(case'.jobs)
  <2>1. \A k \in Jobs(case) : k \in Jobs(case')  BY DEF Grows
  <2> QED BY <1>1, <2>1 DEF Jobs
<1>3. /\ \A k \in Jobs(case) : ledger'[k] = rows[k]
      /\ \A k \in Jobs(case') : k \notin Jobs(case) => ledger'[k] = OpenRow
  BY <1>1, <1>2, EnqueueFacts
<1>4. ASSUME NEW k \in Jobs(case') PROVE SaysSo(ledger'[k], case'.jobs[k].kind, case'.out[k])
  <2>1. CASE k \notin Jobs(case)
    <3>1. ledger'[k] = OpenRow /\ case'.out[k] = "none"  BY <1>3, <2>1 DEF Grows
    <3> QED BY <3>1, OpenRowFacts DEF SaysSo
  <2>2. CASE k \in Jobs(case)
    <3>1. /\ ledger'[k] = rows[k] /\ case'.jobs[k] = case.jobs[k]
          /\ SaysSo(rows[k], case.jobs[k].kind, case.out[k])
      BY <1>3, <2>2 DEF Grows, RowsSaySo
    <3>2. CASE k = i
      <4>1. case'.out[k] = rows[k].content  BY <2>2, <3>2
      <4> QED BY <3>1, <4>1 DEF SaysSo
    <3>3. CASE k # i
      <4>1. case'.out[k] = case.out[k]  BY <2>2, <3>3 DEF Grows
      <4> QED BY <3>1, <4>1
    <3> QED BY <3>2, <3>3
  <2> QED BY <2>1, <2>2
<1>5. \A k \in late : case'.jobs[k].kind = "COARSE_SEARCH"
  BY <1>1 DEF Grows, GuideInv, LateSearches
<1> QED BY <1>4, <1>5 DEF GuideInv, RowsSaySo, LateSearches

LEMMA SucceedGuides ==
  ASSUME Inv, Inv', GuideInv, NEW c, Shape(c), Guide(c), Grows(case, c, 0),
         NEW rows \in Seq(Rows), Len(rows) = Len(case.jobs), RowsSaySo(rows, case), Succeed(c, rows)
  PROVE  GuideInv'
<1>1. case' \in Gate(c) /\ ledger' = Enqueue(rows, case') /\ late' = late  BY DEF Succeed
<1>2. Guides(c, case')  BY <1>1, GateGuides
<1>3. Guide(case') /\ Grows(case, case', 0)  BY <1>2, GuidesGuide, GrowsTwice DEF Guides
<1>4. Shape(case')  BY DEF Inv, CaseInv, CoreInv
<1>5. 0 \notin Jobs(case)  BY DEF Jobs
<1> QED BY <1>1, <1>3, <1>4, <1>5, GuidedNext

\* Cancelling says nothing of what a job has found.
LEMMA CancelSays ==
  ASSUME Inv, GuideInv, NEW stopped, NEW queued
  PROVE  RowsSaySo(RequestCancel(stopped, queued), case)
<1> DEFINE rows == RequestCancel(stopped, queued)
<1>1. ASSUME NEW i \in Jobs(case) PROVE SaysSo(rows[i], case.jobs[i].kind, case.out[i])
  <2>1. /\ ledger[i] \in Rows /\ SaysSo(ledger[i], case.jobs[i].kind, case.out[i])
        /\ rows[i] = IF i \in queued THEN [ledger[i] EXCEPT !.run = "CANCELLED", !.asked = TRUE]
                     ELSE IF i \in stopped /\ ledger[i].run \in {"open", "STALE"}
                     THEN [ledger[i] EXCEPT !.asked = TRUE] ELSE ledger[i]
    BY InvFacts DEF GuideInv, RowsSaySo, RequestCancel
  <2> HIDE DEF rows
  <2>2. rows[i].content = ledger[i].content /\ rows[i].run \in {"CANCELLED", ledger[i].run}
    <3>1. CASE i \in queued
      <4>1. rows[i] = [ledger[i] EXCEPT !.run = "CANCELLED", !.asked = TRUE]  BY <2>1, <3>1
      <4> QED BY <2>1, <4>1 DEF Rows
    <3>2. CASE i \notin queued
      <4>1. rows[i] = ledger[i] \/ rows[i] = [ledger[i] EXCEPT !.asked = TRUE]  BY <2>1, <3>2
      <4> QED BY <2>1, <4>1 DEF Rows
    <3> QED BY <3>1, <3>2
  <2> QED BY <2>1, <2>2 DEF SaysSo
<1> QED BY <1>1 DEF RowsSaySo

LEMMA CommandGuides ==
  ASSUME Inv, Inv', GuideInv, Command
  PROVE  GuideInv'
<1>0. /\ CaseInv(case) /\ CaseInv(View) /\ Guide(case) /\ Guide(View) /\ Grows(case, View, 0)
      /\ ledger \in Seq(Rows) /\ Len(ledger) = Len(case.jobs) /\ RowsSaySo(ledger, case)
  BY InvFacts, ViewFacts, ViewGuides DEF GuideInv
<1> SUFFICES ASSUME NEW c, Shape(c), Guide(c), Grows(case, c, 0), NEW rows \in Seq(Rows),
                    Len(rows) = Len(case.jobs), RowsSaySo(rows, case), Succeed(c, rows)
             PROVE  GuideInv'
  <2>1. CASE \E described \in BOOLEAN : StartAnalysis(described)
    <3>1. PICK described \in BOOLEAN : StartAnalysis(described)  BY <2>1
    <3> DEFINE c == BeginAnalysis([case EXCEPT !.stage = "SEARCHING"], described)
    <3>2. case.stage = "INTAKE" /\ Succeed(c, ledger)  BY <3>1 DEF StartAnalysis
    <3>3. c = BeginAnalysis([case EXCEPT !.stage = "SEARCHING"], described)  OBVIOUS
    <3> HIDE DEF c
    <3>4. Guide(c) /\ Grows(case, c, 0)  BY <1>0, <3>2, <3>3, StartLed
    <3>5. Shape(c)  BY <1>0, <3>2, <3>3, StartCommanded DEF Commanded, CaseInv, CoreInv
    <3> QED BY <1>0, <3>2, <3>4, <3>5
  <2>2. CASE \E described \in BOOLEAN : EditHint(described)
    <3>1. PICK described \in BOOLEAN : EditHint(described)  BY <2>2
    <3> DEFINE c == BeginAnalysis([StartOver(View) EXCEPT !.unclear = FALSE, !.failed = "no"], described)
    <3>2. Succeed(c, ledger) /\ (View.stage = "SEARCHING" => ~SearchAwaited(View))
      BY <3>1 DEF EditHint
    <3>3. c = BeginAnalysis([StartOver(View) EXCEPT !.unclear = FALSE, !.failed = "no"], described)
      OBVIOUS
    <3> HIDE DEF c
    <3>4. Guide(c) /\ Grows(View, c, 0)  BY <1>0, <3>3, EditLed
    <3>5. Shape(c)  BY <1>0, <3>2, <3>3, EditCommanded DEF Commanded, CaseInv, CoreInv
    <3> QED BY <1>0, <3>2, <3>4, <3>5, GrowsTwice
  <2>3. CASE StopAnalysis
    <3> DEFINE stopped == Waiting(View) \intersect OfKind(View, Analysis)
               c == Settle(View, stopped, "CANCELLED")
    <3>1. PICK queued \in SUBSET {i \in stopped : ledger[i].run = "open"} :
            Succeed(c, RequestCancel(stopped, queued))
      BY <2>3 DEF StopAnalysis
    <3>2. \A i \in stopped : View.jobs[i].kind \in Analysis  BY DEF OfKind
    <3>3. c = Settle(View, stopped, "CANCELLED")  OBVIOUS
    <3> HIDE DEF c, stopped
    <3>4. Guide(c) /\ Grows(View, c, 0)  BY <1>0, <3>2, <3>3, StopLed
    <3>5. Shape(c)  BY <1>0, <3>3, StopCommanded DEF Commanded, CaseInv, CoreInv
    <3>6. /\ RequestCancel(stopped, queued) \in Seq(Rows)
          /\ Len(RequestCancel(stopped, queued)) = Len(case.jobs)
      BY CancelKept DEF Kept, Matches
    <3>7. RowsSaySo(RequestCancel(stopped, queued), case)  BY CancelSays
    <3> QED BY <1>0, <3>1, <3>4, <3>5, <3>6, <3>7, GrowsTwice
  <2>4. CASE RetrySearch
    <3> DEFINE prior == LatestRecord(View, "COARSE_SEARCH")
               v == IF View.stage = "CANDIDATE_REVIEW" THEN Regress(View) ELSE View
               c == IssueSameInput(v, prior)
    <3>1. RetrySearchOffered(View) /\ prior # 0 /\ Succeed(c, ledger)  BY <2>4 DEF RetrySearch
    <3>2. ~SearchAwaited(View) /\ View.stage \in {"SEARCHING", "CANDIDATE_REVIEW"}
      BY <3>1 DEF RetrySearchOffered, Halted, Halts, HaltReason, NoCandidates
    <3>3. /\ v = IF View.stage = "CANDIDATE_REVIEW" THEN Regress(View) ELSE View
          /\ prior = LatestRecord(View, "COARSE_SEARCH") /\ c = IssueSameInput(v, prior)
      OBVIOUS
    <3> HIDE DEF c, v, prior
    <3>4. Guide(c) /\ Grows(View, c, 0)  BY <1>0, <3>1, <3>2, <3>3, RepeatLed
    <3>5. Shape(c)  BY <1>0, <3>1, <3>2, <3>3, RetryCommanded DEF Commanded, CaseInv, CoreInv
    <3> QED BY <1>0, <3>1, <3>4, <3>5, GrowsTwice
  <2>5. CASE RetryPlateRead
    <3> DEFINE c == IssueSameInput(View, LatestRecord(View, "PLATE_READ"))
    <3>1. PlateFailed(View) /\ Succeed(c, ledger)  BY <2>5 DEF RetryPlateRead, RetryPlateOffered
    <3>2. c = IssueSameInput(View, LatestRecord(View, "PLATE_READ"))  OBVIOUS
    <3> HIDE DEF c
    <3>3. Guide(c) /\ Grows(View, c, 0)  BY <1>0, <3>1, <3>2, PlateLed
    <3>4. Shape(c)  BY <1>0, <3>1, <3>2, PlateCommanded DEF Commanded, CaseInv, CoreInv
    <3> QED BY <1>0, <3>1, <3>3, <3>4, GrowsTwice
  <2>6. CASE EvidenceCommand
    <3> DEFINE c == [View EXCEPT !.stage = "EVIDENCE_REVIEW"]
    <3>1. View.stage \in Reviewing /\ Succeed(c, ledger)  BY <2>6 DEF EvidenceCommand
    <3>2. c = [View EXCEPT !.stage = "EVIDENCE_REVIEW"]  OBVIOUS
    <3> HIDE DEF c
    <3>3. Guide(c) /\ Grows(View, c, 0)  BY <1>0, <3>1, <3>2, EvidenceLed
    <3>4. Shape(c)  BY <1>0, <3>1, <3>2, EvidenceCommanded DEF Commanded, CaseInv, CoreInv
    <3> QED BY <1>0, <3>1, <3>3, <3>4, GrowsTwice
  <2>7. CASE \E cand \in case.cands : SelectOther(cand)
    <3>1. PICK cand \in case.cands : SelectOther(cand)  BY <2>7
    <3> DEFINE c == Reselect(View, cand)
    <3>2. MayReselect(View, cand) /\ Succeed(c, ledger)  BY <3>1 DEF SelectOther
    <3>3. c = Reselect(View, cand)  OBVIOUS
    <3> HIDE DEF c
    <3>4. Guide(c) /\ Grows(View, c, 0)  BY <1>0, <3>2, <3>3, ReselectLed
    <3>5. Shape(c)  BY <1>0, <3>2, <3>3, ReselectCommanded DEF Commanded, CaseInv, CoreInv
    <3> QED BY <1>0, <3>2, <3>4, <3>5, GrowsTwice
  <2> QED BY <2>1, <2>2, <2>3, <2>4, <2>5, <2>6, <2>7 DEF Command
<1> QED BY SucceedGuides

\* The result of an observation is what its row will say.
LEMMA RunEndsGuides ==
  ASSUME Inv, GuideInv, NEW i, RunEnds(i)
  PROVE  GuideInv'
<1> DEFINE kind == case.jobs[i].kind
<1>1. /\ case' = case /\ late' = late /\ i \in Jobs(case) /\ ledger[i].run = "open" /\ ledger[i] \in Rows
      /\ ledger \in Seq(Rows) /\ DOMAIN ledger = Jobs(case) /\ Fits(ledger[i], kind, case.settled[i])
  BY InvFacts DEF RunEnds, RunSucceeds, RunFails, RunIsLost, RunIsCancelled, Runs
<1>2. case.out[i] = "none"
  <2>1. case.settled[i] # "REFLECTED"  BY <1>1 DEF Fits
  <2>2. OutsReflected(case)  BY InvFacts DEF CoreInv, History, Past
  <2> QED BY <1>1, <2>1, <2>2 DEF OutsReflected
<1>3. kind \in Observation => kind # "COARSE_SEARCH" /\ kind # "HINT_EXTRACT"
  BY DEF Observation, Readout
<1>4. SUFFICES ASSUME NEW row, ledger' = [ledger EXCEPT ![i] = row], SaysSo(row, kind, "none")
               PROVE  GuideInv'
  <2>1. CASE RunSucceeds(i)
    <3>1. PICK content \in Results(kind), n \in Counts(i) :
            ledger' = [ledger EXCEPT ![i].run = "SUCCEEDED", ![i].content = content, ![i].found = n]
      BY <2>1 DEF RunSucceeds
    <3> DEFINE row == [ledger[i] EXCEPT !.run = "SUCCEEDED", !.content = content, !.found = n]
    <3>2. content # "FAILED"  BY CaseJobsAssumption DEF Results
    <3>3. row.run = "SUCCEEDED" /\ row.content = content  BY <1>1 DEF Rows
    <3>4. ledger' = [ledger EXCEPT ![i] = row]  BY <3>1
    <3> HIDE DEF row
    <3>5. SaysSo(row, kind, "none")  BY <3>2, <3>3 DEF SaysSo
    <3> QED BY <3>4, <3>5
  <2>2. CASE RunFails(i)
    <3>1. PICK content \in Failures(kind) :
            ledger' = [ledger EXCEPT ![i].run = "FAILED", ![i].content = content]
      BY <2>2 DEF RunFails
    <3> DEFINE row == [ledger[i] EXCEPT !.run = "FAILED", !.content = content]
    <3>2. kind \in Observation => content = "FAILED"  BY <1>3 DEF Failures
    <3>3. row.run = "FAILED" /\ row.content = content  BY <1>1 DEF Rows
    <3>4. ledger' = [ledger EXCEPT ![i] = row]  BY <3>1
    <3> HIDE DEF row
    <3>5. SaysSo(row, kind, "none")  BY <3>2, <3>3 DEF SaysSo
    <3> QED BY <3>4, <3>5
  <2>3. CASE RunIsLost(i)
    <3> DEFINE told == kind = "HINT_EXTRACT" /\ ~ledger[i].asked
               row == [ledger[i] EXCEPT !.run = "STALE", !.notice = told]
    <3>1. ledger' = [ledger EXCEPT ![i] = row]  BY <2>3 DEF RunIsLost
    <3> HIDE DEF told
    <3>2. row.run = "STALE"  BY <1>1 DEF Rows
    <3> HIDE DEF row
    <3>3. SaysSo(row, kind, "none")  BY <3>2 DEF SaysSo
    <3> QED BY <3>1, <3>3
  <2>4. CASE RunIsCancelled(i)
    <3> DEFINE row == [ledger[i] EXCEPT !.run = "CANCELLED"]
    <3>1. ledger' = [ledger EXCEPT ![i] = row]  BY <2>4 DEF RunIsCancelled
    <3>2. row.run = "CANCELLED"  BY <1>1 DEF Rows
    <3> HIDE DEF row
    <3>3. SaysSo(row, kind, "none")  BY <3>2 DEF SaysSo
    <3> QED BY <3>1, <3>3
  <2> QED BY <2>1, <2>2, <2>3, <2>4 DEF RunEnds
<1>5. ledger'[i] = row /\ \A k \in Jobs(case) : k # i => ledger'[k] = ledger[k]  BY <1>1, <1>4
<1>6. RowsSaySo(ledger', case)
  BY <1>2, <1>4, <1>5 DEF GuideInv, RowsSaySo
<1> QED BY <1>1, <1>6 DEF GuideInv, LateSearches

\* A delivery tells the case what the row says, or nothing.
LEMMA ReceivedGuides ==
  ASSUME Inv, Inv', GuideInv, NEW i \in Jobs(case), NEW c, Received(i, c), Guide(c),
         \/ Grows(case, c, 0)
         \/ Grows(case, c, i) /\ c.out[i] = ledger[i].content
  PROVE  GuideInv'
<1> DEFINE rows == Stamped(i)
<1>1. case' = c /\ late' = late /\ ledger' = Enqueue(rows, c)  BY DEF Received, Stamped
<1>2. /\ rows \in Seq(Rows) /\ Len(rows) = Len(ledger)
      /\ \A k \in Jobs(case) : k # i => rows[k] = ledger[k]
      /\ rows[i].run = ledger[i].run /\ rows[i].content = ledger[i].content
  BY ReceiptFacts
<1> HIDE DEF rows
<1>3. RowsSaySo(rows, case)  BY <1>2 DEF GuideInv, RowsSaySo, SaysSo
<1>4. Shape(case') /\ Len(rows) = Len(case.jobs)  BY <1>2, InvFacts DEF Inv, CaseInv, CoreInv
<1>5. 0 \notin Jobs(case)  BY DEF Jobs
<1>6. CASE Grows(case, c, 0)  BY <1>1, <1>2, <1>3, <1>4, <1>5, <1>6, GuidedNext
<1>7. CASE Grows(case, c, i) /\ c.out[i] = ledger[i].content
  BY <1>1, <1>2, <1>3, <1>4, <1>7, GuidedNext
<1> QED BY <1>6, <1>7

LEMMA ResultGuides ==
  ASSUME Inv, GuideInv, NEW i \in Jobs(case), HasResult(i), View.settled[i] = "waiting", NEW d \in Apply(View, i)
  PROVE  /\ Guide(d)
         /\ \/ Grows(case, d, 0)
            \/ Grows(case, d, i) /\ d.out[i] = ledger[i].content
<1> DEFINE kind == View.jobs[i].kind
<1>1. /\ CaseInv(View) /\ Shape(View) /\ i \in Jobs(View) /\ View.jobs = case.jobs
      /\ Fits(ledger[i], kind, case.settled[i]) /\ ledger[i] \in Rows
      /\ Guide(View) /\ Grows(case, View, 0)
  BY InvFacts, ViewFacts, ViewGuides DEF CaseInv, CoreInv
<1>2. kind \in Kinds  BY <1>1, ShapeFacts DEF JobRecord
<1>3. ledger[i].run \in {"SUCCEEDED", "FAILED"}  BY DEF HasResult
<1>4. CASE kind = "HINT_EXTRACT"
  <2> DEFINE unclear == ledger[i].content = "UNCLEAR"
  <2>1. d = HintsArrive(View, i, unclear, "REFLECTED")  BY <1>4 DEF Apply
  <2>2. unclear \in BOOLEAN  OBVIOUS
  <2> HIDE DEF unclear
  <2>3. Guide(d) /\ Grows(View, d, 0)  BY <1>1, <1>4, <2>1, <2>2, HintsLed
  <2> QED BY <1>1, <2>3, GrowsTwice
<1>5. CASE kind = "COARSE_SEARCH"
  <2>1. d = ApplySearch(View, i)  BY <1>5 DEF Apply
  <2>2. ledger[i].found \in Nat  BY <1>1 DEF Rows
  <2>3. ledger[i].run = "FAILED" => ledger[i].content \in {"retry", "fatal"}  BY <1>1, <1>5 DEF Fits
  <2>4. Guide(d) /\ Grows(View, d, 0)  BY <1>1, <1>5, <2>1, <2>2, <2>3, SearchLed
  <2> QED BY <1>1, <2>4, GrowsTwice
<1>6. CASE kind \in Observation
  <2>1. /\ ledger[i].content \in {"OK", "NOT_OBSERVED", "NO_VISUAL", "FAILED"}
        /\ kind # "FINE_VERIFY" => ledger[i].content \in {"OK", "FAILED"}
    BY <1>1, <1>3, <1>6 DEF Fits
  <2>2. Guide(d) /\ Grows(View, d, i) /\ d.out[i] = ledger[i].content
    BY <1>1, <1>6, <2>1, ObservationLed
  <2>3. Grows(case, d, i)
    <3>1. 0 \notin Jobs(case)  BY DEF Jobs
    <3> HIDE DEF kind
    <3> QED BY <1>1, <2>2, <3>1 DEF Grows
  <2> QED BY <2>2, <2>3
<1> QED BY <1>2, <1>4, <1>5, <1>6 DEF Kinds, Analysis

LEMMA DeliverGuides ==
  ASSUME Inv, Inv', GuideInv, NEW i, Deliver(i)
  PROVE  GuideInv'
<1>1. i \in Jobs(case) /\ CaseInv(case) /\ Guide(case) /\ Guide(View) /\ Grows(case, View, 0)
      /\ Fits(ledger[i], case.jobs[i].kind, case.settled[i])
  BY InvFacts, ViewGuides DEF Deliver, DeliverResult, DeliverNotice, GuideInv
<1>2. Grows(case, case, 0)  BY DEF Grows
<1>3. CASE Received(i, case)  BY <1>1, <1>2, <1>3, ReceivedGuides
<1>4. CASE Received(i, View)  BY <1>1, <1>4, ReceivedGuides
<1>5. CASE /\ HasResult(i) /\ Awaits(View, i)
           /\ \E d \in Apply(View, i) : Received(i, [d EXCEPT !.processed = @ \union {i}])
  <2>1. PICK d \in Apply(View, i) : Received(i, [d EXCEPT !.processed = @ \union {i}])  BY <1>5
  <2>2. View.settled[i] = "waiting"  BY <1>5 DEF Awaits
  <2>3. /\ Guide(d)
        /\ \/ Grows(case, d, 0)
           \/ Grows(case, d, i) /\ d.out[i] = ledger[i].content
    BY <1>1, <1>5, <2>2, ResultGuides
  <2>4. Shape(d)  BY <1>1, <1>5, <2>2, ResultApplied DEF Applied, CaseInv, CoreInv
  <2> DEFINE e == [d EXCEPT !.processed = @ \union {i}]
  <2>5. /\ e.jobs = d.jobs /\ e.settled = d.settled /\ e.out = d.out /\ e.cands = d.cands
        /\ e.selected = d.selected /\ e.stage = d.stage /\ e.failed = d.failed
    BY <2>4 DEF Shape, CaseRecord
  <2>6. Received(i, e)  BY <2>1
  <2> HIDE DEF e
  <2>7. Guides(d, e)  BY <2>5, GuideFrame
  <2>8. Guide(e)  BY <2>3, <2>7, GuidesGuide
  <2>9. \/ Grows(case, e, 0)
        \/ Grows(case, e, i) /\ e.out[i] = ledger[i].content
    BY <2>3, <2>5, <2>7, GrowsTwice DEF Guides
  <2> QED BY <1>1, <2>6, <2>8, <2>9, ReceivedGuides
<1>6. CASE /\ ledger[i].notice /\ Received(i, HintsArrive(case, i, FALSE, "EXHAUSTED"))
  <2> DEFINE e == HintsArrive(case, i, FALSE, "EXHAUSTED")
  <2>1. case.jobs[i].kind = "HINT_EXTRACT"  BY <1>1, <1>6 DEF Fits
  <2>2. Received(i, e) /\ e = HintsArrive(case, i, FALSE, "EXHAUSTED")  BY <1>6
  <2> HIDE DEF e
  <2>3. Guide(e) /\ Grows(case, e, 0)  BY <1>1, <2>1, <2>2, HintsLed
  <2> QED BY <1>1, <2>2, <2>3, ReceivedGuides
<1>7. CASE DeliverResult(i)  BY <1>3, <1>4, <1>5, <1>7 DEF DeliverResult
<1>8. CASE DeliverNotice(i)  BY <1>3, <1>6, <1>8 DEF DeliverNotice
<1> QED BY <1>7, <1>8 DEF Deliver

LEMMA InitGuides ==
  ASSUME Init
  PROVE  GuideInv
<1>1. case = EmptyCase /\ late = {} /\ Jobs(case) = {}  BY DEF Init, EmptyCase, Jobs
<1>2. /\ case.stage = "INTAKE" /\ case.cands = {} /\ case.selected = NoCand /\ case.failed = "no"
  BY <1>1 DEF EmptyCase
<1>3. FineMade(case) /\ Observed(case) /\ NothingFound(case)  BY <1>2, NothingSelected
<1>4. SearchTold(case) /\ SearchMade(case) /\ Followed(case, 0)
  BY <1>1, <1>2 DEF SearchTold, SearchMade, Followed
<1> QED BY <1>1, <1>3, <1>4 DEF GuideInv, Guide, RowsSaySo, LateSearches

LEMMA GuidesOn ==
  ASSUME Inv, Inv', GuideInv, [Next]_vars
  PROVE  GuideInv'
<1>1. CASE UNCHANGED vars
  BY <1>1 DEF vars, GuideInv, RowsSaySo, LateSearches
<1>2. CASE Command  BY <1>2, CommandGuides
<1>3. ASSUME NEW i \in JobId, RunEnds(i) PROVE GuideInv'  BY <1>3, RunEndsGuides
<1>4. ASSUME NEW i \in JobId, DeadlinePasses(i) PROVE GuideInv'
  <2>1. /\ case' = case /\ ledger' = ledger /\ late' = late \union {i}
        /\ case.jobs[i].kind = "COARSE_SEARCH"
    BY <1>4 DEF DeadlinePasses
  <2> QED BY <2>1 DEF GuideInv, RowsSaySo, LateSearches
<1>5. ASSUME NEW i \in JobId, PickUp(i) \/ LetGo(i) PROVE GuideInv'
  <2>1. case' = case /\ ledger' = ledger /\ late' = late  BY <1>5 DEF PickUp, LetGo
  <2> QED BY <2>1 DEF GuideInv, RowsSaySo, LateSearches
<1>6. ASSUME NEW i \in JobId, Deliver(i) PROVE GuideInv'  BY <1>6, DeliverGuides
<1> QED BY <1>1, <1>2, <1>3, <1>4, <1>5, <1>6 DEF Next

\* In every state the last search decides what the user is told, every success
\* has its next job, and the last observation of each kind is not given up.
THEOREM GuideInvariant == Spec => [](Inv /\ GuideInv)
<1>1. Spec => []Inv  BY CaseInvariant
<1>2. Init => GuideInv  BY InitGuides
<1>3. Inv /\ Inv' /\ GuideInv /\ [Next]_vars => GuideInv'  BY GuidesOn
<1> QED BY <1>1, <1>2, <1>3, PTL DEF Spec

-----------------------------------------------------------------------------
(* Screens.                                                                *)

\* What selectScreen has looked at before it picks a screen.
LEMMA ScreenFacts ==
  ASSUME NEW c
  PROVE  /\ Screen(c) = "NOT_OBSERVED" => NotObserved(c)
         /\ Screen(c) = "SEARCH_FAILED" => Waiting(c) = {} /\ (DeadEnd(c) \/ CoarseStep(c) = "FAILED")
         /\ Screen(c) = "STOPPED" => CoarseStep(c) = "PARTIAL"
         /\ Screen(c) = "NO_RESULT" => Waiting(c) = {} /\ NoCandidates(c)
         /\ Screen(c) = "PROGRESS" /\ Waiting(c) = {} =>
              /\ HasEvidence(c) \/ ~NotObserved(c)
              /\ ~DeadEnd(c)
              /\ \/ c.stage = "EVIDENCE_REVIEW" /\ ~HasEvidence(c)
                 \/ /\ CoarseStep(c) \notin {"PARTIAL", "FAILED"} /\ ~NoCandidates(c)
                    /\ c.stage \notin {"READY", "EVIDENCE_REVIEW"}
<1> DEFINE over == Waiting(c) = {}
           evidence == HasEvidence(c)
           search == CoarseStep(c)
           rules == Rules(c)
           First(k) == rules[k].holds /\ \A j \in 1 .. (k - 1) : ~rules[j].holds
           k == CHOOSE k \in 1 .. 8 : First(k)
<1>1. rules = << When(~evidence /\ NotObserved(c), "NOT_OBSERVED"),
                 When(over /\ DeadEnd(c), "SEARCH_FAILED"),
                 When(c.stage = "EVIDENCE_REVIEW" /\ ~evidence, "PROGRESS"),
                 When(search = "PARTIAL", "STOPPED"),
                 When(over /\ search = "FAILED", "SEARCH_FAILED"),
                 When(over /\ NoCandidates(c), "NO_RESULT"),
                 When(c.stage = "READY" \/ (c.stage = "EVIDENCE_REVIEW" /\ over), "EVIDENCE"),
                 When(TRUE, "PROGRESS") >>
  BY DEF Rules
<1>2. /\ rules[1].holds = (~evidence /\ NotObserved(c)) /\ rules[1].screen = "NOT_OBSERVED"
      /\ rules[2].holds = (over /\ DeadEnd(c)) /\ rules[2].screen = "SEARCH_FAILED"
      /\ rules[3].holds = (c.stage = "EVIDENCE_REVIEW" /\ ~evidence) /\ rules[3].screen = "PROGRESS"
      /\ rules[4].holds = (search = "PARTIAL") /\ rules[4].screen = "STOPPED"
      /\ rules[5].holds = (over /\ search = "FAILED") /\ rules[5].screen = "SEARCH_FAILED"
      /\ rules[6].holds = (over /\ NoCandidates(c)) /\ rules[6].screen = "NO_RESULT"
      /\ rules[7].holds = (c.stage = "READY" \/ (c.stage = "EVIDENCE_REVIEW" /\ over))
      /\ rules[7].screen = "EVIDENCE"
      /\ rules[8].holds = TRUE /\ rules[8].screen = "PROGRESS"
  <2> HIDE DEF rules, over, evidence, search
  <2> QED BY <1>1 DEF When
<1>3. DOMAIN rules = 1 .. 8
  <2> HIDE DEF rules, over, evidence, search
  <2> QED BY <1>1
<1>4. Screen(c) = rules[k].screen  BY <1>3 DEF Screen
<1>5. k \in 1 .. 8 /\ First(k)
  <2> SUFFICES \E x \in 1 .. 8 : First(x)  OBVIOUS
  <2> HIDE DEF rules, over, evidence, search
  <2>0. /\ 1 .. 0 = {} /\ 1 .. 1 = {1} /\ 1 .. 2 = {1, 2} /\ 1 .. 3 = {1, 2, 3} /\ 1 .. 4 = {1, 2, 3, 4}
        /\ 1 .. 5 = {1, 2, 3, 4, 5} /\ 1 .. 6 = {1, 2, 3, 4, 5, 6} /\ 1 .. 7 = {1, 2, 3, 4, 5, 6, 7}
    OBVIOUS
  <2>1. CASE rules[1].holds  BY <2>0, <2>1
  <2>2. CASE ~rules[1].holds /\ rules[2].holds  BY <2>0, <2>2
  <2>3. CASE ~rules[1].holds /\ ~rules[2].holds /\ rules[3].holds  BY <2>0, <2>3
  <2>4. CASE ~rules[1].holds /\ ~rules[2].holds /\ ~rules[3].holds /\ rules[4].holds  BY <2>0, <2>4
  <2>5. CASE ~rules[1].holds /\ ~rules[2].holds /\ ~rules[3].holds /\ ~rules[4].holds /\ rules[5].holds
    BY <2>0, <2>5
  <2>6. CASE /\ ~rules[1].holds /\ ~rules[2].holds /\ ~rules[3].holds /\ ~rules[4].holds
             /\ ~rules[5].holds /\ rules[6].holds
    BY <2>0, <2>6
  <2>7. CASE /\ ~rules[1].holds /\ ~rules[2].holds /\ ~rules[3].holds /\ ~rules[4].holds
             /\ ~rules[5].holds /\ ~rules[6].holds /\ rules[7].holds
    BY <2>0, <2>7
  <2>8. CASE /\ ~rules[1].holds /\ ~rules[2].holds /\ ~rules[3].holds /\ ~rules[4].holds
             /\ ~rules[5].holds /\ ~rules[6].holds /\ ~rules[7].holds
    <3>1. First(8)  BY <1>2, <2>0, <2>8
    <3> HIDE DEF First
    <3> QED BY <3>1
  <2> QED BY <2>1, <2>2, <2>3, <2>4, <2>5, <2>6, <2>7, <2>8
<1> HIDE DEF rules, k
<1>6. CASE k = 1  BY <1>2, <1>4, <1>5, <1>6
<1>7. CASE k = 2  BY <1>2, <1>4, <1>5, <1>7
<1>8. CASE k = 3
  <2>1. ~rules[1].holds /\ ~rules[2].holds  BY <1>5, <1>8
  <2> QED BY <1>2, <1>4, <1>5, <1>8, <2>1
<1>9. CASE k = 4  BY <1>2, <1>4, <1>5, <1>9
<1>10. CASE k = 5  BY <1>2, <1>4, <1>5, <1>10
<1>11. CASE k = 6  BY <1>2, <1>4, <1>5, <1>11
<1>12. CASE k = 7  BY <1>2, <1>4, <1>12
<1>13. CASE k = 8
  <2>1. \A j \in {1, 2, 3, 4, 5, 6, 7} : ~rules[j].holds  BY <1>5, <1>13
  <2> QED BY <1>2, <1>4, <1>13, <2>1
<1> QED BY <1>5, <1>6, <1>7, <1>8, <1>9, <1>10, <1>11, <1>12, <1>13

LEMMA CoarseFacts ==
  ASSUME NEW c
  PROVE  /\ CoarseStep(c) = "PARTIAL" <=> c.stage = "SEARCHING" /\ Halted(c)
         /\ CoarseStep(c) = "FAILED" <=> c.stage = "SEARCHING" /\ ~Halted(c) /\ c.failed # "no" /\ ~SearchAwaited(c)
<1>1. CASE c.stage = "INTAKE"  BY <1>1 DEF CoarseStep
<1>2. CASE c.stage \notin {"INTAKE", "SEARCHING"}  BY <1>2 DEF CoarseStep
<1>3. CASE c.stage = "SEARCHING" /\ Halted(c)  BY <1>3 DEF CoarseStep
<1>4. CASE c.stage = "SEARCHING" /\ ~Halted(c) /\ c.failed # "no" /\ ~SearchAwaited(c)
  BY <1>4 DEF CoarseStep
<1>5. CASE c.stage = "SEARCHING" /\ ~Halted(c) /\ ~(c.failed # "no" /\ ~SearchAwaited(c))
  BY <1>5 DEF CoarseStep
<1> QED BY <1>1, <1>2, <1>3, <1>4, <1>5

\* A search that is over was halted or has failed.
LEMMA SearchIsTold ==
  ASSUME NEW c, Shape(c), SearchTold(c), c.stage = "SEARCHING", ~SearchAwaited(c)
  PROVE  CoarseStep(c) \in {"PARTIAL", "FAILED"}
<1> DEFINE S == OfKind(c, Analysis)
           last == Largest(S)
<1>1. \A i : i \in S <=> i \in Jobs(c) /\ c.jobs[i].kind \in Analysis  BY ShapeFacts DEF OfKind
<1>2. PICK i \in Jobs(c) :
        /\ c.jobs[i].kind \in Analysis
        /\ \A k \in Jobs(c) : c.jobs[k].kind \in Analysis => k <= i
        /\ \/ c.settled[i] \in {"waiting"} \union Halts
           \/ c.settled[i] = "REFLECTED" /\ c.jobs[i].kind = "COARSE_SEARCH" /\ c.failed # "no"
  BY DEF SearchTold
<1>3. Len(c.jobs) \in Nat /\ S \subseteq 1 .. Len(c.jobs)  BY <1>1, ShapeFacts DEF Jobs
<1>4. S # {} /\ i \in S  BY <1>1, <1>2
<1>5. HaltReason(c) = c.settled[last]  BY <1>4 DEF HaltReason
<1> HIDE DEF S
<1>6. last \in S /\ \A k \in S : k <= last  BY <1>3, <1>4, LargestFacts
<1> HIDE DEF last
<1>7. last = i
  <2>1. last <= i /\ i <= last  BY <1>1, <1>2, <1>4, <1>6
  <2>2. last \in Nat /\ i \in Nat  BY <1>1, <1>6, ShapeFacts
  <2> QED BY <2>1, <2>2
<1>8. c.settled[i] # "waiting"  BY <1>2, WaitingFacts DEF AwaitsSearch
<1>9. Halted(c) \/ c.failed # "no"  BY <1>2, <1>5, <1>7, <1>8 DEF Halted
<1> QED BY <1>9, CoarseFacts

LEMMA LastExists ==
  ASSUME NEW c, Shape(c), NEW i \in Jobs(c)
  PROVE  \E g \in Jobs(c) : /\ c.jobs[g].kind = c.jobs[i].kind /\ c.jobs[g].cand = c.jobs[i].cand
                            /\ LastOf(c, g)
<1> DEFINE S == {k \in Jobs(c) : c.jobs[k].kind = c.jobs[i].kind /\ c.jobs[k].cand = c.jobs[i].cand}
<1>1. Len(c.jobs) \in Nat /\ S \subseteq 1 .. Len(c.jobs) /\ S # {}  BY ShapeFacts DEF Jobs
<1>2. Largest(S) \in S /\ \A k \in S : k <= Largest(S)
  <2> HIDE DEF S
  <2> QED BY <1>1, LargestFacts
<1>3. LastOf(c, Largest(S))  BY <1>2 DEF LastOf
<1> QED BY <1>2, <1>3

\* The last of the selected candidate's jobs of a kind is the one Largest names.
LEMMA LastIsLargest ==
  ASSUME NEW c, CoreInv(c), NEW kind \in Observation, NEW g \in Jobs(c), Own(c, g), c.jobs[g].kind = kind, LastOf(c, g),
         NEW S, S \subseteq Mine(c) \intersect OfKind(c, {kind}), g \in S
  PROVE  Largest(S) = g
<1>1. Shape(c) /\ Len(c.jobs) \in Nat  BY ShapeFacts DEF CoreInv
<1>2. \A k \in S : k \in Jobs(c) /\ Own(c, k) /\ c.jobs[k].kind = kind
  BY <1>1, OwnFacts, ShapeFacts DEF OfKind
<1>3. S \subseteq 1 .. Len(c.jobs) /\ S # {}  BY <1>2 DEF Jobs
<1>4. Largest(S) \in S /\ g <= Largest(S)  BY <1>1, <1>3, LargestFacts
<1>5. Largest(S) <= g  BY <1>2, <1>4 DEF LastOf, Own
<1>6. Largest(S) \in Nat /\ g \in Nat  BY <1>1, <1>2, <1>4, ShapeFacts
<1> QED BY <1>4, <1>5, <1>6

\* A case whose rows say what it was told.
Shown(c) ==
  /\ CaseInv(c) /\ Guide(c) /\ RowsSaySo(ledger, c)
  /\ \A i \in Jobs(c) : c.settled[i] = "REFLECTED" => HasResult(i)

LEMMA ViewShown ==
  ASSUME Inv, GuideInv
  PROVE  Shown(View)
<1>1. /\ CaseInv(View) /\ Guide(View) /\ Jobs(View) = Jobs(case)
      /\ View.jobs = case.jobs /\ View.out = case.out
      /\ \A i \in Jobs(case) : View.settled[i] = case.settled[i] \/ View.settled[i] = "STOPPED_WAITING"
  BY InvFacts, ViewFacts, ViewGuides
<1>2. RowsSaySo(ledger, View)  BY <1>1 DEF GuideInv, RowsSaySo
<1>3. \A i \in Jobs(View) : View.settled[i] = "REFLECTED" => HasResult(i)
  BY <1>1, InvFacts DEF Fits, HasResult
<1> QED BY <1>1, <1>2, <1>3 DEF Shown

\* The last observation of a kind about the selected candidate is taken when
\* nothing is waited for.
LEMMA LastIsTaken ==
  ASSUME NEW c, Shown(c), Waiting(c) = {}, NEW i \in Jobs(c), Own(c, i), LastOf(c, i)
  PROVE  /\ c.settled[i] = "REFLECTED" /\ HasResult(i) /\ ledger[i].content = c.out[i]
         /\ c.out[i] \in {"OK", "NOT_OBSERVED", "NO_VISUAL", "FAILED"}
         /\ c.jobs[i].kind # "FINE_VERIFY" => c.out[i] \in {"OK", "FAILED"}
         /\ ledger[i].run = IF c.out[i] = "FAILED" THEN "FAILED" ELSE "SUCCEEDED"
<1>1. /\ CoreInv(c) /\ Shape(c) /\ Staged(c) /\ OutsReflected(c) /\ OutsOfKind(c) /\ Observed(c)
      /\ SaysSo(ledger[i], c.jobs[i].kind, c.out[i])
  BY DEF Shown, CaseInv, CoreInv, History, Past, Present, Guide, RowsSaySo
<1>2. c.jobs[i].kind \in Observation /\ c.jobs[i].cand \in c.cands  BY <1>1 DEF Own, Staged
<1>3. c.settled[i] = "REFLECTED"
  <2>1. c.settled[i] # "waiting"  BY <1>1, WaitingFacts
  <2> QED BY <1>1, <1>2, <2>1 DEF Observed
<1>4. c.out[i] # "none" /\ HasResult(i)  BY <1>1, <1>2, <1>3 DEF OutsReflected, Shown
<1>5. /\ c.out[i] \in {"OK", "NOT_OBSERVED", "NO_VISUAL", "FAILED"}
      /\ c.jobs[i].kind # "FINE_VERIFY" => c.out[i] \in {"OK", "FAILED"}
  BY <1>1, <1>2, <1>4 DEF OutsOfKind
<1>6. ledger[i].content = c.out[i]  BY <1>1, <1>2, <1>4 DEF SaysSo
<1>7. ledger[i].run = IF c.out[i] = "FAILED" THEN "FAILED" ELSE "SUCCEEDED"
  BY <1>1, <1>2, <1>4, <1>6 DEF SaysSo, HasResult
<1> QED BY <1>3, <1>4, <1>5, <1>6, <1>7

\* A candidate under review of whom nothing is waited for has evidence, or a
\* notice says why not.
LEMMA ReviewTold ==
  ASSUME NEW c, Shown(c), Waiting(c) = {}, c.selected # NoCand,
         ~HasEvidence(c), ~NotObserved(c), ~WithoutVisual(c)
  PROVE  DeadEnd(c)
<1>1. /\ CoreInv(c) /\ Shape(c) /\ Superseded(c) /\ FineMade(c) /\ Followed(c, 0)
  BY DEF Shown, CaseInv, CoreInv, History, Past, Guide
<1>2. /\ {"FINE_VERIFY", "INCIDENT_CLIP_BUILD", "PLATE_READ"} \subseteq Observation
      /\ Readout \subseteq Observation /\ "PLATE_READ" \in Readout
      /\ "FINE_VERIFY" # "INCIDENT_CLIP_BUILD"
  BY DEF Observation, Readout
<1>3. PICK f \in Jobs(c) : /\ Fine(c, f)
                           /\ \/ c.out[f] \in {"OK", "NOT_OBSERVED"}
                              \/ \A k \in Jobs(c) : c.jobs[k].kind = "FINE_VERIFY" => k <= f
  BY <1>1 DEF FineMade
<1>4. Own(c, f) /\ c.jobs[f].kind = "FINE_VERIFY"  BY <1>3 DEF Fine
<1>5. LastOf(c, f)
  <2>1. CASE c.out[f] \in {"OK", "NOT_OBSERVED"}
    <3>1. ASSUME NEW k \in Jobs(c), c.jobs[k].kind = c.jobs[f].kind, c.jobs[k].cand = c.jobs[f].cand
          PROVE  k <= f
      BY <1>1, <1>2, <1>4, <2>1, <3>1, OneSucceeds
    <3> QED BY <3>1 DEF LastOf
  <2>2. CASE \A k \in Jobs(c) : c.jobs[k].kind = "FINE_VERIFY" => k <= f
    BY <1>4, <2>2 DEF LastOf
  <2> QED BY <1>3, <2>1, <2>2
<1>6. /\ HasResult(f) /\ ledger[f].content = c.out[f]
      /\ c.out[f] \in {"OK", "NOT_OBSERVED", "NO_VISUAL", "FAILED"}
      /\ ledger[f].run = IF c.out[f] = "FAILED" THEN "FAILED" ELSE "SUCCEEDED"
  BY <1>4, <1>5, LastIsTaken
<1> DEFINE fines == Mine(c) \intersect OfKind(c, {"FINE_VERIFY"})
           ran == {i \in fines : ledger[i].run = "SUCCEEDED"}
<1>7. f \in fines  BY <1>1, <1>4, OwnFacts, ShapeFacts DEF OfKind
<1>8. c.out[f] # "FAILED" => ran # {} /\ Largest(ran) = f
  <2> SUFFICES ASSUME c.out[f] # "FAILED" PROVE ran # {} /\ Largest(ran) = f  OBVIOUS
  <2>1. f \in ran /\ ran \subseteq fines  BY <1>6, <1>7
  <2> HIDE DEF ran
  <2> QED BY <1>1, <1>2, <1>4, <1>5, <2>1, LastIsLargest
<1>9. c.out[f] # "NO_VISUAL"  BY <1>6, <1>7 DEF WithoutVisual
<1>10. c.out[f] # "NOT_OBSERVED"  BY <1>6, <1>8 DEF NotObserved
<1>11. c.out[f] = "OK" => ~ReadoutsSettled(c)  BY <1>6, <1>8 DEF HasEvidence
<1> HIDE DEF fines, ran
<1>12. CASE c.out[f] = "FAILED"
  <2>1. LatestRecord(c, "FINE_VERIFY") = f
    <3>1. \A k \in Jobs(c) : c.jobs[k].kind = "FINE_VERIFY" => k <= f  BY <1>3, <1>12
    <3> DEFINE last == LatestRecord(c, "FINE_VERIFY")
    <3>2. last # 0 /\ f <= last /\ last \in Jobs(c) /\ c.jobs[last].kind = "FINE_VERIFY"
      BY <1>1, <1>4, LatestFacts
    <3> HIDE DEF last
    <3>3. last <= f /\ last \in Nat /\ f \in Nat  BY <1>1, <3>1, <3>2, ShapeFacts
    <3>4. last = f  BY <3>2, <3>3
    <3> QED BY <3>4 DEF last
  <2>2. f # 0 /\ ledger[f].run = "FAILED"  BY <1>1, <1>6, <1>12, ShapeFacts
  <2>3. ~ReadoutsSettled(c)
    <3> SUFFICES ASSUME ReadoutsSettled(c) PROVE FALSE  OBVIOUS
    <3>1. PICK p \in Jobs(c) : Read(c, "PLATE_READ", p)  BY <1>1, <1>2, ReadyMeans
    <3>2. PICK k, g \in Jobs(c) : Own(c, g) /\ c.jobs[g].kind = "FINE_VERIFY" /\ c.out[g] = "OK"
      <4>1. Own(c, p) /\ c.jobs[p].kind \in Readout  BY <1>2, <3>1 DEF Read
      <4> QED BY <1>1, <4>1, PlateComesFrom
    <3>3. f <= g
      <4>1. /\ c.jobs[g].kind = c.jobs[f].kind /\ c.jobs[g].kind \in Observation
            /\ c.jobs[g].cand = c.jobs[f].cand /\ c.out[g] \notin {"none", "FAILED", "NO_VISUAL"}
        BY <1>2, <1>4, <3>2 DEF Own
      <4> QED BY <1>1, <4>1, OneSucceeds
    <3>4. g <= f  BY <1>4, <1>5, <3>2 DEF LastOf, Own
    <3>5. f = g  BY <1>1, <3>3, <3>4, ShapeFacts
    <3> QED BY <1>12, <3>2, <3>5
  <2> QED BY <2>1, <2>2, <2>3 DEF VisualVerifyFailed, DeadEnd
<1>13. CASE c.out[f] = "OK"
  <2>1. FollowedBy(c, f)
    <3>1. f # 0  BY <1>1, ShapeFacts
    <3> QED BY <1>1, <3>1 DEF Followed
  <2>2. PICK k \in Jobs(c) : c.jobs[k].kind = "INCIDENT_CLIP_BUILD" /\ c.jobs[k].cand = c.jobs[f].cand
    BY <1>4, <1>13, <2>1 DEF FollowedBy, HasNext
  <2>3. PICK g \in Jobs(c) : /\ c.jobs[g].kind = "INCIDENT_CLIP_BUILD" /\ c.jobs[g].cand = c.jobs[f].cand
                             /\ LastOf(c, g)
    BY <1>1, <2>2, LastExists
  <2>4. Own(c, g)  BY <1>2, <1>4, <2>3 DEF Own
  <2>5. c.out[g] \in {"OK", "FAILED"}  BY <2>3, <2>4, LastIsTaken
  <2>6. CASE c.out[g] = "FAILED"
    <3> DEFINE clips == Mine(c) \intersect OfKind(c, {"INCIDENT_CLIP_BUILD"})
    <3>1. g \in clips  BY <1>1, <2>3, <2>4, OwnFacts, ShapeFacts DEF OfKind
    <3>2. Largest(clips) = g  BY <1>1, <1>2, <2>3, <2>4, <3>1, LastIsLargest
    <3>3. g # 0  BY <1>1, ShapeFacts
    <3> QED BY <2>6, <3>2, <3>3 DEF ClipFailed, DeadEnd
  <2>7. CASE c.out[g] = "OK"
    <3>1. FollowedBy(c, g)
      <4>1. g # 0  BY <1>1, ShapeFacts
      <4> QED BY <1>1, <4>1 DEF Followed
    <3>2. ASSUME NEW kind \in Readout PROVE \E i \in Jobs(c) : Read(c, kind, i)
      <4>1. PICK x \in Jobs(c) : c.jobs[x].kind = kind /\ c.jobs[x].cand = c.jobs[g].cand
        BY <1>2, <2>3, <2>7, <3>1 DEF FollowedBy, HasNext
      <4>2. PICK i \in Jobs(c) : c.jobs[i].kind = kind /\ c.jobs[i].cand = c.jobs[g].cand /\ LastOf(c, i)
        BY <1>1, <4>1, LastExists
      <4>3. Own(c, i)  BY <1>2, <2>4, <4>2 DEF Own
      <4> QED BY <4>2, <4>3, LastIsTaken DEF Read
    <3>3. ReadoutsSettled(c)  BY <1>1, <3>2, ReadyMeans
    <3> QED BY <1>11, <1>13, <3>3
  <2> QED BY <2>5, <2>6, <2>7
<1> QED BY <1>6, <1>9, <1>10, <1>12, <1>13

\* The progress screen is not left on when nothing is waited for.
LEMMA ProgressTold ==
  ASSUME NEW c, Shown(c)
  PROVE  /\ Screen(c) = "PROGRESS" /\ c.stage # "INTAKE" => Waiting(c) # {} \/ WithoutVisual(c)
         /\ Screen(c) = "STOPPED" => Waiting(c) = {}
<1>1. /\ CoreInv(c) /\ Shape(c) /\ Staged(c) /\ SearchTold(c) /\ NothingFound(c)
      /\ c.stage \in {"INTAKE", "SEARCHING", "CANDIDATE_REVIEW"} \union Reviewing
  BY DEF Shown, CaseInv, CoreInv, Present, Guide, Shape, CaseRecord
<1>2. ASSUME Screen(c) = "PROGRESS", c.stage # "INTAKE", Waiting(c) = {}, ~WithoutVisual(c)
      PROVE  FALSE
  <2>1. /\ HasEvidence(c) \/ ~NotObserved(c)
        /\ ~DeadEnd(c)
        /\ \/ c.stage = "EVIDENCE_REVIEW" /\ ~HasEvidence(c)
           \/ /\ CoarseStep(c) \notin {"PARTIAL", "FAILED"} /\ ~NoCandidates(c)
              /\ c.stage \notin {"READY", "EVIDENCE_REVIEW"}
    BY <1>2, ScreenFacts
  <2>2. CASE c.stage = "EVIDENCE_REVIEW" /\ ~HasEvidence(c)
    <3>1. c.selected # NoCand  BY <1>1, <2>2 DEF Staged, Reviewing
    <3> QED BY <1>2, <2>1, <2>2, <3>1, ReviewTold
  <2>3. CASE /\ CoarseStep(c) \notin {"PARTIAL", "FAILED"} /\ ~NoCandidates(c)
             /\ c.stage \notin {"READY", "EVIDENCE_REVIEW"}
    <3>1. c.stage \in {"SEARCHING", "CANDIDATE_REVIEW"}  BY <1>1, <1>2, <2>3 DEF Reviewing
    <3>2. c.stage # "CANDIDATE_REVIEW"  BY <1>1, <2>3 DEF NothingFound, NoCandidates
    <3>3. ~SearchAwaited(c)  BY <1>2 DEF SearchAwaited
    <3> QED BY <1>1, <2>3, <3>1, <3>2, <3>3, SearchIsTold
  <2> QED BY <2>1, <2>2, <2>3
<1>3. ASSUME Screen(c) = "STOPPED" PROVE Waiting(c) = {}
  <2>1. c.stage = "SEARCHING" /\ Halted(c)  BY <1>3, ScreenFacts, CoarseFacts
  <2>2. ~SearchAwaited(c)  BY <2>1 DEF Halted, HaltReason, Halts
  <2>3. c.selected = NoCand  BY <1>1, <2>1 DEF Staged, Reviewing
  <2>4. \A i \in Jobs(c) : c.settled[i] # "waiting"
    <3> TAKE i \in Jobs(c)
    <3>1. c.jobs[i].kind \in Analysis \union Observation  BY <1>1, ShapeFacts DEF JobRecord, Kinds
    <3> QED BY <1>1, <2>2, <2>3, <3>1, NothingObserved, WaitingFacts DEF AwaitsSearch
  <2> QED BY <1>1, <2>4, WaitingFacts
<1> QED BY <1>2, <1>3

\* Every other screen that is shown when it is over has a way on, and the case
\* admits it.
LEMMA WaysOn ==
  ASSUME NEW c, Shown(c), Screen(c) \in {"STOPPED", "SEARCH_FAILED", "NO_RESULT", "NOT_OBSERVED"}
  PROVE  /\ \A command \in Buttons(c) : Admitted(c, command) \/ Preparing(c)
         /\ Buttons(c) # {} \/ (DeadEnd(c) /\ Others(c) = {})
<1>1. /\ CoreInv(c) /\ Shape(c) /\ Staged(c) /\ SearchMade(c) /\ NothingFound(c)
      /\ c.stage \in {"INTAKE", "SEARCHING", "CANDIDATE_REVIEW"} \union Reviewing
      /\ c.failed \in {"no", "retry", "fatal"}
  BY DEF Shown, CaseInv, CoreInv, Present, Guide, Shape, CaseRecord
<1>2. c.stage = "CANDIDATE_REVIEW" \/ c.failed # "no" => LatestRecord(c, "COARSE_SEARCH") # 0
  BY <1>1, LatestFacts DEF SearchMade
<1>3. ASSUME NEW cand \in Others(c) PROVE Admitted(c, "SELECT_OTHER") \/ Preparing(c)
  <2>1. cand \in c.cands /\ cand # c.selected  BY DEF Others
  <2>2. c.stage \in Reviewing  BY <1>1, <2>1 DEF Staged, NothingFound
  <2>3. MayReselect(c, cand) \/ Preparing(c)  BY <2>1, <2>2 DEF MayReselect
  <2> QED BY <2>3 DEF Admitted
<1>4. CASE Screen(c) = "STOPPED"
  <2>1. c.stage = "SEARCHING" /\ Halted(c)  BY <1>4, ScreenFacts, CoarseFacts
  <2>2. ~SearchAwaited(c)  BY <2>1 DEF Halted, HaltReason, Halts
  <2>3. Buttons(c) = {IF LatestRecord(c, "COARSE_SEARCH") # 0 THEN "RETRY_SEARCH" ELSE "EDIT_HINT"}
    BY <1>4 DEF Buttons
  <2>4. LatestRecord(c, "COARSE_SEARCH") # 0 => Admitted(c, "RETRY_SEARCH")
    BY <2>1, <2>2 DEF Admitted, RetrySearchOffered
  <2>5. LatestRecord(c, "COARSE_SEARCH") = 0 => Admitted(c, "EDIT_HINT")
    BY <2>1, <2>2 DEF Admitted, EditHintOffered
  <2> QED BY <2>3, <2>4, <2>5
<1>5. CASE Screen(c) = "NO_RESULT"
  <2>1. NoCandidates(c) /\ Waiting(c) = {}  BY <1>5, ScreenFacts
  <2>2. c.stage = "CANDIDATE_REVIEW" /\ ~SearchAwaited(c)  BY <2>1 DEF NoCandidates, SearchAwaited
  <2>3. Buttons(c) = {"EDIT_HINT", "RETRY_SEARCH"}  BY <1>5 DEF Buttons
  <2>4. Admitted(c, "EDIT_HINT")  BY <2>1, <2>2 DEF Admitted, EditHintOffered
  <2>5. Admitted(c, "RETRY_SEARCH")  BY <1>2, <2>1, <2>2 DEF Admitted, RetrySearchOffered
  <2> QED BY <2>3, <2>4, <2>5
<1>6. CASE Screen(c) = "NOT_OBSERVED"
  <2>1. NotObserved(c)  BY <1>6, ScreenFacts
  <2>2. c.stage # "SEARCHING"
    <3>1. PICK i \in Mine(c) : TRUE  BY <2>1 DEF NotObserved
    <3>2. c.selected # NoCand  BY <3>1 DEF Mine
    <3> QED BY <1>1, <3>2 DEF Staged, Reviewing
  <2>3. Buttons(c) = {"EDIT_HINT"} \union {"SELECT_OTHER" : cand \in Others(c)}  BY <1>6 DEF Buttons
  <2>4. Admitted(c, "EDIT_HINT")  BY <2>1, <2>2 DEF Admitted, EditHintOffered
  <2> QED BY <1>3, <2>3, <2>4
<1>7. CASE Screen(c) = "SEARCH_FAILED"
  <2>1. DeadEnd(c) \/ CoarseStep(c) = "FAILED"  BY <1>7, ScreenFacts
  <2> DEFINE retry == CoarseStep(c) = "FAILED" /\ c.failed = "retry"
  <2>2. Buttons(c) = {"SELECT_OTHER" : cand \in Others(c)}
                       \union (IF retry THEN {"RETRY_SEARCH"} ELSE {})
    BY <1>7 DEF Buttons
  <2>3. retry => Admitted(c, "RETRY_SEARCH")
    BY <1>2, CoarseFacts DEF Admitted, RetrySearchOffered
  <2>4. DeadEnd(c) \/ retry
    <3>1. CoarseStep(c) = "FAILED" => c.failed # "no"  BY CoarseFacts
    <3> QED BY <1>1, <2>1, <3>1 DEF DeadEnd
  <2> HIDE DEF retry
  <2> QED BY <1>3, <2>2, <2>3, <2>4
<1> QED BY <1>4, <1>5, <1>6, <1>7

\* In every state the user is told of work that is under way and of work that is
\* over, and every screen has a way on that the case admits.
THEOREM ScreenLeads == Spec => []ScreenGuides
<1>1. Inv /\ GuideInv => ScreenGuides
  <2> SUFFICES ASSUME Inv, GuideInv PROVE ScreenGuides  OBVIOUS
  <2>1. Shown(View)  BY ViewShown
  <2>2. ScreenTellsProgress  BY <2>1, ProgressTold DEF ScreenTellsProgress
  <2>3. ScreenLeadsOn  BY <2>1, WaysOn DEF ScreenLeadsOn
  <2> QED BY <2>2, <2>3 DEF ScreenGuides
<1>2. Spec => [](Inv /\ GuideInv)  BY GuideInvariant
<1> QED BY <1>1, <1>2, PTL
=============================================================================
