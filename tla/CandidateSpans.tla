--------------------------- MODULE CandidateSpans ---------------------------
(***************************************************************************)
(* Where on the time line of a case a candidate lies: the whole case is    *)
(* resolved and prepared for Coarse (recording/spans.py,                   *)
(* recording/multi_source.py), a span the provider names is clamped and    *)
(* rounded (search/coarse.py), checked against the scope                   *)
(* (worker/coarse_frames.py), widened for Fine (search/fine.py), resolved  *)
(* again and cut out as the clip (worker/incident_clip_handlers.py,        *)
(* recording/service.py), in which one frame is looked up                  *)
(* (case/preview_frame.py).                                                *)
(*                                                                         *)
(* Time is counted in units of 1/K ms, so that what is floored or rounded  *)
(* to milliseconds on the way can be told from what is exact.  The files   *)
(* of a case adjoin (case/timeline_source.py); a file may go away.         *)
(***************************************************************************)
EXTENDS Integers, FiniteSets, Sequences

CONSTANTS K,            \* units of a millisecond
          Case,         \* cases: sequences of files, in the order they were registered
          Proposal,     \* times a provider may name
          Padding       \* fine_padding_sec

\* What an instance must provide.  A file is as long as its container; `video`
\* is the length of its VIDEO stream, 0 if the probe could not tell.  Both are what
\* the probe registered; `frames` are the times at which the frames really begin,
\* the first at 0, each lasting until the next and the last until `ends`
\* (`LocalAnalysisMaterializer._frames` admits no others).  A file holds a
\* frame, so it lasts a millisecond at least; the code asks that of the whole line
\* (`_case_timeline`) and of a file a length above 0.
SpanAssumption ==
    /\ K \in Nat \ {0} /\ Padding \in Nat /\ Proposal \subseteq Int
    /\ Case \subseteq Seq([length : Nat, video : Nat, frames : SUBSET Nat, ends : Nat])
    /\ \A case \in Case : Len(case) > 0 /\
        \A i \in DOMAIN case :
            /\ case[i].length >= K /\ case[i].video \in 0 .. case[i].length
            /\ 0 \in case[i].frames /\ \A t \in case[i].frames : t < case[i].ends

VARIABLES
    files,      \* of the case
    alive,      \* the files that can be read
    phase,      \* "waiting", "prepared", "proposed", "verified", "resolved", "over"
    source,     \* duration of the prepared analysis source
    span,       \* start, end and representative time of the candidate, in ms
    clip,       \* the resolution of the candidate's span
    failed      \* why a step raised, "none" if none did

vars == <<files, alive, phase, source, span, clip, failed>>

Lesser(a, b) == IF a < b THEN a ELSE b
Greater(a, b) == IF a < b THEN b ELSE a

Overlap(a, b) == [from |-> Greater(a.from, b.from), to |-> Lesser(a.to, b.to)]
Proper(range) == range.from < range.to
Covers(range, t) == range.from <= t /\ t < range.to
Least(S) == CHOOSE t \in S : \A u \in S : t <= u

(***************************************************************************)
(* The time line.                                                          *)
(***************************************************************************)
Offset[i \in 1 .. Len(files)] == IF i = 1 THEN 0 ELSE Offset[i - 1] + files[i - 1].length
Placement(i) == [from |-> Offset[i], to |-> Offset[i] + files[i].length]
Video(i) == [from |-> Offset[i], to |-> Offset[i] + files[i].video]
End == Placement(Len(files)).to

\* `_case_timeline`: the scope of every search, in whole milliseconds.
ScopeEnd == (End \div K) * K
Scope == [from |-> 0, to |-> ScopeEnd]

(***************************************************************************)
(* `resolve_placed_span` and `resolve_local_span`.                         *)
(***************************************************************************)
Touched(request) == {i \in DOMAIN files : Proper(Overlap(request, Placement(i)))}

\* What is there of the request in each file, and what is missing and why.
Spans(request, readable) ==
    {s \in {[file |-> i, range |-> Overlap(request, Video(i))] : i \in Touched(request) \cap readable} :
        Proper(s.range)}

Missing(request, readable) ==
    {m \in
        {[range |-> Overlap(request, Placement(i)), reason |-> "SOURCE_UNAVAILABLE"] :
            i \in Touched(request) \ readable}
        \cup
        {[range |-> Overlap(request, [Placement(i) EXCEPT !.from = Video(i).to]), reason |-> "STREAM_UNAVAILABLE"] :
            i \in Touched(request) \cap readable}
        \cup
        {[range |-> [request EXCEPT !.from = Greater(@, End)], reason |-> "OUT_OF_TIMELINE_RANGE"]} :
     Proper(m.range)}

\* A stream of unknown length ends the resolution without ranges.
Unknown(request) == \E i \in Touched(request) : files[i].video = 0

Failure(request) == [request |-> request, spans |-> {}, missing |-> {}, status |-> "FAILED"]

Resolve(request, readable) ==
    IF Unknown(request) THEN Failure(request)
    ELSE LET spans == Spans(request, readable)
             missing == Missing(request, readable)
         IN  [request |-> request, spans |-> spans, missing |-> missing,
              status |-> CASE spans = {} -> "FAILED" [] missing # {} -> "PARTIAL" [] OTHER -> "COMPLETE"]

\* Looking at a file may fail for the moment, too.
Resolutions(request) == {Resolve(request, alive), Failure(request)}

(***************************************************************************)
(* `LocalAnalysisMaterializer.materialize` and `materialize_chain`.        *)
(***************************************************************************)
\* Where the frames of a file begin, and with the end of the last one.
Starts(i) == {Offset[i] + t : t \in files[i].frames}
Borders(i) == Starts(i) \cup {Offset[i] + files[i].ends}

\* Whole frames are taken over: those that begin in the range.
Selected(s) == {t \in Starts(s.file) : Covers(s.range, t)}

Aligned(s) ==
    [from |-> Least(Selected(s)), to |-> Least({t \in Borders(s.file) : \A u \in Selected(s) : u < t})]

\* Each range must hold a frame, and the frames of one must end where those of
\* the next begin.
Joins(spans) ==
    /\ \A s \in spans : Selected(s) # {}
    /\ \A s, next \in spans : next.file = s.file + 1 => Aligned(s).to = Aligned(next).from

\* `timeline_range` of what was made: from the first frame to the end of the last.
Coverage(spans) ==
    LET first == CHOOSE s \in spans : \A other \in spans : s.file <= other.file
        last == CHOOSE s \in spans : \A other \in spans : other.file <= s.file
    IN  [from |-> Aligned(first).from, to |-> Aligned(last).to]

NoSpan == [start |-> 0, end |-> 0, at |-> 0, top |-> FALSE]
NoClip == Failure([from |-> 0, to |-> 0])

Init ==
    /\ files \in Case
    /\ alive = DOMAIN files
    /\ phase = "waiting" /\ source = 0
    /\ span = NoSpan /\ clip = NoClip
    /\ failed = "none"

Vanish(i) ==
    /\ i \in alive
    /\ alive' = alive \ {i}
    /\ UNCHANGED <<files, phase, source, span, clip, failed>>

Raise(why) ==
    /\ phase' = "over" /\ failed' = why
    /\ UNCHANGED <<files, alive, source, span, clip>>

(***************************************************************************)
(* Coarse.                                                                 *)
(***************************************************************************)
\* The container tells the duration exactly or in whole milliseconds.
Durations(t) == {t, (t \div K) * K, ((t + K - 1) \div K) * K}

\* `ProductionMediaFactory`: only a complete resolution is prepared.  The first
\* frame is at 0, and the source ends with a frame and not with the scope.  Looking
\* at a file and every step of ffmpeg may fail.
Prepare ==
    /\ phase = "waiting"
    /\ \/ Raise("source")
       \/ LET resolution == Resolve(Scope, alive) IN
            /\ resolution.status = "COMPLETE" /\ Joins(resolution.spans)
            /\ phase' = "prepared"
            /\ source' \in Durations(Coverage(resolution.spans).to)
            /\ UNCHANGED <<files, alive, span, clip, failed>>

\* `round`: to the nearest millisecond, a half to the even one.
Round(t) ==
    LET ms == t \div K  rest == 2 * (t % K) IN
    IF rest < K \/ (rest = K /\ ms % 2 = 0) THEN ms ELSE ms + 1

\* What `_candidate` takes; it leaves the others out.
Admissible(start, end, at) ==
    /\ start >= 0 /\ end >= 0 /\ at >= 0
    /\ start < end /\ start < source

\* Clamped to the source, and at least a millisecond long.
Clamped(start, end, at) ==
    LET from == Lesser(start, source)
        to == Greater(from + K, Lesser(end, source))
    IN  [start |-> Round(from), end |-> Round(to), at |-> Round(Lesser(Greater(at, from), to))]

MutInScope(c) == c.start < c.end /\ c.at \in c.start .. c.end    \* mutant: the end is not compared

\* `CoarseFrameIssuer` looks at the first three candidates only.
InScope(c) == c.start < c.end /\ c.end * K <= ScopeEnd /\ c.at \in c.start .. c.end

\* `CandidateSpan` and the frames of the list raise, and with them the run.
Propose(start, end, at, top) ==
    /\ phase = "prepared" /\ Admissible(start, end, at)
    /\ LET c == Clamped(start, end, at) IN
        CASE c.start >= c.end     -> Raise("span")
          [] c.start < c.end /\ top /\ ~InScope(c) -> Raise("scope")
          [] OTHER ->
                /\ phase' = "proposed"
                /\ span' = [start |-> c.start, end |-> c.end, at |-> c.at, top |-> top]
                /\ UNCHANGED <<files, alive, source, clip, failed>>

(***************************************************************************)
(* Fine and the clip.                                                      *)
(***************************************************************************)
\* `verify_fine`, over the source of the Coarse run.
Window == [from |-> Greater(0, span.start * K - Padding), to |-> Lesser(source, span.end * K + Padding)]

Verify ==
    /\ phase = "proposed"
    /\ IF Proper(Window)
          THEN phase' = "verified" /\ UNCHANGED <<files, alive, source, span, clip, failed>>
          ELSE Raise("window")

\* What the clip is to show: the candidate as it was published.
Requested == [from |-> span.start * K, to |-> span.end * K]

\* `incident_clip_registry` compares rounded times.
Bound == span.end <= Round(source)

ResolveClip ==
    /\ phase = "verified"
    /\ IF ~Bound THEN Raise("binding")
       ELSE \E resolution \in Resolutions(Requested) :
            /\ phase' = "resolved" /\ clip' = resolution
            /\ UNCHANGED <<files, alive, source, span, failed>>

\* `build_incident_clip` resolves once more and goes on only if nothing has
\* changed; with several files it also insists on the whole request.
Buildable ==
    /\ Len(files) > 1 => clip.status = "COMPLETE"
    /\ clip.spans # {}
    /\ clip = Resolve(Requested, alive)

\* `_source_position`: the files that show the representative time, which must
\* lie within the frames of the clip; its position is taken if there is one of them.
At == span.at * K
Hits == {s \in clip.spans : Covers(Coverage(clip.spans), At) /\ Covers(s.range, At)}

\* The materializer may fail for many other reasons, too.
BuildClip ==
    /\ phase = "resolved"
    /\ \/ Raise("build")
       \/ /\ Buildable /\ Joins(clip.spans)
          /\ phase' = "over" /\ UNCHANGED <<files, alive, source, span, clip, failed>>

Next ==
    \/ \E i \in alive : Vanish(i)
    \/ Prepare
    \/ \E start, end, at \in Proposal, top \in BOOLEAN : Propose(start, end, at, top)
    \/ Verify \/ ResolveClip \/ BuildClip

Spec == Init /\ [][Next]_vars

(***************************************************************************)
(* Properties.                                                             *)
(***************************************************************************)
SpansTypeOK ==
    /\ files \in Case /\ alive \subseteq DOMAIN files
    /\ phase \in {"waiting", "prepared", "proposed", "verified", "resolved", "over"}
    /\ failed \in {"none", "source", "span", "scope", "window", "binding", "build"}
    /\ source \in Nat
    /\ span.top \in BOOLEAN /\ {span.start, span.end, span.at} \subseteq Nat
    /\ clip.status \in {"COMPLETE", "PARTIAL", "FAILED"}

\* A resolution tells of every moment of the request exactly once whether it is
\* there or missing; it is there when a readable file shows it.
ResolutionIsExact ==
    \A from \in 0 .. End, length \in 1 .. 2 * K :
        LET request == [from |-> from, to |-> from + length]
            answer == Resolve(request, alive)
            pieces == answer.spans \cup answer.missing
        IN  Unknown(request) \/
            \A t \in from .. from + length - 1 :
                /\ Cardinality({piece \in pieces : Covers(piece.range, t)}) = 1
                /\ (\E piece \in answer.spans : Covers(piece.range, t)) <=> (\E i \in alive : Covers(Video(i), t))

\* A candidate that passed the check of the scope never fails afterwards while
\* the files are there, unless the frames end before the scope does: Fine sees all
\* of it and its clip is complete.
ScopedCandidateWorks ==
    span.top /\ source >= ScopeEnd =>
        /\ failed \notin {"window", "binding"}
        /\ Window.from <= span.start * K /\ span.end * K <= Window.to
        /\ phase = "resolved" /\ alive = DOMAIN files => Resolve(Requested, alive).status = "COMPLETE"

\* Of the clip of such a candidate: its pieces fit together as those of the source
\* did, so that it can be built when each holds a frame; and its frame has a
\* position, in one file, once a frame of the span has begun, but for the very end.
ClipFits ==
    span.top /\ source >= ScopeEnd /\ clip.status = "COMPLETE" =>
        /\ Joins(clip.spans) <=> \A s \in clip.spans : Selected(s) # {}
        /\ phase = "over" /\ failed = "none" =>
            (Cardinality(Hits) = 1 <=>
                /\ span.at < span.end
                /\ \E i \in DOMAIN files : \E t \in Starts(i) :
                    Covers(Video(i), t) /\ span.start * K <= t /\ t <= At)

SpansSound == (phase = "waiting" => ResolutionIsExact) /\ ScopedCandidateWorks /\ ClipFits
=============================================================================
