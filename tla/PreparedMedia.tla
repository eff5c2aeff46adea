---------------------------- MODULE PreparedMedia ---------------------------
(***************************************************************************)
(* Videos that a Worker cuts from the recordings of a case: the input of   *)
(* an analysis (prepare_analysis_source) and the clip of an incident       *)
(* (build_incident_clip).  The media tools read the recordings without a   *)
(* lock, between transactions, so each recording is compared before and    *)
(* after.  What comes out is stored under a name derived from its content, *)
(* in pieces, within one transaction (add_prepared_media), and read by     *)
(* other executions statement by statement (open_prepared_stream).         *)
(***************************************************************************)
EXTENDS Naturals, Sequences

CONSTANTS Worker,       \* executions, each of a case of its own
          Source,       \* recordings registered in the database
          Request,      \* what is asked for: [kind, work], work a sequence of sources
          Format,       \* the release of a Worker stores "chunked" or "legacy"
          Chunks,       \* pieces of a stored video
          MaxChanges,   \* bound: changes of the recordings' files
          MaxCalls      \* bound: calls of all executions

VARIABLES
    source,         \* the file of each recording: content, mtime, inode
    changes,        \* how often a file was changed
    calls,          \* how often something was asked for
    call,           \* the call each execution makes
    inspections,    \* SourceFrameInspections of each execution, by recording and snapshot
    kept,           \* _analysis_reuse and _clip_identity: what an execution prepared
    stored,         \* committed rows of a prepared video, by its name
    tx,             \* the open transaction of each execution
    handed,         \* videos that calls returned, and to whom
    reading         \* one that opens such a video, e.g. another execution

vars == <<source, changes, calls, call, inspections, kept, stored, tx, handed, reading>>

\* What an instance must provide.
MediaAssumption ==
    /\ Chunks \in Nat \ {0} /\ MaxChanges \in Nat /\ MaxCalls \in Nat
    /\ Format \in [Worker -> {"chunked", "legacy"}]
    /\ \A r \in Request : r.kind \in {"analysis", "clip"} /\ r.work \in Seq(Source) \ {<<>>}

Registered == [content |-> "recorded", mtime |-> 0, inode |-> 0]
Genuine == [frames |-> "recorded", pixels |-> "recorded"]

NoCall == [step |-> "idle", kind |-> "none", work |-> <<>>, first |-> <<>>, parts |-> <<>>,
           before |-> Registered, seen |-> "none"]
NoTx == [step |-> "none"]
NotReading == [step |-> "idle"]

Init ==
    /\ source = [s \in Source |-> Registered]
    /\ changes = 0 /\ calls = 0
    /\ call = [w \in Worker |-> NoCall]
    /\ inspections = [w \in Worker |-> [key \in {} |-> "none"]]
    /\ kept = [w \in Worker |-> {}]
    /\ stored = [name \in {} |-> NoTx]
    /\ tx = [w \in Worker |-> NoTx]
    /\ handed = {}
    /\ reading = NotReading

(***************************************************************************)
(* The files.  A write in place gives a file a new mtime; a copy that is   *)
(* put back with the old mtime is a file of its own.                       *)
(***************************************************************************)
Change(s) ==
    /\ changes < MaxChanges
    /\ changes' = changes + 1
    /\ \/ source' = [source EXCEPT ![s].content = "other", ![s].mtime = changes']
       \/ source' = [source EXCEPT ![s] = [Registered EXCEPT !.inode = changes']]
    /\ UNCHANGED <<calls, call, inspections, kept, stored, tx, handed, reading>>

(***************************************************************************)
(* Materialization.                                                        *)
(***************************************************************************)
\* The registration holds size, mtime and hash of the file, not its identity.
AsRegistered(snapshot) == [snapshot EXCEPT !.inode = 0] = Registered

\* `_snapshot(source.path) != before`
MutUnchanged(s, before) ==          \* mutant: compared like a registration
    AsRegistered(source[s])
Unchanged(s, before) == source[s] = before

\* The recording a call works on; those before it are done.
Current(w) == call[w].work[Len(call[w].parts) + 1]

Return(w, name) ==
    /\ call' = [call EXCEPT ![w] = NoCall]
    /\ handed' = handed \cup {[name |-> name, to |-> w]}

\* The recordings of the request are there as registered.
Resolves(r) == \A i \in 1 .. Len(r.work) : AsRegistered(source[r.work[i]])

\* A chain is compared as a whole before its parts are.
Prepares(w, r) ==
    [call EXCEPT ![w] = [NoCall EXCEPT !.step = "snapshot", !.kind = r.kind, !.work = r.work,
                            !.first = [i \in 1 .. Len(r.work) |-> source[r.work[i]]]]]

Asks(w) == call[w].step = "idle" /\ calls < MaxCalls /\ calls' = calls + 1

\* An analysis that this execution has prepared is returned as it is.
BeginAnalysis(w, r) ==
    /\ Asks(w) /\ r.kind = "analysis" /\ Resolves(r)
    /\ call' = IF \E name \in kept[w] : name.kind = "analysis" /\ name.work = r.work
               THEN call ELSE Prepares(w, r)
    /\ UNCHANGED <<source, changes, inspections, kept, stored, tx, handed, reading>>

\* The clip of an incident is cut again whenever it is asked for.
BeginClip(w, r) ==
    /\ Asks(w) /\ r.kind = "clip" /\ Resolves(r)
    /\ call' = Prepares(w, r)
    /\ UNCHANGED <<source, changes, inspections, kept, stored, tx, handed, reading>>

TakeSnapshot(w) ==
    /\ call[w].step = "snapshot" /\ AsRegistered(source[Current(w)])
    /\ call' = [call EXCEPT ![w].step = "probe", ![w].before = source[Current(w)]]
    /\ UNCHANGED <<source, changes, calls, inspections, kept, stored, tx, handed, reading>>

Key(w) == <<Current(w), call[w].before>>

\* ffprobe reads the frames, unless this execution knows them of this snapshot.
Probe(w) ==
    /\ call[w].step = "probe"
    /\ call' = [call EXCEPT ![w].step = "encode",
                    ![w].seen = IF Key(w) \in DOMAIN inspections[w] THEN inspections[w][Key(w)]
                                ELSE source[Current(w)].content]
    /\ UNCHANGED <<source, changes, calls, inspections, kept, stored, tx, handed, reading>>

\* ffmpeg cuts at those frames from what the file holds now.
Encode(w) ==
    /\ call[w].step = "encode"
    /\ call' = [call EXCEPT ![w].step = "verify",
                    ![w].parts = Append(@, [frames |-> call[w].seen, pixels |-> source[Current(w)].content])]
    /\ UNCHANGED <<source, changes, calls, inspections, kept, stored, tx, handed, reading>>

Last(w) == call[w].work[Len(call[w].parts)]

\* The recording again as before: the part stands and the inspection is shared.
\* Where the output does not fit the frames the call may fail as well (Fail).
Verify(w) ==
    LET key == <<Last(w), call[w].before>>
    IN  /\ call[w].step = "verify" /\ Unchanged(Last(w), call[w].before)
        /\ inspections' = [inspections EXCEPT ![w] = [k \in DOMAIN @ \cup {key} |->
                            IF k = key THEN call[w].seen ELSE @[k]]]
        /\ call' = [call EXCEPT ![w].step =
                        IF Len(call[w].parts) < Len(call[w].work) THEN "snapshot" ELSE "join"]
        /\ UNCHANGED <<source, changes, calls, kept, stored, tx, handed, reading>>

\* `stable_media`: the name of a video is a digest of what it is.
Name(w) == [kind |-> call[w].kind, work |-> call[w].work, parts |-> call[w].parts]

\* The parts are joined, and every recording of a chain compared once more.  A
\* clip this execution has already is not stored again.
Join(w) ==
    /\ call[w].step = "join"
    /\ Len(call[w].work) > 1 =>
         \A i \in 1 .. Len(call[w].work) : Unchanged(call[w].work[i], call[w].first[i])
    /\ IF Name(w) \in kept[w]
       THEN Return(w, Name(w))
       ELSE call' = [call EXCEPT ![w].step = "publish"] /\ UNCHANGED handed
    /\ UNCHANGED <<source, changes, calls, inspections, kept, stored, tx, reading>>

(***************************************************************************)
(* add_prepared_media: one transaction.                                    *)
(***************************************************************************)
NoRow == [manifest |-> "none", pieces |-> {}, owners |-> {}]

\* All of it is there, in the form its manifest names.
Whole(row) ==
    \/ row.manifest = "chunked" /\ row.pieces = 1 .. Chunks
    \/ row.manifest = "legacy" /\ row.pieces = {0}

\* The row of the video itself.  Whoever inserts the same one waits for the
\* transaction that did; then the rest is read as it is now.
Waits(w) == \E v \in Worker \ {w} : tx[v].step # "none" /\ tx[v].name = Name(w)

PutMedia(w) ==
    LET row == IF Name(w) \in DOMAIN stored THEN stored[Name(w)] ELSE NoRow
    IN  /\ call[w].step = "publish" /\ tx[w].step = "none" /\ ~Waits(w)
        /\ tx' = [tx EXCEPT ![w] = [step |-> IF row.manifest = "none" THEN "content" ELSE "compare",
                                    name |-> Name(w), row |-> row]]
        /\ UNCHANGED <<source, changes, calls, call, inspections, kept, stored, handed, reading>>

\* Already stored: it must be whole and the same.
Compare(w) ==
    /\ tx[w].step = "compare" /\ Whole(tx[w].row)
    /\ tx' = [tx EXCEPT ![w].step = "link"]
    /\ UNCHANGED <<source, changes, calls, call, inspections, kept, stored, handed, reading>>

\* One command per piece; an old release writes one BLOB into the row itself.
PutPiece(w) ==
    /\ tx[w].step = "content"
    /\ \/ /\ Format[w] = "chunked" /\ \E i \in 1 .. Chunks :
                /\ i \notin tx[w].row.pieces /\ 1 .. i - 1 \subseteq tx[w].row.pieces
                /\ tx' = [tx EXCEPT ![w].row.pieces = @ \cup {i}]
       \/ /\ Format[w] = "legacy" /\ 0 \notin tx[w].row.pieces
          /\ tx' = [tx EXCEPT ![w].row.pieces = @ \cup {0}]
    /\ UNCHANGED <<source, changes, calls, call, inspections, kept, stored, handed, reading>>

AllPut(w) == Whole([tx[w].row EXCEPT !.manifest = Format[w]])

\* The manifest of the content, when all of it is there.
PutManifest(w) ==
    /\ tx[w].step = "content" /\ AllPut(w)
    /\ tx' = [tx EXCEPT ![w].row.manifest = Format[w], ![w].step = "link"]
    /\ UNCHANGED <<source, changes, calls, call, inspections, kept, stored, handed, reading>>

\* The video belongs to the case of the execution, beside the cases it has.
Link(w) ==
    /\ tx[w].step = "link"
    /\ tx' = [tx EXCEPT ![w].row.owners = @ \cup {w}, ![w].step = "commit"]
    /\ UNCHANGED <<source, changes, calls, call, inspections, kept, stored, handed, reading>>

\* The commit reaches the database.  If its acknowledgement is lost the
\* transaction is run again, or the call fails.
Commit(w) ==
    /\ tx[w].step = "commit"
    /\ stored' = [name \in DOMAIN stored \cup {tx[w].name} |->
                    IF name = tx[w].name THEN tx[w].row ELSE stored[name]]
    /\ tx' = [tx EXCEPT ![w] = NoTx]
    /\ \/ /\ Return(w, tx[w].name)
          /\ kept' = [kept EXCEPT ![w] = @ \cup {tx[w].name}]
       \/ UNCHANGED <<call, handed, kept>>
       \/ /\ call' = [call EXCEPT ![w] = NoCall]
          /\ UNCHANGED <<handed, kept>>
    /\ UNCHANGED <<source, changes, calls, inspections, reading>>

\* Before the commit the database gives up, e.g. for a deadlock: once more.
Retry(w) ==
    /\ tx[w].step # "none"
    /\ tx' = [tx EXCEPT ![w] = NoTx]
    /\ UNCHANGED <<source, changes, calls, call, inspections, kept, stored, handed, reading>>

\* An inspection that was not confirmed is not kept.
Discard(w) == [k \in {k \in DOMAIN inspections[w] :
                  call[w].step \notin {"probe", "encode"} \/ k # Key(w)} |-> inspections[w][k]]

\* A tool fails, a recording has changed, the checkpoint finds the execution
\* cancelled, a command of the transaction fails: the savepoint is rolled back, or
\* the connection thrown away.
Fail(w) ==
    /\ call[w].step # "idle"
    /\ call' = [call EXCEPT ![w] = NoCall]
    /\ tx' = [tx EXCEPT ![w] = NoTx]
    /\ inspections' = [inspections EXCEPT ![w] = Discard(w)]
    /\ UNCHANGED <<source, changes, calls, kept, stored, handed, reading>>

\* The execution ends, with its process or with its service; another begins.
End(w) ==
    /\ call' = [call EXCEPT ![w] = NoCall]
    /\ tx' = [tx EXCEPT ![w] = NoTx]
    /\ inspections' = [inspections EXCEPT ![w] = [k \in {} |-> "none"]]
    /\ kept' = [kept EXCEPT ![w] = {}]
    /\ UNCHANGED <<source, changes, calls, stored, handed, reading>>

(***************************************************************************)
(* open_prepared_stream: each statement reads what is committed by then.   *)
(***************************************************************************)
Open(name) ==
    /\ reading.step = "idle"
    /\ reading' = IF name \in DOMAIN stored
                  THEN [step |-> "open", name |-> name, manifest |-> stored[name].manifest, pieces |-> {}]
                  ELSE [step |-> "unavailable", name |-> name]
    /\ UNCHANGED <<source, changes, calls, call, inspections, kept, stored, tx, handed>>

\* The next piece, checked for its length; a missing one ends the reading.
ReadPiece ==
    LET wanted == IF reading.manifest = "legacy" THEN {0} ELSE 1 .. Chunks
        next == CHOOSE i \in wanted \ reading.pieces : \A j \in wanted \ reading.pieces : i <= j
    IN  /\ reading.step = "open" /\ wanted # reading.pieces
        /\ reading' = IF reading.manifest # "none" /\ next \in stored[reading.name].pieces
                      THEN [reading EXCEPT !.pieces = @ \cup {next}]
                      ELSE [step |-> "unavailable", name |-> reading.name]
        /\ UNCHANGED <<source, changes, calls, call, inspections, kept, stored, tx, handed>>

\* Size and digest are right and the stream goes to the reader, or there is none.
Close ==
    /\ reading.step = "unavailable" \/ (reading.step = "open" /\ Whole(reading))
    /\ reading' = NotReading
    /\ UNCHANGED <<source, changes, calls, call, inspections, kept, stored, tx, handed>>

Next ==
    \/ \E s \in Source : Change(s)
    \/ \E w \in Worker :
        \/ \E r \in Request : BeginAnalysis(w, r) \/ BeginClip(w, r)
        \/ TakeSnapshot(w) \/ Probe(w) \/ Encode(w) \/ Verify(w) \/ Join(w)
        \/ PutMedia(w) \/ Compare(w) \/ PutPiece(w) \/ PutManifest(w) \/ Link(w) \/ Commit(w)
        \/ Retry(w) \/ Fail(w) \/ End(w)
    \/ \E h \in handed : Open(h.name)
    \/ ReadPiece \/ Close

Spec == Init /\ [][Next]_vars

(***************************************************************************)
(* Properties.                                                             *)
(***************************************************************************)
MediaTypeOK ==
    /\ \A s \in Source : source[s] \in [content : {"recorded", "other"}, mtime : 0 .. MaxChanges,
                                        inode : 0 .. MaxChanges]
    /\ changes \in 0 .. MaxChanges /\ calls \in 0 .. MaxCalls
    /\ \A w \in Worker :
        /\ call[w].step \in {"idle", "snapshot", "probe", "encode", "verify", "join", "publish"}
        /\ tx[w].step \in {"none", "compare", "content", "link", "commit"}
        /\ \A name \in kept[w] : [name |-> name, to |-> w] \in handed
    /\ reading.step \in {"idle", "open", "unavailable"}

\* No video mixes what the recordings held at different times: all that is stored
\* was cut from the registered content at the frames of that content, however the
\* files changed meanwhile and even if they were put back.
OnlyRecorded ==
    \A name \in DOMAIN stored : \A i \in DOMAIN name.parts : name.parts[i] = Genuine

\* The frames an execution remembers of a snapshot are those of its content.
InspectionsTrue ==
    \A w \in Worker : \A k \in DOMAIN inspections[w] : inspections[w][k] = k[2].content

\* A video in the database is whole, whoever wrote it in whichever form, beside
\* whom, and whatever failed or was repeated; and some case owns it.
StoredWhole == \A name \in DOMAIN stored : Whole(stored[name]) /\ stored[name].owners # {}

\* What a call returned can be read ever after, by everybody and while others
\* store the same, and belongs to the case it was prepared for.
HandedReadable ==
    /\ \A h \in handed : h.name \in DOMAIN stored /\ h.to \in stored[h.name].owners
    /\ reading.step # "unavailable"

MediaSound == OnlyRecorded /\ InspectionsTrue /\ StoredWhole /\ HandedReadable
=============================================================================
