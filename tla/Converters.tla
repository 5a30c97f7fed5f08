------------------------------ MODULE Converters ------------------------------
(***************************************************************************)
(* The modules that turn files into files: image, document, media and pdf  *)
(* suite, and the LLM packager, of which this module follows one panel.  A *)
(* run is a sequence of steps; the event loop hands each to a thread of    *)
(* the pool, and forgets the thread when the run is cancelled or exceeds   *)
(* the time limit: the step goes on, perhaps beside those of a later run.  *)
(* A step of the media suite waits for an FFmpeg process.                  *)
(*                                                                         *)
(* A file's content is a sequence of pieces: the pages of a PDF, the one   *)
(* image, clip or text of another source; piece 0 of a clip is the clip    *)
(* without its sound.  A path is <<directory, stem, kind, number>>.        *)
(*                                                                         *)
(* An operator named M<Name><Change> is <Name> with a plausible bug: a     *)
(* property has to fail when it takes the place of <Name>.                 *)
(***************************************************************************)
EXTENDS Naturals, SequencesExt

CONSTANTS
    Readable,  \* the sources an operation accepts, by operation
    Starts,    \* the lists the panel may hold in the beginning, by suite
    Pages,     \* how many pages a PDF has
    PerPart,   \* how many of them go to one part of a split
    Tokens,    \* the tokens of a source of the packager
    Limit,     \* max_tokens_per_chunk
    Toc,       \* the tokens of a chunk's table of contents, 0 without one
    Silent,    \* the clips without an audio track
    Locked,    \* the PDFs that need a password
    Pipe,      \* what fits into the pipe of a process
    Lines,     \* progress lines FFmpeg writes to stdout for one clip
    Stamped,   \* which of them tell an out_time
    Noise,     \* lines FFmpeg writes to stderr for one clip
    MaxRuns,   \* bound on the runs
    MaxEdits   \* bound on the changes of the list and of its files, by suite

Suites ==
    [image    |-> {"convert", "densities", "drawable"},
     document |-> {"translate"},
     media    |-> {"mp4", "audio", "thumbnails"},
     pdf      |-> {"merge", "split", "rotate", "images", "docx"},
     packager |-> {"pack"}]
Ops     == UNION {Suites[s] : s \in DOMAIN Suites}
Sources == UNION {Readable[op] : op \in Ops}
SourcesOf(s) == UNION {Readable[op] : op \in Suites[s]}
Runs    == 1..MaxRuns

ASSUME ConvertersAssumption ==
    /\ DOMAIN Readable = Ops /\ DOMAIN Starts = DOMAIN Suites
    /\ \A s \in DOMAIN Suites : Starts[s] \subseteq Seq(Sources)
    /\ {Pages, PerPart, Pipe} \subseteq Nat \ {0}
    /\ {Limit, Toc, Lines, Noise, MaxRuns} \subseteq Nat
    /\ Stamped \subseteq 1..Lines
    /\ MaxEdits \in [DOMAIN Suites -> Nat]
    /\ \A p \in Readable["pack"] : Tokens[p] \in Nat
    \* PDF_EXTENSIONS of every operation of the pdf suite, and of no other's.
    /\ \A op \in Suites["pdf"] : Readable[op] = Readable["rotate"]
    /\ \A s \in {"image", "document", "media"} : SourcesOf(s) \cap Readable["rotate"] = {}

VARIABLES
    suite,    \* whose panel this is
    form,     \* the operation and the file list of the panel
    disk,     \* the files
    run,      \* what each run has come to
    hand,     \* the thread that works for each run
    coder,    \* the FFmpeg process of each run
    updates,  \* how many reports of a run the event loop has yet to relay
    shown,    \* how many the panel has shown
    made,     \* history: how many there have been while the run was wanted
    mixed,    \* history: runs that began while an abandoned thread still worked
    edits     \* changes still to be made

work == <<hand, coder, updates>>
told == <<shown, made>>
vars == <<suite, form, disk, run, work, told, mixed, edits>>

-----------------------------------------------------------------------------
(* Paths and contents.                                                     *)

Stem(p)     == p[2]
Output(stem, kind, n) == <<"output", stem, kind, n>>
Scratch(p)  == <<"temp", Stem(p), "decrypted", 0>>

PagesOf(p) == [i \in 1..(IF p \in Readable["rotate"] THEN Pages ELSE 1) |-> <<p, i>>]
Whole(r, pieces) == [by |-> r, pieces |-> pieces, whole |-> TRUE]
Partial(r) == [by |-> r, pieces |-> <<>>, whole |-> FALSE]
Absent     == Partial(0)

-----------------------------------------------------------------------------
(* What a run of each operation does, step by step: the sources a step     *)
(* opens, and the files it writes from the pieces read so far.             *)

Write(to, pieces) == [to |-> to, pieces |-> pieces]
LastOf(pieces)    == IF pieces = <<>> THEN <<>> ELSE <<pieces[Len(pieces)]>>

\* The image suite: _convert, and likewise _resize, _compress_to_target and
\* _strip_metadata.
Convert(ins, k, got) == <<Write(Output(Stem(ins[k]), "converted", 0), LastOf(got))>>

\* _svg_to_densities, and likewise _svg_to_favicons: several from one source.
Densities(ins, k, got) == [d \in 1..2 |-> Write(Output(Stem(ins[k]), "drawable", d), LastOf(got))]

\* _svg_to_vector_drawable: what has no counterpart is noted, never a failure.
Drawable(ins, k, got) == <<Write(Output(Stem(ins[k]), "vector", 0), LastOf(got))>>

\* Every conversion of the document suite.
Translate(ins, k, got) == <<Write(Output(Stem(ins[k]), "translated", 0), LastOf(got))>>

\* The media suite.
ToMp4(ins, k, got)        == <<Write(Output(Stem(ins[k]), "converted", 0), LastOf(got))>>
ExtractAudio(ins, k, got) == <<Write(Output(Stem(ins[k]), "mp3", 0), LastOf(got))>>
Thumbnails(ins, k, got)   == <<Write(Output(Stem(ins[k]), "frames", 0), LastOf(got))>>

\* The pdf suite: one step for each document, then the one that saves.
Merge(ins, k, got) == IF k > Len(ins) THEN <<Write(Output("merged", "pdf", 0), got)>> ELSE <<>>

\* _chunk_ranges of SINGLE_PAGES and EVERY_N, the first page being 1.
Chunk(k)     == <<(k - 1) * PerPart + 1, IF k * PerPart < Pages THEN k * PerPart ELSE Pages>>
PartCount    == (Pages + PerPart - 1) \div PerPart
Split(ins, k, got) == <<Write(Output(Stem(ins[1]), "part", k), SubSeq(got, Chunk(k)[1], Chunk(k)[2]))>>

\* _rotate, and likewise _compress and _extract_text: a step for each page, then
\* the one that saves.  (_remove_password and _edit_metadata have one before it.)
Rotate(ins, k, got) == IF k > Pages THEN <<Write(Output(Stem(ins[1]), "rotated", 0), got)>> ELSE <<>>

ExtractImages(ins, k, got) == IF k > Pages THEN <<>> ELSE <<Write(Output(Stem(ins[1]), "images", k), <<got[k]>>)>>

\* A locked document is first saved unlocked, for the converter to open.
ToDocx(ins, k, got) ==
    IF k = 2 THEN <<Write(Output(Stem(ins[1]), "docx", 0), SubSeq(got, Len(got) - Pages + 1, Len(got)))>>
    ELSE IF ins[1] \in Locked THEN <<Write(Scratch(ins[1]), got)>> ELSE <<>>

\* _chunk of the packager: the texts of a chunk do not exceed the limit, but for
\* a file that does.
Heading == Output("contents", "toc", 0)
Count(p) == IF p[1] = Heading THEN Toc ELSE Tokens[p[1]]
Closed(c) == IF c.current = <<>> THEN c
             ELSE [groups |-> Append(c.groups, c.current), current |-> <<>>, running |-> 0]
Added(c, p) ==
    IF Count(p) > Limit THEN [groups |-> Append(Closed(c).groups, <<p>>), current |-> <<>>, running |-> 0]
    ELSE LET room == IF c.running + Count(p) > Limit THEN Closed(c) ELSE c
         IN [groups |-> room.groups, current |-> Append(room.current, p), running |-> room.running + Count(p)]
Pack(got) ==
    LET packed[i \in 0..Len(got)] ==
          IF i = 0 THEN [groups |-> <<>>, current |-> <<>>, running |-> 0]
          ELSE Added(packed[i - 1], got[i])
    IN IF Limit = 0 \/ got = <<>> THEN <<got>> ELSE Closed(packed[Len(got)]).groups
\* _write_chunks puts a table of contents before the texts, unless it is not to.
Headed(group) == IF Toc = 0 THEN group ELSE <<<<Heading, Len(group)>>>> \o group
WriteChunks(ins, k, got) ==
    IF k <= Len(ins) THEN <<>>
    ELSE LET groups == Pack(got) IN [i \in DOMAIN groups |-> Write(Output("context", "txt", i), Headed(groups[i]))]

Targets(op, ins, k, got) ==
    CASE op = "convert"    -> Convert(ins, k, got)
      [] op = "densities"  -> Densities(ins, k, got)
      [] op = "drawable"   -> Drawable(ins, k, got)
      [] op = "translate"  -> Translate(ins, k, got)
      [] op = "mp4"        -> ToMp4(ins, k, got)
      [] op = "audio"      -> ExtractAudio(ins, k, got)
      [] op = "thumbnails" -> Thumbnails(ins, k, got)
      [] op = "merge"      -> Merge(ins, k, got)
      [] op = "split"      -> Split(ins, k, got)
      [] op = "rotate"     -> Rotate(ins, k, got)
      [] op = "images"     -> ExtractImages(ins, k, got)
      [] op = "docx"       -> ToDocx(ins, k, got)
      [] op = "pack"       -> WriteChunks(ins, k, got)

\* How many steps there are: the yields of the pdf handlers, and for the others
\* the files of the list, to which the packager adds the writing of the chunks.
Steps(op, ins) ==
    CASE op \in {"merge", "pack"}    -> Len(ins) + 1
      [] op = "split"                -> PartCount
      [] op \in {"rotate", "images"} -> Pages + 1
      [] op = "docx"                 -> 2
      [] OTHER                       -> Len(ins)

MOpensLast(op, ins, k) ==
    IF op \in {"split", "rotate", "images"} THEN IF k = 1 THEN <<ins[1]>> ELSE <<>>
    ELSE IF op = "docx" THEN IF k = 2 /\ ins[1] \in Locked THEN <<Scratch(ins[1])>> ELSE <<ins[1]>>
    ELSE IF k <= Len(ins) THEN <<ins[Len(ins)]>> ELSE <<>>

\* The source a step opens; a pdf handler keeps its one document open.
Opens(op, ins, k) ==
    IF op \in {"split", "rotate", "images"} THEN IF k = 1 THEN <<ins[1]>> ELSE <<>>
    ELSE IF op = "docx" THEN IF k = 2 /\ ins[1] \in Locked THEN <<Scratch(ins[1])>> ELSE <<ins[1]>>
    ELSE IF k <= Len(ins) THEN <<ins[k]>> ELSE <<>>

-----------------------------------------------------------------------------
(* State.                                                                  *)

Ins(r)   == run[r].ins
\* _extract_audio: "has no audio track — nothing to extract".
Skipped(r) == run[r].op = "audio" /\ run[r].k \in hand[r].unheard
Due(r)   == IF Skipped(r) THEN <<>> ELSE Targets(run[r].op, Ins(r), run[r].k, hand[r].got)
Now(r)   == Due(r)[hand[r].n]
Works(r) == hand[r].at \in {"reading", "probed", "writing", "filling", "encoding"}
Running  == {r \in Runs : run[r].at = "running"}

NoRun   == [op |-> "convert", ins |-> <<>>, at |-> "none", k |-> 0]
\* timed, unheard: what probe has told of the clip at hand, and the clips in
\* which it has found no sound.
NoHand  == [at |-> "idle", n |-> 1, got |-> <<>>, timed |-> FALSE, unheard |-> {}]
NoCoder == [at |-> "none", lines |-> 0, noise |-> 0, out |-> 0, err |-> 0]

Put(p, c)  == [q \in DOMAIN disk \cup {p} |-> IF q = p THEN c ELSE disk[q]]
Without(p) == Restrict(disk, DOMAIN disk \ {p})

TypeOK ==
    /\ suite \in DOMAIN Suites
    /\ form.op \in Suites[suite] /\ form.files \in Seq(Sources)
    /\ \A p \in DOMAIN disk : disk[p].by \in 0..MaxRuns /\ disk[p].whole \in BOOLEAN
    /\ \A r \in Runs :
          /\ run[r].op \in Ops /\ run[r].ins \in Seq(Sources)
          /\ run[r].at \in {"none", "running", "done", "failed", "abandoned"}
          /\ run[r].k \in 0..(Steps(run[r].op, Ins(r)) + 1)
          /\ hand[r].at \in {"idle", "reading", "probed", "writing", "filling", "encoding", "ended", "failed"}
          /\ hand[r].at \in {"writing", "filling"} => hand[r].n \in DOMAIN Due(r)
          /\ coder[r].at \in {"none", "on", "wedged", "ok", "bad"}
          /\ coder[r].out \in 0..Pipe /\ coder[r].err \in 0..Pipe
    /\ updates \in [Runs -> Nat] /\ shown \in [Runs -> Nat] /\ made \in [Runs -> Nat]
    /\ mixed \subseteq Runs /\ edits \in 0..MaxEdits[suite]

Init ==
    /\ suite \in DOMAIN Suites
    /\ \E op \in Suites[suite], files \in Starts[suite] :
          /\ ToSet(files) \subseteq Readable[op]
          /\ form = [op |-> op, files |-> files]
    /\ disk = [p \in SourcesOf(suite) |-> Whole(0, PagesOf(p))]
    /\ run = [r \in Runs |-> NoRun]
    /\ hand = [r \in Runs |-> NoHand]
    /\ coder = [r \in Runs |-> NoCoder]
    /\ updates = [r \in Runs |-> 0] /\ shown = [r \in Runs |-> 0] /\ made = [r \in Runs |-> 0]
    /\ mixed = {} /\ edits = MaxEdits[suite]

-----------------------------------------------------------------------------
(* The panel: its list, and whoever else uses the files.                   *)

Edit == edits > 0 /\ edits' = edits - 1

\* A list may be changed while a run is under way, which has its own copy.
EditList == suite # "packager" /\ Edit

\* One file a time: all that the pdf suite takes, unless it merges.
Single(op) == op \in Suites["pdf"] \ {"merge"}

\* _on_add_files; the operation may change while the dialog is open.
AddFiles(p) ==
    /\ EditList
    /\ p \notin ToSet(form.files)
    /\ Single(form.op) => form.files = <<>>
    /\ form' = [form EXCEPT !.files = Append(@, p)]
    /\ UNCHANGED <<suite, disk, run, work, told, mixed>>

RemoveFile(i) ==
    /\ EditList
    /\ form' = [form EXCEPT !.files = RemoveAt(@, i)]
    /\ UNCHANGED <<suite, disk, run, work, told, mixed>>

\* The order of the list is that of the pages of a merge.
Move(i) ==
    /\ form.op = "merge" /\ EditList
    /\ i + 1 \in DOMAIN form.files
    /\ form' = [form EXCEPT !.files[i] = form.files[i + 1], !.files[i + 1] = form.files[i]]
    /\ UNCHANGED <<suite, disk, run, work, told, mixed>>

\* What the operation cannot take goes from the list.
Kept(files, S) ==
    LET kept[i \in 0..Len(files)] ==
          IF i = 0 THEN <<>>
          ELSE IF files[i] \in S THEN Append(kept[i - 1], files[i]) ELSE kept[i - 1]
    IN kept[Len(files)]

ChangeOperation(op) ==
    /\ op # form.op /\ EditList
    /\ form' = [op |-> op,
                files |-> IF Single(op) /\ form.files # <<>> THEN <<form.files[1]>>
                          ELSE Kept(form.files, Readable[op])]
    /\ UNCHANGED <<suite, disk, run, work, told, mixed>>

\* Of a list only; nobody else touches the output directory.
UserDeletes(p) ==
    /\ suite # "packager" /\ Edit
    /\ p \in DOMAIN disk \cap ToSet(form.files) /\ p[1] # "output"
    /\ disk' = Without(p)
    /\ UNCHANGED <<suite, form, run, work, told, mixed>>

-----------------------------------------------------------------------------
(* The event loop: _on_run_click, execute, _on_cancel.                     *)

\* Every file has an extension the operation accepts.
Takes(op, files) == ToSet(files) \subseteq Readable[op]

\* The validators of the parameters.
Valid(op, files) ==
    /\ files # <<>> \/ op = "pack"
    /\ Takes(op, files)
    /\ op = "merge" => Len(files) >= 2
    /\ Single(op) => Len(files) = 1

Goto(r, place) == run' = [run EXCEPT ![r].at = place]

\* A run takes a copy of the list, and fails at once if a file is missing.
Begin(r) ==
    /\ Running = {} /\ run[r].at = "none" /\ \A q \in Runs : q < r => run[q].at # "none"
    /\ Valid(form.op, form.files)
    /\ run' = [run EXCEPT ![r] =
                 [op |-> form.op, ins |-> form.files, k |-> 1,
                  at |-> IF suite = "packager" \/ ToSet(form.files) \subseteq DOMAIN disk
                         THEN "running" ELSE "failed"]]
    /\ mixed' = IF \E q \in Runs : Works(q) THEN mixed \cup {r} ELSE mixed
    /\ UNCHANGED <<suite, form, disk, work, told, edits>>

InRun(r, place) == run[r].at = "running" /\ hand[r].at = place

\* run_in_thread: the next step goes to a thread of the pool.
Call(r) ==
    /\ InRun(r, "idle")
    /\ run[r].k <= Steps(run[r].op, Ins(r))
    /\ hand' = [hand EXCEPT ![r].at = "reading"]
    /\ UNCHANGED <<suite, form, disk, run, coder, updates, told, mixed, edits>>

\* run_reporting_progress: a report reaches the panel.
Relay(r) ==
    /\ run[r].at = "running" /\ updates[r] > 0
    /\ updates' = [updates EXCEPT ![r] = @ - 1]
    /\ shown' = [shown EXCEPT ![r] = @ + 1]
    /\ UNCHANGED <<suite, form, disk, run, hand, coder, made, mixed, edits>>

MRelayed(r) == TRUE

\* The sentinel is behind every report of the step.
Relayed(r) == updates[r] = 0

Advance(r) ==
    /\ InRun(r, "ended") /\ Relayed(r)
    /\ run' = [run EXCEPT ![r].k = @ + 1]
    /\ hand' = [hand EXCEPT ![r].at = "idle", ![r].n = 1, ![r].timed = FALSE]
    /\ updates' = [updates EXCEPT ![r] = 0]
    /\ UNCHANGED <<suite, form, disk, coder, told, mixed, edits>>

\* A step has raised: EVENT_ERROR.
Fail(r) ==
    /\ InRun(r, "failed") /\ Relayed(r)
    /\ Goto(r, "failed")
    /\ UNCHANGED <<suite, form, disk, work, told, mixed, edits>>

\* EVENT_DONE; but the image, document and media suite measure their sources
\* again for the result, and fail if one is gone by now.
Finish(r) ==
    /\ InRun(r, "idle")
    /\ run[r].k > Steps(run[r].op, Ins(r))
    /\ Goto(r, IF suite \in {"pdf", "packager"} \/ ToSet(Ins(r)) \subseteq DOMAIN disk THEN "done" ELSE "failed")
    /\ UNCHANGED <<suite, form, disk, work, told, mixed, edits>>

\* The time limit, and _on_cancel: nobody waits for the thread any more, and
\* what it reports is not relayed.
Abandon(r) ==
    /\ run[r].at = "running"
    /\ Goto(r, "abandoned")
    /\ updates' = [updates EXCEPT ![r] = 0]
    /\ UNCHANGED <<suite, form, disk, hand, coder, told, mixed, edits>>

-----------------------------------------------------------------------------
(* The thread.                                                             *)

Hand(r, place) == hand' = [hand EXCEPT ![r].at = place]
Legible(p)     == p \in DOMAIN disk /\ disk[p].whole

MOpened(r) == Opens(run[r].op, IF run[r].k \in DOMAIN form.files THEN form.files ELSE Ins(r), run[r].k)

Opened(r) == Opens(run[r].op, Ins(r), run[r].k)

\* The source is read; with nothing to write, that is all.
Read(r) ==
    /\ hand[r].at = "reading" /\ suite # "media"
    /\ \A p \in ToSet(Opened(r)) : Legible(p)
    /\ LET got == IF Opened(r) = <<>> THEN hand[r].got ELSE hand[r].got \o disk[Opened(r)[1]].pieces
       IN hand' = [hand EXCEPT ![r].got = got,
                     ![r].at = IF Targets(run[r].op, Ins(r), run[r].k, got) = <<>> THEN "ended" ELSE "writing"]
    /\ UNCHANGED <<suite, form, disk, run, coder, updates, told, mixed, edits>>

\* It is gone or damaged (what a half-written file yields is taken for damage),
\* or the password is wrong: the packager skips it.
ReadFails(r) ==
    /\ hand[r].at = "reading" /\ suite # "media"
    /\ Opened(r) # <<>>
    /\ Hand(r, IF suite = "packager" THEN "ended" ELSE "failed")
    /\ UNCHANGED <<suite, form, disk, run, coder, updates, told, mixed, edits>>

\* A target is opened, which empties it if it is there.
Truncate(r) ==
    /\ hand[r].at = "writing"
    /\ disk' = Put(Now(r).to, Partial(r))
    /\ Hand(r, "filling")
    /\ UNCHANGED <<suite, form, run, coder, updates, told, mixed, edits>>

\* What is in the file once r has written all of it: nothing lasts of a file
\* that was removed meanwhile, and two that wrote at once have spoilt it.
Filled(r) ==
    IF Now(r).to \notin DOMAIN disk THEN disk
    ELSE Put(Now(r).to, IF disk[Now(r).to].by = r THEN Whole(r, Now(r).pieces) ELSE Partial(r))

\* The unlocked copy is removed when the converter has finished or raised.
Docx2(r)     == run[r].op = "docx" /\ run[r].k = 2 /\ Ins(r)[1] \in Locked
Tidied(r, d) == IF Docx2(r) THEN Restrict(d, DOMAIN d \ {Scratch(Ins(r)[1])}) ELSE d

Close(r) ==
    /\ hand[r].at = "filling"
    /\ LET last == hand[r].n = Len(Due(r))
       IN /\ disk' = IF last THEN Tidied(r, Filled(r)) ELSE Filled(r)
          /\ hand' = [hand EXCEPT ![r].n = @ + 1, ![r].at = IF last THEN "ended" ELSE "writing"]
    /\ UNCHANGED <<suite, form, run, coder, updates, told, mixed, edits>>

MWriteFailsUntidy(r) ==
    /\ hand[r].at = "filling"
    /\ Hand(r, "failed")
    /\ UNCHANGED <<suite, form, disk, run, coder, updates, told, mixed, edits>>

\* A write fails and leaves what it has written so far.
WriteFails(r) ==
    /\ hand[r].at = "filling"
    /\ disk' = Tidied(r, disk)
    /\ Hand(r, "failed")
    /\ UNCHANGED <<suite, form, run, coder, updates, told, mixed, edits>>

-----------------------------------------------------------------------------
(* A step of the media suite: run_ffmpeg, _pump_progress and its drain.    *)

Coder(r, place) == coder' = [coder EXCEPT ![r].at = place]
Reports(r)      == run[r].op # "thumbnails"

Clip(r)         == Opened(r)[1]

\* What probe can tell of p: nothing if it fails (there may be no ffprobe), else
\* whether p has sound, and perhaps how long it is.
Sounds(pieces) == \E i \in DOMAIN pieces : pieces[i][1] \notin Silent /\ pieces[i][2] # 0
Facts(p) == {{}} \cup {facts \in SUBSET {"sound", "length"} :
                         /\ p \in DOMAIN disk
                         /\ disk[p].whole => ("sound" \in facts <=> Sounds(disk[p].pieces))}

\* Every operation probes its clip first; what probe does not know is no reason
\* to fail, but there is nothing to extract from a clip without sound.
Probe(r) ==
    /\ hand[r].at = "reading" /\ suite = "media"
    /\ IF run[r].op = "thumbnails" THEN Hand(r, "probed")
       ELSE \E facts \in Facts(Clip(r)) :
          hand' = [hand EXCEPT ![r].timed = "length" \in facts,
                     ![r].unheard = IF "sound" \in facts THEN @ ELSE @ \cup {run[r].k},
                     ![r].at = IF run[r].op = "audio" /\ "sound" \notin facts THEN "ended" ELSE "probed"]
    /\ UNCHANGED <<suite, form, disk, run, coder, updates, told, mixed, edits>>

\* What an encode takes from its clip: "-an" where probe has found no sound.
Muted(pieces) == [i \in DOMAIN pieces |-> IF pieces[i][1] \in Silent THEN pieces[i] ELSE <<pieces[i][1], 0>>]
Taken(r) ==
    IF run[r].op = "mp4" /\ run[r].k \in hand[r].unheard THEN Muted(disk[Clip(r)].pieces) ELSE disk[Clip(r)].pieces

\* The process reads its clip and empties the target; it fails on a clip that is
\* gone or damaged, and on one it would overwrite; or it cannot be started.
Spawn(r) ==
    /\ hand[r].at = "probed"
    /\ \/ /\ Legible(Clip(r)) /\ Now(r).to # Clip(r)
          /\ hand' = [hand EXCEPT ![r].at = "encoding", ![r].got = @ \o Taken(r)]
          /\ coder' = [coder EXCEPT ![r] = [at |-> "on", lines |-> Lines, noise |-> Noise, out |-> 0, err |-> 0]]
          /\ disk' = Put(Now(r).to, Partial(r))
       \/ /\ ~Legible(Clip(r)) \/ Now(r).to = Clip(r)
          /\ Hand(r, "encoding") /\ Coder(r, "bad") /\ UNCHANGED disk
       \/ Hand(r, "failed") /\ UNCHANGED <<disk, coder>>
    /\ UNCHANGED <<suite, form, run, updates, told, mixed, edits>>

\* The process writes a line of progress, or one of complaint, if the pipe
\* has room, and ends when it has written them all.
Progress(r) ==
    /\ coder[r].at = "on" /\ coder[r].lines > 0 /\ coder[r].out < Pipe
    /\ coder' = [coder EXCEPT ![r].lines = @ - 1, ![r].out = @ + 1]
    /\ UNCHANGED <<suite, form, disk, run, hand, updates, told, mixed, edits>>

Complain(r) ==
    /\ coder[r].at = "on" /\ coder[r].noise > 0 /\ coder[r].err < Pipe
    /\ coder' = [coder EXCEPT ![r].noise = @ - 1, ![r].err = @ + 1]
    /\ UNCHANGED <<suite, form, disk, run, hand, updates, told, mixed, edits>>

Complete(r) ==
    /\ coder[r].at = "on" /\ coder[r].lines = 0 /\ coder[r].noise = 0
    /\ Coder(r, "ok")
    /\ disk' = Filled(r)
    /\ UNCHANGED <<suite, form, run, hand, updates, told, mixed, edits>>

\* The encode fails, or the process hangs.
Break(r) ==
    /\ coder[r].at = "on"
    /\ Coder(r, "bad") \/ Coder(r, "wedged")
    /\ UNCHANGED <<suite, form, disk, run, hand, updates, told, mixed, edits>>

MDrainLater(r) ==
    /\ hand[r].at = "encoding" /\ coder[r].err > 0
    /\ coder[r].at \in {"ok", "bad"} /\ coder[r].out = 0
    /\ coder' = [coder EXCEPT ![r].err = @ - 1]
    /\ UNCHANGED <<suite, form, disk, run, hand, updates, told, mixed, edits>>

\* _start_stderr_drain: a thread of its own empties stderr.
Drain(r) ==
    /\ hand[r].at = "encoding" /\ coder[r].err > 0
    /\ coder' = [coder EXCEPT ![r].err = @ - 1]
    /\ UNCHANGED <<suite, form, disk, run, hand, updates, told, mixed, edits>>

\* A line of progress is read in time, and reported if it tells an out_time and
\* the length of the clip is known.
Stamp(r) == Reports(r) /\ hand[r].timed /\ Lines - coder[r].lines - coder[r].out + 1 \in Stamped
Pump(r) ==
    /\ hand[r].at = "encoding" /\ coder[r].out > 0
    /\ coder' = [coder EXCEPT ![r].out = @ - 1]
    /\ IF Stamp(r) /\ run[r].at = "running"
       THEN updates' = [updates EXCEPT ![r] = @ + 1] /\ made' = [made EXCEPT ![r] = @ + 1]
       ELSE UNCHANGED <<updates, made>>
    /\ UNCHANGED <<suite, form, disk, run, hand, shown, mixed, edits>>

MDiscarded(r) == disk

\* _discard_partial_output: but for the numbered files of the thumbnails.
Discarded(r) == IF run[r].op = "thumbnails" THEN disk ELSE Without(Now(r).to)

\* It is read too late: the process is killed.  An hour has passed by then, and
\* the time limit of the run, five minutes, long before.
PumpLate(r) ==
    /\ hand[r].at = "encoding" /\ coder[r].out > 0
    /\ run[r].at = "abandoned"
    /\ coder' = [coder EXCEPT ![r] = NoCoder]
    /\ disk' = Discarded(r)
    /\ Hand(r, "failed")
    /\ UNCHANGED <<suite, form, run, updates, told, mixed, edits>>

\* stdout is at its end, the process gone and its stderr drained.
Wait(r) ==
    /\ hand[r].at = "encoding"
    /\ coder[r].at \in {"ok", "bad"} /\ coder[r].out = 0 /\ coder[r].err = 0
    /\ Hand(r, IF coder[r].at = "ok" THEN "ended" ELSE "failed")
    /\ disk' = IF coder[r].at = "ok" THEN disk ELSE Discarded(r)
    /\ coder' = [coder EXCEPT ![r] = NoCoder]
    /\ UNCHANGED <<suite, form, run, updates, told, mixed, edits>>

-----------------------------------------------------------------------------

Encoding(r) == Progress(r) \/ Complain(r) \/ Complete(r) \/ Drain(r) \/ Pump(r) \/ Wait(r)
Loop(r)     == Call(r) \/ Relay(r) \/ Advance(r) \/ Fail(r) \/ Finish(r)
Thread(r)   == Read(r) \/ ReadFails(r) \/ Truncate(r) \/ Close(r) \/ WriteFails(r) \/ Probe(r) \/ Spawn(r)

Next ==
    \/ \E p \in SourcesOf(suite) : AddFiles(p) \/ UserDeletes(p)
    \/ \E i \in DOMAIN form.files : RemoveFile(i) \/ Move(i)
    \/ \E op \in Suites[suite] : ChangeOperation(op)
    \/ \E r \in Runs : \/ Begin(r) \/ Abandon(r) \/ Break(r) \/ PumpLate(r)
                       \/ Loop(r) \/ Thread(r) \/ Encoding(r)

\* A process, and the two threads that read its pipes, go on unless it hangs.
Spec == Init /\ [][Next]_vars /\ \A r \in Runs : WF_vars(Encoding(r))

-----------------------------------------------------------------------------
(* What the modules promise.                                               *)

\* The latest run, if no thread of an abandoned one could get in its way.
Plain(r) == r \notin mixed /\ \A q \in Runs : q > r => run[q].at = "none"

\* No run has written to the source p, nor is it a result that is gone.
Untouched(p) == p[1] \notin {"output", "temp"} \/ (Legible(p) /\ disk[p].by = 0)
Pristine(r)  == \A i \in DOMAIN Ins(r) : Untouched(Ins(r)[i])

\* The sources that share their stem, and so their target, with no other.
Alone(r) == {k \in DOMAIN Ins(r) : \A j \in DOMAIN Ins(r) : Stem(Ins(r)[j]) = Stem(Ins(r)[k]) => j = k}

Mine(r, kind) == {q \in DOMAIN disk : disk[q].by = r /\ q[3] = kind}
Together(r, s, kind) == FlattenSeq([n \in 1..Cardinality(Mine(r, kind)) |-> disk[Output(s, kind, n)].pieces])

NamedAfter(r, p) == {q \in DOMAIN disk : disk[q].by = r /\ Stem(q) = Stem(p)}
Copied == {"convert", "densities", "drawable", "translate", "mp4", "audio", "thumbnails", "rotate", "docx"}
EachCopied(r) ==
    \A k \in Alone(r) : Untouched(Ins(r)[k]) =>
        LET pages == PagesOf(Ins(r)[k])
            mute  == k \in hand[r].unheard
        IN /\ (run[r].op = "audio" /\ mute) \/ NamedAfter(r, Ins(r)[k]) # {}
           /\ \A q \in NamedAfter(r, Ins(r)[k]) : disk[q].pieces = IF run[r].op = "mp4" /\ mute THEN Muted(pages) ELSE pages

Merged(r) == disk[Output("merged", "pdf", 0)] = Whole(r, FlattenSeq([k \in DOMAIN Ins(r) |-> PagesOf(Ins(r)[k])]))
Parted(r, kind) == Together(r, Stem(Ins(r)[1]), kind) = PagesOf(Ins(r)[1])

TokensOf(pieces) ==
    LET sum[i \in 0..Len(pieces)] == IF i = 0 THEN 0 ELSE sum[i - 1] + Count(pieces[i])
    IN sum[Len(pieces)]
Body(pieces) == IF Toc = 0 THEN pieces ELSE Tail(pieces)
Chunks(r)     == [n \in 1..Cardinality(Mine(r, "txt")) |-> Body(disk[Output("context", "txt", n)].pieces)]
Chunked(r) ==
    /\ FlattenSeq(Chunks(r)) = hand[r].got
    /\ \A n \in DOMAIN Chunks(r) : Limit = 0 \/ Len(Chunks(r)[n]) = 1 \/ TokensOf(Chunks(r)[n]) <= Limit

\* A run that reports success has written, whole, what its list asked for when
\* Run was pressed: what is named after a source holds that source (a loop over
\* the files could make "every file re-encode the last one", media_suite
\* execute), and the merged document, the parts of a split, the images and the
\* chunks hold every page or text once and in order; the texts of a chunk exceed
\* the limit only if it is one file.  Where probe has found no sound, rightly or
\* not, there is no audio file and the video is mute (SoundIsKept says more).  A
\* source that a run has written to itself is exempt.
DoneAsAsked ==
    \A r \in Runs : run[r].at = "done" /\ Plain(r) =>
        /\ \A q \in DOMAIN disk : disk[q].by = r => disk[q].whole
        /\ run[r].op \in Copied => EachCopied(r)
        /\ run[r].op = "merge" /\ Pristine(r) => Merged(r)
        /\ run[r].op = "split" /\ Pristine(r) => Parted(r, "part")
        /\ run[r].op = "images" /\ Pristine(r) => Parted(r, "images")
        /\ run[r].op = "pack" => Chunked(r)

\* "A truncated file is indistinguishable from a finished one to the user, so it
\* must not survive the failure that produced it" (_discard_partial_output): if
\* runs do not overlap, a half-written video is one that is being written.
NoTruncatedVideo ==
    suite = "media" /\ mixed = {} =>
        \A q \in DOMAIN disk : \/ disk[q].whole \/ q[3] = "frames"
                               \/ \E r \in Runs : hand[r].at = "encoding" /\ Now(r).to = q

\* "Every report is delivered, including the ones made just before work returns"
\* (run_reporting_progress), whether it returns or raises: when a run ends, the
\* panel has shown every report its threads have made.
NoReportLost == \A r \in Runs : run[r].at \in {"done", "failed"} => shown[r] = made[r]

\* The unlocked copy of a document "must not linger" (_to_docx): once the converter
\* has opened it, it goes whether or not the conversion succeeds, and whether or
\* not the run is still wanted.
NoUnlockedCopy ==
    \A r \in Runs :
        /\ run[r].op = "docx" /\ Ins(r)[1] \in Locked /\ Plain(r) /\ Pristine(r)
        /\ ~Works(r) /\ Len(hand[r].got) = 2 * Pages
        => Scratch(Ins(r)[1]) \notin DOMAIN disk

\* "Neither side can wedge" (_pump_progress): whatever it writes to its two pipes,
\* and whether or not its run is still wanted, a process that does not hang ends.
EncodeEnds == \A r \in Runs : coder[r].at = "on" ~> coder[r].at # "on"

-----------------------------------------------------------------------------
(* What the documentation promises and the code does not keep.             *)

\* "A probe failure is not fatal: the operations fall back to
\* duration-independent behaviour and say so" (probe): a clip with sound does not
\* lose it where the run reports success.
SoundIsKept ==
    \A r \in Runs : run[r].at = "done" /\ Plain(r) /\ run[r].op \in {"mp4", "audio"} =>
        \A k \in Alone(r) : Untouched(Ins(r)[k]) /\ Sounds(PagesOf(Ins(r)[k])) =>
            \E q \in NamedAfter(r, Ins(r)[k]) : Sounds(disk[q].pieces)

\* "Zero means progress cannot be scaled and only a heartbeat is reported"
\* (run_ffmpeg): of a video of unknown length, something is.
HeartbeatShown == \A r \in Runs : run[r].at = "done" /\ run[r].op = "mp4" /\ Stamped # {} => shown[r] > 0

\* "Any positive value caps each output file's token count" (packager constants),
\* but for a file that "cannot be split".
FilesFit ==
    \A r \in Runs : run[r].at = "done" /\ Plain(r) /\ Limit > 0 =>
        \A q \in Mine(r, "txt") :
            \/ TokensOf(disk[q].pieces) <= Limit
            \/ Len(Body(disk[q].pieces)) = 1 /\ TokensOf(Body(disk[q].pieces)) > Limit
=============================================================================
