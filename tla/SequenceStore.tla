--------------------------- MODULE SequenceStore ---------------------------
(***************************************************************************)
(* Which sequence a run executes and which text is recorded for it: the    *)
(* sequence library, the sequence loaded in the sequencer process, its     *)
(* runs, and the HDF writer's background thread that asks for the loaded   *)
(* text after each start event.                                            *)
(*                                                                         *)
(* A text is <<id, version>>: version v of the file of sequence id.  Files *)
(* change on disk at any time; a version in Broken does not parse.         *)
(***************************************************************************)
EXTENDS Naturals, Sequences, FiniteSets

CONSTANTS
    Ids,          \* the sequence ids, each a file of the library
    Broken,       \* texts that do not parse
    Uses,         \* text |-> the ids its use steps name
    None,         \* no text, no run, no id
    MaxVersion,   \* bound on the edits of a file
    MaxRuns,      \* bound on the starts
    MaxRestarts   \* bound on the restarts of the sequencer process

VARIABLES
    disk,      \* id |-> the version on disk
    library,   \* id |-> the version the library holds, or None: not loaded
    loaded,    \* [text, kind, active, run] of the sequencer process
    engine,    \* the runtime: [spec, state, run]
    nextRun,   \* the next run id, counted from 1 in every process
    life,      \* how often the sequencer process was restarted
    started,   \* every successful start, in order: [life, run, text]
    events,    \* start events not yet handled by the writer: [life, run]
    rows       \* snapshots written: [life, run, text, takenIn]

storeVars == <<disk, library, loaded, engine, nextRun, life, started, events, rows>>

Texts == Ids \X (1..MaxVersion)

OnDisk == [i \in Ids |-> <<i, disk[i]>>]

NotStarted(t, kind, id) == [text |-> t, kind |-> kind, active |-> id, run |-> None]
NothingLoaded == NotStarted(None, None, None)

Idle(t) == [spec |-> t, state |-> "IDLE", run |-> 0]

-----------------------------------------------------------------------------
(* The library: every file must parse, and the use steps must name         *)
(* sequences of the library and never lead back to their own.              *)

\* Every set that holds what i uses, and what its members use, holds this one.
Reach(entries, i) ==
    LET Closed(S) == \A k \in S \cap DOMAIN entries : Uses[entries[k]] \subseteq S
        Names == DOMAIN entries \cup UNION {Uses[entries[k]] : k \in DOMAIN entries}
    IN  {j \in Names : \A S \in SUBSET Names : Uses[entries[i]] \subseteq S /\ Closed(S) => j \in S}

ValidateUseGraph(entries) ==
    \A i \in DOMAIN entries : i \notin Reach(entries, i) /\ Reach(entries, i) \subseteq DOMAIN entries

LoadEntries(entries) ==
    (\A i \in DOMAIN entries : entries[i] \notin Broken) /\ ValidateUseGraph(entries)

-----------------------------------------------------------------------------
(* Loading.  The runtime refuses while it runs; otherwise the previous     *)
(* sequence, even a paused run, is replaced.                               *)

CanLoad == engine.state # "RUNNING"

\* Mutant: the id of the run the previous text was started for is kept.
LoadedKeepingRun(t, kind, id) ==
    [text |-> t, kind |-> kind, active |-> id, run |-> loaded.run]

Loaded(t, kind, id) ==
    [text |-> t, kind |-> kind, active |-> id, run |-> None]

SetLoadedSequence(t, kind, id) ==
    /\ CanLoad
    /\ loaded' = Loaded(t, kind, id)
    /\ engine' = Idle(t)

\* What a new process has loaded: nothing, or what autoload_sequence_id names
\* in the library, or the file of autoload_path; one that fails loads nothing.
Autoloaded(lib) ==
    {NothingLoaded}
    \cup {NotStarted(lib[i], "library", i) : i \in {k \in Ids : lib # None}}
    \cup {NotStarted(OnDisk[i], "autoload_path", None) : i \in {k \in Ids : OnDisk[k] \notin Broken}}

Init ==
    /\ disk = [i \in Ids |-> 1]
    /\ library = IF LoadEntries(OnDisk) THEN OnDisk ELSE None
    /\ loaded \in Autoloaded(library)
    /\ engine = Idle(loaded.text)
    /\ nextRun = 1
    /\ life = 0
    /\ started = <<>>
    /\ events = <<>>
    /\ rows = {}

EditFile(i) ==
    /\ disk[i] < MaxVersion
    /\ disk' = [disk EXCEPT ![i] = @ + 1]
    /\ UNCHANGED <<library, loaded, engine, nextRun, life, started, events, rows>>

\* A reload that fails leaves the entries of the previous one in use.
LibraryReload ==
    /\ library' = IF LoadEntries(OnDisk) THEN OnDisk ELSE library
    /\ UNCHANGED <<disk, loaded, engine, nextRun, life, started, events, rows>>

\* sequencer.load of a file or of a text the operator sends.
Load(i) ==
    /\ OnDisk[i] \notin Broken
    /\ SetLoadedSequence(OnDisk[i], "path", None)
    /\ UNCHANGED <<disk, library, nextRun, life, started, events, rows>>

LibraryLoad(i) ==
    /\ library # None
    /\ SetLoadedSequence(library[i], "library", i)
    /\ UNCHANGED <<disk, library, nextRun, life, started, events, rows>>

\* The runtime starts what it holds; the HDF writer is told with the run id.
Begin(was, text) ==
    /\ nextRun <= MaxRuns
    /\ engine' = [spec |-> text, state |-> "RUNNING", run |-> nextRun]
    /\ nextRun' = nextRun + 1
    /\ loaded' = [was EXCEPT !.run = nextRun]
    /\ started' = Append(started, [life |-> life, run |-> nextRun, text |-> text])
    /\ events' = Append(events, [life |-> life, run |-> nextRun])
    /\ UNCHANGED <<disk, library, life, rows>>

Start == loaded.text # None /\ Begin(loaded, loaded.text)

\* A start with a sequence id loads that sequence first.
StartById(i) ==
    /\ library # None
    /\ CanLoad
    /\ Begin(Loaded(library[i], "library", i), library[i])

\* Mutant: the sequence loaded before a failed start is put back in the
\* process only, not in the runtime.
RestoreLoaded(i, previous) ==
    /\ loaded' = previous
    /\ engine' = Idle(library[i])

\* What was loaded before a failed start is loaded again; nothing is when
\* nothing was.
RestoreLoadedSequence(i, previous) ==
    IF previous.text # None
    THEN /\ loaded' = previous
         /\ engine' = Idle(previous.text)
    ELSE /\ loaded' = Loaded(library[i], "library", i)
         /\ engine' = [spec |-> library[i], state |-> "ERROR", run |-> nextRun]

\* A start whose preconditions fail: the run id is used up.
StartFails ==
    /\ loaded.text # None
    /\ nextRun <= MaxRuns
    /\ engine' = [engine EXCEPT !.state = "ERROR", !.run = nextRun]
    /\ nextRun' = nextRun + 1
    /\ UNCHANGED <<disk, library, loaded, life, started, events, rows>>

StartByIdFails(i) ==
    /\ library # None
    /\ CanLoad
    /\ nextRun <= MaxRuns
    /\ RestoreLoadedSequence(i, loaded)
    /\ nextRun' = nextRun + 1
    /\ UNCHANGED <<disk, library, life, started, events, rows>>

\* The run pauses, resumes or ends.
RunMoves ==
    /\ \/ engine.state = "RUNNING" /\ engine' = [engine EXCEPT !.state = "PAUSED"]
       \/ engine.state = "PAUSED" /\ engine' = [engine EXCEPT !.state = "RUNNING"]
       \/ engine.state \in {"RUNNING", "PAUSED"} /\ engine' = [engine EXCEPT !.state = "STOPPED"]
    /\ UNCHANGED <<disk, library, loaded, nextRun, life, started, events, rows>>

\* The process ends and its supervisor starts it again: run ids begin at 1.
Restart ==
    /\ life < MaxRestarts
    /\ life' = life + 1
    /\ library' = IF LoadEntries(OnDisk) THEN OnDisk ELSE None
    /\ loaded' \in Autoloaded(library')
    /\ engine' = Idle(loaded'.text)
    /\ nextRun' = 1
    /\ UNCHANGED <<disk, started, events, rows>>

-----------------------------------------------------------------------------
(* The HDF writer's background thread takes a start event and asks the     *)
(* sequencer for the text that is loaded by then.                          *)

\* The loaded text is taken for the run's only if it was started for it.
RunIdMatches(e) == loaded.run = e.run

CaptureSnapshot ==
    /\ events # <<>>
    /\ events' = Tail(events)
    /\ rows' = IF loaded.text # None /\ RunIdMatches(Head(events))
               THEN rows \cup {[life |-> Head(events).life, run |-> Head(events).run,
                                text |-> loaded.text, takenIn |-> life]}
               ELSE rows
    /\ UNCHANGED <<disk, library, loaded, engine, nextRun, life, started>>

Next ==
    \/ \E i \in Ids : EditFile(i) \/ Load(i) \/ LibraryLoad(i) \/ StartById(i) \/ StartByIdFails(i)
    \/ LibraryReload \/ Start \/ StartFails \/ RunMoves \/ Restart \/ CaptureSnapshot

Spec == Init /\ [][Next]_storeVars

-----------------------------------------------------------------------------
(* Correctness. *)

\* A text recorded for a run of the process that answered is the text that
\* run was started with, whatever was loaded, started or edited in between
\* (loaded_yaml.run_id and _loaded_yaml_run_id_mismatch).
SnapshotMatchesRun ==
    \A r \in rows : r.takenIn = r.life =>
        \E n \in DOMAIN started :
            started[n] = [life |-> r.life, run |-> r.run, text |-> r.text]

\* The same without the proviso: run ids start again at 1 in a restarted
\* process, so a late capture can take the text of another run.
SnapshotAlwaysMatchesRun ==
    \A r \in rows : \E n \in DOMAIN started :
        started[n] = [life |-> r.life, run |-> r.run, text |-> r.text]

\* The text the process says is loaded is the one the runtime holds, and no
\* sequences of a library in use are broken or use each other, after failed
\* starts and failed reloads too (_restore_loaded_sequence, reload).
LoadedIsWhatRuns ==
    /\ engine.spec = loaded.text
    /\ library # None =>
         \A i, j \in Ids :
             library[i] \notin Broken
             /\ ~(j \in Uses[library[i]] /\ i \in Uses[library[j]])
=============================================================================
