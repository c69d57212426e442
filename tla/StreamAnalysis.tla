--------------------------- MODULE StreamAnalysis ---------------------------
(***************************************************************************)
(* The stream analysis process (processes/stream_analysis.py): workspaces  *)
(* are graphs of operators that are put, edited, deleted, saved and        *)
(* reloaded by RPC while frames of a stream ring arrive; a put keeps the   *)
(* accumulators of the nodes it did not touch.  One thread handles RPCs    *)
(* and chunk descriptors in turn, each in one step.  A value is reduced to *)
(* its lineage, the definitions of the node and of all nodes above it, and *)
(* an accumulator to the set of lineages it has been fed.                  *)
(***************************************************************************)
EXTENDS Integers, Sequences, FiniteSets, FiniteSetsExt, Functions, TLC

CONSTANTS Workspaces,
          Configs,      \* names of the workspace configurations clients put
          Graph,        \* what each of them says: enabled, key, nodes, outs
          Live,         \* the stream whose driver runs
          Slots,        \* slot_count of its ring
          MaxSeq,       \* bound: frames per ring
          MaxRings,     \* bound: ring names (driver restarts + 1)
          MaxRev,       \* bound: puts of a workspace
          QueueMax      \* bound: descriptors in the SUB queue

\* A file's workspaces are loaded in the order of their ids, and no configuration
\* has the name that stands for none.
ASSUME ConfigAssumption ==
    /\ Workspaces \subseteq Int /\ "none" \notin Configs
    /\ MaxRev \in Nat /\ Slots \in Nat

VARIABLES ws,           \* _workspaces: id -> runtime
          snap,         \* _latest_output_payloads: <<workspace, output>> -> payload
          writers,      \* _trace_writers: keys of the trace rings that exist
          reader,       \* _readers, _last_seq, _stream_context, _context_by_seq of Live
          store,        \* the workspace file: what it says of each workspace
          found,        \* whether it is there and can be parsed: ok, missing, broken
          dirty,        \* _workspace_store_dirty
          rings,        \* the driver's rings, the last one in use: the context of each frame
          chunks,       \* chunk_ready descriptors waiting in the SUB socket
          told,         \* ghost: frames whose descriptor was handled
          analysed,     \* ghost: frame -> context it was analysed under
          edited        \* ghost: the file was edited by hand since it was saved or loaded

analysisVars == <<ws, snap, writers, reader, store, found, dirty, rings, chunks, told, analysed, edited>>

NoWorkspace == [rev |-> 0]
NoPayload == [node |-> "none"]
NoReader == [name |-> 0, last |-> 0, map |-> <<>>, cur |-> 0]
NoConfig == "none"
AnyRevision == -1
EmptyFile == [w \in Workspaces |-> NoConfig]
OutputKeys == {<<w, o>> : w \in Workspaces, o \in UNION {DOMAIN Graph[c].outs : c \in Configs}}

Exists(w) == ws[w] # NoWorkspace

Init ==
    /\ ws = [w \in Workspaces |-> NoWorkspace]
    /\ snap = [k \in OutputKeys |-> NoPayload]
    /\ writers = {} /\ reader = NoReader
    /\ store = EmptyFile /\ found = "missing" /\ dirty = FALSE
    /\ rings = << <<>> >> /\ chunks = <<>>
    /\ told = {} /\ analysed = <<>> /\ edited = FALSE

-----------------------------------------------------------------------------
(* Compilation *)

Nodes(c) == DOMAIN Graph[c].nodes
Outs(c) == DOMAIN Graph[c].outs
Node(c, n) == Graph[c].nodes[n]

StatefulOps == {"aggregate", "rolling_mean", "fit"}
Ops == {"source.stream", "threshold"} \cup StatefulOps
Invalid == -1

\* The sets of nodes that contain the inputs of all their members.
Closed(c, S) == \A m \in S : Node(c, m).ins \subseteq S

\* What a node depends on: itself and everything above it.
Above(c, n) == {m \in Nodes(c) : \A S \in SUBSET Nodes(c) : n \in S /\ Closed(c, S) => m \in S}

Sources(c) == {n \in Nodes(c) : Node(c, n).op = "source.stream"}

\* The operator is known and its inputs are nodes of the graph.
ValidNode(c, n) == Node(c, n).op \in Ops /\ Node(c, n).ins \subseteq Nodes(c)

\* Whether the operator's own validator takes its parameters.
ValidParams(c, n) == Node(c, n).par # Invalid

Acyclic(c) == \A n \in Nodes(c) : \A m \in Node(c, n).ins : n \notin Above(c, m)

\* What the compiler refuses: an invalid node, a cycle, a graph without a
\* source, an output of an unknown node.
Accepted(c) ==
    /\ \A n \in Nodes(c) : ValidNode(c, n) /\ ValidParams(c, n)
    /\ Acyclic(c) /\ Sources(c) # {}
    /\ Range(Graph[c].outs) \subseteq Nodes(c)

SameAbove(c, d, n) ==
    n \in Nodes(d) /\ \A m \in Above(c, n) : m \in Nodes(d) /\ Node(d, m) = Node(c, m)

\* What compiling each configuration yields: whether it is accepted, the nodes
\* above each node, the nodes run on every frame (what an output needs, and the
\* sources), and the lineage of each node, represented by the configurations
\* that give it the same one.
Compiled ==
    [c \in Configs |->
        IF ~Accepted(c) THEN [ok |-> FALSE]
        ELSE [ok |-> TRUE,
              above |-> [n \in Nodes(c) |-> Above(c, n)],
              executed |-> UNION {Above(c, n) : n \in Range(Graph[c].outs) \cup Sources(c)},
              lineage |-> [n \in Nodes(c) |-> {d \in Configs : SameAbove(c, d, n)}]]]

Compiles(c) == Compiled[c].ok
Executed(c) == Compiled[c].executed
Lineage(c, n) == Compiled[c].lineage[n]

Stateful(c, n) == Node(c, n).op \in StatefulOps

Changed(old, new, n) == n \notin Nodes(old) \/ Node(old, n) # Node(new, n)

\* Mutant: only the nodes that changed themselves.
DirtyThemselves(old, new) == {n \in Executed(new) : Changed(old, new, n)}

\* The nodes that are new, changed, or below such a node.
DirtyNodes(old, new) ==
    {n \in Executed(new) : \E m \in Compiled[new].above[n] : Changed(old, new, m)}

\* For each pair of configurations, the nodes whose accumulators a put of the
\* second over the first may carry over.
Reusable ==
    LET ok == {c \in Configs : Compiles(c)}
    IN  [o \in ok |-> [c \in ok |-> {n \in Nodes(c) \ DirtyNodes(o, c) : ~Changed(o, c, n)}]]

\* The accumulators carried over: `steady' (a ghost) says that the node has
\* been executed ever since its accumulator was made.
ReusedNodeState(old, new) ==
    [n \in DOMAIN old.state \cap Reusable[old.cfg][new] |->
        [old.state[n] EXCEPT !.steady = @ /\ n \in Executed(new)]]

\* Accumulators for the stateful nodes that have none.
WithFreshState(cfg, state) ==
    LET new == {n \in Executed(cfg) : Stateful(cfg, n)} \ DOMAIN state
    IN  [n \in DOMAIN state \cup new |-> IF n \in new THEN [fed |-> {}, steady |-> TRUE] ELSE state[n]]

-----------------------------------------------------------------------------
(* What follows from the set of workspaces *)

\* _rebuild_stream_index: the enabled workspaces of a stream.
Subscribed(all, key) == {w \in Workspaces : all[w] # NoWorkspace /\ Graph[all[w].cfg].enabled /\ Graph[all[w].cfg].key = key}

\* _reconcile_stream_runtime_keys: no workspace, no reader.
ReconcileReader(all) == reader' = IF Subscribed(all, Live) = {} THEN NoReader ELSE reader

OutputKind(c, o) == Node(c, Graph[c].outs[o]).kind

ActiveTraceKeys(all) ==
    {k \in OutputKeys : /\ all[k[1]] # NoWorkspace /\ Graph[all[k[1]].cfg].enabled
                        /\ k[2] \in Outs(all[k[1]].cfg)
                        /\ OutputKind(all[k[1]].cfg, k[2]) = "trace"}

\* Mutant: the rings of a workspace that goes away stay.
KeepTraceWriters(all) == writers' = writers

ReconcileTraceWriters(all) == writers' = writers \cap ActiveTraceKeys(all)

\* Mutant: only the outputs that are gone.
PrunedOutputsOnly(w, cfg, reset) ==
    [k \in OutputKeys |-> IF k[1] = w /\ k[2] \notin Outs(cfg) THEN NoPayload ELSE snap[k]]

\* A put: the snapshots of outputs that are gone and of nodes that lost their
\* state go with them.
PrunedSnapshots(w, cfg, reset) ==
    [k \in OutputKeys |->
        IF k[1] = w /\ (k[2] \notin Outs(cfg) \/ snap[k].node \in reset) THEN NoPayload ELSE snap[k]]

ClearedSnapshots(w) == [k \in OutputKeys |-> IF k[1] = w THEN NoPayload ELSE snap[k]]

-----------------------------------------------------------------------------
(* RPCs *)

RevisionMatches(w, expected) == expected = AnyRevision \/ expected = ws[w].rev

\* The runtime a put installs.
Installed(old, cfg) ==
    [rev |-> old.rev + 1, cfg |-> cfg,
     state |-> WithFreshState(cfg, IF old = NoWorkspace THEN <<>> ELSE ReusedNodeState(old, cfg))]

WorkspacePut(w, cfg, expected) ==
    LET all == [ws EXCEPT ![w] = Installed(ws[w], cfg)]
        reused == IF Exists(w) THEN DOMAIN ReusedNodeState(ws[w], cfg) ELSE {}
    IN  /\ ws[w].rev < MaxRev
        /\ Compiles(cfg) /\ RevisionMatches(w, expected)
        /\ ws' = all
        /\ snap' = PrunedSnapshots(w, cfg, DOMAIN all[w].state \ reused)
        /\ ReconcileReader(all) /\ ReconcileTraceWriters(all)
        /\ dirty' = TRUE
        /\ UNCHANGED <<store, found, rings, chunks, told, analysed, edited>>

\* Mutant: a delete does not ask for a save.
WorkspaceDeleteUnsaved(w, expected) ==
    LET all == [ws EXCEPT ![w] = NoWorkspace]
    IN  /\ Exists(w) /\ RevisionMatches(w, expected)
        /\ ws' = all
        /\ snap' = ClearedSnapshots(w)
        /\ ReconcileReader(all) /\ ReconcileTraceWriters(all)
        /\ UNCHANGED <<store, found, dirty, rings, chunks, told, analysed, edited>>

WorkspaceDelete(w, expected) ==
    LET all == [ws EXCEPT ![w] = NoWorkspace]
    IN  /\ Exists(w) /\ RevisionMatches(w, expected)
        /\ ws' = all
        /\ snap' = ClearedSnapshots(w)
        /\ ReconcileReader(all) /\ ReconcileTraceWriters(all)
        /\ dirty' = TRUE
        /\ UNCHANGED <<store, found, rings, chunks, told, analysed, edited>>

\* One stateful node, or all of them.
WorkspaceReset(w, nodes) ==
    /\ Exists(w) /\ nodes # {}
    /\ ws' = [ws EXCEPT ![w].state = [n \in DOMAIN @ |->
                 IF n \in nodes THEN [@[n] EXCEPT !.fed = {}] ELSE @[n]]]
    /\ snap' = IF nodes = DOMAIN ws[w].state THEN ClearedSnapshots(w)
               ELSE [k \in OutputKeys |-> IF k[1] = w /\ snap[k].node \in nodes THEN NoPayload ELSE snap[k]]
    /\ UNCHANGED <<writers, reader, store, found, dirty, rings, chunks, told, analysed, edited>>

WorkspaceClear ==
    LET none == [w \in Workspaces |-> NoWorkspace]
    IN  /\ \E w \in Workspaces : Exists(w)
        /\ ws' = none
        /\ snap' = [k \in OutputKeys |-> NoPayload]
        /\ writers' = {} /\ reader' = NoReader
        /\ dirty' = TRUE
        /\ UNCHANGED <<store, found, rings, chunks, told, analysed, edited>>

StoreSave ==
    /\ store' = [w \in Workspaces |-> IF Exists(w) THEN ws[w].cfg ELSE NoConfig]
    /\ found' = "ok" /\ dirty' = FALSE /\ edited' = FALSE
    /\ UNCHANGED <<ws, snap, writers, reader, rings, chunks, told, analysed>>

\* Everything is cleared, then the file's workspaces are put one after the
\* other (revisions start again at 1); the first that does not compile ends it.
LoadedFrom(file) ==
    LET broken(w) == file[w] # NoConfig /\ ~Compiles(file[w])
        bad == {w \in Workspaces : broken(w)}
        \* sorted by id: the ones before the first broken one are in place
        good == IF bad = {} THEN Workspaces ELSE {w \in Workspaces : \A b \in bad : w < b}
    IN  [w \in Workspaces |-> IF w \in good /\ file[w] # NoConfig THEN Installed(NoWorkspace, file[w]) ELSE NoWorkspace]

Loads(file) == \A w \in Workspaces : file[w] = NoConfig \/ Compiles(file[w])

\* A file that is missing or cannot be parsed raises before anything is cleared.
\* Otherwise nothing is left, the reader and its contexts included, when the
\* first workspace is put; one that does not compile leaves those before it.
StoreReload ==
    /\ found = "ok"
    /\ ws' = LoadedFrom(store)
    /\ snap' = [k \in OutputKeys |-> NoPayload]
    /\ writers' = {} /\ reader' = NoReader
    /\ dirty' = (dirty /\ ~Loads(store)) /\ edited' = (edited /\ ~Loads(store))
    /\ UNCHANGED <<store, found, rings, chunks, told, analysed>>

\* The process ends and is started again: the file is loaded; without one, and
\* with one that cannot be parsed, there are no workspaces.
Restart ==
    /\ ws' = LoadedFrom(store)
    /\ snap' = [k \in OutputKeys |-> NoPayload]
    /\ writers' = {} /\ reader' = NoReader /\ chunks' = <<>>
    /\ dirty' = FALSE /\ edited' = (edited /\ ~(Loads(store) /\ found # "broken"))
    /\ told' = {} /\ analysed' = <<>>
    /\ UNCHANGED <<store, found, rings>>

\* Somebody edits the file.
EditStore(w, cfg) ==
    /\ ~edited /\ store[w] # cfg
    /\ store' = [store EXCEPT ![w] = cfg] /\ found' = "ok" /\ edited' = TRUE
    /\ UNCHANGED <<ws, snap, writers, reader, dirty, rings, chunks, told, analysed>>

\* Somebody removes the file, or leaves in it what is not a workspace store.
SpoilStore(how) ==
    /\ ~edited /\ found # how
    /\ store' = EmptyFile /\ found' = how /\ edited' = TRUE
    /\ UNCHANGED <<ws, snap, writers, reader, dirty, rings, chunks, told, analysed>>

-----------------------------------------------------------------------------
(* Frames *)

\* publish_stream, publish_stream_batch: the driver writes a batch of frames, no
\* more than the ring has slots, under one context and announces it; the
\* descriptor may be lost on the way (the SUB queue is full).
WriteBatch(n, ctx, lost) ==
    LET frames == rings[Len(rings)]
    IN  /\ n <= Slots /\ Len(frames) + n <= MaxSeq
        /\ frames # <<>> => ctx >= frames[Len(frames)]
        /\ lost \/ Len(chunks) < QueueMax
        /\ rings' = [rings EXCEPT ![Len(rings)] = frames \o [i \in 1..n |-> ctx]]
        /\ chunks' = IF lost THEN chunks
                     ELSE Append(chunks, [name |-> Len(rings), first |-> Len(frames) + 1,
                                          final |-> Len(frames) + n, ctx |-> ctx])
        /\ UNCHANGED <<ws, snap, writers, reader, store, found, dirty, told, analysed, edited>>

\* The driver is started again: a ring of another name.
DriverRestart ==
    /\ Len(rings) < MaxRings /\ rings[Len(rings)] # <<>>
    /\ rings' = Append(rings, <<>>)
    /\ UNCHANGED <<ws, snap, writers, reader, store, found, dirty, chunks, told, analysed, edited>>

\* _ensure_reader: a descriptor of the reader's ring is read by that reader, although
\* the driver may have another ring by now; any other attaches to the ring it names
\* (the one in use, or one that a killed driver left), from its first frame.
EnsureReader(m) ==
    IF reader.name = m.name THEN reader
    ELSE [name |-> m.name, last |-> m.first - 1, map |-> <<>>, cur |-> 0]

\* A function where it is defined, another elsewhere.
Over(f, g) == [x \in DOMAIN f \cup DOMAIN g |-> IF x \in DOMAIN f THEN f[x] ELSE g[x]]

\* Mutant: only the last frame of a batch is given the context.
RememberLastOnly(r, m) == Over(m.final :> m.ctx, r.map)

\* The descriptor's context, for each frame of its batch.
RememberContext(r, m) == Over([q \in m.first..m.final |-> m.ctx], r.map)

\* The frames read: those after `last' that the ring still holds, up to the descriptor's.
FramesRead(r, m) == {q \in (r.last + 1)..m.final : q > Len(rings[r.name]) - Slots}

\* The context of each frame read: its own descriptor's, or that of the frame before.
ResolveContext(r, map, frames) ==
    LET known(q) == {p \in (frames \cap DOMAIN map) : p <= q}
    IN  [q \in frames |-> IF known(q) = {} THEN r.cur ELSE map[Max(known(q))]]

\* One frame through one workspace: the accumulators are fed and the outputs
\* that are due are published and remembered.
FedState(rt) ==
    [n \in DOMAIN rt.state |->
        IF n \in Executed(rt.cfg) THEN [rt.state[n] EXCEPT !.fed = @ \cup {Lineage(rt.cfg, n)}] ELSE rt.state[n]]

OutputValue(rt, n) == IF n \in DOMAIN rt.state THEN FedState(rt)[n].fed ELSE {Lineage(rt.cfg, n)}

DueOutputs(cfg, hist, trace) ==
    {o \in Outs(cfg) : (OutputKind(cfg, o) = "hist" => hist) /\ (OutputKind(cfg, o) = "trace" => trace)}

Feed(ran) == ws' = [w \in Workspaces |-> IF w \in ran THEN [ws[w] EXCEPT !.state = FedState(ws[w])] ELSE ws[w]]

OutputPayload(rt, o) == LET n == Graph[rt.cfg].outs[o] IN [node |-> n, of |-> OutputValue(rt, n)]

\* _remember_latest_output, for each output published.
RememberOutputs(ran, hist, trace) ==
    snap' = [k \in OutputKeys |->
        IF k[1] \in ran /\ k[2] \in DueOutputs(ws[k[1]].cfg, hist, trace) THEN OutputPayload(ws[k[1]], k[2]) ELSE snap[k]]

\* A trace output is written to its ring, made when it is first needed.
PublishTraces(ran, trace) == writers' = writers \cup {k \in ActiveTraceKeys(ws) : k[1] \in ran /\ trace}

\* After the frames: the reader's position, its context, and the contexts still needed.
Advanced(r, map, used) ==
    LET top == Max(DOMAIN used)
    IN  [name |-> r.name, last |-> top, map |-> [q \in {p \in DOMAIN map : p > top} |-> map[q]], cur |-> used[top]]

\* The workspaces in Failing raise on the frames: nothing is published for them.
HandleChunkReady(hist, trace, Failing) ==
    LET m == Head(chunks)
        r == EnsureReader(m)
        map == RememberContext(r, m)
        frames == FramesRead(r, m)
        used == ResolveContext(r, map, frames)
        ran == Subscribed(ws, Live) \ Failing
        same == reader.name = m.name
    IN  /\ chunks # <<>> /\ chunks' = Tail(chunks)
        /\ Subscribed(ws, Live) # {}
        /\ told' = (IF same THEN told ELSE {}) \cup m.first..m.final
        /\ \/ /\ frames = {}
              /\ reader' = [r EXCEPT !.map = map]
              /\ analysed' = IF same THEN analysed ELSE <<>>
              /\ UNCHANGED <<ws, snap, writers>>
           \/ /\ frames # {}
              /\ reader' = Advanced(r, map, used)
              /\ analysed' = IF same THEN Over(used, analysed) ELSE used
              /\ Feed(ran) /\ RememberOutputs(ran, hist, trace) /\ PublishTraces(ran, trace)
        /\ UNCHANGED <<store, found, dirty, rings, edited>>

\* A descriptor of a stream nobody analyses, or of a ring that cannot be attached
\* to (it is gone): the reader and what it knows of contexts are dropped.
SkipChunk ==
    /\ chunks # <<>> /\ chunks' = Tail(chunks)
    /\ \/ Subscribed(ws, Live) = {} /\ UNCHANGED reader
       \/ Subscribed(ws, Live) # {} /\ Head(chunks).name # reader.name /\ reader' = NoReader
    /\ UNCHANGED <<ws, snap, writers, store, found, dirty, rings, told, analysed, edited>>

\* The descriptor's range does not fit the ring, or read_events raises: the reader
\* and what it knows of contexts are dropped.
ReadFails ==
    /\ chunks # <<>> /\ chunks' = Tail(chunks)
    /\ Subscribed(ws, Live) # {}
    /\ reader' = NoReader
    /\ UNCHANGED <<ws, snap, writers, store, found, dirty, rings, told, analysed, edited>>

-----------------------------------------------------------------------------

Rpc ==
    \/ \E w \in Workspaces, c \in Configs, e \in {AnyRevision, 1} : WorkspacePut(w, c, e)
    \/ \E w \in Workspaces, e \in {AnyRevision, 1} : WorkspaceDelete(w, e)
    \/ \E w \in Workspaces : Exists(w) /\ \E S \in SUBSET DOMAIN ws[w].state : WorkspaceReset(w, S)
    \/ WorkspaceClear \/ StoreSave \/ StoreReload

Frames ==
    \/ \E n \in 1..2, ctx \in 1..2, lost \in BOOLEAN : WriteBatch(n, ctx, lost)
    \/ \E hist, trace \in BOOLEAN, F \in SUBSET Workspaces : HandleChunkReady(hist, trace, F)
    \/ DriverRestart \/ SkipChunk \/ ReadFails

Edits ==
    \/ \E w \in Workspaces, c \in Configs : ~Compiles(c) /\ EditStore(w, c)
    \/ \E how \in {"missing", "broken"} : SpoilStore(how)

Next == Rpc \/ Frames \/ Restart \/ Edits

Spec == Init /\ [][Next]_analysisVars

-----------------------------------------------------------------------------
(* Properties *)

Pure(w, n) == \A l \in ws[w].state[n].fed : l = Lineage(ws[w].cfg, n)

\* However a workspace is edited, an accumulator that a put carried over has
\* only been fed by the graph that feeds it now (its node has been executed
\* ever since the accumulator was made).
ReusedStateIsPure ==
    \A w \in Workspaces : Exists(w) =>
        \A n \in DOMAIN ws[w].state : ws[w].state[n].steady => Pure(w, n)

\* The same of every accumulator of an executed node: "it stays valid iff the
\* node itself is untouched and every upstream ancestor is untouched".
ReusedStateIsAlwaysPure ==
    \A w \in Workspaces : Exists(w) =>
        \A n \in DOMAIN ws[w].state \cap Executed(ws[w].cfg) : Pure(w, n)

\* A client that reconnects is never shown what its accumulator no longer
\* holds: no put, reset, delete or reload leaves an older snapshot behind.
SnapshotNotAhead ==
    \A k \in OutputKeys : snap[k] # NoPayload =>
        /\ Exists(k[1])
        /\ snap[k].node \in DOMAIN ws[k[1]].state => snap[k].of \subseteq ws[k[1]].state[snap[k].node].fed

\* Every shared-memory ring of a trace output belongs to an output that is
\* still published: none is leaked by an edit, a delete, or a reload.
TraceRingsReclaimed == writers \subseteq ActiveTraceKeys(ws)

\* A frame whose descriptor was handled is analysed under that descriptor's
\* context, although descriptors of other frames are lost, the batch is read
\* late, the driver started a new ring in between, or the reader was dropped
\* and attached again.
OwnContext ==
    reader.name # NoReader.name => \A q \in DOMAIN analysed \cap told : analysed[q] = rings[reader.name][q]

\* A clean flag is worth something: unless the file was edited by hand, the
\* file is what the process analyses.
CleanMeansSaved ==
    (~dirty /\ ~edited) => \A w \in Workspaces : IF Exists(w) THEN store[w] = ws[w].cfg ELSE store[w] = NoConfig

\* However a workspace is edited, reset, saved, reloaded or
\* restarted between frames, an accumulator that was carried over has only been
\* fed by the graph it has now, no snapshot shows what its accumulator no longer
\* holds, no trace ring outlives its output, a frame is analysed under its own
\* context, and a clean flag means that the file is what is analysed.
AnalysisSound ==
    ReusedStateIsPure /\ SnapshotNotAhead /\ TraceRingsReclaimed /\ OwnContext /\ CleanMeansSaved
=============================================================================
