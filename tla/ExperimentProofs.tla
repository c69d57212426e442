-------------------------- MODULE ExperimentProofs --------------------------
(* Proofs about what an experiment runs on and what its data goes through:   *)
(* AnalysisSound of the stream analysis for every set of workspaces, every   *)
(* graph and every ring; and the bookkeeping of the sequencer's interpreter  *)
(* for every well-formed program.                                            *)
EXTENDS StreamAnalysis, SequenceTheorems, FiniteSetTheorems, WellFoundedInduction, TLAPS

CONSTANTS Blocks, Roots, ExactBlocks, MaxWhile, MaxCommands, NoSeq

VARIABLES root, state, phase, stack, wait, pauseReq, stopReq, pending, cleanupFailed,
          depth, scope, useStack, parFault, loopsLeft, completed, commands

Sequencer == INSTANCE SequencerRuntime

-----------------------------------------------------------------------------
(* The inductive invariant, in parts that share few variables.               *)

\* An accumulator that has been executed ever since it was made is of an executed
\* node and holds what the graph of its workspace feeds it.
SteadyPure(rt) ==
    \A n \in DOMAIN rt.state : rt.state[n].steady =>
        n \in Executed(rt.cfg) /\ \A l \in rt.state[n].fed : l = Lineage(rt.cfg, n)

Accumulators(f) ==
    /\ f = [n \in DOMAIN f |-> f[n]]
    /\ \A n \in DOMAIN f : /\ f[n] = [fed |-> f[n].fed, steady |-> f[n].steady]
                           /\ f[n].steady \in BOOLEAN

Runtime(rt) ==
    /\ rt = [rev |-> rt.rev, cfg |-> rt.cfg, state |-> rt.state]
    /\ rt.cfg \in Configs /\ Compiles(rt.cfg)
    /\ Accumulators(rt.state) /\ SteadyPure(rt)

WorkspacesInv ==
    /\ ws = [w \in Workspaces |-> ws[w]]
    /\ \A w \in Workspaces : ws[w] = NoWorkspace \/ Runtime(ws[w])

SnapshotsInv == snap = [k \in OutputKeys |-> snap[k]] /\ SnapshotNotAhead

\* Unless it was edited by hand, the file loads.
StoreInv ==
    /\ store \in [Workspaces -> Configs \cup {NoConfig}]
    /\ dirty \in BOOLEAN /\ edited \in BOOLEAN
    /\ ~edited => Loads(store)
    /\ CleanMeansSaved

RingInv == rings \in Seq(Seq(Int)) /\ rings # <<>>

Chunk == [name : Nat, first : Nat \ {0}, final : Nat, ctx : Int]

\* The descriptors say what is in their rings, and those of a ring come in order.
ChunksInv ==
    /\ chunks \in Seq(Chunk)
    /\ \A i \in 1 .. Len(chunks) :
          /\ chunks[i].name \in 1 .. Len(rings) /\ chunks[i].first <= chunks[i].final
          /\ chunks[i].final <= Len(rings[chunks[i].name])
          /\ \A q \in chunks[i].first .. chunks[i].final : rings[chunks[i].name][q] = chunks[i].ctx
    /\ \A i, j \in 1 .. Len(chunks) :
          i < j /\ chunks[i].name = chunks[j].name => chunks[i].final < chunks[j].first

\* What a reader of a ring with the contexts K knows: true contexts, among them one
\* for every frame it was told of and has not read.
Informed(K) ==
    /\ reader.last <= Len(K)
    /\ \A q \in DOMAIN reader.map : q \in 1 .. Len(K) /\ reader.map[q] = K[q]
    /\ \A q \in told : q > reader.last => q \in DOMAIN reader.map
    /\ DOMAIN analysed \subseteq 1 .. reader.last
    /\ \A q \in DOMAIN analysed \cap told : analysed[q] = K[q]

\* What the reader has read is behind every descriptor of its ring that waits.
ReaderInv ==
    /\ reader = [name |-> reader.name, last |-> reader.last, map |-> reader.map, cur |-> reader.cur]
    /\ reader.name \in 0 .. Len(rings) /\ reader.last \in Nat /\ told \subseteq Nat
    /\ reader.name # 0 => Informed(rings[reader.name])
    /\ \A i \in 1 .. Len(chunks) : chunks[i].name = reader.name => reader.last < chunks[i].first

FramesInv == RingInv /\ ChunksInv /\ ReaderInv

AnalysisInv ==
    /\ WorkspacesInv /\ SnapshotsInv /\ TraceRingsReclaimed /\ StoreInv /\ FramesInv

-----------------------------------------------------------------------------
(* Graphs                                                                    *)

\* What is above a node is the least set with the node and the inputs of its members.
LEMMA AboveIsLeast ==
  ASSUME NEW c, NEW n \in Nodes(c), \A m \in Nodes(c) : Node(c, m).ins \subseteq Nodes(c)
  PROVE  /\ Above(c, n) \subseteq Nodes(c) /\ n \in Above(c, n) /\ Closed(c, Above(c, n))
         /\ \A S \in SUBSET Nodes(c) : n \in S /\ Closed(c, S) => Above(c, n) \subseteq S
<1>1. Above(c, n) \subseteq Nodes(c) /\ n \in Above(c, n)
  BY DEF Above
<1>2. \A S \in SUBSET Nodes(c) : n \in S /\ Closed(c, S) => Above(c, n) \subseteq S
  BY DEF Above
<1>3. ASSUME NEW m \in Above(c, n), NEW p \in Node(c, m).ins PROVE p \in Above(c, n)
  <2>1. p \in Nodes(c)
    BY <1>1, <1>3
  <2>2. ASSUME NEW S \in SUBSET Nodes(c), n \in S, Closed(c, S) PROVE p \in S
    BY <1>2, <1>3, <2>2 DEF Closed
  <2> QED
    BY <2>1, <2>2 DEF Above
<1> QED
  BY <1>1, <1>2, <1>3 DEF Closed

\* A graph that agrees with another on all that is above a node there has the same
\* nodes above it.
LEMMA SameNodesAbove ==
  ASSUME NEW c, NEW d, NEW n \in Nodes(c), SameAbove(c, d, n),
         \A m \in Nodes(c) : Node(c, m).ins \subseteq Nodes(c),
         \A m \in Nodes(d) : Node(d, m).ins \subseteq Nodes(d)
  PROVE  Above(d, n) = Above(c, n)
<1> DEFINE A == Above(c, n)
           B == Above(d, n)
<1>1. n \in Nodes(d) /\ \A m \in A : m \in Nodes(d) /\ Node(d, m) = Node(c, m)
  BY DEF SameAbove
<1>2. A \subseteq Nodes(c) /\ n \in A /\ Closed(c, A)
  BY AboveIsLeast
<1>3. B \subseteq Nodes(d) /\ n \in B /\ Closed(d, B)
  BY <1>1, AboveIsLeast
<1>4. A \in SUBSET Nodes(d) /\ Closed(d, A)
  BY <1>1, <1>2 DEF Closed
<1>5. B \subseteq A
  BY <1>1, <1>2, <1>4, AboveIsLeast
<1>6. B \in SUBSET Nodes(c) /\ Closed(c, B)
  BY <1>1, <1>2, <1>3, <1>5 DEF Closed
<1>7. A \subseteq B
  BY <1>3, <1>6, AboveIsLeast
<1> QED
  BY <1>5, <1>7

\* What compiling an accepted configuration yields.
LEMMA CompiledFacts ==
  ASSUME NEW c \in Configs, Compiles(c)
  PROVE  /\ \A m \in Nodes(c) : Node(c, m).ins \subseteq Nodes(c)
         /\ Executed(c) \subseteq Nodes(c)
         /\ \A n \in Nodes(c) : /\ Compiled[c].above[n] = Above(c, n)
                                /\ Lineage(c, n) = {d \in Configs : SameAbove(c, d, n)}
<1>1. Accepted(c)
  BY DEF Compiles, Compiled
<1>2. Compiled[c] = [ok |-> TRUE,
                     above |-> [n \in Nodes(c) |-> Above(c, n)],
                     executed |-> UNION {Above(c, n) : n \in Range(Graph[c].outs) \cup Sources(c)},
                     lineage |-> [n \in Nodes(c) |-> {d \in Configs : SameAbove(c, d, n)}]]
  BY <1>1 DEF Compiled
<1>3. \A m \in Nodes(c) : Node(c, m).ins \subseteq Nodes(c)
  BY <1>1 DEF Accepted, ValidNode
<1>4. \A n : Above(c, n) \subseteq Nodes(c)
  BY DEF Above
<1> QED
  BY <1>2, <1>3, <1>4 DEF Executed, Lineage

\* An accumulator that a put may carry over to an executed node has the lineage
\* that it had.
LEMMA ReusableKeepsLineage ==
  ASSUME NEW c \in Configs, NEW d \in Configs, Compiles(c), Compiles(d),
         NEW n \in Reusable[c][d], n \in Executed(d), n \in Executed(c)
  PROVE  Lineage(d, n) = Lineage(c, n)
<1>1. n \in Nodes(d) /\ n \notin DirtyNodes(c, d) /\ n \in Nodes(c)
  BY CompiledFacts DEF Reusable
<1>2. \A m \in Above(d, n) : m \in Nodes(c) /\ Node(c, m) = Node(d, m)
  BY <1>1, CompiledFacts DEF DirtyNodes, Changed
<1>3. SameAbove(d, c, n)
  BY <1>1, <1>2 DEF SameAbove
<1>4. Above(c, n) = Above(d, n)
  BY <1>1, <1>3, CompiledFacts, SameNodesAbove
<1>5. \A e \in Configs : SameAbove(d, e, n) <=> SameAbove(c, e, n)
  BY <1>2, <1>4 DEF SameAbove
<1> QED
  BY <1>1, <1>5, CompiledFacts

-----------------------------------------------------------------------------
(* Workspaces                                                                *)

\* A runtime is not the absence of one.
LEMMA RuntimeExists == ASSUME NEW rt, Runtime(rt) PROVE rt # NoWorkspace
<1>1. "cfg" \in DOMAIN rt /\ "cfg" \notin DOMAIN NoWorkspace
  BY DEF Runtime, NoWorkspace
<1> QED
  BY <1>1

\* What a put carries over: the old content, steady only where the node stays executed.
LEMMA ReusedFacts ==
  ASSUME NEW old, Runtime(old), NEW c \in Configs, Compiles(c)
  PROVE  LET f == ReusedNodeState(old, c)
         IN  /\ Accumulators(f) /\ DOMAIN f = DOMAIN old.state \cap Reusable[old.cfg][c]
             /\ \A n \in DOMAIN f :
                   /\ f[n].fed = old.state[n].fed
                   /\ f[n].steady => old.state[n].steady /\ n \in Executed(c)
<1> DEFINE f == ReusedNodeState(old, c)
           D == DOMAIN old.state \cap Reusable[old.cfg][c]
<1>1. f = [n \in D |-> [old.state[n] EXCEPT !.steady = @ /\ n \in Executed(c)]]
  BY DEF ReusedNodeState
<1>2. DOMAIN f = D /\ f = [n \in DOMAIN f |-> f[n]]
  BY <1>1
<1>3. ASSUME NEW n \in D
      PROVE  /\ f[n] = [fed |-> f[n].fed, steady |-> f[n].steady] /\ f[n].steady \in BOOLEAN
             /\ f[n].fed = old.state[n].fed
             /\ f[n].steady => old.state[n].steady /\ n \in Executed(c)
  <2> DEFINE on == old.state[n].steady /\ n \in Executed(c)
  <2>1. old.state[n] = [fed |-> old.state[n].fed, steady |-> old.state[n].steady]
    BY DEF Runtime, Accumulators
  <2>2. f[n] = [old.state[n] EXCEPT !.steady = on]
    BY <1>1
  <2>3. on \in BOOLEAN /\ (on => old.state[n].steady /\ n \in Executed(c))
    OBVIOUS
  <2> HIDE DEF on, f
  <2>4. f[n] = [fed |-> old.state[n].fed, steady |-> on]
    BY <2>1, <2>2
  <2>5. f[n].fed = old.state[n].fed /\ f[n].steady = on
    BY <2>4
  <2>6. f[n] = [fed |-> f[n].fed, steady |-> f[n].steady]
    BY <2>4, <2>5
  <2> QED
    BY <2>3, <2>5, <2>6, Zenon
<1> HIDE DEF f
<1>4. Accumulators(f)
  BY <1>2, <1>3, Zenon DEF Accumulators
<1>5. /\ Accumulators(f) /\ DOMAIN f = DOMAIN old.state \cap Reusable[old.cfg][c]
      /\ \A n \in DOMAIN f : f[n].fed = old.state[n].fed /\ (f[n].steady => old.state[n].steady /\ n \in Executed(c))
  BY <1>2, <1>3, <1>4, Zenon
<1> QED
  BY <1>5, Zenon DEF f

\* What a put installs is a runtime of the configuration, and keeps the accumulators
\* that it carried over.
LEMMA InstalledFacts ==
  ASSUME NEW old, old = NoWorkspace \/ Runtime(old), NEW c \in Configs, Compiles(c)
  PROVE  LET new == Installed(old, c)
             f == ReusedNodeState(old, c)
         IN  /\ Runtime(new) /\ new.cfg = c
             /\ old # NoWorkspace => /\ DOMAIN f \subseteq DOMAIN new.state
                                     /\ \A n \in DOMAIN f : /\ new.state[n].fed = old.state[n].fed
                                                            /\ n \in DOMAIN old.state
<1> DEFINE new == Installed(old, c)
           g == IF old = NoWorkspace THEN <<>> ELSE ReusedNodeState(old, c)
           F == {n \in Executed(c) : Stateful(c, n)} \ DOMAIN g
           fresh == [fed |-> {}, steady |-> TRUE]
           h == WithFreshState(c, g)
<1>1. new = [rev |-> old.rev + 1, cfg |-> c, state |-> h]
  BY DEF Installed
<1>2. h = [n \in DOMAIN g \cup F |-> IF n \in F THEN fresh ELSE g[n]]
  BY DEF WithFreshState
<1>3. /\ Accumulators(g)
      /\ \A n \in DOMAIN g : /\ old # NoWorkspace /\ n \in DOMAIN old.state \cap Reusable[old.cfg][c]
                             /\ g[n].fed = old.state[n].fed
                             /\ g[n].steady => old.state[n].steady /\ n \in Executed(c)
  <2>1. CASE old = NoWorkspace
    <3>1. DOMAIN g = {} /\ g = [n \in DOMAIN g |-> g[n]]
      BY <2>1
    <3> QED
      BY <3>1 DEF Accumulators
  <2>2. CASE Runtime(old)
    <3>1. g = ReusedNodeState(old, c) /\ old # NoWorkspace
      BY <2>2, RuntimeExists
    <3> QED
      BY <2>2, <3>1, ReusedFacts
  <2> QED
    BY <2>1, <2>2
<1> HIDE DEF g, h, F
<1>4. DOMAIN h = DOMAIN g \cup F /\ \A n \in DOMAIN g : h[n] = g[n]
  BY <1>2 DEF F
<1>5. ASSUME NEW n \in F PROVE h[n] = fresh /\ n \in Executed(c)
  BY <1>2, <1>5 DEF F
<1>6. Accumulators(h)
  <2>1. h = [n \in DOMAIN h |-> h[n]]
    BY <1>2
  <2>2. ASSUME NEW n \in DOMAIN h
        PROVE  h[n] = [fed |-> h[n].fed, steady |-> h[n].steady] /\ h[n].steady \in BOOLEAN
    <3>1. CASE n \in F
      <4>1. h[n].fed = {} /\ h[n].steady = TRUE
        BY <1>5, <3>1
      <4> QED
        BY <1>5, <3>1, <4>1
    <3>2. CASE n \in DOMAIN g
      BY <1>3, <1>4, <3>2, Zenon DEF Accumulators
    <3> QED
      BY <1>4, <3>1, <3>2
  <2> QED
    BY <2>1, <2>2, Zenon DEF Accumulators
<1>7. ASSUME NEW n \in DOMAIN h, h[n].steady
      PROVE  n \in Executed(c) /\ \A l \in h[n].fed : l = Lineage(c, n)
  <2>1. CASE n \in F
    BY <1>5, <2>1
  <2>2. CASE n \in DOMAIN g
    <3>1. Runtime(old) /\ old.cfg \in Configs /\ Compiles(old.cfg) /\ n \in DOMAIN old.state
      BY <1>3, <2>2 DEF Runtime
    <3>2. n \in Executed(c) /\ old.state[n].steady /\ h[n].fed = old.state[n].fed
      BY <1>3, <1>4, <1>7, <2>2
    <3>3. n \in Executed(old.cfg) /\ \A l \in old.state[n].fed : l = Lineage(old.cfg, n)
      BY <3>1, <3>2 DEF Runtime, SteadyPure
    <3>4. Lineage(c, n) = Lineage(old.cfg, n)
      BY <1>3, <2>2, <3>1, <3>2, <3>3, ReusableKeepsLineage
    <3> QED
      BY <3>2, <3>3, <3>4
  <2> QED
    BY <1>4, <1>7, <2>1, <2>2
<1>8. Runtime(new) /\ new.cfg = c /\ new.state = h
  BY <1>1, <1>6, <1>7 DEF Runtime, SteadyPure
<1>9. ASSUME old # NoWorkspace
      PROVE  LET f == ReusedNodeState(old, c)
             IN  /\ DOMAIN f \subseteq DOMAIN new.state
                 /\ \A n \in DOMAIN f : new.state[n].fed = old.state[n].fed /\ n \in DOMAIN old.state
  <2>1. g = ReusedNodeState(old, c)
    BY <1>9 DEF g
  <2> QED
    BY <1>3, <1>4, <1>8, <2>1
<1> QED
  BY <1>8, <1>9

\* What is loaded out of a file.
LEMMA LoadedFacts ==
  ASSUME NEW file \in [Workspaces -> Configs \cup {NoConfig}]
  PROVE  LET all == LoadedFrom(file)
         IN  /\ all = [w \in Workspaces |-> all[w]]
             /\ \A w \in Workspaces : all[w] = NoWorkspace \/ Runtime(all[w])
             /\ Loads(file) => \A w \in Workspaces : IF all[w] # NoWorkspace THEN file[w] = all[w].cfg
                                                                            ELSE file[w] = NoConfig
<1> DEFINE all == LoadedFrom(file)
           bad == {w \in Workspaces : file[w] # NoConfig /\ ~Compiles(file[w])}
           good == IF bad = {} THEN Workspaces ELSE {w \in Workspaces : \A b \in bad : w < b}
<1>1. all = [w \in Workspaces |-> IF w \in good /\ file[w] # NoConfig THEN Installed(NoWorkspace, file[w])
                                                                     ELSE NoWorkspace]
  BY DEF LoadedFrom
<1>2. \A w \in good : file[w] # NoConfig => file[w] \in Configs /\ Compiles(file[w])
  <2>1. CASE bad = {}
    BY <2>1
  <2>2. CASE bad # {}
    BY <2>2, ConfigAssumption
  <2> QED
    BY <2>1, <2>2
<1>3. Loads(file) => good = Workspaces
  BY DEF Loads
<1> HIDE DEF good
<1>4. ASSUME NEW w \in Workspaces, w \in good, file[w] # NoConfig
      PROVE  Runtime(all[w]) /\ all[w].cfg = file[w] /\ all[w] # NoWorkspace
  <2>1. all[w] = Installed(NoWorkspace, file[w]) /\ file[w] \in Configs /\ Compiles(file[w])
    BY <1>1, <1>2, <1>4
  <2>2. Runtime(all[w]) /\ all[w].cfg = file[w]
    BY <2>1, InstalledFacts
  <2> QED
    BY <2>2, RuntimeExists
<1>5. ASSUME NEW w \in Workspaces, ~(w \in good /\ file[w] # NoConfig) PROVE all[w] = NoWorkspace
  BY <1>1, <1>5
<1>6. all = [w \in Workspaces |-> all[w]]
  BY <1>1
<1> HIDE DEF all
<1>7. \A w \in Workspaces : all[w] = NoWorkspace \/ Runtime(all[w])
  BY <1>4, <1>5
<1>8. Loads(file) => \A w \in Workspaces : IF all[w] # NoWorkspace THEN file[w] = all[w].cfg ELSE file[w] = NoConfig
  BY <1>3, <1>4, <1>5
<1> QED
  BY <1>6, <1>7, <1>8 DEF all

-----------------------------------------------------------------------------
(* Requests                                                                  *)

\* An output is of a workspace.
LEMMA KeysAreOfWorkspaces == \A k \in OutputKeys : k[1] \in Workspaces
  BY DEF OutputKeys

\* Without a reader there is nothing to know.
LEMMA NoReaderInformed ==
  ASSUME RingInv', ChunksInv', told' \subseteq Nat, reader' = NoReader
  PROVE  ReaderInv'
<1>1. /\ reader'.name = 0 /\ reader'.last = 0
      /\ reader' = [name |-> reader'.name, last |-> reader'.last, map |-> reader'.map, cur |-> reader'.cur]
  BY DEF NoReader
<1>2. Len(rings') \in Nat
  BY LenProperties DEF RingInv
<1>3. chunks' \in Seq(Chunk) /\ \A k \in 1 .. Len(chunks') : chunks'[k] \in Chunk
  BY ElementOfSeq DEF ChunksInv
<1>4. \A k \in 1 .. Len(chunks') : reader'.last < chunks'[k].first
  BY <1>1, <1>3 DEF Chunk
<1> QED
  BY <1>1, <1>2, <1>4 DEF ReaderInv

\* Dropping the reader is always safe.
LEMMA ReaderDropped ==
  ASSUME FramesInv, UNCHANGED <<rings, chunks, told, analysed>>, reader' = reader \/ reader' = NoReader
  PROVE  FramesInv'
<1>1. RingInv' /\ ChunksInv'
  BY DEF FramesInv, RingInv, ChunksInv
<1>2. CASE reader' = reader
  BY <1>1, <1>2 DEF FramesInv, ReaderInv, Informed
<1>3. CASE reader' = NoReader
  BY <1>1, <1>3, NoReaderInformed DEF FramesInv, ReaderInv
<1> QED
  BY <1>1, <1>2, <1>3 DEF FramesInv

\* A put keeps everything, however the graph changed.
LEMMA PutKeeps ==
  ASSUME AnalysisInv, NEW w \in Workspaces, NEW c \in Configs, NEW e, WorkspacePut(w, c, e)
  PROVE  AnalysisInv'
<1> DEFINE new == Installed(ws[w], c)
           f == ReusedNodeState(ws[w], c)
           reused == IF Exists(w) THEN DOMAIN f ELSE {}
           reset == DOMAIN new.state \ reused
<1>1. /\ Compiles(c) /\ ws' = [ws EXCEPT ![w] = new] /\ dirty' = TRUE
      /\ UNCHANGED <<store, found, rings, chunks, told, analysed, edited>>
      /\ ReconcileReader([ws EXCEPT ![w] = new]) /\ ReconcileTraceWriters([ws EXCEPT ![w] = new])
  BY DEF WorkspacePut
<1>2. /\ ws = [v \in Workspaces |-> ws[v]] /\ (ws[w] = NoWorkspace \/ Runtime(ws[w]))
      /\ \A v \in Workspaces : ws[v] = NoWorkspace \/ Runtime(ws[v])
  BY DEF AnalysisInv, WorkspacesInv
<1>3. /\ Runtime(new) /\ new # NoWorkspace
      /\ ws[w] # NoWorkspace => /\ DOMAIN f \subseteq DOMAIN new.state
                                /\ \A n \in DOMAIN f : new.state[n].fed = ws[w].state[n].fed /\ n \in DOMAIN ws[w].state
  BY <1>1, <1>2, InstalledFacts, RuntimeExists
<1>4. ws'[w] = new /\ \A v \in Workspaces \ {w} : ws'[v] = ws[v]
  BY <1>1, <1>2
<1>5. snap' = [k \in OutputKeys |-> IF k[1] = w /\ (k[2] \notin Outs(c) \/ snap[k].node \in reset)
                                    THEN NoPayload ELSE snap[k]]
  <2>1. snap' = PrunedSnapshots(w, c, DOMAIN [ws EXCEPT ![w] = new][w].state \ reused)
    BY DEF WorkspacePut
  <2>2. [ws EXCEPT ![w] = new][w] = new
    BY <1>2
  <2> QED
    BY <2>1, <2>2 DEF PrunedSnapshots
<1> HIDE DEF new, f
<1>6. WorkspacesInv'
  <2>1. ws' = [v \in Workspaces |-> ws'[v]]
    BY <1>1, <1>2
  <2> QED
    BY <1>2, <1>3, <1>4, <2>1 DEF WorkspacesInv
<1>7. SnapshotsInv'
  <2>1. snap' = [k \in OutputKeys |-> snap'[k]]
    BY <1>5
  <2>2. ASSUME NEW k \in OutputKeys, snap'[k] # NoPayload
        PROVE  /\ ws'[k[1]] # NoWorkspace
               /\ snap'[k].node \in DOMAIN ws'[k[1]].state =>
                     snap'[k].of \subseteq ws'[k[1]].state[snap'[k].node].fed
    <3>1. snap'[k] = snap[k] /\ (k[1] = w => snap[k].node \notin reset)
      BY <1>5, <2>2
    <3>2. /\ ws[k[1]] # NoWorkspace /\ k[1] \in Workspaces
          /\ snap[k].node \in DOMAIN ws[k[1]].state => snap[k].of \subseteq ws[k[1]].state[snap[k].node].fed
      BY <2>2, <3>1, KeysAreOfWorkspaces DEF AnalysisInv, SnapshotsInv, SnapshotNotAhead, Exists
    <3>3. CASE k[1] # w
      BY <1>4, <3>1, <3>2, <3>3
    <3>4. CASE k[1] = w
      <4>1. reused = DOMAIN f
        BY <3>2, <3>4 DEF Exists
      <4> QED
        BY <1>3, <1>4, <3>1, <3>2, <3>4, <4>1
    <3> QED
      BY <3>3, <3>4
  <2> QED
    BY <2>1, <2>2 DEF SnapshotsInv, SnapshotNotAhead, Exists
<1>8. TraceRingsReclaimed'
  BY <1>1 DEF ReconcileTraceWriters, TraceRingsReclaimed
<1>9. StoreInv'
  BY <1>1 DEF AnalysisInv, StoreInv, CleanMeansSaved, Loads
<1>10. FramesInv'
  BY <1>1, ReaderDropped DEF AnalysisInv, ReconcileReader
<1> QED
  BY <1>6, <1>7, <1>8, <1>9, <1>10 DEF AnalysisInv

\* A delete takes the snapshots and the trace rings of the workspace with it.
LEMMA DeleteKeeps ==
  ASSUME AnalysisInv, NEW w \in Workspaces, NEW e, WorkspaceDelete(w, e)
  PROVE  AnalysisInv'
<1>1. /\ ws' = [ws EXCEPT ![w] = NoWorkspace] /\ dirty' = TRUE
      /\ UNCHANGED <<store, found, rings, chunks, told, analysed, edited>>
      /\ ReconcileReader([ws EXCEPT ![w] = NoWorkspace]) /\ ReconcileTraceWriters([ws EXCEPT ![w] = NoWorkspace])
      /\ snap' = ClearedSnapshots(w)
  BY DEF WorkspaceDelete
<1>2. WorkspacesInv'
  BY <1>1 DEF AnalysisInv, WorkspacesInv
<1>3. SnapshotsInv'
  <2>1. snap' = [k \in OutputKeys |-> IF k[1] = w THEN NoPayload ELSE snap[k]]
    BY <1>1 DEF ClearedSnapshots
  <2>2. \A v \in Workspaces \ {w} : ws'[v] = ws[v]
    BY <1>1 DEF AnalysisInv, WorkspacesInv
  <2> QED
    BY <2>1, <2>2, KeysAreOfWorkspaces DEF AnalysisInv, SnapshotsInv, SnapshotNotAhead, Exists
<1>4. TraceRingsReclaimed'
  BY <1>1 DEF ReconcileTraceWriters, TraceRingsReclaimed
<1>5. StoreInv'
  BY <1>1 DEF AnalysisInv, StoreInv, CleanMeansSaved, Loads
<1>6. FramesInv'
  BY <1>1, ReaderDropped DEF AnalysisInv, ReconcileReader
<1> QED
  BY <1>2, <1>3, <1>4, <1>5, <1>6 DEF AnalysisInv

\* The trace outputs depend on the configurations only.
LEMMA SameTraceKeys ==
  ASSUME NEW a, NEW b, \A w \in Workspaces : /\ a[w] # NoWorkspace <=> b[w] # NoWorkspace
                                             /\ a[w] # NoWorkspace => a[w].cfg = b[w].cfg
  PROVE  ActiveTraceKeys(a) = ActiveTraceKeys(b)
  BY KeysAreOfWorkspaces DEF ActiveTraceKeys

\* A workspace whose accumulators change content and nothing else.
LEMMA AccumulatorsChange ==
  ASSUME NEW rt, Runtime(rt), NEW g, Accumulators(g), DOMAIN g = DOMAIN rt.state,
         \A n \in DOMAIN g : /\ g[n].steady = rt.state[n].steady
                             /\ \A l \in g[n].fed : l \in rt.state[n].fed \/ l = Lineage(rt.cfg, n)
  PROVE  LET new == [rt EXCEPT !.state = g]
         IN  Runtime(new) /\ new.cfg = rt.cfg /\ new.state = g /\ new # NoWorkspace
<1> DEFINE new == [rt EXCEPT !.state = g]
<1>1. new = [rev |-> rt.rev, cfg |-> rt.cfg, state |-> g]
  BY DEF Runtime
<1> HIDE DEF new
<1>2. new.rev = rt.rev /\ new.cfg = rt.cfg /\ new.state = g
  BY <1>1
<1>3. SteadyPure(new)
  BY <1>2 DEF Runtime, SteadyPure
<1>4. Runtime(new)
  BY <1>1, <1>2, <1>3 DEF Runtime
<1> QED
  BY <1>2, <1>4, RuntimeExists DEF new

\* A reset empties accumulators and removes the snapshots of their nodes.
LEMMA ResetKeeps ==
  ASSUME AnalysisInv, NEW w \in Workspaces, NEW S \in SUBSET DOMAIN ws[w].state, WorkspaceReset(w, S)
  PROVE  AnalysisInv'
<1> DEFINE rt == ws[w]
           g == [n \in DOMAIN rt.state |-> IF n \in S THEN [rt.state[n] EXCEPT !.fed = {}] ELSE rt.state[n]]
           new == [rt EXCEPT !.state = g]
<1>1. /\ ws' = [ws EXCEPT ![w].state = g] /\ rt # NoWorkspace
      /\ UNCHANGED <<writers, reader, store, found, dirty, rings, chunks, told, analysed, edited>>
      /\ snap' = IF S = DOMAIN rt.state THEN ClearedSnapshots(w)
                 ELSE [k \in OutputKeys |-> IF k[1] = w /\ snap[k].node \in S THEN NoPayload ELSE snap[k]]
  BY DEF WorkspaceReset, Exists
<1>2. /\ ws = [v \in Workspaces |-> ws[v]] /\ Runtime(rt)
      /\ \A v \in Workspaces : ws[v] = NoWorkspace \/ Runtime(ws[v])
  BY <1>1 DEF AnalysisInv, WorkspacesInv
<1>3. ASSUME NEW n \in DOMAIN rt.state
      PROVE  /\ g[n] = [fed |-> g[n].fed, steady |-> g[n].steady]
             /\ g[n].steady = rt.state[n].steady /\ g[n].fed = IF n \in S THEN {} ELSE rt.state[n].fed
  <2>1. rt.state[n] = [fed |-> rt.state[n].fed, steady |-> rt.state[n].steady]
    BY <1>2, Zenon DEF Runtime, Accumulators
  <2>2. g[n] = IF n \in S THEN [rt.state[n] EXCEPT !.fed = {}] ELSE rt.state[n]
    OBVIOUS
  <2> HIDE DEF g
  <2>3. CASE n \in S
    <3>1. g[n] = [fed |-> {}, steady |-> rt.state[n].steady]
      BY <2>1, <2>2, <2>3
    <3>2. g[n].fed = {} /\ g[n].steady = rt.state[n].steady
      BY <3>1
    <3> QED
      BY <2>3, <3>1, <3>2
  <2>4. CASE n \notin S
    BY <2>1, <2>2, <2>4, Zenon
  <2> QED
    BY <2>3, <2>4
<1>4. DOMAIN g = DOMAIN rt.state /\ g = [n \in DOMAIN g |-> g[n]]
  OBVIOUS
<1> HIDE DEF g
<1>5. \A n \in DOMAIN g : g[n].steady = rt.state[n].steady /\ g[n].fed = IF n \in S THEN {} ELSE rt.state[n].fed
  BY <1>3, <1>4, Zenon
<1>6. Accumulators(g)
  <2>1. \A n \in DOMAIN g : g[n] = [fed |-> g[n].fed, steady |-> g[n].steady]
    BY <1>3, <1>4, Zenon
  <2>2. \A n \in DOMAIN g : g[n].steady \in BOOLEAN
    BY <1>2, <1>4, <1>5, Zenon DEF Runtime, Accumulators
  <2> QED
    BY <1>4, <2>1, <2>2, Zenon DEF Accumulators
<1>7. /\ Runtime(new) /\ new.cfg = rt.cfg /\ new.state = g /\ new # NoWorkspace
  BY <1>2, <1>4, <1>5, <1>6, AccumulatorsChange
<1>8. ws' = [ws EXCEPT ![w] = new]
  BY <1>1, <1>2
<1>9. ws'[w] = new /\ \A v \in Workspaces \ {w} : ws'[v] = ws[v]
  BY <1>2, <1>8
<1> HIDE DEF new
<1>10. WorkspacesInv'
  <2>1. ws' = [v \in Workspaces |-> ws'[v]]
    BY <1>2, <1>8
  <2> QED
    BY <1>2, <1>7, <1>9, <2>1 DEF WorkspacesInv
<1>11. SnapshotsInv'
  <2>1. \A k \in OutputKeys : snap'[k] # NoPayload => snap'[k] = snap[k] /\ (k[1] = w => snap[k].node \notin S)
    <3>1. CASE S = DOMAIN rt.state
      BY <1>1, <3>1 DEF ClearedSnapshots
    <3>2. CASE S # DOMAIN rt.state
      BY <1>1, <3>2
    <3> QED
      BY <3>1, <3>2
  <2>2. snap' = [k \in OutputKeys |-> snap'[k]]
    BY <1>1 DEF ClearedSnapshots
  <2>3. ASSUME NEW k \in OutputKeys, snap'[k] # NoPayload
        PROVE  /\ ws'[k[1]] # NoWorkspace
               /\ snap'[k].node \in DOMAIN ws'[k[1]].state =>
                     snap'[k].of \subseteq ws'[k[1]].state[snap'[k].node].fed
    <3>1. snap'[k] = snap[k] /\ (k[1] = w => snap[k].node \notin S)
      BY <2>1, <2>3
    <3>2. /\ ws[k[1]] # NoWorkspace /\ k[1] \in Workspaces
          /\ snap[k].node \in DOMAIN ws[k[1]].state => snap[k].of \subseteq ws[k[1]].state[snap[k].node].fed
      BY <2>3, <3>1, KeysAreOfWorkspaces DEF AnalysisInv, SnapshotsInv, SnapshotNotAhead, Exists
    <3> QED
      BY <1>4, <1>5, <1>7, <1>9, <3>1, <3>2
  <2> QED
    BY <2>2, <2>3 DEF SnapshotsInv, SnapshotNotAhead, Exists
<1>12. \A v \in Workspaces : /\ ws'[v] # NoWorkspace <=> ws[v] # NoWorkspace
                             /\ ws'[v] # NoWorkspace => ws'[v].cfg = ws[v].cfg
  BY <1>1, <1>7, <1>9
<1>13. TraceRingsReclaimed'
  <2>1. ActiveTraceKeys(ws') = ActiveTraceKeys(ws)
    BY <1>12, SameTraceKeys
  <2> QED
    BY <1>1, <2>1 DEF AnalysisInv, TraceRingsReclaimed
<1>14. StoreInv'
  BY <1>1, <1>12 DEF AnalysisInv, StoreInv, CleanMeansSaved, Loads, Exists
<1>15. FramesInv'
  BY <1>1, ReaderDropped DEF AnalysisInv
<1> QED
  BY <1>10, <1>11, <1>13, <1>14, <1>15 DEF AnalysisInv

\* Clearing removes all that follows from workspaces.
LEMMA ClearKeeps == ASSUME AnalysisInv, WorkspaceClear PROVE AnalysisInv'
<1>1. /\ ws' = [w \in Workspaces |-> NoWorkspace] /\ snap' = [k \in OutputKeys |-> NoPayload]
      /\ writers' = {} /\ reader' = NoReader /\ dirty' = TRUE
      /\ UNCHANGED <<store, found, rings, chunks, told, analysed, edited>>
  BY DEF WorkspaceClear
<1>2. WorkspacesInv' /\ SnapshotsInv' /\ TraceRingsReclaimed'
  BY <1>1 DEF WorkspacesInv, SnapshotsInv, SnapshotNotAhead, TraceRingsReclaimed
<1>3. StoreInv'
  BY <1>1 DEF AnalysisInv, StoreInv, CleanMeansSaved, Loads
<1>4. FramesInv'
  BY <1>1, ReaderDropped DEF AnalysisInv
<1> QED
  BY <1>2, <1>3, <1>4 DEF AnalysisInv

\* A save makes the file what is analysed, which loads.
LEMMA SaveKeeps == ASSUME AnalysisInv, StoreSave PROVE AnalysisInv'
<1>1. /\ store' = [w \in Workspaces |-> IF Exists(w) THEN ws[w].cfg ELSE NoConfig]
      /\ dirty' = FALSE /\ edited' = FALSE
      /\ UNCHANGED <<ws, snap, writers, reader, rings, chunks, told, analysed>>
  BY DEF StoreSave
<1>2. \A w \in Workspaces : Exists(w) => ws[w].cfg \in Configs /\ Compiles(ws[w].cfg)
  BY DEF AnalysisInv, WorkspacesInv, Exists, Runtime
<1>3. WorkspacesInv' /\ SnapshotsInv' /\ TraceRingsReclaimed'
  BY <1>1 DEF AnalysisInv, WorkspacesInv, SnapshotsInv, SnapshotNotAhead, Exists, TraceRingsReclaimed
<1>4. StoreInv'
  <2>1. store' \in [Workspaces -> Configs \cup {NoConfig}]
    BY <1>1, <1>2
  <2>2. Loads(store')
    BY <1>1, <1>2 DEF Loads
  <2>3. CleanMeansSaved'
    BY <1>1 DEF CleanMeansSaved, Exists
  <2> QED
    BY <1>1, <2>1, <2>2, <2>3 DEF StoreInv
<1>5. FramesInv'
  BY <1>1, ReaderDropped DEF AnalysisInv
<1> QED
  BY <1>3, <1>4, <1>5 DEF AnalysisInv

\* A file that is what is analysed loads.
LEMMA CleanLoads == ASSUME WorkspacesInv, CleanMeansSaved, ~dirty, ~edited PROVE Loads(store)
  BY DEF WorkspacesInv, CleanMeansSaved, Exists, Runtime, Loads

\* Loading the file, by a request or at the start of the process, leaves nothing of
\* what was there before.
LEMMA LoadKeeps ==
  ASSUME AnalysisInv, ws' = LoadedFrom(store), snap' = [k \in OutputKeys |-> NoPayload], writers' = {},
         store' = store, dirty' \in BOOLEAN, edited' \in BOOLEAN, ~edited' => ~edited \/ Loads(store)
  PROVE  WorkspacesInv' /\ SnapshotsInv' /\ TraceRingsReclaimed' /\ StoreInv'
<1>1. /\ store \in [Workspaces -> Configs \cup {NoConfig}] /\ (~edited => Loads(store))
      /\ edited \in BOOLEAN
  BY DEF AnalysisInv, StoreInv
<1>2. WorkspacesInv'
  BY <1>1, LoadedFacts DEF WorkspacesInv
<1>3. SnapshotsInv' /\ TraceRingsReclaimed'
  BY DEF SnapshotsInv, SnapshotNotAhead, TraceRingsReclaimed
<1>4. edited' \in BOOLEAN /\ (~edited' => Loads(store))
  BY <1>1
<1>5. CleanMeansSaved'
  <2> SUFFICES ASSUME Loads(store)
               PROVE  \A w \in Workspaces : IF ws'[w] # NoWorkspace THEN store'[w] = ws'[w].cfg ELSE store'[w] = NoConfig
    BY <1>4 DEF CleanMeansSaved, Exists
  <2> QED
    BY <1>1, LoadedFacts
<1> QED
  BY <1>1, <1>2, <1>3, <1>4, <1>5 DEF StoreInv, Loads

\* A reload on request.
LEMMA ReloadKeeps == ASSUME AnalysisInv, StoreReload PROVE AnalysisInv'
<1>1. FramesInv'
  BY ReaderDropped DEF AnalysisInv, StoreReload
<1>2. dirty' \in BOOLEAN /\ edited' \in BOOLEAN
  BY DEF StoreReload
<1> QED
  BY <1>1, <1>2, LoadKeeps DEF AnalysisInv, StoreReload

\* A restart of the process.
LEMMA RestartKeeps == ASSUME AnalysisInv, Restart PROVE AnalysisInv'
<1>1. /\ reader' = NoReader /\ chunks' = <<>> /\ told' = {} /\ analysed' = <<>> /\ rings' = rings
  BY DEF Restart
<1>2. RingInv'
  BY <1>1 DEF AnalysisInv, FramesInv, RingInv
<1>3. ChunksInv'
  <2>1. chunks' \in Seq(Chunk) /\ Len(chunks') = 0
    BY <1>1
  <2> QED
    BY <2>1 DEF ChunksInv
<1>4. ReaderInv'
  BY <1>1, <1>2, <1>3, NoReaderInformed
<1>5. dirty' \in BOOLEAN /\ edited' \in BOOLEAN
  BY DEF Restart
<1> QED
  BY <1>2, <1>3, <1>4, <1>5, LoadKeeps DEF AnalysisInv, Restart, FramesInv

\* An edit of the file by hand changes the file only.
LEMMA EditKeeps ==
  ASSUME AnalysisInv, NEW w \in Workspaces, NEW c \in Configs, EditStore(w, c)
  PROVE  AnalysisInv'
<1>1. /\ store' = [store EXCEPT ![w] = c] /\ edited' = TRUE
      /\ UNCHANGED <<ws, snap, writers, reader, dirty, rings, chunks, told, analysed>>
  BY DEF EditStore
<1>2. WorkspacesInv' /\ SnapshotsInv' /\ TraceRingsReclaimed'
  BY <1>1 DEF AnalysisInv, WorkspacesInv, SnapshotsInv, SnapshotNotAhead, Exists, TraceRingsReclaimed
<1>3. StoreInv'
  BY <1>1 DEF AnalysisInv, StoreInv, CleanMeansSaved
<1>4. FramesInv'
  BY <1>1, ReaderDropped DEF AnalysisInv
<1> QED
  BY <1>2, <1>3, <1>4 DEF AnalysisInv

\* So does removing or spoiling it.
LEMMA SpoilKeeps ==
  ASSUME AnalysisInv, NEW how, SpoilStore(how)
  PROVE  AnalysisInv'
<1>1. /\ store' = [w \in Workspaces |-> NoConfig] /\ edited' = TRUE
      /\ UNCHANGED <<ws, snap, writers, reader, dirty, rings, chunks, told, analysed>>
  BY DEF SpoilStore, EmptyFile
<1>2. WorkspacesInv' /\ SnapshotsInv' /\ TraceRingsReclaimed'
  BY <1>1 DEF AnalysisInv, WorkspacesInv, SnapshotsInv, SnapshotNotAhead, Exists, TraceRingsReclaimed
<1>3. StoreInv'
  BY <1>1 DEF AnalysisInv, StoreInv, CleanMeansSaved
<1>4. FramesInv'
  BY <1>1, ReaderDropped DEF AnalysisInv
<1> QED
  BY <1>2, <1>3, <1>4 DEF AnalysisInv

-----------------------------------------------------------------------------
(* Frames                                                                    *)

\* Two sequences, one after the other.
LEMMA ConcatAt ==
  ASSUME NEW S, NEW s \in Seq(S), NEW t \in Seq(S)
  PROVE  /\ s \o t \in Seq(S) /\ Len(s \o t) = Len(s) + Len(t)
         /\ \A q \in 1 .. Len(s) : (s \o t)[q] = s[q]
         /\ \A q \in Len(s) + 1 .. Len(s) + Len(t) : (s \o t)[q] = t[q - Len(s)]
<1>1. Len(s) \in Nat /\ Len(t) \in Nat
  BY LenProperties
<1>2. s \o t \in Seq(S) /\ Len(s \o t) = Len(s) + Len(t)
  BY ConcatProperties
<1>3. \A q \in 1 .. Len(s) + Len(t) : (s \o t)[q] = IF q <= Len(s) THEN s[q] ELSE t[q - Len(s)]
  BY ConcatProperties
<1> QED
  BY <1>1, <1>2, <1>3

\* A sequence and one element more.
LEMMA AppendAt ==
  ASSUME NEW S, NEW s \in Seq(S), NEW e \in S
  PROVE  /\ Append(s, e) \in Seq(S) /\ Len(Append(s, e)) = Len(s) + 1 /\ Len(s) \in Nat
         /\ \A q \in 1 .. Len(s) : Append(s, e)[q] = s[q]
         /\ Append(s, e)[Len(s) + 1] = e
<1>1. Len(s) \in Nat
  BY LenProperties
<1> QED
  BY <1>1, AppendProperties

\* A sequence without its first element.
LEMMA TailAt ==
  ASSUME NEW S, NEW s \in Seq(S), s # <<>>
  PROVE  /\ Tail(s) \in Seq(S) /\ Len(s) \in Nat \ {0} /\ Len(Tail(s)) = Len(s) - 1
         /\ \A q \in 1 .. Len(Tail(s)) : Tail(s)[q] = s[q + 1]
         /\ Head(s) = s[1] /\ Head(s) \in S
<1>1. Len(s) \in Nat /\ Len(s) # 0
  BY LenProperties, EmptySeq
<1>2. Head(s) \in S /\ Tail(s) \in Seq(S) /\ Len(Tail(s)) = Len(s) - 1
  BY HeadTailProperties
<1>3. \A q \in 1 .. Len(Tail(s)) : Tail(s)[q] = s[q + 1]
  BY HeadTailProperties
<1> QED
  BY <1>1, <1>2, <1>3

\* What the frames leave alone.
LEMMA WorkspacesUntouched ==
  ASSUME AnalysisInv, UNCHANGED <<ws, snap, writers, store, dirty, edited>>, FramesInv'
  PROVE  AnalysisInv'
<1>1. WorkspacesInv' /\ SnapshotsInv' /\ TraceRingsReclaimed'
  BY DEF AnalysisInv, WorkspacesInv, SnapshotsInv, SnapshotNotAhead, Exists, TraceRingsReclaimed
<1>2. StoreInv'
  BY DEF AnalysisInv, StoreInv, CleanMeansSaved, Exists
<1> QED
  BY <1>1, <1>2 DEF AnalysisInv

\* Rings only grow: a frame keeps its context.
Grown ==
    /\ Len(rings) <= Len(rings')
    /\ \A k \in 1 .. Len(rings) : /\ Len(rings[k]) <= Len(rings'[k])
                                  /\ \A q \in 1 .. Len(rings[k]) : rings'[k][q] = rings[k][q]

\* The lengths of rings and of the queue.
LEMMA RingTypes ==
  ASSUME RingInv, ChunksInv
  PROVE  /\ Len(rings) \in Nat \ {0} /\ Len(chunks) \in Nat
         /\ \A k \in 1 .. Len(rings) : rings[k] \in Seq(Int) /\ Len(rings[k]) \in Nat
         /\ \A i \in 1 .. Len(chunks) : /\ chunks[i] \in Chunk /\ chunks[i].first \in Nat \ {0}
                                        /\ chunks[i].final \in Nat /\ chunks[i].name \in Nat
<1>1. Len(rings) \in Nat /\ Len(rings) # 0 /\ Len(chunks) \in Nat
  BY LenProperties, EmptySeq DEF RingInv, ChunksInv
<1>2. \A k \in 1 .. Len(rings) : rings[k] \in Seq(Int)
  BY ElementOfSeq DEF RingInv
<1>3. \A k \in 1 .. Len(rings) : Len(rings[k]) \in Nat
  BY <1>2, LenProperties
<1>4. \A i \in 1 .. Len(chunks) : chunks[i] \in Chunk
  BY ElementOfSeq DEF ChunksInv
<1> QED
  BY <1>1, <1>2, <1>3, <1>4 DEF Chunk

\* A descriptor is true of the rings as they are after a step that grows them.
LEMMA ChunkStays ==
  ASSUME RingInv, ChunksInv, RingInv', Grown, NEW i \in 1 .. Len(chunks)
  PROVE  /\ chunks[i].name \in 1 .. Len(rings') /\ chunks[i].first <= chunks[i].final
         /\ chunks[i].final <= Len(rings'[chunks[i].name])
         /\ \A q \in chunks[i].first .. chunks[i].final : rings'[chunks[i].name][q] = chunks[i].ctx
<1>1. PICK m, k : m = chunks[i] /\ k = m.name
  OBVIOUS
<1>2. /\ k \in 1 .. Len(rings) /\ m.first <= m.final /\ m.final <= Len(rings[k])
      /\ m.first \in Nat \ {0} /\ m.final \in Nat /\ Len(rings[k]) \in Nat /\ Len(rings) \in Nat
      /\ \A q \in m.first .. m.final : rings[k][q] = m.ctx
  BY <1>1, RingTypes DEF ChunksInv
<1>3. /\ Len(rings') \in Nat /\ Len(rings) <= Len(rings') /\ Len(rings[k]) <= Len(rings'[k])
      /\ \A q \in 1 .. Len(rings[k]) : rings'[k][q] = rings[k][q]
  BY <1>2, LenProperties DEF Grown, RingInv
<1>4. k \in 1 .. Len(rings')
  BY <1>2, <1>3
<1>5. Len(rings'[k]) \in Nat
  BY <1>4, ElementOfSeq, LenProperties DEF RingInv
<1>6. m.final <= Len(rings'[k]) /\ \A q \in m.first .. m.final : q \in 1 .. Len(rings[k])
  BY <1>2, <1>3, <1>5
<1> QED
  BY <1>1, <1>2, <1>3, <1>4, <1>6

\* What the reader knows stays true when the rings grow.
LEMMA ReaderStays ==
  ASSUME RingInv, ChunksInv, ReaderInv, RingInv', Grown, UNCHANGED <<reader, told, analysed>>,
         \A i \in 1 .. Len(chunks') : chunks'[i].name = reader.name => reader.last < chunks'[i].first
  PROVE  ReaderInv'
<1>1. /\ reader.name \in 0 .. Len(rings) /\ Len(rings) \in Nat /\ Len(rings') \in Nat /\ Len(rings) <= Len(rings')
  BY RingTypes, LenProperties DEF ReaderInv, Grown, RingInv
<1>2. reader.name \in 0 .. Len(rings')
  BY <1>1
<1>3. ASSUME reader.name # 0 PROVE Informed(rings[reader.name])'
  <2>1. PICK k : k = reader.name
    OBVIOUS
  <2>2. k \in 1 .. Len(rings) /\ k \in 1 .. Len(rings')
    BY <1>1, <1>3, <2>1
  <2>3. PICK K, L : K = rings[k] /\ L = rings'[k]
    OBVIOUS
  <2>4. Len(K) \in Nat /\ Len(L) \in Nat /\ Len(K) <= Len(L) /\ \A q \in 1 .. Len(K) : q \in 1 .. Len(L) /\ L[q] = K[q]
    <3>1. Len(K) \in Nat /\ Len(K) <= Len(L) /\ \A q \in 1 .. Len(K) : L[q] = K[q]
      BY <2>2, <2>3, RingTypes DEF Grown
    <3>2. Len(L) \in Nat
      BY <2>2, <2>3, ElementOfSeq, LenProperties DEF RingInv
    <3> QED
      BY <3>1, <3>2
  <2>5. /\ reader.last \in Nat /\ reader.last <= Len(K)
        /\ \A q \in DOMAIN reader.map : q \in 1 .. Len(K) /\ reader.map[q] = K[q]
        /\ \A q \in told : q > reader.last => q \in DOMAIN reader.map
        /\ DOMAIN analysed \subseteq 1 .. reader.last
        /\ \A q \in DOMAIN analysed \cap told : analysed[q] = K[q]
    BY <1>3, <2>1, <2>3 DEF ReaderInv, Informed
  <2>6. reader.last <= Len(L) /\ \A q \in DOMAIN analysed : q \in 1 .. Len(K)
    BY <2>4, <2>5
  <2>7. /\ \A q \in DOMAIN reader.map : q \in 1 .. Len(L) /\ reader.map[q] = L[q]
        /\ \A q \in DOMAIN analysed \cap told : analysed[q] = L[q]
    BY <2>4, <2>5, <2>6
  <2>8. rings'[reader'.name] = L
    BY <2>1, <2>3
  <2> QED
    BY <2>5, <2>6, <2>7, <2>8 DEF Informed
<1> QED
  BY <1>2, <1>3 DEF ReaderInv

\* The driver appends frames and announces them, or the announcement is lost.
LEMMA WriteKeeps ==
  ASSUME AnalysisInv, NEW n \in 1 .. 2, NEW ctx \in 1 .. 2, NEW lost \in BOOLEAN, WriteBatch(n, ctx, lost)
  PROVE  AnalysisInv'
<1> DEFINE more == [i \in 1 .. n |-> ctx]
<1>1. PICK top, frames : top = Len(rings) /\ frames = rings[top]
  OBVIOUS
<1>2. PICK m : m = [name |-> top, first |-> Len(frames) + 1, final |-> Len(frames) + n, ctx |-> ctx]
  OBVIOUS
<1>3. /\ rings' = [rings EXCEPT ![top] = frames \o more]
      /\ chunks' = chunks \/ chunks' = Append(chunks, m)
      /\ UNCHANGED <<ws, snap, writers, reader, store, found, dirty, told, analysed, edited>>
  BY <1>1, <1>2 DEF WriteBatch
<1>4. RingInv /\ ChunksInv /\ ReaderInv
  BY DEF AnalysisInv, FramesInv
<1>5. /\ top \in Nat \ {0} /\ top \in 1 .. Len(rings) /\ frames \in Seq(Int) /\ Len(frames) \in Nat
      /\ more \in Seq(Int) /\ Len(more) = n /\ \A k \in 1 .. n : more[k] = ctx
  BY <1>1, <1>4, RingTypes
<1> HIDE DEF more
<1>6. PICK grown : grown = frames \o more
  OBVIOUS
<1>7. /\ grown \in Seq(Int) /\ Len(grown) = Len(frames) + n
      /\ \A q \in 1 .. Len(frames) : grown[q] = frames[q]
      /\ \A q \in Len(frames) + 1 .. Len(frames) + n : grown[q] = ctx
  <2>1. /\ grown \in Seq(Int) /\ Len(grown) = Len(frames) + n
        /\ \A q \in 1 .. Len(frames) : grown[q] = frames[q]
        /\ \A q \in Len(frames) + 1 .. Len(frames) + n : grown[q] = more[q - Len(frames)]
    BY <1>5, <1>6, ConcatAt
  <2>2. \A q \in Len(frames) + 1 .. Len(frames) + n : q - Len(frames) \in 1 .. n
    BY <1>5
  <2> QED
    BY <1>5, <2>1, <2>2
<1>8. /\ rings' \in Seq(Seq(Int)) /\ Len(rings') = Len(rings) /\ rings'[top] = grown
      /\ \A k \in 1 .. Len(rings) : k # top => rings'[k] = rings[k]
  BY <1>3, <1>4, <1>5, <1>6, <1>7 DEF RingInv
<1>9. RingInv' /\ Grown
  <2>1. rings' # <<>>
    BY <1>5, <1>8
  <2>2. ASSUME NEW k \in 1 .. Len(rings)
        PROVE  Len(rings[k]) <= Len(rings'[k]) /\ \A q \in 1 .. Len(rings[k]) : rings'[k][q] = rings[k][q]
    <3>1. CASE k = top
      BY <1>1, <1>5, <1>7, <1>8, <3>1
    <3>2. CASE k # top
      BY <1>4, <1>8, <3>2, RingTypes
    <3> QED
      BY <3>1, <3>2
  <2> QED
    BY <1>4, <1>8, <2>1, <2>2, RingTypes DEF RingInv, Grown
<1>10. /\ m \in Chunk /\ m.name = top /\ m.first = Len(frames) + 1 /\ m.final = Len(frames) + n /\ m.ctx = ctx
  BY <1>2, <1>5 DEF Chunk
<1>11. /\ chunks' \in Seq(Chunk)
       /\ \A i \in 1 .. Len(chunks') : \/ i \in 1 .. Len(chunks) /\ chunks'[i] = chunks[i]
                                       \/ i = Len(chunks) + 1 /\ chunks'[i] = m
  <2>1. CASE chunks' = chunks
    BY <1>4, <2>1 DEF ChunksInv
  <2>2. CASE chunks' = Append(chunks, m)
    <3>1. /\ Append(chunks, m) \in Seq(Chunk) /\ Len(Append(chunks, m)) = Len(chunks) + 1
          /\ \A i \in 1 .. Len(chunks) : Append(chunks, m)[i] = chunks[i]
          /\ Append(chunks, m)[Len(chunks) + 1] = m
      BY <1>4, <1>10, AppendAt DEF ChunksInv
    <3> QED
      BY <1>4, <2>2, <3>1, RingTypes
  <2> QED
    BY <1>3, <2>1, <2>2
<1>12. ASSUME NEW i \in 1 .. Len(chunks), chunks[i].name = top PROVE chunks[i].final <= Len(frames)
  BY <1>1, <1>4, <1>12 DEF ChunksInv
<1>13. ChunksInv'
  <2>1. ASSUME NEW i \in 1 .. Len(chunks')
        PROVE  /\ chunks'[i].name \in 1 .. Len(rings') /\ chunks'[i].first <= chunks'[i].final
               /\ chunks'[i].final <= Len(rings'[chunks'[i].name])
               /\ \A q \in chunks'[i].first .. chunks'[i].final : rings'[chunks'[i].name][q] = chunks'[i].ctx
    <3>1. CASE i = Len(chunks) + 1 /\ chunks'[i] = m
      <4>1. m.name \in 1 .. Len(rings') /\ m.first <= m.final /\ m.final <= Len(grown)
        BY <1>5, <1>7, <1>8, <1>10
      <4>2. \A q \in m.first .. m.final : grown[q] = m.ctx
        BY <1>7, <1>10
      <4> QED
        BY <1>8, <1>10, <3>1, <4>1, <4>2
    <3>2. CASE i \in 1 .. Len(chunks) /\ chunks'[i] = chunks[i]
      BY <1>4, <1>9, <3>2, ChunkStays
    <3> QED
      BY <1>11, <3>1, <3>2
  <2>2. ASSUME NEW i \in 1 .. Len(chunks'), NEW j \in 1 .. Len(chunks'), i < j,
               chunks'[i].name = chunks'[j].name
        PROVE  chunks'[i].final < chunks'[j].first
    <3>0. Len(chunks) \in Nat
      BY <1>4, RingTypes
    <3>1. CASE j \in 1 .. Len(chunks) /\ chunks'[j] = chunks[j]
      <4>1. i \in 1 .. Len(chunks) /\ chunks'[i] = chunks[i]
        BY <1>11, <2>2, <3>0, <3>1
      <4> QED
        BY <1>4, <2>2, <3>1, <4>1 DEF ChunksInv
    <3>2. CASE j = Len(chunks) + 1 /\ chunks'[j] = m
      <4>1. i \in 1 .. Len(chunks) /\ chunks'[i] = chunks[i]
        BY <1>11, <2>2, <3>0, <3>2
      <4>2. chunks[i].name = top /\ chunks[i].final \in Nat
        BY <1>4, <1>10, <2>2, <3>2, <4>1, RingTypes
      <4>3. chunks[i].final <= Len(frames)
        BY <1>12, <4>1, <4>2
      <4> QED
        BY <1>5, <1>10, <3>2, <4>1, <4>2, <4>3
    <3> QED
      BY <1>11, <3>1, <3>2
  <2> QED
    BY <1>11, <2>1, <2>2 DEF ChunksInv
<1>14. ASSUME NEW i \in 1 .. Len(chunks'), chunks'[i].name = reader.name PROVE reader.last < chunks'[i].first
  <2>1. CASE i \in 1 .. Len(chunks) /\ chunks'[i] = chunks[i]
    BY <1>4, <1>14, <2>1 DEF ReaderInv
  <2>2. CASE i = Len(chunks) + 1 /\ chunks'[i] = m
    <3>1. reader.name = top /\ reader.name # 0
      BY <1>5, <1>10, <1>14, <2>2
    <3>2. reader.last \in Nat /\ reader.last <= Len(frames)
      BY <1>1, <1>4, <3>1 DEF ReaderInv, Informed
    <3> QED
      BY <1>5, <1>10, <2>2, <3>2
  <2> QED
    BY <1>11, <2>1, <2>2
<1>15. ReaderInv'
  BY <1>3, <1>4, <1>9, <1>14, ReaderStays
<1> QED
  BY <1>3, <1>9, <1>13, <1>15, WorkspacesUntouched DEF FramesInv

\* The driver starts a new ring: the frames of the others keep their contexts.
LEMMA DriverRestartKeeps == ASSUME AnalysisInv, DriverRestart PROVE AnalysisInv'
<1>1. /\ rings' = Append(rings, <<>>)
      /\ UNCHANGED <<ws, snap, writers, reader, store, found, dirty, chunks, told, analysed, edited>>
  BY DEF DriverRestart
<1>2. RingInv /\ ChunksInv /\ ReaderInv
  BY DEF AnalysisInv, FramesInv
<1>3. /\ rings' \in Seq(Seq(Int)) /\ Len(rings') = Len(rings) + 1 /\ Len(rings) \in Nat
      /\ \A k \in 1 .. Len(rings) : rings'[k] = rings[k]
  <2>1. <<>> \in Seq(Int) /\ rings \in Seq(Seq(Int))
    BY <1>2 DEF RingInv
  <2> QED
    BY <1>1, <2>1, AppendAt
<1>4. RingInv' /\ Grown
  <2>1. \A k \in 1 .. Len(rings) : Len(rings[k]) <= Len(rings'[k])
    BY <1>2, <1>3, RingTypes
  <2>2. rings' # <<>>
    BY <1>3
  <2> QED
    BY <1>3, <2>1, <2>2 DEF RingInv, Grown
<1>5. ChunksInv'
  BY <1>1, <1>2, <1>4, ChunkStays DEF ChunksInv
<1>6. ReaderInv'
  BY <1>1, <1>2, <1>4, ReaderStays DEF ReaderInv
<1> QED
  BY <1>1, <1>4, <1>5, <1>6, WorkspacesUntouched DEF FramesInv

\* The descriptors that wait behind the first one.
LEMMA ChunksBehind ==
  ASSUME RingInv, ChunksInv, chunks # <<>>, rings' = rings, chunks' = Tail(chunks)
  PROVE  /\ ChunksInv' /\ Head(chunks) = chunks[1] /\ Head(chunks) \in Chunk /\ 1 \in 1 .. Len(chunks)
         /\ \A i \in 1 .. Len(chunks') : /\ i + 1 \in 1 .. Len(chunks) /\ chunks'[i] = chunks[i + 1]
                                         /\ chunks'[i].name = Head(chunks).name =>
                                               Head(chunks).final < chunks'[i].first
<1>1. /\ chunks' \in Seq(Chunk) /\ Len(chunks) \in Nat \ {0} /\ Len(chunks') = Len(chunks) - 1
      /\ \A i \in 1 .. Len(chunks') : chunks'[i] = chunks[i + 1]
      /\ Head(chunks) = chunks[1] /\ Head(chunks) \in Chunk
  BY TailAt DEF ChunksInv
<1>2. 1 \in 1 .. Len(chunks) /\ \A i \in 1 .. Len(chunks') : i + 1 \in 1 .. Len(chunks) /\ 1 < i + 1
  BY <1>1
<1>3. \A i, j \in 1 .. Len(chunks') : i < j => i + 1 < j + 1
  OBVIOUS
<1>4. ASSUME NEW i \in 1 .. Len(chunks')
      PROVE  /\ chunks'[i].name \in 1 .. Len(rings') /\ chunks'[i].first <= chunks'[i].final
             /\ chunks'[i].final <= Len(rings'[chunks'[i].name])
             /\ \A q \in chunks'[i].first .. chunks'[i].final : rings'[chunks'[i].name][q] = chunks'[i].ctx
  BY <1>1, <1>2 DEF ChunksInv
<1>5. ASSUME NEW i \in 1 .. Len(chunks'), NEW j \in 1 .. Len(chunks'), i < j, chunks'[i].name = chunks'[j].name
      PROVE  chunks'[i].final < chunks'[j].first
  <2>1. i + 1 \in 1 .. Len(chunks) /\ j + 1 \in 1 .. Len(chunks) /\ i + 1 < j + 1
    BY <1>2, <1>3, <1>5
  <2> QED
    BY <1>1, <1>5, <2>1 DEF ChunksInv
<1>6. ChunksInv'
  BY <1>1, <1>4, <1>5 DEF ChunksInv
<1>7. \A i \in 1 .. Len(chunks') : chunks'[i].name = Head(chunks).name => Head(chunks).final < chunks'[i].first
  BY <1>1, <1>2 DEF ChunksInv
<1> QED
  BY <1>1, <1>2, <1>6, <1>7

\* A descriptor that is dropped, with or without the reader.
LEMMA ChunkDropped ==
  ASSUME AnalysisInv, chunks # <<>>, chunks' = Tail(chunks), reader' = reader \/ reader' = NoReader,
         UNCHANGED <<ws, snap, writers, store, found, dirty, rings, told, analysed, edited>>
  PROVE  AnalysisInv'
<1>1. RingInv /\ ChunksInv /\ ReaderInv
  BY DEF AnalysisInv, FramesInv
<1>2. RingInv'
  BY <1>1 DEF RingInv
<1>3. ChunksInv' /\ \A i \in 1 .. Len(chunks') : i + 1 \in 1 .. Len(chunks) /\ chunks'[i] = chunks[i + 1]
  BY <1>1, ChunksBehind
<1>4. CASE reader' = reader
  <2>1. \A i \in 1 .. Len(chunks') : chunks'[i].name = reader.name => reader.last < chunks'[i].first
    BY <1>1, <1>3 DEF ReaderInv
  <2>2. ReaderInv'
    BY <1>1, <1>4, <2>1 DEF ReaderInv, Informed
  <2> QED
    BY <1>2, <1>3, <2>2, WorkspacesUntouched DEF FramesInv
<1>5. CASE reader' = NoReader
  <2>1. told' \subseteq Nat
    BY <1>1 DEF ReaderInv
  <2>2. ReaderInv'
    BY <1>2, <1>3, <1>5, <2>1, NoReaderInformed
  <2> QED
    BY <1>2, <1>3, <2>2, WorkspacesUntouched DEF FramesInv
<1> QED
  BY <1>4, <1>5

-----------------------------------------------------------------------------
(* A descriptor that is handled                                              *)

\* The largest element, when there is one.
LEMMA MaxIs ==
  ASSUME NEW S \in SUBSET Int, NEW x \in S, \A y \in S : x >= y
  PROVE  Max(S) = x
<1>1. \E z : z \in S /\ \A y \in S : z >= y
  OBVIOUS
<1>2. Max(S) = CHOOSE z : z \in S /\ \A y \in S : z >= y
  BY DEF Max
<1>3. Max(S) \in S /\ \A y \in S : Max(S) >= y
  BY <1>1, <1>2
<1>4. Max(S) \in Int /\ x \in Int /\ Max(S) >= x /\ x >= Max(S)
  BY <1>3
<1> QED
  BY <1>4

\* What a reader r that remembers the contexts `map' knows, with the frames analysed
\* before and the frames it was told of.
Prepared(K, m, r, map, old, new) ==
    /\ r = [name |-> m.name, last |-> r.last, map |-> r.map, cur |-> r.cur]
    /\ r.last \in Nat /\ r.last < m.first /\ m.first \in Nat \ {0} /\ m.final \in Nat
    /\ m.first <= m.final /\ m.final <= Len(K)
    /\ \A q \in DOMAIN map : q \in 1 .. Len(K) /\ map[q] = K[q]
    /\ new \subseteq Nat /\ \A q \in new : q > r.last => q \in DOMAIN map
    /\ DOMAIN old \subseteq 1 .. r.last
    /\ \A q \in DOMAIN old \cap new : old[q] = K[q]

\* The contexts known once a descriptor is remembered are true, and cover all that
\* the reader was told of and has not read.
LEMMA ReaderEnsured ==
  ASSUME RingInv, ChunksInv, ReaderInv, chunks # <<>>, chunks' = Tail(chunks), rings' = rings,
         NEW m, m = Head(chunks), NEW K, K = rings[m.name],
         NEW r, r = EnsureReader(m), NEW map, map = RememberContext(r, m),
         NEW old, old = IF reader.name = m.name THEN analysed ELSE <<>>,
         NEW new, new = (IF reader.name = m.name THEN told ELSE {}) \cup m.first .. m.final
  PROVE  Prepared(K, m, r, map, old, new)
<1>1. /\ m \in Chunk /\ m.first <= m.final /\ m.final <= Len(K)
      /\ \A q \in m.first .. m.final : K[q] = m.ctx
  BY ChunksBehind DEF ChunksInv
<1>2. m.first \in Nat \ {0} /\ m.final \in Nat /\ Len(K) \in Nat /\ m.name # 0
  <2>1. m.name \in 1 .. Len(rings) /\ Len(rings) \in Nat
    BY RingTypes, ChunksBehind DEF ChunksInv
  <2>2. Len(rings[m.name]) \in Nat
    BY <2>1, RingTypes
  <2> QED
    BY <1>1, <2>1, <2>2 DEF Chunk
<1>3. /\ r = [name |-> m.name, last |-> r.last, map |-> r.map, cur |-> r.cur]
      /\ r.last \in Nat /\ r.last < m.first
      /\ \A q \in DOMAIN r.map : q \in 1 .. Len(K) /\ r.map[q] = K[q]
      /\ DOMAIN old \subseteq 1 .. r.last
  <2>1. CASE reader.name = m.name
    <3>1. r = reader /\ old = analysed
      BY <2>1 DEF EnsureReader
    <3>2. reader.last < m.first
      BY <2>1, ChunksBehind DEF ReaderInv
    <3> QED
      BY <1>2, <2>1, <3>1, <3>2 DEF ReaderInv, Informed
  <2>2. CASE reader.name # m.name
    <3>1. r = [name |-> m.name, last |-> m.first - 1, map |-> <<>>, cur |-> 0] /\ old = <<>>
      BY <2>2 DEF EnsureReader
    <3>2. r.name = m.name /\ r.last = m.first - 1 /\ r.map = <<>> /\ r.cur = 0
      BY <3>1
    <3>3. r = [name |-> m.name, last |-> r.last, map |-> r.map, cur |-> r.cur]
      BY <3>1, <3>2
    <3>4. DOMAIN r.map = {} /\ DOMAIN old = {} /\ r.last \in Nat /\ r.last < m.first
      BY <1>2, <3>1, <3>2
    <3> QED
      BY <3>3, <3>4
  <2> QED
    BY <2>1, <2>2
<1>4. /\ DOMAIN map = (m.first .. m.final) \cup DOMAIN r.map
      /\ \A q \in DOMAIN map : map[q] = IF q \in m.first .. m.final THEN m.ctx ELSE r.map[q]
  BY DEF RememberContext, Over
<1>5. ASSUME NEW q \in DOMAIN map PROVE q \in 1 .. Len(K) /\ map[q] = K[q]
  <2>1. CASE q \in m.first .. m.final
    <3>1. q \in 1 .. Len(K)
      BY <1>1, <1>2, <2>1
    <3> QED
      BY <1>1, <1>4, <2>1, <3>1
  <2>2. CASE q \notin m.first .. m.final
    BY <1>3, <1>4, <2>2
  <2> QED
    BY <2>1, <2>2
<1>6. new \subseteq Nat
  BY <1>2 DEF ReaderInv
<1>7. ASSUME NEW q \in new, q > r.last PROVE q \in DOMAIN map
  <2>1. CASE q \in m.first .. m.final
    BY <1>4, <2>1
  <2>2. CASE q \notin m.first .. m.final
    <3>1. reader.name = m.name /\ q \in told
      BY <1>7, <2>2
    <3>2. r = reader
      BY <3>1 DEF EnsureReader
    <3> QED
      BY <1>2, <1>4, <1>7, <3>1, <3>2 DEF ReaderInv, Informed
  <2> QED
    BY <2>1, <2>2
<1>8. ASSUME NEW q \in DOMAIN old, q \in new PROVE old[q] = K[q]
  <2>1. q \in 1 .. r.last
    BY <1>3
  <2>2. q \notin m.first .. m.final
    BY <1>2, <1>3, <2>1
  <2>3. reader.name = m.name /\ q \in told
    BY <1>8, <2>2
  <2> QED
    BY <1>2, <1>8, <2>3 DEF ReaderInv, Informed
<1> QED
  BY <1>1, <1>2, <1>3, <1>5, <1>6, <1>7, <1>8 DEF Prepared

\* A frame that the reader was told of is analysed under the context of its own
\* descriptor, and what is read is behind every descriptor that waits.
LEMMA HandledFrames ==
  ASSUME RingInv, ChunksInv, ReaderInv, NEW hist, NEW trace, NEW F, HandleChunkReady(hist, trace, F)
  PROVE  FramesInv'
<1> PICK m : m = Head(chunks)
  OBVIOUS
<1> PICK K : K = rings[m.name]
  OBVIOUS
<1> PICK r : r = EnsureReader(m)
  OBVIOUS
<1> PICK map : map = RememberContext(r, m)
  OBVIOUS
<1> PICK frames : frames = FramesRead(r, m)
  OBVIOUS
<1> PICK used : used = ResolveContext(r, map, frames)
  OBVIOUS
<1> PICK old : old = IF reader.name = m.name THEN analysed ELSE <<>>
  OBVIOUS
<1>1. /\ chunks # <<>> /\ chunks' = Tail(chunks) /\ rings' = rings
      /\ told' = (IF reader.name = m.name THEN told ELSE {}) \cup m.first .. m.final
      /\ \/ frames = {} /\ reader' = [r EXCEPT !.map = map] /\ analysed' = old
         \/ /\ frames # {} /\ reader' = Advanced(r, map, used)
            /\ analysed' = IF reader.name = m.name THEN Over(used, analysed) ELSE used
  BY DEF HandleChunkReady
<1> PICK new : new = (IF reader.name = m.name THEN told ELSE {}) \cup m.first .. m.final
  OBVIOUS
<1>0. Prepared(K, m, r, map, old, new)
  BY <1>1, ReaderEnsured
<1>2. /\ r = [name |-> m.name, last |-> r.last, map |-> r.map, cur |-> r.cur]
      /\ r.last \in Nat /\ r.last < m.first /\ m.first \in Nat \ {0} /\ m.final \in Nat
      /\ m.first <= m.final /\ m.final <= Len(K)
  BY <1>0, Zenon DEF Prepared
<1>3. /\ \A q \in DOMAIN map : q \in 1 .. Len(K) /\ map[q] = K[q]
      /\ told' \subseteq Nat /\ \A q \in told' : q > r.last => q \in DOMAIN map
  BY <1>0, <1>1, Zenon DEF Prepared
<1>4. DOMAIN old \subseteq 1 .. r.last /\ \A q \in DOMAIN old \cap told' : old[q] = K[q]
  BY <1>0, <1>1, Zenon DEF Prepared
<1>5. m.name \in 1 .. Len(rings) /\ m.name # 0 /\ Len(K) \in Nat /\ RingInv'
  <2>1. RingInv'
    BY <1>1 DEF RingInv
  <2>2. m.name \in 1 .. Len(rings)
    BY <1>1, ChunksBehind DEF ChunksInv
  <2>3. Len(K) \in Nat /\ Len(rings) \in Nat
    BY <2>2, RingTypes
  <2> QED
    BY <2>1, <2>2, <2>3
<1>6. ChunksInv' /\ \A i \in 1 .. Len(chunks') : chunks'[i].name = m.name => m.final < chunks'[i].first
  BY <1>1, ChunksBehind
<1>7. \A i \in 1 .. Len(chunks') : chunks'[i].first \in Nat
  <2>1. chunks' \in Seq(Chunk)
    BY <1>6 DEF ChunksInv
  <2>2. \A i \in 1 .. Len(chunks') : chunks'[i] \in Chunk
    BY <2>1, ElementOfSeq
  <2> QED
    BY <2>2 DEF Chunk
<1>8. CASE frames = {} /\ reader' = [r EXCEPT !.map = map] /\ analysed' = old
  <2>1. reader' = [name |-> m.name, last |-> r.last, map |-> map, cur |-> r.cur]
    BY <1>2, <1>8
  <2>2. reader'.name = m.name /\ reader'.last = r.last /\ reader'.map = map /\ reader'.cur = r.cur
    BY <2>1
  <2>3. /\ r.last <= Len(K)
        /\ \A i \in 1 .. Len(chunks') : chunks'[i].name = m.name => r.last < chunks'[i].first
    BY <1>2, <1>5, <1>6, <1>7
  <2>4. ReaderInv'
    <3>1. analysed' = old
      BY <1>8
    <3> HIDE <1>8
    <3>2. reader'.name \in 0 .. Len(rings') /\ reader'.last \in Nat /\ rings'[reader'.name] = K
      BY <1>1, <1>2, <1>5, <2>2
    <3>3. reader' = [name |-> reader'.name, last |-> reader'.last, map |-> reader'.map, cur |-> reader'.cur]
      BY <2>1, <2>2
    <3>4. Informed(rings[reader.name])'
      BY <1>3, <1>4, <2>2, <2>3, <3>1, <3>2 DEF Informed
    <3>5. \A i \in 1 .. Len(chunks') : chunks'[i].name = reader'.name => reader'.last < chunks'[i].first
      BY <2>2, <2>3
    <3> QED
      BY <1>3, <3>2, <3>3, <3>4, <3>5 DEF ReaderInv
  <2> QED
    BY <1>5, <1>6, <2>4 DEF FramesInv
<1>9. CASE /\ frames # {} /\ reader' = Advanced(r, map, used)
           /\ analysed' = IF reader.name = m.name THEN Over(used, analysed) ELSE used
  <2>1. frames = {q \in (r.last + 1) .. m.final : q > Len(K) - Slots}
    BY <1>2 DEF FramesRead
  <2>2. Slots \in Nat
    BY ConfigAssumption
  <2>3. m.final \in frames
    <3>1. PICK q \in (r.last + 1) .. m.final : q > Len(K) - Slots
      BY <1>9, <2>1
    <3>2. m.final \in (r.last + 1) .. m.final /\ m.final > Len(K) - Slots
      BY <1>2, <1>5, <2>2, <3>1
    <3> QED
      BY <2>1, <3>2
  <2>4. /\ frames \in SUBSET Int
        /\ \A q \in frames : q \in Nat \ {0} /\ r.last < q /\ m.final >= q
    BY <1>2, <2>1
  <2>5. DOMAIN used = frames
    BY DEF ResolveContext
  <2>6. Max(DOMAIN used) = m.final
    BY <2>3, <2>4, <2>5, MaxIs
  <2>7. PICK kept : kept = [q \in {p \in DOMAIN map : p > Max(DOMAIN used)} |-> map[q]]
    OBVIOUS
  <2>8. PICK top, ctx : top = Max(DOMAIN used) /\ ctx = used[Max(DOMAIN used)]
    OBVIOUS
  <2>9. reader' = [name |-> m.name, last |-> top, map |-> kept, cur |-> ctx]
    BY <1>2, <1>9, <2>7, <2>8 DEF Advanced
  <2>10. reader'.name = m.name /\ reader'.last = m.final /\ reader'.map = kept /\ reader'.cur = ctx
    BY <2>6, <2>8, <2>9
  <2>11. /\ \A q \in DOMAIN kept : q \in 1 .. Len(K) /\ kept[q] = K[q]
         /\ \A q \in told' : q > m.final => q \in DOMAIN kept
    <3>1. ASSUME NEW q \in told', q > m.final PROVE q \in DOMAIN kept
      <4>1. q \in Nat /\ q > r.last
        BY <1>2, <1>3, <3>1
      <4> QED
        BY <1>3, <2>6, <2>7, <3>1, <4>1
    <3> QED
      BY <1>3, <2>6, <2>7, <3>1
  <2>12. ASSUME NEW q \in frames, q \in told' PROVE used[q] = K[q]
    <3> DEFINE known == {p \in (frames \cap DOMAIN map) : p <= q}
    <3>1. used[q] = IF known = {} THEN r.cur ELSE map[Max(known)]
      BY DEF ResolveContext
    <3>2. q \in DOMAIN map
      BY <1>3, <2>4, <2>12
    <3>3. q \in known /\ known \in SUBSET Int /\ \A y \in known : q >= y
      BY <2>4, <3>2
    <3>4. Max(known) = q
      BY <3>3, MaxIs
    <3> QED
      BY <1>3, <3>1, <3>2, <3>3, <3>4
  <2>13. /\ DOMAIN analysed' = frames \cup DOMAIN old
         /\ \A q \in DOMAIN analysed' : analysed'[q] = IF q \in frames THEN used[q] ELSE old[q]
    <3>1. CASE reader.name = m.name
      BY <1>9, <2>5, <3>1 DEF Over
    <3>2. CASE reader.name # m.name
      BY <1>9, <2>5, <3>2
    <3> QED
      BY <3>1, <3>2
  <2>14. ASSUME NEW q \in DOMAIN analysed' PROVE q \in 1 .. m.final /\ (q \in told' => analysed'[q] = K[q])
    <3>1. CASE q \in frames
      BY <1>2, <2>4, <2>12, <2>13, <3>1
    <3>2. CASE q \notin frames
      <4>1. q \in DOMAIN old /\ analysed'[q] = old[q] /\ q \in 1 .. r.last
        BY <1>4, <2>13, <3>2
      <4>2. q \in 1 .. m.final
        BY <1>2, <4>1
      <4> QED
        BY <1>4, <4>1, <4>2
    <3> QED
      BY <3>1, <3>2
  <2>15. ReaderInv'
    <3> HIDE <1>9
    <3>1. reader'.name \in 0 .. Len(rings') /\ reader'.last \in Nat /\ rings'[reader'.name] = K
      BY <1>1, <1>2, <1>5, <2>10
    <3>2. reader' = [name |-> reader'.name, last |-> reader'.last, map |-> reader'.map, cur |-> reader'.cur]
      BY <2>9
    <3>3. Informed(rings[reader.name])'
      BY <1>2, <1>3, <2>10, <2>11, <2>14, <3>1 DEF Informed
    <3>4. \A i \in 1 .. Len(chunks') : chunks'[i].name = reader'.name => reader'.last < chunks'[i].first
      BY <1>6, <2>10
    <3> QED
      BY <1>3, <3>1, <3>2, <3>3, <3>4 DEF ReaderInv
  <2> QED
    BY <1>5, <1>6, <2>15 DEF FramesInv
<1> QED
  BY <1>1, <1>8, <1>9

\* A frame feeds the accumulators of the nodes that are executed what the graph
\* feeds them, and the snapshots are of what they then hold.
LEMMA FeedKeeps ==
  ASSUME WorkspacesInv, SnapshotsInv, TraceRingsReclaimed, StoreInv,
         NEW ran, ran \subseteq Subscribed(ws, Live), NEW hist, NEW trace,
         Feed(ran), RememberOutputs(ran, hist, trace), PublishTraces(ran, trace),
         UNCHANGED <<store, dirty, edited>>
  PROVE  WorkspacesInv' /\ SnapshotsInv' /\ TraceRingsReclaimed' /\ StoreInv'
<1>1. /\ ran \subseteq Workspaces
      /\ \A w \in ran : ws[w] # NoWorkspace /\ Runtime(ws[w])
      /\ \A w \in Workspaces : ws[w] = NoWorkspace \/ Runtime(ws[w])
  BY DEF Subscribed, WorkspacesInv
<1>2. ASSUME NEW rt, Runtime(rt)
      PROVE  LET g == FedState(rt)
                 new == [rt EXCEPT !.state = g]
             IN  /\ DOMAIN g = DOMAIN rt.state
                 /\ \A n \in DOMAIN g : rt.state[n].fed \subseteq g[n].fed
                 /\ Runtime(new) /\ new.cfg = rt.cfg /\ new.state = g /\ new # NoWorkspace
  <2> DEFINE g == FedState(rt)
             fed(n) == IF n \in Executed(rt.cfg) THEN rt.state[n].fed \cup {Lineage(rt.cfg, n)} ELSE rt.state[n].fed
  <2>1. g = [n \in DOMAIN rt.state |->
               IF n \in Executed(rt.cfg) THEN [rt.state[n] EXCEPT !.fed = rt.state[n].fed \cup {Lineage(rt.cfg, n)}]
               ELSE rt.state[n]]
    BY DEF FedState
  <2>2. DOMAIN g = DOMAIN rt.state /\ g = [n \in DOMAIN g |-> g[n]]
    BY <2>1
  <2> HIDE DEF g
  <2>3. ASSUME NEW n \in DOMAIN rt.state
        PROVE  /\ g[n] = [fed |-> g[n].fed, steady |-> g[n].steady]
               /\ g[n].steady = rt.state[n].steady /\ g[n].fed = fed(n)
    <3>1. rt.state[n] = [fed |-> rt.state[n].fed, steady |-> rt.state[n].steady]
      BY <1>2, Zenon DEF Runtime, Accumulators
    <3>2. CASE n \in Executed(rt.cfg)
      <4>1. g[n] = [rt.state[n] EXCEPT !.fed = rt.state[n].fed \cup {Lineage(rt.cfg, n)}]
        BY <2>1, <3>2
      <4>2. g[n] = [fed |-> rt.state[n].fed \cup {Lineage(rt.cfg, n)}, steady |-> rt.state[n].steady]
        BY <3>1, <4>1
      <4>3. g[n].fed = rt.state[n].fed \cup {Lineage(rt.cfg, n)} /\ g[n].steady = rt.state[n].steady
        BY <4>2
      <4> QED
        BY <3>2, <4>2, <4>3
    <3>3. CASE n \notin Executed(rt.cfg)
      <4>1. g[n] = rt.state[n]
        BY <2>1, <3>3
      <4> QED
        BY <3>1, <3>3, <4>1, Zenon
    <3> QED
      BY <3>2, <3>3
  <2>4. Accumulators(g)
    <3>1. \A n \in DOMAIN g : g[n] = [fed |-> g[n].fed, steady |-> g[n].steady]
      BY <2>2, <2>3, Zenon
    <3>2. \A n \in DOMAIN g : g[n].steady \in BOOLEAN
      BY <1>2, <2>2, <2>3, Zenon DEF Runtime, Accumulators
    <3> QED
      BY <2>2, <3>1, <3>2, Zenon DEF Accumulators
  <2>5. /\ \A n \in DOMAIN g : \A l \in g[n].fed : l \in rt.state[n].fed \/ l = Lineage(rt.cfg, n)
        /\ \A n \in DOMAIN g : rt.state[n].fed \subseteq g[n].fed
    BY <2>2, <2>3
  <2>6. \A n \in DOMAIN g : g[n].steady = rt.state[n].steady
    BY <2>2, <2>3, Zenon
  <2>7. LET new == [rt EXCEPT !.state = g]
        IN  Runtime(new) /\ new.cfg = rt.cfg /\ new.state = g /\ new # NoWorkspace
    BY <1>2, <2>2, <2>4, <2>5, <2>6, AccumulatorsChange
  <2> QED
    BY <2>2, <2>5, <2>7 DEF g
<1>3. /\ ws' = [w \in Workspaces |-> ws'[w]]
      /\ \A w \in Workspaces \ ran : ws'[w] = ws[w]
      /\ \A w \in ran : ws'[w] = [ws[w] EXCEPT !.state = FedState(ws[w])]
  BY <1>1 DEF Feed
<1>4. ASSUME NEW w \in ran
      PROVE  /\ Runtime(ws'[w]) /\ ws'[w] # NoWorkspace /\ ws'[w].cfg = ws[w].cfg
             /\ ws'[w].state = FedState(ws[w]) /\ DOMAIN ws'[w].state = DOMAIN ws[w].state
             /\ \A n \in DOMAIN ws'[w].state : ws[w].state[n].fed \subseteq ws'[w].state[n].fed
  <2>1. PICK rt : rt = ws[w] /\ Runtime(rt)
    BY <1>1
  <2>2. PICK new : new = [rt EXCEPT !.state = FedState(rt)] /\ new = ws'[w]
    BY <1>3, <2>1
  <2>3. /\ DOMAIN FedState(rt) = DOMAIN rt.state
        /\ \A n \in DOMAIN FedState(rt) : rt.state[n].fed \subseteq FedState(rt)[n].fed
        /\ Runtime(new) /\ new.cfg = rt.cfg /\ new.state = FedState(rt) /\ new # NoWorkspace
    BY <1>2, <2>1, <2>2, Zenon
  <2> QED
    BY <2>1, <2>2, <2>3, Zenon
<1>5. WorkspacesInv'
  BY <1>1, <1>3, <1>4 DEF WorkspacesInv
<1>6. \A w \in Workspaces : /\ ws'[w] # NoWorkspace <=> ws[w] # NoWorkspace
                            /\ ws'[w] # NoWorkspace => ws'[w].cfg = ws[w].cfg
  BY <1>1, <1>3, <1>4
<1>7. SnapshotsInv'
  <2>1. snap' = [k \in OutputKeys |->
                   IF k[1] \in ran /\ k[2] \in DueOutputs(ws[k[1]].cfg, hist, trace)
                   THEN OutputPayload(ws[k[1]], k[2]) ELSE snap[k]]
    BY DEF RememberOutputs
  <2>2. ASSUME NEW k \in OutputKeys, snap'[k] # NoPayload
        PROVE  /\ ws'[k[1]] # NoWorkspace
               /\ snap'[k].node \in DOMAIN ws'[k[1]].state =>
                     snap'[k].of \subseteq ws'[k[1]].state[snap'[k].node].fed
    <3>1. CASE k[1] \in ran /\ snap'[k] = OutputPayload(ws[k[1]], k[2])
      <4>1. PICK n : n = Graph[ws[k[1]].cfg].outs[k[2]]
        OBVIOUS
      <4>2. snap'[k] = [node |-> n, of |-> OutputValue(ws[k[1]], n)]
        BY <3>1, <4>1 DEF OutputPayload
      <4>3. snap'[k].node = n /\ snap'[k].of = OutputValue(ws[k[1]], n)
        BY <4>2
      <4> QED
        BY <1>4, <3>1, <4>3 DEF OutputValue
    <3>2. CASE snap'[k] = snap[k]
      <4>1. /\ ws[k[1]] # NoWorkspace /\ k[1] \in Workspaces
            /\ snap[k].node \in DOMAIN ws[k[1]].state => snap[k].of \subseteq ws[k[1]].state[snap[k].node].fed
        BY <2>2, <3>2, KeysAreOfWorkspaces DEF SnapshotsInv, SnapshotNotAhead, Exists
      <4>2. CASE k[1] \in ran
        BY <1>4, <3>2, <4>1, <4>2
      <4>3. CASE k[1] \notin ran
        BY <1>3, <3>2, <4>1, <4>3
      <4> QED
        BY <4>2, <4>3
    <3> QED
      BY <2>1, <3>1, <3>2
  <2>3. snap' = [k \in OutputKeys |-> snap'[k]]
    BY <2>1
  <2> QED
    BY <2>2, <2>3 DEF SnapshotsInv, SnapshotNotAhead, Exists
<1>8. TraceRingsReclaimed'
  <2>1. ActiveTraceKeys(ws') = ActiveTraceKeys(ws)
    BY <1>6, SameTraceKeys
  <2> QED
    BY <2>1 DEF TraceRingsReclaimed, PublishTraces
<1>9. StoreInv'
  BY <1>6 DEF StoreInv, CleanMeansSaved, Loads, Exists
<1> QED
  BY <1>5, <1>7, <1>8, <1>9

\* A descriptor that is handled, whatever raises on its frames.
LEMMA HandleKeeps ==
  ASSUME AnalysisInv, NEW hist, NEW trace, NEW F, HandleChunkReady(hist, trace, F)
  PROVE  AnalysisInv'
<1>1. FramesInv'
  BY HandledFrames DEF AnalysisInv, FramesInv
<1>2. \/ UNCHANGED <<ws, snap, writers, store, dirty, edited>>
      \/ /\ UNCHANGED <<store, dirty, edited>>
         /\ Feed(Subscribed(ws, Live) \ F) /\ RememberOutputs(Subscribed(ws, Live) \ F, hist, trace)
         /\ PublishTraces(Subscribed(ws, Live) \ F, trace)
  BY DEF HandleChunkReady
<1>3. CASE UNCHANGED <<ws, snap, writers, store, dirty, edited>>
  BY <1>1, <1>3, WorkspacesUntouched
<1>4. ASSUME NEW ran, ran \subseteq Subscribed(ws, Live), UNCHANGED <<store, dirty, edited>>,
             Feed(ran), RememberOutputs(ran, hist, trace), PublishTraces(ran, trace)
      PROVE  AnalysisInv'
  BY <1>1, <1>4, FeedKeeps DEF AnalysisInv
<1> QED
  BY <1>2, <1>3, <1>4

-----------------------------------------------------------------------------
(* The theorem                                                               *)

\* The invariant holds at the start and every step keeps it.
THEOREM AnalysisInductive == Spec => []AnalysisInv
<1>1. Init => AnalysisInv
  <2> SUFFICES ASSUME Init PROVE AnalysisInv
    OBVIOUS
  <2>1. WorkspacesInv /\ SnapshotsInv /\ TraceRingsReclaimed
    BY DEF Init, WorkspacesInv, SnapshotsInv, SnapshotNotAhead, TraceRingsReclaimed
  <2>2. StoreInv
    BY DEF Init, StoreInv, EmptyFile, Loads, CleanMeansSaved, Exists
  <2>3. RingInv
    BY DEF Init, RingInv
  <2>4. ChunksInv
    <3>1. chunks \in Seq(Chunk) /\ Len(chunks) = 0
      BY DEF Init
    <3> QED
      BY <3>1 DEF ChunksInv
  <2>5. ReaderInv
    <3>1. /\ reader.name = 0 /\ reader.last = 0 /\ told = {} /\ chunks = <<>> /\ Len(rings) = 1
          /\ reader = [name |-> reader.name, last |-> reader.last, map |-> reader.map, cur |-> reader.cur]
      BY DEF Init, NoReader
    <3> QED
      BY <3>1 DEF ReaderInv
  <2> QED
    BY <2>1, <2>2, <2>3, <2>4, <2>5 DEF AnalysisInv, FramesInv
<1>2. AnalysisInv /\ [Next]_analysisVars => AnalysisInv'
  <2> SUFFICES ASSUME AnalysisInv, [Next]_analysisVars PROVE AnalysisInv'
    OBVIOUS
  <2>1. CASE Rpc
    BY <2>1, PutKeeps, DeleteKeeps, ResetKeeps, ClearKeeps, SaveKeeps, ReloadKeeps DEF Rpc
  <2>2. CASE Frames
    <3>1. ASSUME SkipChunk \/ ReadFails PROVE AnalysisInv'
      BY <3>1, ChunkDropped DEF SkipChunk, ReadFails
    <3> QED
      BY <2>2, <3>1, WriteKeeps, HandleKeeps, DriverRestartKeeps DEF Frames
  <2>3. CASE UNCHANGED analysisVars
    <3>1. /\ UNCHANGED <<ws, snap, writers, store, dirty, edited>>
          /\ UNCHANGED <<rings, chunks, told, analysed>> /\ reader' = reader
      BY <2>3 DEF analysisVars
    <3>2. FramesInv'
      BY <3>1, ReaderDropped DEF AnalysisInv
    <3> QED
      BY <3>1, <3>2, WorkspacesUntouched
  <2> QED
    BY <2>1, <2>2, <2>3, RestartKeeps, EditKeeps, SpoilKeeps DEF Next, Edits
<1> QED
  BY <1>1, <1>2, PTL DEF Spec

\* However workspaces are put, deleted, reset, saved, reloaded or restarted between
\* frames: whatever the set of workspaces, their graphs, and the slots of the ring,
\* a carried-over accumulator has only been fed by the graph it has now, no snapshot
\* is ahead of its accumulator, no trace ring outlives its output, a frame whose
\* descriptor was handled is analysed under its own context, and a clean flag means
\* that the file is what is analysed.
THEOREM AnalysisIsSound == Spec => []AnalysisSound
<1>1. AnalysisInv => AnalysisSound
  <2> SUFFICES ASSUME AnalysisInv PROVE AnalysisSound
    OBVIOUS
  <2>1. ReusedStateIsPure
    BY DEF AnalysisInv, WorkspacesInv, Runtime, SteadyPure, ReusedStateIsPure, Pure, Exists
  <2>2. OwnContext
    BY DEF AnalysisInv, FramesInv, ReaderInv, Informed, OwnContext, NoReader
  <2> QED
    BY <2>1, <2>2 DEF AnalysisInv, SnapshotsInv, StoreInv, AnalysisSound
<1> QED
  BY <1>1, AnalysisInductive, PTL

-----------------------------------------------------------------------------
(* The sequencer's interpreter *)

(* A set of naturals that is not empty has a least element. *)
LEMMA LeastNat ==
  ASSUME NEW T \in SUBSET Nat, T # {}
  PROVE  \E x \in T : \A y \in T : x <= y
<1> DEFINE R == OpToRel(<, Nat)
<1>1. IsWellFoundedOn(R, Nat)
  BY NatLessThanWellFounded
<1>2. \E x \in T : \A y \in T : ~ (<<y, x>> \in R)
  <2> HIDE DEF R
  <2> QED
    BY <1>1, WFMin
<1>3. \A x, y \in Nat : <<y, x>> \in R <=> y < x
  BY DEF OpToRel
<1> HIDE DEF R
<1>4. PICK x \in T : \A y \in T : ~ (<<y, x>> \in R)
  BY <1>2
<1>5. \A y \in T : y \in Nat /\ x \in Nat /\ ~(y < x)
  BY <1>3, <1>4
<1>6. \A y \in T : x <= y
  BY <1>5
<1> QED
  BY <1>6

-----------------------------------------------------------------------------
(* Sums.  The partial sums of a function exist and are unique. *)

Sums(u, n, f) ==
    /\ u \in [0..n -> Int] /\ u[0] = 0
    /\ \A j \in 1..n : u[j] = u[j - 1] + f[j]

(* Integers have partial sums. *)
LEMMA SumsExist ==
  ASSUME NEW n \in Nat, NEW f, \A j \in 1..n : f[j] \in Int
  PROVE  \E u : Sums(u, n, f)
<1> DEFINE T == {m \in 0..n : ~\E u : Sums(u, m, f)}
<1>1. SUFFICES ASSUME T # {} PROVE FALSE
  <2>1. n \in 0..n
    OBVIOUS
  <2> QED
    BY <1>1, <2>1
<1>2. PICK m \in T : \A k \in T : m <= k
  <2>1. T \in SUBSET Nat
    OBVIOUS
  <2> HIDE DEF T
  <2> QED
    BY <1>1, <2>1, LeastNat
<1>3. m \in 0..n /\ ~\E u : Sums(u, m, f)
  BY <1>2
<1>4. CASE m = 0
  <2>1. Sums([j \in 0..0 |-> 0], 0, f)
    BY DEF Sums
  <2> QED
    BY <1>3, <1>4, <2>1
<1>5. CASE m # 0
  <2>1. m - 1 \in 0..n /\ ~(m <= m - 1)
    BY <1>3, <1>5
  <2>2. PICK u : Sums(u, m - 1, f)
    BY <1>2, <2>1
  <2> DEFINE v == [j \in 0..m |-> IF j = m THEN u[m - 1] + f[m] ELSE u[j]]
  <2>3. m \in 1..n /\ f[m] \in Int /\ m - 1 \in 0..(m - 1)
    BY <1>3, <1>5
  <2>4. u \in [0..(m - 1) -> Int]
    BY <2>2 DEF Sums
  <2>5. v \in [0..m -> Int]
    <3>1. u[m - 1] + f[m] \in Int
      BY <2>3, <2>4
    <3>2. \A j \in 0..m : j # m => j \in 0..(m - 1)
      BY <2>3
    <3> QED
      BY <2>4, <3>1, <3>2
  <2>6. v[0] = 0
    BY <2>2, <2>3 DEF Sums
  <2>7. ASSUME NEW j \in 1..m PROVE v[j] = v[j - 1] + f[j]
    <3>1. j - 1 \in 0..m /\ j - 1 # m /\ j \in 0..m
      BY <2>3
    <3>2. CASE j = m
      BY <3>1, <3>2
    <3>3. CASE j # m
      <4>1. j \in 1..(m - 1)
        BY <2>3, <3>3
      <4>2. u[j] = u[j - 1] + f[j]
        BY <2>2, <4>1 DEF Sums
      <4> QED
        BY <3>1, <3>3, <4>2
    <3> QED
      BY <3>2, <3>3
  <2> HIDE DEF v
  <2>8. Sums(v, m, f)
    BY <2>5, <2>6, <2>7 DEF Sums
  <2> QED
    BY <1>3, <2>8
<1> QED
  BY <1>4, <1>5

(* Partial sums are determined by what is summed. *)
LEMMA SumsUnique ==
  ASSUME NEW n \in Nat, NEW f, NEW g, NEW u, NEW v, Sums(u, n, f),
         v[0] = 0, \A j \in 1..n : v[j] = v[j - 1] + g[j], \A j \in 1..n : f[j] = g[j]
  PROVE  \A j \in 0..n : v[j] = u[j]
<1> DEFINE T == {m \in 0..n : v[m] # u[m]}
<1>1. SUFFICES ASSUME T # {} PROVE FALSE
  BY <1>1
<1>2. PICK m \in T : \A k \in T : m <= k
  <2>1. T \in SUBSET Nat
    OBVIOUS
  <2> HIDE DEF T
  <2> QED
    BY <1>1, <2>1, LeastNat
<1>3. m \in 0..n /\ v[m] # u[m]
  BY <1>2
<1>4. m # 0
  BY <1>3 DEF Sums
<1>5. m \in 1..n /\ m - 1 \in 0..n /\ ~(m <= m - 1)
  BY <1>3, <1>4
<1>6. v[m - 1] = u[m - 1]
  BY <1>2, <1>5
<1>7. v[m] = v[m - 1] + g[m] /\ u[m] = u[m - 1] + f[m] /\ f[m] = g[m]
  BY <1>5 DEF Sums
<1> QED
  BY <1>3, <1>6, <1>7

(* SumTo is the last of the partial sums: the recursive function of the      *)
(* progress walk is well defined.                                            *)
LEMMA SumIs ==
  ASSUME NEW n \in Nat, NEW f, \A j \in 1..n : f[j] \in Int
  PROVE  \E u : Sums(u, n, f) /\ Sequencer!SumTo(f, n) = u[n]
<1> DEFINE Rec(v) == v = [j \in 0..n |-> IF j = 0 THEN 0 ELSE v[j - 1] + f[j]]
           c == CHOOSE v : Rec(v)
<1>1. PICK u : Sums(u, n, f)
  BY SumsExist
<1>2. Rec(u)
  <2>1. u = [j \in 0..n |-> u[j]] /\ u[0] = 0 /\ \A j \in 1..n : u[j] = u[j - 1] + f[j]
    BY <1>1 DEF Sums
  <2>2. \A j \in 0..n : u[j] = IF j = 0 THEN 0 ELSE u[j - 1] + f[j]
    <3>1. \A j \in 0..n : j # 0 => j \in 1..n
      OBVIOUS
    <3> QED
      BY <2>1, <3>1
  <2> QED
    BY <2>1, <2>2, Zenon
<1>3. Rec(c)
  BY <1>2, Zenon
<1>4. c[0] = 0 /\ \A j \in 1..n : c[j] = c[j - 1] + f[j]
  <2> HIDE DEF c
  <2>1. c = [j \in 0..n |-> IF j = 0 THEN 0 ELSE c[j - 1] + f[j]]
    BY <1>3
  <2>2. 0 \in 0..n /\ \A j \in 1..n : j \in 0..n /\ j # 0
    OBVIOUS
  <2> QED
    BY <2>1, <2>2
<1>5. c[n] = u[n]
  <2> HIDE DEF c
  <2>1. n \in 0..n
    OBVIOUS
  <2> QED
    BY <1>1, <1>4, <2>1, SumsUnique
<1>6. Sequencer!SumTo(f, n) = c[n]
  BY Zenon DEF Sequencer!SumTo
<1> QED
  BY <1>1, <1>5, <1>6

(* A sum of integers is an integer. *)
LEMMA SumInt ==
  ASSUME NEW n \in Nat, NEW f, \A j \in 1..n : f[j] \in Int
  PROVE  Sequencer!SumTo(f, n) \in Int
<1>1. PICK u : Sums(u, n, f) /\ Sequencer!SumTo(f, n) = u[n]
  BY SumIs
<1>2. n \in 0..n
  OBVIOUS
<1> QED
  BY <1>1, <1>2 DEF Sums

(* The sum of nothing. *)
LEMMA SumEmpty ==
  ASSUME NEW f
  PROVE  Sequencer!SumTo(f, 0) = 0
<1>1. \A j \in 1..0 : f[j] \in Int
  OBVIOUS
<1>2. PICK u : Sums(u, 0, f) /\ Sequencer!SumTo(f, 0) = u[0]
  BY <1>1, SumIs
<1> QED
  BY <1>2 DEF Sums

(* A sum and its last summand. *)
LEMMA SumNext ==
  ASSUME NEW n \in Nat, NEW f, NEW g, \A j \in 1..(n + 1) : f[j] \in Int,
         \A j \in 1..n : g[j] = f[j]
  PROVE  Sequencer!SumTo(f, n + 1) = Sequencer!SumTo(g, n) + f[n + 1]
<1>1. PICK u : Sums(u, n + 1, f) /\ Sequencer!SumTo(f, n + 1) = u[n + 1]
  BY SumIs
<1>2. \A j \in 1..n : j \in 1..(n + 1)
  OBVIOUS
<1>3. \A j \in 1..n : g[j] \in Int
  BY <1>2
<1>4. PICK v : Sums(v, n, g) /\ Sequencer!SumTo(g, n) = v[n]
  BY <1>3, SumIs
<1>5. u[0] = 0 /\ \A j \in 1..n : u[j] = u[j - 1] + f[j]
  BY <1>1, <1>2 DEF Sums
<1>6. u[n] = v[n]
  <2>1. n \in 0..n
    OBVIOUS
  <2> QED
    BY <1>4, <1>5, <2>1, SumsUnique
<1>7. u[n + 1] = u[n] + f[n + 1]
  BY <1>1 DEF Sums
<1> QED
  BY <1>1, <1>4, <1>6, <1>7

(* Two functions that differ at one place have sums that differ by as much. *)
DifferAt(f, g, n, i, d) ==
    /\ n \in Nat /\ i \in 1..n /\ d \in Int
    /\ \A j \in 1..n : g[j] \in Int /\ (j # i => f[j] = g[j])
    /\ f[i] = g[i] + d

(* Two functions that differ at one place have sums that differ by as much. *)
LEMMA SumsDiffer ==
  ASSUME NEW n, NEW f, NEW g, NEW i, NEW d, DifferAt(f, g, n, i, d)
  PROVE  Sequencer!SumTo(f, n) = Sequencer!SumTo(g, n) + d
<1>0. /\ n \in Nat /\ i \in 1..n /\ d \in Int
      /\ \A j \in 1..n : g[j] \in Int /\ (j # i => f[j] = g[j])
      /\ f[i] = g[i] + d
  BY DEF DifferAt
<1>1. \A j \in 1..n : f[j] \in Int
  BY <1>0
<1>2. PICK u : Sums(u, n, f) /\ Sequencer!SumTo(f, n) = u[n]
  BY <1>0, <1>1, SumIs
<1>3. PICK v : Sums(v, n, g) /\ Sequencer!SumTo(g, n) = v[n]
  BY <1>0, SumIs
<1> DEFINE w == [j \in 0..n |-> IF j < i THEN v[j] ELSE v[j] + d]
<1>4. v \in [0..n -> Int] /\ v[0] = 0 /\ \A j \in 1..n : v[j] = v[j - 1] + g[j]
  BY <1>3 DEF Sums
<1>5. w[0] = 0
  BY <1>0, <1>4
<1>6. ASSUME NEW j \in 1..n PROVE w[j] = w[j - 1] + f[j]
  <2>1. j \in 0..n /\ j - 1 \in 0..n /\ v[j] \in Int /\ v[j - 1] \in Int /\ g[j] \in Int /\ v[j] = v[j - 1] + g[j]
    BY <1>0, <1>4
  <2>2. w[j] = (IF j < i THEN v[j] ELSE v[j] + d) /\ w[j - 1] = IF j - 1 < i THEN v[j - 1] ELSE v[j - 1] + d
    BY <1>0, <2>1
  <2>3. f[j] = IF j = i THEN g[j] + d ELSE g[j]
    BY <1>0
  <2> HIDE DEF w
  <2> QED
    BY <1>0, <2>1, <2>2, <2>3
<1>7. w[n] = u[n]
  <2> HIDE DEF w
  <2>1. n \in 0..n /\ \A j \in 1..n : w[j] = w[j - 1] + f[j]
    BY <1>0, <1>6
  <2> QED
    BY <1>0, <1>2, <1>5, <2>1, SumsUnique
<1>8. w[n] = v[n] + d
  <2>1. n \in 0..n /\ ~(n < i)
    BY <1>0
  <2> QED
    BY <2>1
<1> QED
  BY <1>2, <1>3, <1>7, <1>8

-----------------------------------------------------------------------------
(* The steps of a block, counted in advance *)

Form == Sequencer!StepForms
Names == DOMAIN Blocks
Countable(s) == s.k \notin {"if", "while", "adaptive"}

(* The count of a step whose bodies are counted is an integer. *)
LEMMA StepCounted ==
  ASSUME NEW s \in Form, NEW count, \A b \in Sequencer!Bodies(s) : count[b] \in Int
  PROVE  Sequencer!StepCount(s, count) \in Int
<1>1. CASE s.k \in {"for", "repeat"}
  <2>1. s.n \in Int /\ count[s.body] \in Int
    BY <1>1 DEF Form, Sequencer!StepForms, Sequencer!Bodies
  <2>2. s.n * count[s.body] \in Int
    BY <2>1
  <2>3. Sequencer!StepCount(s, count) = 1 + s.n * count[s.body]
    BY <1>1 DEF Sequencer!StepCount
  <2> QED
    BY <2>2, <2>3
<1>2. CASE s.k \in {"atomic", "use"}
  BY <1>2 DEF Sequencer!StepCount, Sequencer!Bodies
<1>3. CASE s.k = "try"
  BY <1>3 DEF Sequencer!StepCount, Sequencer!Bodies
<1>4. CASE s.k \notin {"for", "repeat", "atomic", "use", "try"}
  BY <1>4 DEF Sequencer!StepCount
<1> QED
  BY <1>1, <1>2, <1>3, <1>4

(* The count of a step depends on the counts of its bodies only. *)
LEMMA StepCountSame ==
  ASSUME NEW s, NEW count, NEW other, \A b \in Sequencer!Bodies(s) : count[b] = other[b]
  PROVE  Sequencer!StepCount(s, count) = Sequencer!StepCount(s, other)
<1>1. CASE s.k \in {"for", "repeat"}
  BY <1>1 DEF Sequencer!StepCount, Sequencer!Bodies
<1>2. CASE s.k \in {"atomic", "use"}
  BY <1>2 DEF Sequencer!StepCount, Sequencer!Bodies
<1>3. CASE s.k = "try"
  BY <1>3 DEF Sequencer!StepCount, Sequencer!Bodies
<1>4. CASE s.k \notin {"for", "repeat", "atomic", "use", "try"}
  BY <1>4 DEF Sequencer!StepCount
<1> QED
  BY <1>1, <1>2, <1>3, <1>4

(* The count of a block depends on the counts of the bodies in it only. *)
LEMMA CountSame ==
  ASSUME NEW s, NEW count, NEW other,
         \A j \in 1..Len(s) : \A b \in Sequencer!Bodies(s[j]) : count[b] = other[b]
  PROVE  Sequencer!CountFrom(s, 1, count) = Sequencer!CountFrom(s, 1, other)
<1>1. \A j \in 1..Len(s) : Sequencer!StepCount(s[j], count) = Sequencer!StepCount(s[j], other)
  BY StepCountSame
<1>2. [j \in 1..Len(s) |-> IF j < 1 THEN 0 ELSE Sequencer!StepCount(s[j], count)]
        = [j \in 1..Len(s) |-> IF j < 1 THEN 0 ELSE Sequencer!StepCount(s[j], other)]
  BY <1>1, Zenon
<1> QED
  BY <1>2, Zenon DEF Sequencer!CountFrom

(* The count of a block from a step on. *)
LEMMA CountSteps ==
  ASSUME NEW s \in Seq(Form), NEW count, NEW i \in Nat \ {0},
         \A j \in 1..Len(s) : \A b \in Sequencer!Bodies(s[j]) : count[b] \in Int
  PROVE  /\ Sequencer!CountFrom(s, i, count) \in Int
         /\ i > Len(s) => Sequencer!CountFrom(s, i, count) = 0
         /\ i <= Len(s) => Sequencer!CountFrom(s, i, count)
                             = Sequencer!StepCount(s[i], count) + Sequencer!CountFrom(s, i + 1, count)
<1> DEFINE f(k) == [j \in 1..Len(s) |-> IF j < k THEN 0 ELSE Sequencer!StepCount(s[j], count)]
<1>1. \A j \in 1..Len(s) : Sequencer!StepCount(s[j], count) \in Int
  BY StepCounted
<1>2. \A k \in Nat : \A j \in 1..Len(s) : f(k)[j] \in Int /\ f(k)[j] = IF j < k THEN 0 ELSE Sequencer!StepCount(s[j], count)
  BY <1>1
<1>3. Len(s) \in Nat
  OBVIOUS
<1>4. \A k \in Nat : Sequencer!CountFrom(s, k, count) = Sequencer!SumTo(f(k), Len(s))
  BY DEF Sequencer!CountFrom
<1> HIDE DEF f
<1>5. Sequencer!CountFrom(s, i, count) \in Int
  <2>1. i \in Nat
    OBVIOUS
  <2>2. \A j \in 1..Len(s) : f(i)[j] \in Int
    BY <1>2, <2>1
  <2>3. Sequencer!SumTo(f(i), Len(s)) \in Int
    BY <1>3, <2>2, SumInt
  <2> QED
    BY <1>4, <2>1, <2>3
<1>6. ASSUME i > Len(s) PROVE Sequencer!CountFrom(s, i, count) = 0
  <2>1. \A j \in 1..Len(s) : f(i)[j] = 0
    BY <1>2, <1>3, <1>6
  <2> DEFINE u == [j \in 0..Len(s) |-> 0]
  <2>2. Sums(u, Len(s), f(i))
    BY <1>3, <2>1 DEF Sums
  <2>3. \A j \in 1..Len(s) : f(i)[j] \in Int
    BY <2>1
  <2>4. PICK v : Sums(v, Len(s), f(i)) /\ Sequencer!SumTo(f(i), Len(s)) = v[Len(s)]
    BY <1>3, <2>3, SumIs
  <2>5. u[Len(s)] = 0
    BY <1>3
  <2> HIDE DEF u
  <2>6. v[Len(s)] = u[Len(s)]
    <3>1. v[0] = 0 /\ \A j \in 1..Len(s) : v[j] = v[j - 1] + f(i)[j]
      BY <2>4 DEF Sums
    <3>2. Len(s) \in 0..Len(s)
      BY <1>3
    <3> QED
      BY <1>3, <2>2, <3>1, <3>2, SumsUnique
  <2> QED
    BY <1>4, <2>4, <2>5, <2>6
<1>7. ASSUME i <= Len(s)
      PROVE  Sequencer!CountFrom(s, i, count)
               = Sequencer!StepCount(s[i], count) + Sequencer!CountFrom(s, i + 1, count)
  <2> DEFINE d == Sequencer!StepCount(s[i], count)
  <2>1. i \in 1..Len(s) /\ i + 1 \in Nat /\ i \in Nat
    BY <1>3, <1>7
  <2>2. d \in Int
    BY <1>1, <2>1
  <2>3. \A j \in 1..Len(s) : f(i + 1)[j] \in Int
    BY <1>2, <2>1
  <2>4. ASSUME NEW j \in 1..Len(s) PROVE f(i)[j] = IF j = i THEN f(i + 1)[j] + d ELSE f(i + 1)[j]
    <3>1. f(i)[j] = (IF j < i THEN 0 ELSE Sequencer!StepCount(s[j], count))
          /\ f(i + 1)[j] = IF j < i + 1 THEN 0 ELSE Sequencer!StepCount(s[j], count)
      BY <1>2, <2>1
    <3> QED
      BY <2>1, <2>2, <3>1
  <2> HIDE DEF d
  <2>5. Sequencer!SumTo(f(i), Len(s)) = Sequencer!SumTo(f(i + 1), Len(s)) + d
    <3>1. PICK p, q : p = f(i) /\ q = f(i + 1)
      OBVIOUS
    <3>2. \A j \in 1..Len(s) : q[j] \in Int
      BY <2>3, <3>1
    <3>3. (\A j \in 1..Len(s) : j # i => p[j] = q[j]) /\ p[i] = q[i] + d
      BY <2>1, <2>4, <3>1
    <3>4. DifferAt(p, q, Len(s), i, d)
      BY <1>3, <2>1, <2>2, <3>2, <3>3 DEF DifferAt
    <3> QED
      BY <3>1, <3>4, SumsDiffer
  <2>6. Sequencer!SumTo(f(i + 1), Len(s)) \in Int
    BY <1>3, <2>3, SumInt
  <2>7. Sequencer!CountFrom(s, i, count) = d + Sequencer!CountFrom(s, i + 1, count)
    BY <1>4, <2>1, <2>2, <2>5, <2>6
  <2> QED
    BY <2>7 DEF d
<1> QED
  BY <1>5, <1>6, <1>7

(* A solution of the equations of BlockCount on a set of blocks that holds *)
(* the bodies of its blocks.                                               *)
Solves(f, D) ==
    /\ D \subseteq ExactBlocks
    /\ \A b \in D : \A i \in 1..Len(Blocks[b]) : Sequencer!Bodies(Blocks[b][i]) \subseteq D
    /\ f = [b \in D |-> Sequencer!CountFrom(Blocks[b], 1, f)]

(* The steps of a block with a known count, and their bodies. *)
LEMMA ExactBlock ==
  ASSUME Sequencer!WellFormed, NEW b \in ExactBlocks
  PROVE  /\ b \in Names /\ Blocks[b] \in Seq(Form) /\ Len(Blocks[b]) \in Nat
         /\ \A i \in 1..Len(Blocks[b]) :
              Blocks[b][i] \in Form /\ Countable(Blocks[b][i]) /\ Sequencer!Bodies(Blocks[b][i]) \subseteq ExactBlocks
<1>1. b \in Names /\ Blocks[b] \in Seq(Form)
  BY DEF Sequencer!WellFormed, Names, Form
<1>2. DOMAIN Blocks[b] = 1..Len(Blocks[b]) /\ Len(Blocks[b]) \in Nat
  BY <1>1
<1>3. \A i \in DOMAIN Blocks[b] :
          Blocks[b][i].k \notin {"if", "while", "adaptive"} /\ Sequencer!Bodies(Blocks[b][i]) \subseteq ExactBlocks
  BY DEF Sequencer!WellFormed
<1>4. \A i \in 1..Len(Blocks[b]) : Blocks[b][i] \in Form
  BY <1>1
<1> QED
  BY <1>1, <1>2, <1>3, <1>4 DEF Countable

(* Among blocks with a known count some one has no body among them. *)
LEMMA InnermostBlock ==
  ASSUME Sequencer!WellFormed, NEW S \in SUBSET ExactBlocks, S # {}
  PROVE  \E b \in S : \A i \in 1..Len(Blocks[b]) : Sequencer!Bodies(Blocks[b][i]) \cap S = {}
<1>1. PICK b \in S : \A i \in DOMAIN Blocks[b] : Sequencer!Bodies(Blocks[b][i]) \cap S = {}
  BY DEF Sequencer!WellFormed
<1>2. Blocks[b] \in Seq(Form)
  BY ExactBlock
<1>3. DOMAIN Blocks[b] = 1..Len(Blocks[b])
  BY <1>2
<1> QED
  BY <1>1, <1>3

(* Two solutions agree where both are defined: take an innermost block where *)
(* they do not.                                                              *)
LEMMA SolutionsAgree ==
  ASSUME Sequencer!WellFormed, NEW f, NEW D, NEW g, NEW E, Solves(f, D), Solves(g, E)
  PROVE  \A b \in D \cap E : f[b] = g[b]
<1> DEFINE S == {b \in D \cap E : f[b] # g[b]}
<1>1. SUFFICES ASSUME S # {} PROVE FALSE
  BY <1>1
<1>2. S \in SUBSET ExactBlocks
  BY DEF Solves
<1>3. PICK b \in S : \A i \in 1..Len(Blocks[b]) : Sequencer!Bodies(Blocks[b][i]) \cap S = {}
  <2> HIDE DEF S
  <2> QED
    BY <1>1, <1>2, InnermostBlock
<1>4. b \in D /\ b \in E /\ f[b] # g[b]
  BY <1>3
<1>5. \A i \in 1..Len(Blocks[b]) : \A c \in Sequencer!Bodies(Blocks[b][i]) : f[c] = g[c]
  BY <1>3, <1>4 DEF Solves
<1>6. Sequencer!CountFrom(Blocks[b], 1, f) = Sequencer!CountFrom(Blocks[b], 1, g)
  BY <1>5, CountSame
<1>7. f[b] = Sequencer!CountFrom(Blocks[b], 1, f) /\ g[b] = Sequencer!CountFrom(Blocks[b], 1, g)
  BY <1>4, Zenon DEF Solves
<1> QED
  BY <1>4, <1>6, <1>7

(* There is a solution for all blocks: the largest one that exists misses no *)
(* innermost block.                                                          *)
LEMMA AllSolved ==
  ASSUME Sequencer!WellFormed
  PROVE  \E f : Solves(f, ExactBlocks)
<1> DEFINE Good == {D \in SUBSET ExactBlocks : \E f : Solves(f, D)}
           U == UNION Good
           value(b) == CHOOSE x : \E D \in Good : \E f : Solves(f, D) /\ b \in D /\ x = f[b]
           h == [b \in U |-> value(b)]
<1>1. ASSUME NEW D, NEW f, Solves(f, D), NEW b \in D
      PROVE  b \in U /\ h[b] = f[b]
  <2>1. D \in Good /\ b \in U
    BY <1>1 DEF Solves
  <2>2. \E x : \E C \in Good : \E g : Solves(g, C) /\ b \in C /\ x = g[b]
    BY <1>1, <2>1
  <2>3. \E C \in Good : \E g : Solves(g, C) /\ b \in C /\ value(b) = g[b]
    BY <2>2, Zenon
  <2>4. PICK C, g : C \in Good /\ Solves(g, C) /\ b \in C /\ value(b) = g[b]
    BY <2>3
  <2>5. f[b] = g[b]
    BY <1>1, <2>4, SolutionsAgree
  <2>6. h[b] = value(b)
    BY <2>1, Zenon
  <2> QED
    BY <2>1, <2>4, <2>5, <2>6
<1>2. ASSUME NEW b \in U
      PROVE  /\ \A i \in 1..Len(Blocks[b]) : Sequencer!Bodies(Blocks[b][i]) \subseteq U
             /\ h[b] = Sequencer!CountFrom(Blocks[b], 1, h)
  <2>1. PICK D \in Good : b \in D
    OBVIOUS
  <2>2. PICK f : Solves(f, D)
    BY <2>1
  <2> HIDE DEF Good, U, value, h
  <2>3. \A c \in D : c \in U /\ h[c] = f[c]
    BY <1>1, <2>2
  <2>4. \A i \in 1..Len(Blocks[b]) : Sequencer!Bodies(Blocks[b][i]) \subseteq D
    BY <2>1, <2>2 DEF Solves
  <2>5. Sequencer!CountFrom(Blocks[b], 1, f) = Sequencer!CountFrom(Blocks[b], 1, h)
    BY <2>3, <2>4, CountSame
  <2>6. f[b] = Sequencer!CountFrom(Blocks[b], 1, f)
    BY <2>1, <2>2, Zenon DEF Solves
  <2> QED
    BY <2>1, <2>3, <2>4, <2>5, <2>6
<1>3. U \subseteq ExactBlocks
  OBVIOUS
<1>4. h = [b \in U |-> h[b]]
  OBVIOUS
<1> HIDE DEF Good, U, value, h
<1>5. Solves(h, U)
  <2>1. h = [b \in U |-> Sequencer!CountFrom(Blocks[b], 1, h)]
    BY <1>2, <1>4, Zenon
  <2> QED
    BY <1>2, <1>3, <2>1 DEF Solves
<1>6. U = ExactBlocks
  <2>1. SUFFICES ASSUME ExactBlocks \ U # {} PROVE FALSE
    BY <1>3
  <2>2. PICK b \in ExactBlocks \ U : \A i \in 1..Len(Blocks[b]) : Sequencer!Bodies(Blocks[b][i]) \cap (ExactBlocks \ U) = {}
    BY <2>1, InnermostBlock
  <2>3. \A i \in 1..Len(Blocks[b]) : Sequencer!Bodies(Blocks[b][i]) \subseteq U
    BY <2>2, ExactBlock
  <2> DEFINE V == U \cup {b}
             g == [c \in V |-> IF c = b THEN Sequencer!CountFrom(Blocks[b], 1, h) ELSE h[c]]
  <2>4. \A c \in U : g[c] = h[c]
    BY <2>2
  <2>5. g = [c \in V |-> g[c]] /\ g[b] = Sequencer!CountFrom(Blocks[b], 1, h)
    OBVIOUS
  <2> HIDE DEF g
  <2>6. \A c \in V : \A i \in 1..Len(Blocks[c]) : Sequencer!Bodies(Blocks[c][i]) \subseteq U
    BY <1>2, <2>3
  <2>7. \A c \in V : Sequencer!CountFrom(Blocks[c], 1, h) = Sequencer!CountFrom(Blocks[c], 1, g)
    BY <2>4, <2>6, CountSame
  <2>8. \A c \in V : g[c] = Sequencer!CountFrom(Blocks[c], 1, g)
    BY <1>2, <2>4, <2>5, <2>7
  <2>9. Solves(g, V)
    <3>1. g = [c \in V |-> Sequencer!CountFrom(Blocks[c], 1, g)]
      BY <2>5, <2>8, Zenon
    <3> QED
      BY <1>3, <2>2, <2>6, <3>1 DEF Solves
  <2>10. b \in V
    OBVIOUS
  <2> QED
    BY <1>1, <2>2, <2>9, <2>10
<1> QED
  BY <1>5, <1>6

(* BlockCount, the walk over a whole block, is well defined: bodies nest, so *)
(* that the recursion ends.                                                  *)
LEMMA BlocksCounted ==
  ASSUME Sequencer!WellFormed
  PROVE  \A b \in ExactBlocks : /\ Sequencer!BlockCount[b] \in Int
                                /\ Sequencer!BlockCount[b] = Sequencer!CountFrom(Blocks[b], 1, Sequencer!BlockCount)
<1> DEFINE c == Sequencer!BlockCount
<1>1. PICK f : f = [b \in ExactBlocks |-> Sequencer!CountFrom(Blocks[b], 1, f)]
  BY AllSolved DEF Solves
<1>2. c = [b \in ExactBlocks |-> Sequencer!CountFrom(Blocks[b], 1, c)]
  BY <1>1, Zenon DEF Sequencer!BlockCount
<1> HIDE DEF c
<1>3. \A b \in ExactBlocks : c[b] = Sequencer!CountFrom(Blocks[b], 1, c)
  BY <1>2, Zenon
<1> DEFINE S == {b \in ExactBlocks : c[b] \notin Int}
<1>4. S = {}
  <2>1. SUFFICES ASSUME S # {} PROVE FALSE
    OBVIOUS
  <2>2. PICK b \in S : \A i \in 1..Len(Blocks[b]) : Sequencer!Bodies(Blocks[b][i]) \cap S = {}
    <3>1. S \in SUBSET ExactBlocks
      OBVIOUS
    <3> HIDE DEF S
    <3> QED
      BY <2>1, <3>1, InnermostBlock
  <2>3. b \in ExactBlocks /\ c[b] \notin Int
    BY <2>2
  <2>4. /\ Blocks[b] \in Seq(Form)
        /\ \A j \in 1..Len(Blocks[b]) : Sequencer!Bodies(Blocks[b][j]) \subseteq ExactBlocks
    BY <2>3, ExactBlock
  <2>5. \A j \in 1..Len(Blocks[b]) : \A x \in Sequencer!Bodies(Blocks[b][j]) : c[x] \in Int
    BY <2>2, <2>4
  <2>6. Sequencer!CountFrom(Blocks[b], 1, c) \in Int
    BY <2>4, <2>5, CountSteps
  <2> QED
    BY <1>3, <2>3, <2>6
<1> QED
  BY <1>3, <1>4 DEF c

-----------------------------------------------------------------------------
(* The frames of the stack *)

Scopes == Names \cup {NoSeq}
Exits == {"none", "atomic", "use", "adaptive"}
StepFrames == [k : {"steps"}, blk : Names, i : Nat \ {0}, exit : Exits, unwind : BOOLEAN, saved : Scopes]
LoopFrames == [k : {"loop", "while"}, blk : Names, left : Nat, raises : BOOLEAN]
TryFrames == [k : {"try"}, blk : Names, finalizing : BOOLEAN]
Strictness ==
    {t \in BOOLEAN : \E b \in Names : \E i \in 1..Len(Blocks[b]) : Blocks[b][i].k = "adaptive" /\ Blocks[b][i].strict = t}
StudyFrames == [k : {"adaptive"}, blk : Names, busy : BOOLEAN, left : Int, strict : Strictness, async : BOOLEAN,
                raises : BOOLEAN]
Frame == StepFrames \cup LoopFrames \cup TryFrames \cup StudyFrames

(* A frame is of one of four forms, told apart by its k. *)
LEMMA FrameKinds ==
  ASSUME NEW f \in Frame
  PROVE  /\ f.k \in {"steps", "loop", "while", "try", "adaptive"} /\ f.blk \in Names
         /\ f.k = "steps" <=> f \in StepFrames
         /\ f.k \in {"loop", "while"} <=> f \in LoopFrames
         /\ f.k = "try" <=> f \in TryFrames
         /\ f.k = "adaptive" <=> f \in StudyFrames
<1>1. f \in StepFrames => f.k = "steps" /\ f.blk \in Names
  BY DEF StepFrames
<1>2. f \in LoopFrames => f.k \in {"loop", "while"} /\ f.blk \in Names
  BY DEF LoopFrames
<1>3. f \in TryFrames => f.k = "try" /\ f.blk \in Names
  BY DEF TryFrames
<1>4. f \in StudyFrames => f.k = "adaptive" /\ f.blk \in Names
  BY DEF StudyFrames
<1> QED
  BY <1>1, <1>2, <1>3, <1>4 DEF Frame

(* A frame that has not left the block it opened; how many of the first n  *)
(* frames opened a block that way; the sequence whose variables are in     *)
(* effect inside c used sequences.                                         *)
Opens(f, e) == f.k = "steps" /\ f.exit = e
Opened(st, n, e) == {j \in 1..n : Opens(st[j], e)}
Open(st, n, e) == Cardinality(Opened(st, n, e))
Within(r, us, c) == IF c = 0 THEN r ELSE us[c]

(* The same block as far as its opening goes. *)
Alike(f, g) == f.k = g.k /\ (f.k = "steps" => f.exit = g.exit /\ f.saved = g.saved)

(* The open blocks are finitely many. *)
LEMMA OpenFinite ==
  ASSUME NEW st, NEW n \in Nat, NEW e
  PROVE  IsFiniteSet(Opened(st, n, e)) /\ Open(st, n, e) \in Nat
<1>1. IsFiniteSet(1..n)
  BY FS_Interval
<1>2. Opened(st, n, e) \subseteq 1..n
  BY DEF Opened
<1> QED
  BY <1>1, <1>2, FS_Subset, FS_CardinalityType DEF Open

(* The open blocks with one more frame. *)
LEMMA OpenNext ==
  ASSUME NEW st, NEW n \in Nat, NEW e
  PROVE  Open(st, n + 1, e) = Open(st, n, e) + (IF Opens(st[n + 1], e) THEN 1 ELSE 0)
<1>1. IsFiniteSet(Opened(st, n, e)) /\ Open(st, n, e) \in Nat
  BY OpenFinite
<1>2. CASE Opens(st[n + 1], e)
  <2>1. Opened(st, n + 1, e) = Opened(st, n, e) \cup {n + 1} /\ n + 1 \notin Opened(st, n, e)
    BY <1>2 DEF Opened
  <2> QED
    BY <1>1, <1>2, <2>1, FS_AddElement DEF Open
<1>3. CASE ~Opens(st[n + 1], e)
  <2>1. Opened(st, n + 1, e) = Opened(st, n, e)
    BY <1>3 DEF Opened
  <2> QED
    BY <1>1, <1>3, <2>1 DEF Open
<1> QED
  BY <1>2, <1>3

(* More frames have not fewer open blocks. *)
LEMMA OpenGrows ==
  ASSUME NEW st, NEW n \in Nat, NEW m \in 0..n, NEW e
  PROVE  Open(st, m, e) <= Open(st, n, e)
<1>1. Opened(st, m, e) \subseteq Opened(st, n, e)
  BY DEF Opened
<1>2. IsFiniteSet(Opened(st, n, e))
  BY OpenFinite
<1> QED
  BY <1>1, <1>2, FS_Subset DEF Open

AllAlike(st, other, n) == \A j \in 1..n : Alike(st[j], other[j])

(* Frames that opened the same blocks have as many open. *)
LEMMA OpenAlike ==
  ASSUME NEW st, NEW other, NEW n \in Nat, NEW e, AllAlike(st, other, n)
  PROVE  Open(st, n, e) = Open(other, n, e)
<1>1. Opened(st, n, e) = Opened(other, n, e)
  BY DEF Opened, Opens, Alike, AllAlike
<1> QED
  BY <1>1 DEF Open

(* No frame, no open block. *)
LEMMA OpenNone ==
  ASSUME NEW st, NEW e
  PROVE  Open(st, 0, e) = 0
<1>1. Opened(st, 0, e) = {}
  BY DEF Opened
<1> QED
  BY <1>1, FS_EmptySet DEF Open

(* The counters agree with the stack: the atomic depth counts the atomic   *)
(* blocks that are open, the use stack names the sequences in use, each    *)
(* frame of a used sequence saved the variables of the one outside it, and *)
(* the body of a trial lies on the frame of its study.                     *)
Accounts(st, us, dp, sc, rt) ==
    /\ dp = Open(st, Len(st), "atomic")
    /\ Len(us) = Open(st, Len(st), "use")
    /\ sc = Within(rt, us, Len(us))
    /\ \A j \in 1..Len(st) : Opens(st[j], "use") => st[j].saved = Within(rt, us, Open(st, j - 1, "use"))
    /\ \A j \in 1..Len(st) : Opens(st[j], "adaptive") => j > 1 /\ st[j - 1].k = "adaptive"

(* The counters agree with a stack of frames that opened the same blocks. *)
LEMMA AccountsAlike ==
  ASSUME NEW st \in Seq(Frame), NEW other \in Seq(Frame), NEW us, NEW dp, NEW sc, NEW rt,
         Len(other) = Len(st), AllAlike(st, other, Len(st)), Accounts(st, us, dp, sc, rt)
  PROVE  Accounts(other, us, dp, sc, rt)
<1>1. ASSUME NEW n \in 0..Len(st), NEW e PROVE Open(st, n, e) = Open(other, n, e)
  <2>1. n \in Nat /\ AllAlike(st, other, n)
    BY DEF AllAlike
  <2> QED
    BY <2>1, OpenAlike
<1>2. Len(st) \in 0..Len(st) /\ \A j \in 1..Len(st) : j - 1 \in 0..Len(st) /\ (j > 1 => j - 1 \in 1..Len(st))
  OBVIOUS
<1>3. \A j \in 1..Len(st) : /\ Opens(other[j], "use") => other[j].saved = Within(rt, us, Open(other, j - 1, "use"))
                            /\ Opens(other[j], "adaptive") => j > 1 /\ other[j - 1].k = "adaptive"
  BY <1>1, <1>2 DEF Accounts, Alike, AllAlike, Opens
<1> QED
  BY <1>1, <1>2, <1>3 DEF Accounts

(* What has to happen to the counters when a frame is put on the stack. *)
LEMMA AccountsPushed ==
  ASSUME NEW st \in Seq(Frame), NEW f \in Frame, NEW us \in Seq(Names), NEW dp, NEW sc, NEW rt,
         Accounts(st, us, dp, sc, rt), Opens(f, "adaptive") => Len(st) > 0 /\ st[Len(st)].k = "adaptive"
  PROVE  /\ ~Opens(f, "atomic") /\ ~Opens(f, "use") => Accounts(Append(st, f), us, dp, sc, rt)
         /\ Opens(f, "atomic") => Accounts(Append(st, f), us, dp + 1, sc, rt)
         /\ Opens(f, "use") /\ f.saved = sc => \A b \in Names : Accounts(Append(st, f), Append(us, b), dp, b, rt)
<1> DEFINE q == Append(st, f)
           n == Len(st)
<1>1. n \in Nat /\ Len(q) = n + 1 /\ q[n + 1] = f /\ (\A j \in 1..n : q[j] = st[j]) /\ \A j \in 1..Len(q) : j \in 1..n \/ j = n + 1
  OBVIOUS
<1> HIDE DEF q
<1>2. ASSUME NEW m \in 0..n, NEW e PROVE Open(q, m, e) = Open(st, m, e) /\ Open(st, m, e) \in Nat /\ Open(st, m, e) <= Open(st, n, e)
  <2>1. m \in Nat /\ AllAlike(q, st, m)
    BY <1>1 DEF Alike, AllAlike
  <2>2. Open(q, m, e) = Open(st, m, e)
    BY <2>1, OpenAlike
  <2>3. Open(st, m, e) \in Nat
    BY <2>1, OpenFinite
  <2>4. Open(st, m, e) <= Open(st, n, e)
    BY <1>1, OpenGrows
  <2> QED
    BY <2>2, <2>3, <2>4
<1>3. ASSUME NEW e PROVE Open(q, n + 1, e) = Open(st, n, e) + (IF Opens(f, e) THEN 1 ELSE 0) /\ Open(st, n, e) \in Nat
  <2>1. n \in 0..n
    BY <1>1
  <2>2. Open(q, n + 1, e) = Open(q, n, e) + (IF Opens(q[n + 1], e) THEN 1 ELSE 0)
    BY <1>1, OpenNext
  <2>3. Open(q, n, e) = Open(st, n, e) /\ Open(st, n, e) \in Nat
    BY <1>2, <2>1
  <2> QED
    BY <1>1, <2>2, <2>3
<1>4. \A j \in 1..Len(q) : Opens(q[j], "adaptive") => j > 1 /\ q[j - 1].k = "adaptive"
  <2> TAKE j \in 1..Len(q)
  <2>1. CASE j \in 1..n
    <3>1. j > 1 => j - 1 \in 1..n
      BY <1>1, <2>1
    <3> QED
      BY <1>1, <2>1, <3>1 DEF Accounts
  <2>2. CASE j = n + 1
    BY <1>1, <2>2
  <2> QED
    BY <1>1, <2>1, <2>2
<1>5. \A j \in 1..n : Opens(q[j], "use") => q[j].saved = Within(rt, us, Open(q, j - 1, "use"))
  <2> TAKE j \in 1..n
  <2>1. j - 1 \in 0..n
    BY <1>1
  <2> QED
    BY <1>1, <1>2, <2>1 DEF Accounts
<1>6. dp = Open(st, n, "atomic") /\ Len(us) = Open(st, n, "use") /\ sc = Within(rt, us, Len(us)) /\ Len(us) \in Nat
  BY DEF Accounts
<1>7. ASSUME ~Opens(f, "atomic"), ~Opens(f, "use") PROVE Accounts(q, us, dp, sc, rt)
  <2>1. Open(q, Len(q), "atomic") = dp /\ Open(q, Len(q), "use") = Len(us)
    BY <1>1, <1>3, <1>6, <1>7
  <2>2. \A j \in 1..Len(q) : Opens(q[j], "use") => q[j].saved = Within(rt, us, Open(q, j - 1, "use"))
    BY <1>1, <1>5, <1>7
  <2> QED
    BY <1>4, <1>6, <2>1, <2>2 DEF Accounts
<1>8. ASSUME Opens(f, "atomic") PROVE Accounts(q, us, dp + 1, sc, rt)
  <2>0. ~Opens(f, "use")
    BY <1>8 DEF Opens
  <2>1. Open(q, Len(q), "atomic") = dp + 1 /\ Open(q, Len(q), "use") = Len(us)
    BY <1>1, <1>3, <1>6, <1>8, <2>0
  <2>2. \A j \in 1..Len(q) : Opens(q[j], "use") => q[j].saved = Within(rt, us, Open(q, j - 1, "use"))
    BY <1>1, <1>5, <2>0
  <2> QED
    BY <1>4, <1>6, <2>1, <2>2 DEF Accounts
<1>9. ASSUME Opens(f, "use"), f.saved = sc, NEW b \in Names PROVE Accounts(q, Append(us, b), dp, b, rt)
  <2>0. ~Opens(f, "atomic")
    BY <1>9 DEF Opens
  <2> DEFINE u == Append(us, b)
  <2>1. Len(u) = Len(us) + 1 /\ u[Len(u)] = b /\ \A c \in 1..Len(us) : u[c] = us[c]
    BY <1>6
  <2> HIDE DEF u
  <2>2. Open(q, Len(q), "atomic") = dp /\ Open(q, Len(q), "use") = Len(u)
    BY <1>1, <1>3, <1>6, <1>9, <2>0, <2>1
  <2>3. \A c \in 0..Len(us) : Within(rt, u, c) = Within(rt, us, c)
    BY <1>6, <2>1 DEF Within
  <2>4. \A j \in 1..Len(q) : Opens(q[j], "use") => q[j].saved = Within(rt, u, Open(q, j - 1, "use"))
    <3> TAKE j \in 1..Len(q)
    <3>1. j - 1 \in 0..n
      BY <1>1
    <3>2. Open(q, j - 1, "use") = Open(st, j - 1, "use") /\ Open(st, j - 1, "use") \in 0..Len(us)
      <4>1. Open(q, j - 1, "use") = Open(st, j - 1, "use") /\ Open(st, j - 1, "use") \in Nat /\ Open(st, j - 1, "use") <= Open(st, n, "use")
        BY <1>2, <3>1
      <4> QED
        BY <1>6, <4>1
    <3>3. CASE j \in 1..n
      BY <1>5, <2>3, <3>2, <3>3
    <3>4. CASE j = n + 1
      <4>1. Open(q, j - 1, "use") = Len(us)
        BY <1>1, <1>6, <3>2, <3>4
      <4>2. Len(us) \in 0..Len(us)
        BY <1>6
      <4> QED
        BY <1>1, <1>6, <1>9, <2>3, <3>4, <4>1, <4>2
    <3> QED
      BY <1>1, <3>3, <3>4
  <2>5. b = Within(rt, u, Len(u))
    BY <1>6, <2>1 DEF Within
  <2>6. Accounts(q, u, dp, b, rt)
    BY <1>4, <2>2, <2>4, <2>5 DEF Accounts
  <2> QED
    BY <2>6 DEF u
<1> QED
  BY <1>7, <1>8, <1>9 DEF q

(* A sequence without its last element. *)
LEMMA Popped ==
  ASSUME NEW S, NEW s \in Seq(S), s # <<>>
  PROVE  /\ Len(s) - 1 \in Nat /\ SubSeq(s, 1, Len(s) - 1) \in Seq(S)
         /\ Len(SubSeq(s, 1, Len(s) - 1)) = Len(s) - 1
         /\ \A j \in 1..(Len(s) - 1) : SubSeq(s, 1, Len(s) - 1)[j] = s[j]
<1>1. Len(s) \in Nat \ {0}
  BY EmptySeq
<1>2. /\ 1 \in Int /\ Len(s) - 1 \in Int /\ \A j \in 1..(Len(s) - 1) : s[j] \in S
  BY <1>1
<1>3. PICK n \in Nat : n = Len(s) - 1
  BY <1>1
<1>4. /\ SubSeq(s, 1, n) \in Seq(S) /\ Len(SubSeq(s, 1, n)) = IF 1 <= n THEN n - 1 + 1 ELSE 0
      /\ \A i \in 1..(n - 1 + 1) : SubSeq(s, 1, n)[i] = s[1 + i - 1]
  BY <1>2, <1>3, SubSeqProperties
<1>5. Len(SubSeq(s, 1, n)) = n /\ \A i \in 1..n : SubSeq(s, 1, n)[i] = s[i]
  BY <1>4
<1> QED
  BY <1>3, <1>4, <1>5

(* What has to happen to the counters when the frame on top leaves. *)
LEMMA AccountsPopped ==
  ASSUME NEW st \in Seq(Frame), st # <<>>, NEW us \in Seq(Names), NEW dp, NEW sc, NEW rt,
         Accounts(st, us, dp, sc, rt)
  PROVE  LET p == SubSeq(st, 1, Len(st) - 1)
             f == st[Len(st)]
         IN  /\ ~Opens(f, "atomic") /\ ~Opens(f, "use") => Accounts(p, us, dp, sc, rt)
             /\ Opens(f, "atomic") => Accounts(p, us, dp - 1, sc, rt)
             /\ Opens(f, "use") => us # <<>> /\ Accounts(p, SubSeq(us, 1, Len(us) - 1), dp, f.saved, rt)
<1> DEFINE p == SubSeq(st, 1, Len(st) - 1)
           f == st[Len(st)]
           n == Len(st) - 1
<1>1. n \in Nat /\ Len(st) = n + 1 /\ Len(p) = n /\ st[n + 1] = f /\ (\A j \in 1..n : p[j] = st[j])
      /\ \A j \in 1..n : j \in 1..Len(st)
  <2>1. Len(p) = n /\ n \in Nat /\ \A j \in 1..n : p[j] = st[j]
    BY Popped
  <2>2. Len(st) \in Nat
    OBVIOUS
  <2> HIDE DEF p
  <2> QED
    BY <2>1, <2>2
<1> HIDE DEF p, n
<1>2. ASSUME NEW m \in 0..n, NEW e PROVE Open(p, m, e) = Open(st, m, e) /\ Open(st, m, e) \in Nat /\ Open(st, m, e) <= Open(st, n, e)
  <2>1. m \in Nat /\ AllAlike(p, st, m)
    BY <1>1 DEF Alike, AllAlike
  <2>2. Open(p, m, e) = Open(st, m, e)
    BY <2>1, OpenAlike
  <2>3. Open(st, m, e) \in Nat
    BY <2>1, OpenFinite
  <2>4. Open(st, m, e) <= Open(st, n, e)
    BY <1>1, OpenGrows
  <2> QED
    BY <2>2, <2>3, <2>4
<1>3. ASSUME NEW e PROVE Open(st, Len(st), e) = Open(p, n, e) + (IF Opens(f, e) THEN 1 ELSE 0) /\ Open(p, n, e) \in Nat
  <2>1. n \in 0..n
    BY <1>1
  <2>2. Open(st, n + 1, e) = Open(st, n, e) + (IF Opens(st[n + 1], e) THEN 1 ELSE 0)
    BY <1>1, OpenNext
  <2>3. Open(p, n, e) = Open(st, n, e) /\ Open(st, n, e) \in Nat
    BY <1>2, <2>1
  <2> QED
    BY <1>1, <2>2, <2>3
<1>4. \A j \in 1..Len(p) : Opens(p[j], "adaptive") => j > 1 /\ p[j - 1].k = "adaptive"
  <2> TAKE j \in 1..Len(p)
  <2>1. j \in 1..n /\ j \in 1..Len(st) /\ (j > 1 => j - 1 \in 1..n)
    BY <1>1
  <2> QED
    BY <1>1, <2>1 DEF Accounts
<1>5. \A j \in 1..Len(p) : Opens(p[j], "use") => p[j].saved = Within(rt, us, Open(p, j - 1, "use"))
  <2> TAKE j \in 1..Len(p)
  <2>1. j - 1 \in 0..n /\ j \in 1..n /\ j \in 1..Len(st)
    BY <1>1
  <2> QED
    BY <1>1, <1>2, <2>1 DEF Accounts
<1>6. dp = Open(st, Len(st), "atomic") /\ Len(us) = Open(st, Len(st), "use") /\ sc = Within(rt, us, Len(us)) /\ Len(us) \in Nat
  BY DEF Accounts
<1> HIDE DEF f
<1>7. ASSUME ~Opens(f, "atomic"), ~Opens(f, "use") PROVE Accounts(p, us, dp, sc, rt)
  BY <1>1, <1>3, <1>4, <1>5, <1>6, <1>7 DEF Accounts
<1>8. ASSUME Opens(f, "atomic") PROVE Accounts(p, us, dp - 1, sc, rt)
  <2>0. ~Opens(f, "use")
    BY <1>8 DEF Opens
  <2>1. Open(p, Len(p), "atomic") = dp - 1 /\ Open(p, Len(p), "use") = Len(us)
    BY <1>1, <1>3, <1>6, <1>8, <2>0
  <2> QED
    BY <1>4, <1>5, <1>6, <2>1 DEF Accounts
<1>9. ASSUME Opens(f, "use") PROVE us # <<>> /\ Accounts(p, SubSeq(us, 1, Len(us) - 1), dp, f.saved, rt)
  <2>0. ~Opens(f, "atomic")
    BY <1>9 DEF Opens
  <2>1. Open(p, Len(p), "atomic") = dp /\ Open(p, Len(p), "use") = Len(us) - 1 /\ Len(us) > 0
    BY <1>1, <1>3, <1>6, <1>9, <2>0
  <2> DEFINE u == SubSeq(us, 1, Len(us) - 1)
  <2>2. us # <<>> /\ Len(u) = Len(us) - 1 /\ Len(u) \in Nat /\ \A c \in 1..Len(u) : u[c] = us[c]
    BY <1>6, <2>1
  <2> HIDE DEF u
  <2>3. \A c \in 0..Len(u) : Within(rt, u, c) = Within(rt, us, c)
    BY <2>2 DEF Within
  <2>4. \A j \in 1..Len(p) : Opens(p[j], "use") => p[j].saved = Within(rt, u, Open(p, j - 1, "use"))
    <3> TAKE j \in 1..Len(p)
    <3>1. j - 1 \in 0..n /\ n \in 0..n
      BY <1>1
    <3>2. Open(p, j - 1, "use") \in 0..Len(u)
      <4>1. Open(p, j - 1, "use") = Open(st, j - 1, "use") /\ Open(st, j - 1, "use") <= Open(st, n, "use") /\ Open(st, n, "use") = Open(p, n, "use")
            /\ Open(st, j - 1, "use") \in Nat
        BY <1>2, <3>1
      <4> QED
        BY <1>1, <2>1, <2>2, <4>1
    <3> QED
      BY <1>5, <2>3, <3>2
  <2>5. f.saved = Within(rt, u, Len(u))
    <3>1. Len(st) \in 1..Len(st) /\ Len(st) - 1 = n /\ n \in 0..n /\ Len(u) \in 0..Len(u)
      BY <1>1, <2>2
    <3>2. f.saved = Within(rt, us, Open(st, n, "use"))
      BY <1>1, <1>9, <3>1 DEF Accounts
    <3>3. Open(st, n, "use") = Len(u)
      BY <1>1, <1>2, <2>1, <2>2, <3>1
    <3> QED
      BY <2>3, <3>1, <3>2, <3>3
  <2>6. Accounts(p, u, dp, f.saved, rt)
    BY <1>4, <2>1, <2>2, <2>4, <2>5 DEF Accounts
  <2> QED
    BY <2>2, <2>6 DEF u
<1> QED
  BY <1>7, <1>8, <1>9 DEF p, f

-----------------------------------------------------------------------------
(* The inductive invariant of the interpreter *)

States == {"IDLE", "RUNNING", "PAUSED", "STOPPED", "ERROR"}
Phases == {"poll", "loop", "next"}
Targets == {"none", "STOPPED", "ERROR"}

RunTyped ==
    /\ root \in Scopes /\ scope \in Scopes /\ useStack \in Seq(Names) /\ stack \in Seq(Frame)
    /\ state \in States /\ phase \in Phases /\ pending \in Targets /\ completed \in Int

(* A tick goes on only in a run, with nothing in flight, and after an      *)
(* error only to unwind; what is observed is the trial of the study on top *)
(* of the stack.                                                           *)
PhaseInv ==
    /\ root = NoSeq => state = "IDLE"
    /\ state = "IDLE" => phase = "poll"
    /\ phase # "poll" => wait = Sequencer!NoWait /\ (state = "RUNNING" \/ pending # "none")
    /\ wait.k = "observe" => Len(stack) > 0 /\ wait.at = Len(stack) /\ stack[Len(stack)].k = "adaptive"

RunInv == RunTyped /\ PhaseInv /\ Accounts(stack, useStack, depth, scope, root)

(* A step that leaves the stack and its counters alone. *)
LEMMA StackStands ==
  ASSUME RunInv, UNCHANGED <<root, stack, depth, scope, useStack>>, state' \in States, phase' \in Phases,
         pending' \in Targets, completed' \in Int, root = NoSeq => state' = "IDLE",
         state' = "IDLE" => phase' = "poll",
         phase' # "poll" => wait' = Sequencer!NoWait /\ (state' = "RUNNING" \/ pending' # "none"),
         wait'.k = "observe" => wait' = wait
  PROVE  RunInv'
<1>1. RunTyped'
  BY DEF RunInv, RunTyped
<1>2. PhaseInv'
  BY DEF RunInv, PhaseInv
<1>3. Accounts(stack, useStack, depth, scope, root)'
  BY DEF RunInv
<1> QED
  BY <1>1, <1>2, <1>3 DEF RunInv

(* A step of a run that changes the stack together with its counters. *)
LEMMA StackMoves ==
  ASSUME RunInv, UNCHANGED root, root # NoSeq, stack' \in Seq(Frame), useStack' \in Seq(Names), scope' \in Scopes,
         Accounts(stack', useStack', depth', scope', root),
         state' \in States \ {"IDLE"}, phase' \in Phases, pending' \in Targets, completed' \in Int,
         phase' # "poll" => wait' = Sequencer!NoWait /\ (state' = "RUNNING" \/ pending' # "none"),
         wait'.k = "observe" => Len(stack') > 0 /\ wait'.at = Len(stack') /\ stack'[Len(stack')].k = "adaptive"
  PROVE  RunInv'
<1>1. RunTyped'
  BY DEF RunInv, RunTyped
<1>2. PhaseInv'
  BY DEF RunInv, PhaseInv
<1>3. Accounts(stack, useStack, depth, scope, root)'
  OBVIOUS
<1> QED
  BY <1>1, <1>2, <1>3 DEF RunInv

(* A step that fails. *)
LEMMA Failing ==
  ASSUME RunInv, NEW w, NEW n \in {0, 1}, Sequencer!Fails(w, n)
  PROVE  /\ state' = state \/ (state' = "ERROR" /\ pending = "none" /\ ~Sequencer!HasUnwindWork(stack'))
         /\ pending' \in Targets /\ completed' \in Int
         /\ wait' \in {w, Sequencer!NoWait}
         /\ pending # "none" => pending' = pending /\ state' = state
         /\ pending = "none" => pending' = "ERROR" \/ state' = "ERROR"
         /\ pending # "none" => pending' # "none"
  BY DEF Sequencer!Fails, Sequencer!BeginUnwind, Sequencer!terminal, RunInv, RunTyped, Targets

(* What holds inside a tick. *)
LEMMA Ticking ==
  ASSUME RunInv, phase = "next"
  PROVE  /\ root # NoSeq /\ root \in Names /\ wait = Sequencer!NoWait /\ wait.k = "none" /\ state \in States \ {"IDLE"}
         /\ state = "RUNNING" \/ pending # "none"
  BY DEF RunInv, RunTyped, PhaseInv, Scopes, Sequencer!NoWait

-----------------------------------------------------------------------------
(* Commands, waits and ends: the stack stands. *)

(* Commands and external faults, between ticks. *)
LEMMA CommandsKept ==
  ASSUME RunInv,
         \/ Sequencer!RequestPause \/ Sequencer!Resume \/ Sequencer!RequestStop \/ Sequencer!ExternalFault
  PROVE  RunInv'
<1>1. /\ UNCHANGED <<root, stack, depth, scope, useStack, phase>> /\ phase = "poll"
  BY DEF Sequencer!RequestPause, Sequencer!Resume, Sequencer!RequestStop, Sequencer!ExternalFault, Sequencer!Fail,
         Sequencer!Command, Sequencer!control
<1>2. /\ state' \in States /\ pending' \in Targets /\ completed' \in Int /\ (state' = state \/ state # "IDLE")
      /\ state' = "IDLE" => state = "IDLE"
  BY DEF Sequencer!RequestPause, Sequencer!Resume, Sequencer!RequestStop, Sequencer!ExternalFault, Sequencer!Fail,
         Sequencer!BeginUnwind, Sequencer!control, Sequencer!terminal, RunInv, RunTyped, States, Targets
<1>3. wait' = wait \/ wait' = Sequencer!NoWait
  BY DEF Sequencer!RequestPause, Sequencer!Resume, Sequencer!RequestStop, Sequencer!ExternalFault, Sequencer!Fail,
         Sequencer!BeginUnwind
<1>4. wait'.k = "observe" => wait' = wait
  BY <1>3 DEF Sequencer!NoWait
<1> QED
  BY <1>1, <1>2, <1>4, StackStands DEF RunInv, PhaseInv, Phases

(* tick() up to its loop: the ends of runs, of pauses and of waits. *)
LEMMA WaitsKept ==
  ASSUME RunInv,
         \/ Sequencer!FinishPending \/ Sequencer!HonourStop \/ Sequencer!HonourPause \/ Sequencer!SleepEnds
         \/ Sequencer!WaitUntilEnds \/ Sequencer!WaitRaises \/ Sequencer!ContextAcknowledged \/ Sequencer!ParallelJoined
         \/ Sequencer!EnterLoop \/ Sequencer!Continue
  PROVE  RunInv'
<1>0. /\ (root # NoSeq \/ state = "IDLE") /\ completed \in Int /\ pending \in Targets /\ state \in States
      /\ Sequencer!NoWait.k # "observe"
  BY DEF RunInv, PhaseInv, RunTyped, Sequencer!NoWait
<1>1. CASE Sequencer!FinishPending
  <2>1. /\ UNCHANGED <<root, stack, depth, scope, useStack, completed>> /\ phase' = "poll" /\ wait' = Sequencer!NoWait
        /\ state' \in States \ {"IDLE"} /\ pending' \in Targets
    BY <1>1 DEF Sequencer!FinishPending, Sequencer!control, RunInv, RunTyped, States, Targets
  <2>2. root # NoSeq
    BY <1>1 DEF Sequencer!FinishPending, RunInv, PhaseInv
  <2> QED
    BY <1>0, <2>1, <2>2, StackStands DEF Phases
<1>2. CASE Sequencer!HonourStop
  <2>1. /\ UNCHANGED <<root, stack, depth, scope, useStack>> /\ phase' = "poll" /\ wait' \in {wait, Sequencer!NoWait}
        /\ state = "RUNNING" /\ state' \in {state, "STOPPED"} /\ pending' \in Targets /\ completed' \in Int
    BY <1>2 DEF Sequencer!HonourStop, Sequencer!BeginUnwind, Sequencer!terminal, RunInv, RunTyped, Targets
  <2> QED
    BY <1>0, <2>1, StackStands DEF Phases, States
<1>3. CASE Sequencer!HonourPause
  <2>1. /\ UNCHANGED <<root, stack, depth, scope, useStack, wait, pending, completed>> /\ phase' = "poll"
        /\ state = "RUNNING" /\ state' = "PAUSED"
    BY <1>3 DEF Sequencer!HonourPause, Sequencer!control, Sequencer!terminal
  <2> QED
    BY <1>0, <2>1, StackStands DEF Phases, States
<1>4. ASSUME Sequencer!CanProceed, Sequencer!WaitOver PROVE RunInv'
  <2>1. /\ UNCHANGED <<root, stack, depth, scope, useStack, state, pending>> /\ phase' = "loop" /\ wait' = Sequencer!NoWait
        /\ state = "RUNNING" /\ completed' \in Int
    BY <1>0, <1>4 DEF Sequencer!WaitOver, Sequencer!CanProceed, Sequencer!terminal
  <2> QED
    BY <1>0, <2>1, StackStands DEF Phases, States
<1>5. ASSUME Sequencer!CanProceed, Sequencer!WaitFailed PROVE RunInv'
  <2>1. /\ UNCHANGED <<root, stack, depth, scope, useStack>> /\ state = "RUNNING" /\ Sequencer!Fails(Sequencer!NoWait, 1)
        /\ phase' = IF state' = "RUNNING" THEN "loop" ELSE "poll"
    BY <1>5 DEF Sequencer!WaitFailed, Sequencer!StepFails, Sequencer!CanProceed
  <2>2. /\ state' \in {state, "ERROR"} /\ pending' \in Targets /\ completed' \in Int /\ wait' = Sequencer!NoWait
    BY <2>1, Failing
  <2> QED
    BY <1>0, <2>1, <2>2, StackStands DEF Phases, States
<1>6. CASE Sequencer!SleepEnds \/ Sequencer!WaitUntilEnds \/ Sequencer!ContextAcknowledged \/ Sequencer!ParallelJoined
  BY <1>4, <1>5, <1>6 DEF Sequencer!SleepEnds, Sequencer!WaitUntilEnds, Sequencer!ContextAcknowledged, Sequencer!ParallelJoined
<1>7. CASE Sequencer!WaitRaises
  <2>1. /\ UNCHANGED <<root, stack, depth, scope, useStack>> /\ state = "RUNNING" /\ Sequencer!Fails(wait, 0)
        /\ phase' = "poll" /\ wait.k = "until"
    BY <1>7 DEF Sequencer!WaitRaises, Sequencer!Raises, Sequencer!CanProceed
  <2>2. /\ state' \in {state, "ERROR"} /\ pending' \in Targets /\ completed' \in Int /\ wait' \in {wait, Sequencer!NoWait}
    BY <2>1, Failing
  <2> QED
    BY <1>0, <2>1, <2>2, StackStands DEF Phases, States
<1>8. CASE Sequencer!EnterLoop \/ Sequencer!Continue
  <2>1. /\ UNCHANGED <<root, stack, depth, scope, useStack, wait, pending, completed, state>> /\ phase' = "next"
        /\ wait = Sequencer!NoWait /\ state = "RUNNING"
    BY <1>8 DEF Sequencer!EnterLoop, Sequencer!Continue, Sequencer!CanProceed, Sequencer!control, Sequencer!terminal
  <2> QED
    BY <1>0, <2>1, StackStands DEF Phases, States
<1> QED
  BY <1>1, <1>2, <1>3, <1>6, <1>7, <1>8

(* A run that begins: one frame, nothing open. *)
LEMMA FreshFrame ==
  ASSUME NEW b \in Names, NEW r
  PROVE  LET st == <<Sequencer!StepFrame(b, "none", FALSE, b)>>
         IN  st \in Seq(Frame) /\ Accounts(st, <<>>, 0, r, r) /\ Len(st) = 1
<1> DEFINE f == Sequencer!StepFrame(b, "none", FALSE, b)
           st == <<f>>
<1>1. f \in StepFrames /\ f.k = "steps" /\ f.exit = "none"
  BY DEF Sequencer!StepFrame, StepFrames, Exits, Scopes
<1>2. f \in Frame
  BY <1>1 DEF Frame
<1> HIDE DEF f
<1>3. st \in Seq(Frame) /\ Len(st) = 1 /\ st[1] = f /\ \A j \in 1..Len(st) : j = 1
  BY <1>2
<1>4. ASSUME NEW e \in {"atomic", "use"} PROVE Open(st, Len(st), e) = 0
  <2>1. Opened(st, Len(st), e) = {}
    BY <1>1, <1>3 DEF Opened, Opens
  <2> QED
    BY <2>1, FS_EmptySet DEF Open
<1> HIDE DEF st
<1>5. \A j \in 1..Len(st) : ~Opens(st[j], "use") /\ ~Opens(st[j], "adaptive")
  BY <1>1, <1>3 DEF Opens
<1>6. Len(<<>>) = 0 /\ r = Within(r, <<>>, Len(<<>>))
  BY DEF Within
<1>7. Accounts(st, <<>>, 0, r, r)
  BY <1>4, <1>5, <1>6 DEF Accounts
<1> QED
  BY <1>3, <1>7 DEF st, f

(* A sequence that was loaded: no frame. *)
LEMMA EmptyAccounts ==
  ASSUME NEW r
  PROVE  Accounts(<<>>, <<>>, 0, r, r)
<1>1. Len(<<>>) = 0 /\ 1..0 = {}
  OBVIOUS
<1>2. \A e : Open(<<>>, 0, e) = 0
  BY OpenNone
<1>3. r = Within(r, <<>>, 0)
  BY DEF Within
<1> QED
  BY <1>1, <1>2, <1>3 DEF Accounts

(* load, start, a refused start and the next run loop. *)
LEMMA BeginningsKept ==
  ASSUME Sequencer!WellFormed, RunInv,
         \/ \E r \in Roots : Sequencer!Load(r)
         \/ \E n \in {1, 2, -1} : Sequencer!Start(n)
         \/ Sequencer!StartRefused \/ Sequencer!RunEnds
  PROVE  RunInv'
<1>1. CASE \E r \in Roots : Sequencer!Load(r)
  <2>1. PICK r \in Roots : Sequencer!Load(r)
    BY <1>1
  <2>2. /\ stack' = <<>> /\ useStack' = <<>> /\ depth' = 0 /\ root' = r /\ scope' = r /\ state' = "IDLE"
        /\ wait' = Sequencer!NoWait /\ pending' = "none" /\ completed' = 0 /\ phase' = phase /\ phase = "poll"
    BY <2>1 DEF Sequencer!Load, Sequencer!Reset, Sequencer!Command
  <2>3. r \in Scopes
    BY DEF Sequencer!WellFormed, Scopes, Names
  <2>4. RunTyped'
    BY <2>2, <2>3 DEF RunTyped, States, Phases, Targets
  <2>5. PhaseInv'
    BY <2>2 DEF PhaseInv, Sequencer!NoWait
  <2>6. Accounts(stack', useStack', depth', scope', root')
    BY <2>2, EmptyAccounts
  <2> QED
    BY <2>4, <2>5, <2>6 DEF RunInv
<1>2. CASE (\E n \in {1, 2, -1} : Sequencer!Start(n)) \/ Sequencer!StartRefused
  <2>1. /\ stack' = <<Sequencer!StepFrame(root, "none", FALSE, root)>> /\ useStack' = <<>> /\ depth' = 0
        /\ root' = root /\ scope' = root /\ state' \in {"RUNNING", "ERROR"} /\ root # NoSeq
        /\ wait' = Sequencer!NoWait /\ pending' = "none" /\ completed' = 0 /\ phase' = phase /\ phase = "poll"
    BY <1>2 DEF Sequencer!Start, Sequencer!StartRefused, Sequencer!Command
  <2>2. root \in Names /\ root \in Scopes
    BY <2>1 DEF RunInv, RunTyped, Scopes
  <2>3. stack' \in Seq(Frame) /\ Accounts(stack', <<>>, 0, root, root)
    BY <2>1, <2>2, FreshFrame
  <2> QED
    BY <2>1, <2>2, <2>3, StackMoves DEF States, Phases, Targets, Sequencer!NoWait
<1>3. CASE Sequencer!RunEnds
  <2>0. phase = "next" /\ state = "RUNNING" /\ stack = <<>> /\ UNCHANGED <<root, scope, wait, pending>>
    BY <1>3 DEF Sequencer!RunEnds, Sequencer!terminal
  <2>1. root # NoSeq /\ root \in Names /\ wait = Sequencer!NoWait /\ wait.k = "none"
    BY <2>0, Ticking
  <2>2. useStack = <<>> /\ scope = root
    <3>1. Len(stack) = 0
      BY <2>0
    <3>2. Len(useStack) = 0 /\ useStack \in Seq(Names)
      BY <3>1, OpenNone DEF RunInv, RunTyped, Accounts
    <3>3. scope = Within(root, useStack, 0)
      BY <3>2 DEF RunInv, Accounts
    <3>4. useStack = <<>>
      BY <3>2, EmptySeq
    <3> QED
      BY <3>3, <3>4 DEF Within
  <2>3. CASE loopsLeft = -1 \/ loopsLeft > 1
    <3>1. /\ stack' = <<Sequencer!StepFrame(root, "none", FALSE, root)>> /\ useStack' = <<>> /\ depth' = 0
          /\ completed' = 0 /\ phase' = "loop" /\ state' = state
      BY <1>3, <2>3 DEF Sequencer!RunEnds
    <3>2. stack' \in Seq(Frame) /\ Accounts(stack', <<>>, 0, root, root)
      BY <2>1, <3>1, FreshFrame
    <3>3. scope \in Scopes /\ pending \in Targets /\ useStack' \in Seq(Names)
      BY <3>1 DEF RunInv, RunTyped
    <3>4. Accounts(stack', useStack', depth', scope', root)
      BY <2>0, <2>2, <3>1, <3>2
    <3> QED
      BY <2>0, <2>1, <3>1, <3>2, <3>3, <3>4, StackMoves DEF States, Phases
  <2>4. CASE ~(loopsLeft = -1 \/ loopsLeft > 1)
    <3>1. UNCHANGED <<stack, depth, useStack, completed>> /\ state' = "STOPPED" /\ phase' = "poll"
      BY <1>3, <2>4 DEF Sequencer!RunEnds
    <3> QED
      BY <2>0, <2>1, <3>1, StackStands DEF States, Phases, Targets, RunInv, RunTyped
  <2> QED
    BY <2>3, <2>4
<1> QED
  BY <1>1, <1>2, <1>3

-----------------------------------------------------------------------------
(* _next_step: the frame on top moves, goes, or gets another one on it. *)

TopOf(st) == st[Len(st)]

(* The frame on top is replaced by one that opened the same block. *)
LEMMA TopSet ==
  ASSUME RunInv, stack # <<>>, NEW f \in Frame, Alike(TopOf(stack), f)
  PROVE  LET st == [stack EXCEPT ![Len(stack)] = f]
         IN  /\ st \in Seq(Frame) /\ Len(st) = Len(stack) /\ TopOf(st) = f /\ Len(st) > 0
             /\ Accounts(st, useStack, depth, scope, root)
<1> DEFINE st == [stack EXCEPT ![Len(stack)] = f]
<1>1. stack \in Seq(Frame) /\ Len(stack) \in Nat \ {0}
  BY EmptySeq DEF RunInv, RunTyped
<1>2. st \in Seq(Frame) /\ Len(st) = Len(stack) /\ \A j \in 1..Len(stack) : st[j] = IF j = Len(stack) THEN f ELSE stack[j]
  BY <1>1
<1> HIDE DEF st
<1>3. AllAlike(stack, st, Len(stack))
  BY <1>1, <1>2 DEF AllAlike, Alike, TopOf
<1>4. Accounts(st, useStack, depth, scope, root)
  BY <1>1, <1>2, <1>3, AccountsAlike DEF RunInv
<1> QED
  BY <1>1, <1>2, <1>4 DEF st, TopOf

(* The frame on top goes, and no block with it. *)
LEMMA TopPopped ==
  ASSUME RunInv, stack # <<>>, ~Opens(TopOf(stack), "atomic"), ~Opens(TopOf(stack), "use")
  PROVE  Sequencer!Pop \in Seq(Frame) /\ Accounts(Sequencer!Pop, useStack, depth, scope, root)
<1>1. stack \in Seq(Frame) /\ useStack \in Seq(Names) /\ Accounts(stack, useStack, depth, scope, root)
  BY DEF RunInv, RunTyped
<1> QED
  BY <1>1, AccountsPopped, Popped DEF Sequencer!Pop, TopOf

(* The frame on top is a frame. *)
LEMMA TopTyped ==
  ASSUME RunInv, stack # <<>>
  PROVE  Sequencer!Top = TopOf(stack) /\ TopOf(stack) \in Frame /\ Len(stack) \in 1..Len(stack) /\ Len(stack) > 0
<1>1. stack \in Seq(Frame) /\ Len(stack) \in Nat \ {0}
  BY EmptySeq DEF RunInv, RunTyped
<1> QED
  BY <1>1 DEF Sequencer!Top, TopOf

(* The frame on top changes without what it opened, and one that opens     *)
(* nothing may be put on it.                                               *)
LEMMA TopMoves ==
  ASSUME RunInv, phase = "next", stack # <<>>, NEW f \in Frame, Alike(TopOf(stack), f),
         \/ stack' = [stack EXCEPT ![Len(stack)] = f]
         \/ \E g \in Frame : /\ stack' = Append([stack EXCEPT ![Len(stack)] = f], g)
                             /\ ~Opens(g, "atomic") /\ ~Opens(g, "use") /\ (Opens(g, "adaptive") => f.k = "adaptive"),
         UNCHANGED <<root, scope, useStack, depth, state, wait, pending, completed>>, phase' \in {"next", "poll"}
  PROVE  RunInv'
<1> DEFINE st == [stack EXCEPT ![Len(stack)] = f]
<1>1. st \in Seq(Frame) /\ TopOf(st) = f /\ Len(st) > 0 /\ Accounts(st, useStack, depth, scope, root)
  BY TopSet
<1>2. useStack \in Seq(Names) /\ scope \in Scopes /\ pending \in Targets /\ completed \in Int
  BY DEF RunInv, RunTyped
<1>3. stack' \in Seq(Frame) /\ Accounts(stack', useStack, depth, scope, root)
  <2> HIDE DEF st
  <2>1. CASE stack' = st
    BY <1>1, <2>1
  <2>2. ASSUME NEW g \in Frame, stack' = Append(st, g), ~Opens(g, "atomic"), ~Opens(g, "use"),
               Opens(g, "adaptive") => f.k = "adaptive"
        PROVE  stack' \in Seq(Frame) /\ Accounts(stack', useStack, depth, scope, root)
    <3>1. Opens(g, "adaptive") => Len(st) > 0 /\ st[Len(st)].k = "adaptive"
      BY <1>1, <2>2 DEF TopOf
    <3> QED
      BY <1>1, <1>2, <2>2, <3>1, AccountsPushed
  <2> QED
    BY <2>1, <2>2 DEF st
<1>4. root # NoSeq /\ wait = Sequencer!NoWait /\ wait.k = "none" /\ state \in States \ {"IDLE"} /\ (state = "RUNNING" \/ pending # "none")
  BY Ticking
<1> HIDE DEF st
<1> QED
  BY <1>2, <1>3, <1>4, StackMoves DEF Phases

(* A step of _next_step that drops the frame on top. *)
LEMMA TopGoes ==
  ASSUME RunInv, phase = "next", stack # <<>>, ~Opens(TopOf(stack), "atomic"), ~Opens(TopOf(stack), "use"),
         stack' = Sequencer!Pop,
         UNCHANGED <<root, scope, useStack, depth, state, wait, pending, completed>>, phase' \in {"next", "poll"}
  PROVE  RunInv'
<1>1. stack' \in Seq(Frame) /\ Accounts(stack', useStack, depth, scope, root)
  BY TopPopped
<1>2. useStack \in Seq(Names) /\ scope \in Scopes /\ pending \in Targets /\ completed \in Int
  BY DEF RunInv, RunTyped
<1>3. root # NoSeq /\ wait = Sequencer!NoWait /\ wait.k = "none" /\ state \in States \ {"IDLE"} /\ (state = "RUNNING" \/ pending # "none")
  BY Ticking
<1> QED
  BY <1>1, <1>2, <1>3, StackMoves DEF Phases

(* _next_step: skipped steps, passes, trials, try frames, discarded frames. *)
LEMMA NextStepKept ==
  ASSUME RunInv,
         Sequencer!SkipDisabled \/ Sequencer!NextPass \/ Sequencer!NextTry \/ Sequencer!NextTrial \/ Sequencer!Discard
  PROVE  RunInv'
<1> DEFINE top == TopOf(stack)
<1>0. /\ phase = "next" /\ stack # <<>> /\ phase' \in {"next", "poll"}
      /\ UNCHANGED <<root, scope, useStack, depth, state, wait, pending, completed>>
  BY DEF Sequencer!SkipDisabled, Sequencer!NextPass, Sequencer!NextTry, Sequencer!NextTrial, Sequencer!Discard,
         Sequencer!InNext, Sequencer!control, Sequencer!terminal
<1>1. Sequencer!Top = top /\ top \in Frame /\ scope \in Scopes
  BY <1>0, TopTyped DEF RunInv, RunTyped
<1>2. /\ top.k \in {"steps", "loop", "while", "try", "adaptive"} /\ top.blk \in Names
      /\ top.k = "steps" <=> top \in StepFrames
      /\ top.k \in {"loop", "while"} <=> top \in LoopFrames
      /\ top.k = "try" <=> top \in TryFrames
      /\ top.k = "adaptive" <=> top \in StudyFrames
  BY <1>1, FrameKinds
<1>3. ASSUME NEW exit \in {"none", "adaptive"}, NEW unwind \in BOOLEAN
      PROVE  LET g == Sequencer!StepFrame(top.blk, exit, unwind, scope)
             IN  g \in Frame /\ ~Opens(g, "atomic") /\ ~Opens(g, "use") /\ (Opens(g, "adaptive") => exit = "adaptive")
  <2>1. Sequencer!StepFrame(top.blk, exit, unwind, scope) \in StepFrames
    BY <1>1, <1>2 DEF Sequencer!StepFrame, StepFrames, Exits
  <2> QED
    BY <2>1 DEF Frame, Opens, Sequencer!StepFrame
<1>4. ASSUME top.k # "steps", stack' = Sequencer!Pop PROVE RunInv'
  <2>1. ~Opens(top, "atomic") /\ ~Opens(top, "use")
    BY <1>4 DEF Opens
  <2> QED
    BY <1>0, <1>4, <2>1, TopGoes
<1>5. ASSUME NEW f \in Frame, Alike(top, f),
             \/ stack' = Sequencer!SetTop(f)
             \/ \E g \in Frame : /\ stack' = Append(Sequencer!SetTop(f), g)
                                 /\ ~Opens(g, "atomic") /\ ~Opens(g, "use") /\ (Opens(g, "adaptive") => f.k = "adaptive")
      PROVE  RunInv'
  BY <1>0, <1>5, TopMoves DEF Sequencer!SetTop
<1>6. CASE Sequencer!SkipDisabled
  <2>1. top.k = "steps" /\ stack' = Sequencer!SetTop([top EXCEPT !.i = @ + 1])
    BY <1>1, <1>6 DEF Sequencer!SkipDisabled
  <2>2. top \in StepFrames
    BY <1>2, <2>1
  <2> DEFINE f == [top EXCEPT !.i = @ + 1]
  <2>3. f \in StepFrames /\ Alike(top, f)
    BY <2>2 DEF StepFrames, Alike
  <2> HIDE DEF f, top
  <2> QED
    BY <1>5, <2>1, <2>3 DEF Frame, f
<1>7. CASE Sequencer!NextPass
  <2>1. /\ top.k \in {"loop", "while"}
        /\ \/ /\ top.left > 0
              /\ stack' = Append(Sequencer!SetTop([top EXCEPT !.left = @ - 1]),
                                 Sequencer!StepFrame(top.blk, "none", FALSE, scope))
           \/ stack' = Sequencer!Pop
    BY <1>1, <1>7 DEF Sequencer!NextPass
  <2>2. CASE stack' = Sequencer!Pop
    BY <1>4, <2>1, <2>2
  <2>3. CASE stack' # Sequencer!Pop
    <3> DEFINE f == [top EXCEPT !.left = @ - 1]
    <3>1. top \in LoopFrames /\ top.left > 0
      BY <1>2, <2>1, <2>3
    <3>2. f \in LoopFrames /\ Alike(top, f)
      BY <3>1 DEF LoopFrames, Alike
    <3>3. stack' = Append(Sequencer!SetTop(f), Sequencer!StepFrame(top.blk, "none", FALSE, scope))
      BY <2>1, <2>3
    <3> HIDE DEF f, top
    <3> QED
      BY <1>3, <1>5, <3>2, <3>3 DEF Frame
  <2> QED
    BY <2>2, <2>3
<1>8. CASE Sequencer!NextTry
  <2> DEFINE f == [top EXCEPT !.finalizing = TRUE]
  <2>1. top.k = "try"
    BY <1>1, <1>8 DEF Sequencer!NextTry
  <2>2. top \in TryFrames
    BY <1>2, <2>1
  <2>3. f \in TryFrames /\ Alike(top, f)
    BY <2>2 DEF TryFrames, Alike
  <2>4. \/ stack' = Sequencer!Pop \/ stack' = Sequencer!SetTop(f)
        \/ stack' = Append(Sequencer!SetTop(f), Sequencer!StepFrame(top.blk, "none", TRUE, scope))
    <3>1. top.finalizing \in BOOLEAN
      BY <2>2 DEF TryFrames
    <3> HIDE DEF top
    <3> QED
      BY <1>1, <1>8, <3>1 DEF Sequencer!NextTry
  <2> HIDE DEF f, top
  <2> QED
    BY <1>3, <1>4, <1>5, <2>1, <2>3, <2>4 DEF Frame
<1>9. CASE Sequencer!NextTrial
  <2> DEFINE f == [top EXCEPT !.busy = TRUE]
  <2>1. /\ top.k = "adaptive"
        /\ \/ stack' = Append(Sequencer!SetTop(f), Sequencer!StepFrame(top.blk, "adaptive", FALSE, scope))
           \/ stack' = Sequencer!Pop \/ stack' = stack
    BY <1>1, <1>9 DEF Sequencer!NextTrial
  <2>2. top \in StudyFrames
    BY <1>2, <2>1
  <2>3. f \in StudyFrames /\ Alike(top, f) /\ f.k = "adaptive"
    BY <2>2 DEF StudyFrames, Alike
  <2>4. CASE stack' = stack
    <3>1. pending \in Targets /\ completed \in Int
      BY DEF RunInv, RunTyped
    <3>2. root # NoSeq /\ wait = Sequencer!NoWait /\ wait.k = "none" /\ state \in States \ {"IDLE"} /\ (state = "RUNNING" \/ pending # "none")
      BY <1>0, Ticking
    <3> QED
      BY <1>0, <2>4, <3>1, <3>2, StackStands DEF Phases
  <2> HIDE DEF f, top
  <2> QED
    BY <1>3, <1>4, <1>5, <2>1, <2>3, <2>4 DEF Frame
<1>10. CASE Sequencer!Discard
  <2>1. top.k # "steps" /\ stack' = Sequencer!Pop
    BY <1>1, <1>10 DEF Sequencer!Discard
  <2> QED
    BY <1>4, <2>1
<1> QED
  BY <1>6, <1>7, <1>8, <1>9, <1>10

(* The trial of the study on top of the stack is closed. *)
LEMMA TrialEnds ==
  ASSUME NEW st \in Seq(Frame), Len(st) > 0, TopOf(st).k = "adaptive", NEW us, NEW dp, NEW sc, NEW rt,
         Accounts(st, us, dp, sc, rt)
  PROVE  LET c == Sequencer!TrialClosed(st, Len(st))
         IN  c \in Seq(Frame) /\ Len(c) = Len(st) /\ c[Len(c)].k = "adaptive" /\ Accounts(c, us, dp, sc, rt)
<1> DEFINE n == Len(st)
           g == [st[n] EXCEPT !.busy = FALSE, !.left = @ - 1]
           c == [st EXCEPT ![n] = g]
<1>1. n \in Nat \ {0} /\ st[n] \in Frame
  OBVIOUS
<1>2. st[n] \in StudyFrames
  BY <1>1, FrameKinds DEF TopOf
<1>3. g \in StudyFrames /\ Alike(st[n], g) /\ g.k = "adaptive"
  <2> DEFINE l == st[n].left - 1
  <2>1. g = [st[n] EXCEPT !.busy = FALSE, !.left = l] /\ l \in Int
    BY <1>2 DEF StudyFrames
  <2> HIDE DEF l, g
  <2>2. g = [k |-> st[n].k, blk |-> st[n].blk, busy |-> FALSE, left |-> l, strict |-> st[n].strict, async |-> st[n].async,
             raises |-> st[n].raises]
    BY <1>2, <2>1 DEF StudyFrames
  <2> QED
    BY <1>2, <2>1, <2>2 DEF StudyFrames, Alike
<1>4. Sequencer!TrialClosed(st, n) = c
  BY <1>1, <1>2 DEF Sequencer!TrialClosed, StudyFrames
<1> HIDE DEF g
<1>5. g \in Frame
  BY <1>3 DEF Frame
<1>6. c \in Seq(Frame) /\ Len(c) = n /\ \A j \in 1..n : c[j] = IF j = n THEN g ELSE st[j]
  BY <1>1, <1>5
<1> HIDE DEF c
<1>7. AllAlike(st, c, n)
  BY <1>1, <1>3, <1>6 DEF AllAlike, Alike
<1>8. Accounts(c, us, dp, sc, rt)
  BY <1>6, <1>7, AccountsAlike
<1> QED
  BY <1>1, <1>3, <1>4, <1>6, <1>8

(* _step_adaptive_observation. *)
LEMMA ObservationKept ==
  ASSUME RunInv, Sequencer!ObservationEnds
  PROVE  RunInv'
<1>1. /\ phase = "poll" /\ state = "RUNNING" /\ wait.k = "observe" /\ wait' = Sequencer!NoWait
      /\ stack' = Sequencer!TrialClosed(stack, wait.at)
      /\ (phase' = "loop" /\ state' = state) \/ (state' = "ERROR" /\ phase' = "poll")
      /\ UNCHANGED <<root, scope, useStack, depth, pending, completed>>
  BY DEF Sequencer!ObservationEnds, Sequencer!CanProceed, Sequencer!control, Sequencer!terminal
<1>2. Len(stack) > 0 /\ wait.at = Len(stack) /\ TopOf(stack).k = "adaptive" /\ root # NoSeq
  BY <1>1 DEF RunInv, PhaseInv, TopOf
<1>3. /\ stack \in Seq(Frame) /\ useStack \in Seq(Names) /\ scope \in Scopes /\ pending \in Targets /\ completed \in Int
      /\ Accounts(stack, useStack, depth, scope, root)
  BY DEF RunInv, RunTyped
<1>4. stack' \in Seq(Frame) /\ Accounts(stack', useStack, depth, scope, root)
  BY <1>1, <1>2, <1>3, TrialEnds
<1> QED
  BY <1>1, <1>2, <1>3, <1>4, StackMoves DEF States, Phases, Sequencer!NoWait

(* A block is left, by its last step or by the unwind, and its on_exit runs. *)
LEMMA LeavingKept ==
  ASSUME RunInv, Sequencer!LeaveBlock
  PROVE  RunInv'
<1> DEFINE top == TopOf(stack)
<1>0. /\ phase = "next" /\ stack # <<>> /\ UNCHANGED <<root, pending, completed>>
  BY DEF Sequencer!LeaveBlock, Sequencer!BlockOver, Sequencer!InNext, Sequencer!terminal
<1>1. /\ Sequencer!Top = top /\ top \in Frame /\ scope \in Scopes /\ useStack \in Seq(Names) /\ stack \in Seq(Frame)
      /\ pending \in Targets /\ completed \in Int /\ Accounts(stack, useStack, depth, scope, root) /\ Len(stack) \in Nat \ {0}
  BY <1>0, TopTyped DEF RunInv, RunTyped
<1>2. top.k = "steps"
  BY <1>1 DEF Sequencer!LeaveBlock, Sequencer!BlockOver
<1>3. top \in StepFrames
  BY <1>1, <1>2, FrameKinds
<1>4. top.exit \in Exits /\ top.saved \in Scopes
  BY <1>3 DEF StepFrames
<1>5. root # NoSeq /\ wait = Sequencer!NoWait /\ wait.k = "none" /\ state \in States \ {"IDLE"} /\ (state = "RUNNING" \/ pending # "none")
  BY <1>0, Ticking
<1> DEFINE p == SubSeq(stack, 1, Len(stack) - 1)
<1>6. Sequencer!Pop = p /\ p \in Seq(Frame) /\ Len(p) = Len(stack) - 1 /\ (\A j \in 1..Len(p) : p[j] = stack[j])
  BY <1>0, <1>1, Popped DEF Sequencer!Pop
<1>7. /\ ~Opens(top, "atomic") /\ ~Opens(top, "use") => Accounts(p, useStack, depth, scope, root)
      /\ Opens(top, "atomic") => Accounts(p, useStack, depth - 1, scope, root)
      /\ Opens(top, "use") => useStack # <<>> /\ Accounts(p, SubSeq(useStack, 1, Len(useStack) - 1), depth, top.saved, root)
  BY <1>0, <1>1, AccountsPopped DEF TopOf
<1>8. CASE top.exit = "none"
  <2>1. stack' = p /\ UNCHANGED <<state, wait, depth, scope, useStack, phase>>
    BY <1>1, <1>6, <1>8 DEF Sequencer!LeaveBlock, Sequencer!BlockOver
  <2>2. Accounts(p, useStack, depth, scope, root)
    BY <1>7, <1>8 DEF Opens
  <2> HIDE DEF p, top
  <2> QED
    BY <1>0, <1>1, <1>5, <1>6, <2>1, <2>2, StackMoves DEF Phases
<1>9. CASE top.exit = "atomic"
  <2>1. stack' = p /\ depth' = depth - 1 /\ phase' \in {"poll", "next"} /\ UNCHANGED <<state, wait, scope, useStack>>
    BY <1>1, <1>6, <1>9 DEF Sequencer!LeaveBlock, Sequencer!BlockOver
  <2>2. Accounts(p, useStack, depth - 1, scope, root)
    BY <1>2, <1>7, <1>9 DEF Opens
  <2> HIDE DEF p, top
  <2> QED
    BY <1>0, <1>1, <1>5, <1>6, <2>1, <2>2, StackMoves DEF Phases
<1>10. CASE top.exit = "use"
  <2>1. /\ stack' = p /\ scope' = top.saved /\ useStack' = SubSeq(useStack, 1, Len(useStack) - 1)
        /\ UNCHANGED <<state, wait, depth, phase>>
    BY <1>1, <1>6, <1>10 DEF Sequencer!LeaveBlock, Sequencer!BlockOver
  <2>2. useStack # <<>> /\ Accounts(p, useStack', depth, top.saved, root)
    BY <1>2, <1>7, <1>10, <2>1 DEF Opens
  <2>3. useStack' \in Seq(Names)
    BY <1>1, <2>1, <2>2, Popped
  <2> HIDE DEF p, top
  <2> QED
    BY <1>0, <1>1, <1>4, <1>5, <1>6, <2>1, <2>2, <2>3, StackMoves DEF Phases
<1>11. CASE top.exit = "adaptive"
  <2>1. /\ Sequencer!AfterAdaptiveBody /\ UNCHANGED <<depth, scope, useStack>>
        /\ phase' = IF Sequencer!Normally /\ (state' # "RUNNING" \/ wait'.k = "observe") THEN "poll" ELSE "next"
    BY <1>1, <1>11 DEF Sequencer!LeaveBlock, Sequencer!BlockOver
  <2>2. Accounts(p, useStack, depth, scope, root)
    BY <1>7, <1>11 DEF Opens
  <2>3. Len(stack) - 1 = Len(p) /\ Len(p) \in Nat \ {0} /\ TopOf(p).k = "adaptive"
    <3>1. Len(stack) > 1 /\ stack[Len(stack) - 1].k = "adaptive"
      BY <1>1, <1>2, <1>11 DEF Accounts, Opens, TopOf
    <3> HIDE DEF p
    <3> QED
      BY <1>1, <1>6, <3>1 DEF TopOf
  <2> DEFINE c == Sequencer!TrialClosed(p, Len(p))
  <2>4. c \in Seq(Frame) /\ Len(c) = Len(p) /\ c[Len(c)].k = "adaptive" /\ Accounts(c, useStack, depth, scope, root)
    <3> HIDE DEF p
    <3> QED
      BY <1>6, <2>2, <2>3, TrialEnds
  <2> HIDE DEF p, top, c
  <2>5. \/ /\ wait' = (IF Sequencer!Normally THEN [k |-> "observe", at |-> Len(p)] ELSE Sequencer!NoWait)
           /\ stack' = p /\ state' = state
        \/ stack' = c /\ UNCHANGED <<state, wait>>
        \/ stack' = c /\ state' = "ERROR" /\ wait' = wait
    BY <1>6, <2>1, <2>3 DEF Sequencer!AfterAdaptiveBody, c
  <2>6. Sequencer!Normally \/ pending # "none"
    BY DEF Sequencer!Normally
  <2>7. stack' \in Seq(Frame) /\ Accounts(stack', useStack, depth, scope, root) /\ Len(stack') > 0 /\ stack'[Len(stack')].k = "adaptive"
    BY <1>6, <2>2, <2>3, <2>4, <2>5 DEF TopOf
  <2>8. state' \in States \ {"IDLE"}
    BY <1>5, <2>5 DEF States
  <2>9. phase' # "poll" => wait' = Sequencer!NoWait /\ (state' = "RUNNING" \/ pending' # "none")
    BY <1>0, <1>5, <2>1, <2>5, <2>6
  <2>10. wait'.k = "observe" => wait'.at = Len(stack')
    BY <1>5, <2>5 DEF Sequencer!NoWait
  <2> QED
    BY <1>0, <1>1, <1>5, <2>1, <2>7, <2>8, <2>9, <2>10, StackMoves DEF Phases
<1> QED
  BY <1>4, <1>8, <1>9, <1>10, <1>11 DEF Exits

-----------------------------------------------------------------------------
(* _execute_step *)

(* The step that _next_step hands to _execute_step, and the frame past it. *)
LEMMA StepTaken ==
  ASSUME Sequencer!WellFormed, RunInv, NEW kinds, Sequencer!Taking(kinds)
  PROVE  /\ phase = "next" /\ stack # <<>> /\ TopOf(stack) \in StepFrames /\ Sequencer!Top = TopOf(stack)
         /\ Sequencer!Step = Blocks[TopOf(stack).blk][TopOf(stack).i] /\ Sequencer!Step \in Form /\ Sequencer!Step.k \in kinds
         /\ TopOf(stack).i \in 1..Len(Blocks[TopOf(stack).blk])
         /\ Sequencer!Advanced = [stack EXCEPT ![Len(stack)] = [TopOf(stack) EXCEPT !.i = @ + 1]]
         /\ Sequencer!Advanced \in Seq(Frame) /\ Len(Sequencer!Advanced) = Len(stack) /\ Len(stack) > 0
         /\ TopOf(Sequencer!Advanced).k = "steps"
         /\ Accounts(Sequencer!Advanced, useStack, depth, scope, root)
<1> DEFINE top == TopOf(stack)
           f == [top EXCEPT !.i = @ + 1]
<1>1. phase = "next" /\ stack # <<>>
  BY DEF Sequencer!Taking, Sequencer!InNext
<1>2. Sequencer!Top = top /\ top \in Frame /\ Len(stack) > 0
  BY <1>1, TopTyped
<1>3. top.k = "steps" /\ ~Sequencer!Spent(top) /\ Sequencer!Steps(top)[top.i].k \in kinds
  BY <1>2 DEF Sequencer!Taking
<1>4. top \in StepFrames
  BY <1>2, <1>3, FrameKinds
<1>5. top.blk \in Names /\ top.i \in Nat \ {0}
  BY <1>4 DEF StepFrames
<1>6. Blocks[top.blk] \in Seq(Form)
  BY <1>5 DEF Sequencer!WellFormed, Names, Form
<1>7. top.i \in 1..Len(Blocks[top.blk]) /\ Sequencer!Steps(top) = Blocks[top.blk]
  BY <1>3, <1>5, <1>6 DEF Sequencer!Spent, Sequencer!Steps
<1>8. Sequencer!Step = Blocks[top.blk][top.i] /\ Blocks[top.blk][top.i] \in Form /\ Blocks[top.blk][top.i].k \in kinds
  BY <1>2, <1>3, <1>6, <1>7 DEF Sequencer!Step
<1>9. f \in StepFrames /\ Alike(top, f)
  BY <1>4 DEF StepFrames, Alike
<1>10. Sequencer!Advanced = [stack EXCEPT ![Len(stack)] = f]
  BY <1>2 DEF Sequencer!Advanced, Sequencer!SetTop
<1> HIDE DEF f
<1>11. /\ Sequencer!Advanced \in Seq(Frame) /\ Len(Sequencer!Advanced) = Len(stack)
       /\ TopOf(Sequencer!Advanced) = f /\ Accounts(Sequencer!Advanced, useStack, depth, scope, root)
  <2>1. f \in Frame
    BY <1>9 DEF Frame
  <2> HIDE DEF top
  <2> QED
    BY <1>1, <1>9, <1>10, <2>1, TopSet DEF top
<1>12. f.k = "steps"
  BY <1>9 DEF StepFrames
<1> QED
  BY <1>1, <1>2, <1>4, <1>7, <1>8, <1>10, <1>11, <1>12 DEF f

(* A step that opens no block: the frame on top moves past it. *)
LEMMA StepsKept ==
  ASSUME Sequencer!WellFormed, RunInv,
         \/ Sequencer!ExecuteSet \/ Sequencer!ExecuteCall \/ Sequencer!ExecuteAssign \/ Sequencer!ExecuteSleep
         \/ Sequencer!ExecuteWaitUntil \/ Sequencer!ExecuteSetContext \/ Sequencer!ExecuteParallel
         \/ Sequencer!ExecutePause
  PROVE  RunInv'
<1>1. ASSUME NEW kinds, Sequencer!Taking(kinds), stack' = Sequencer!Advanced,
             UNCHANGED <<root, depth, scope, useStack>>, state' \in States \ {"IDLE"}, phase' \in Phases,
             pending' \in Targets, completed' \in Int,
             phase' # "poll" => wait' = Sequencer!NoWait /\ (state' = "RUNNING" \/ pending' # "none"),
             wait'.k # "observe"
      PROVE  RunInv'
  <2>1. /\ phase = "next" /\ Sequencer!Advanced \in Seq(Frame) /\ Accounts(Sequencer!Advanced, useStack, depth, scope, root)
    BY <1>1, StepTaken
  <2>2. root # NoSeq
    BY <2>1, Ticking
  <2>3. useStack \in Seq(Names) /\ scope \in Scopes
    BY DEF RunInv, RunTyped
  <2>4. /\ UNCHANGED root /\ stack' \in Seq(Frame) /\ useStack' \in Seq(Names) /\ scope' \in Scopes
        /\ Accounts(stack', useStack', depth', scope', root)
    BY <1>1, <2>1, <2>3
  <2> QED
    BY <1>1, <2>2, <2>4, StackMoves
<1>2. ASSUME NEW kinds, Sequencer!Taking(kinds)
      PROVE  /\ state \in States \ {"IDLE"} /\ pending \in Targets /\ completed \in Int /\ completed + 1 \in Int
             /\ wait = Sequencer!NoWait /\ wait.k # "observe" /\ (state = "RUNNING" \/ pending # "none")
             /\ Sequencer!Step.k \in kinds
  <2>1. phase = "next" /\ Sequencer!Step.k \in kinds
    BY <1>2, StepTaken
  <2>2. pending \in Targets /\ completed \in Int
    BY DEF RunInv, RunTyped
  <2>3. completed + 1 \in Int
    BY <2>2
  <2> QED
    BY <2>1, <2>2, <2>3, Ticking
<1>3. ASSUME NEW kinds, Sequencer!Taking(kinds), stack' = Sequencer!Advanced, UNCHANGED <<root, depth, scope, useStack>>,
             Sequencer!Fails(Sequencer!NoWait, 1), phase' = "poll"
      PROVE  RunInv'
  <2>1. /\ state' \in {state, "ERROR"} /\ pending' \in Targets /\ completed' \in Int /\ wait' = Sequencer!NoWait
    BY <1>3, Failing
  <2>2. state' \in States \ {"IDLE"} /\ wait'.k # "observe" /\ phase' \in Phases
    BY <1>2, <1>3, <2>1 DEF States, Phases, Sequencer!NoWait
  <2> QED
    BY <1>1, <1>3, <2>1, <2>2
<1>4. ASSUME NEW kind, Sequencer!Request(kind) PROVE RunInv'
  <2>1. Sequencer!Taking({kind}) /\ stack' = Sequencer!Advanced /\ UNCHANGED <<root, depth, scope, useStack>>
    BY <1>4 DEF Sequencer!Request
  <2>2. CASE Sequencer!StepFails /\ phase' = "poll"
    BY <1>3, <2>1, <2>2 DEF Sequencer!StepFails
  <2>3. CASE Sequencer!StepEnds /\ UNCHANGED <<state, wait, Sequencer!terminal>>
    <3>1. completed' = completed + 1 /\ phase' \in Phases /\ (phase' # "poll" => state = "RUNNING")
          /\ UNCHANGED <<state, wait, pending>>
      BY <2>3 DEF Sequencer!StepEnds, Sequencer!terminal, Phases
    <3> QED
      BY <1>1, <1>2, <2>1, <3>1
  <2> QED
    BY <1>4, <2>2, <2>3 DEF Sequencer!Request
<1>5. ASSUME NEW kind, kind # "observe", Sequencer!Await(kind) PROVE RunInv'
  <2>1. /\ Sequencer!Taking({kind}) /\ stack' = Sequencer!Advanced /\ UNCHANGED <<root, depth, scope, useStack>>
        /\ phase' = "poll" /\ wait' = Sequencer!Step /\ UNCHANGED <<state, pending, completed>>
    BY <1>5 DEF Sequencer!Await, Sequencer!terminal
  <2>2. wait'.k # "observe" /\ phase' \in Phases
    BY <1>2, <1>5, <2>1 DEF Phases
  <2> QED
    BY <1>1, <1>2, <2>1, <2>2
<1>6. CASE Sequencer!ExecuteParallel
  <2>1. CASE Sequencer!Await("parallel")
    BY <1>5, <2>1
  <2>2. CASE ~Sequencer!Await("parallel")
    <3>1. /\ Sequencer!Taking({"parallel"}) /\ stack' = Sequencer!Advanced /\ UNCHANGED <<root, depth, scope, useStack>>
          /\ Sequencer!Fails(Sequencer!NoWait, 1) /\ phase' = "poll"
      BY <1>6, <2>2 DEF Sequencer!ExecuteParallel, Sequencer!StepFails
    <3> QED
      BY <1>3, <3>1
  <2> QED
    BY <2>1, <2>2
<1>7. CASE Sequencer!ExecutePause
  <2>1. /\ Sequencer!Taking({"pause"}) /\ stack' = Sequencer!Advanced /\ UNCHANGED <<root, depth, scope, useStack>>
        /\ phase' = "poll" /\ state' = "PAUSED" /\ completed' = completed + 1 /\ UNCHANGED <<wait, pending>>
    BY <1>7 DEF Sequencer!ExecutePause, Sequencer!terminal
  <2>2. state' \in States \ {"IDLE"} /\ phase' \in Phases
    BY <2>1 DEF States, Phases
  <2> QED
    BY <1>1, <1>2, <2>1, <2>2
<1> QED
  BY <1>4, <1>5, <1>6, <1>7 DEF Sequencer!ExecuteSet, Sequencer!ExecuteCall, Sequencer!ExecuteAssign, Sequencer!ExecuteSleep,
     Sequencer!ExecuteWaitUntil, Sequencer!ExecuteSetContext

(* A step that opens a block puts a frame on the stack. *)
LEMMA FramePushed ==
  ASSUME Sequencer!WellFormed, RunInv, NEW kinds, Sequencer!Taking(kinds), NEW f \in Frame,
         ~Opens(f, "adaptive"), ~Opens(f, "use"), stack' = Append(Sequencer!Advanced, f),
         depth' = IF Opens(f, "atomic") THEN depth + 1 ELSE depth,
         UNCHANGED <<root, state, wait, pending, scope, useStack>>, completed' = completed + 1,
         phase' \in {"loop", "poll"}, phase' = "loop" => state = "RUNNING"
  PROVE  RunInv'
<1>1. /\ phase = "next" /\ Sequencer!Advanced \in Seq(Frame) /\ Accounts(Sequencer!Advanced, useStack, depth, scope, root)
  BY StepTaken
<1>2. root # NoSeq /\ wait = Sequencer!NoWait /\ wait.k = "none" /\ state \in States \ {"IDLE"}
  BY <1>1, Ticking
<1>3. useStack \in Seq(Names) /\ scope \in Scopes /\ pending \in Targets /\ completed \in Int
  BY DEF RunInv, RunTyped
<1> DEFINE a == Sequencer!Advanced
<1> HIDE DEF a
<1>4. Append(a, f) \in Seq(Frame)
  BY <1>1 DEF a
<1>5. Accounts(Append(a, f), useStack, depth', scope, root)
  <2>1. a \in Seq(Frame) /\ Accounts(a, useStack, depth, scope, root)
    BY <1>1 DEF a
  <2>2. /\ ~Opens(f, "atomic") /\ ~Opens(f, "use") => Accounts(Append(a, f), useStack, depth, scope, root)
        /\ Opens(f, "atomic") => Accounts(Append(a, f), useStack, depth + 1, scope, root)
    BY <1>3, <2>1, AccountsPushed
  <2> QED
    BY <2>2
<1>6. completed' \in Int
  BY <1>3
<1>7. stack' \in Seq(Frame) /\ Accounts(stack', useStack', depth', scope', root)
  BY <1>4, <1>5 DEF a
<1> QED
  BY <1>2, <1>3, <1>6, <1>7, StackMoves DEF Phases

(* for, repeat, while, adaptive, if and atomic. *)
LEMMA BlocksKept ==
  ASSUME Sequencer!WellFormed, RunInv,
         \/ Sequencer!ExecuteFor \/ Sequencer!ExecuteRepeat \/ Sequencer!ExecuteWhile \/ Sequencer!ExecuteAdaptive
         \/ Sequencer!ExecuteIf \/ Sequencer!ExecuteAtomic
  PROVE  RunInv'
<1>0. scope \in Scopes /\ MaxWhile \in Nat
  BY DEF RunInv, RunTyped, Sequencer!WellFormed
<1>1. ASSUME NEW kinds, Sequencer!Taking(kinds), NEW f \in Frame, ~Opens(f, "adaptive"), ~Opens(f, "use"),
             depth' = (IF Opens(f, "atomic") THEN depth + 1 ELSE depth), Sequencer!Push(<<f>>)
      PROVE  RunInv'
  <2>1. Sequencer!Advanced \in Seq(Frame)
    BY <1>1, StepTaken
  <2>2. Sequencer!Advanced \o <<f>> = Append(Sequencer!Advanced, f)
    BY <1>1, <2>1
  <2>3. /\ stack' = Sequencer!Advanced \o <<f>> /\ completed' = completed + 1
        /\ UNCHANGED <<root, state, wait, pending, scope, useStack>>
        /\ phase' \in {"loop", "poll"} /\ (phase' = "loop" => state = "RUNNING")
    BY <1>1 DEF Sequencer!Push, Sequencer!terminal
  <2>4. stack' = Append(Sequencer!Advanced, f)
    BY <2>2, <2>3
  <2> QED
    BY <1>1, <2>3, <2>4, FramePushed
<1>2. ASSUME NEW kinds, Sequencer!Taking(kinds) PROVE Sequencer!Step \in Form /\ Sequencer!Step.k \in kinds
  BY <1>2, StepTaken
<1>3. CASE Sequencer!ExecuteFor \/ Sequencer!ExecuteRepeat
  <2> DEFINE f == Sequencer!LoopFrame(Sequencer!Step)
  <2>1. PICK kind \in {"for", "repeat"} : Sequencer!Taking({kind}) /\ depth' = depth /\ Sequencer!Push(<<f>>)
    BY <1>3 DEF Sequencer!ExecuteFor, Sequencer!ExecuteRepeat
  <2>2. Sequencer!Step \in Form /\ Sequencer!Step.k \in {"for", "repeat"}
    BY <1>2, <2>1
  <2>3. Sequencer!Step.body \in Names /\ Sequencer!Step.n \in Nat
    BY <2>2 DEF Form, Sequencer!StepForms, Names
  <2>4. f \in Frame /\ f.k = "loop"
    BY <2>3 DEF Sequencer!LoopFrame, LoopFrames, Frame
  <2> HIDE DEF f
  <2> QED
    BY <1>1, <2>1, <2>4 DEF Opens
<1>4. CASE Sequencer!ExecuteWhile
  <2> DEFINE f == Sequencer!WhileFrame(Sequencer!Step)
  <2>1. Sequencer!Taking({"while"}) /\ depth' = depth /\ Sequencer!Push(<<f>>)
    BY <1>4 DEF Sequencer!ExecuteWhile
  <2>2. Sequencer!Step \in Form /\ Sequencer!Step.k = "while"
    BY <1>2, <2>1
  <2>3. Sequencer!Step.body \in Names /\ Sequencer!Step.raises \in BOOLEAN
    BY <2>2 DEF Form, Sequencer!StepForms, Names
  <2>4. f \in Frame /\ f.k = "while"
    BY <1>0, <2>3 DEF Sequencer!WhileFrame, LoopFrames, Frame
  <2> HIDE DEF f
  <2> QED
    BY <1>1, <2>1, <2>4 DEF Opens
<1>5. CASE Sequencer!ExecuteAdaptive
  <2> DEFINE f == Sequencer!AdaptiveFrame(Sequencer!Step)
  <2>1. Sequencer!Taking({"adaptive"}) /\ depth' = depth /\ Sequencer!Push(<<f>>)
    BY <1>5 DEF Sequencer!ExecuteAdaptive
  <2>2. Sequencer!Step \in Form /\ Sequencer!Step.k = "adaptive"
    BY <1>2, <2>1
  <2>3. Sequencer!Step.body \in Names /\ Sequencer!Step.n \in Nat /\ Sequencer!Step.strict \in Strictness /\ Sequencer!Step.async \in BOOLEAN
        /\ Sequencer!Step.raises \in BOOLEAN
    <3>1. Sequencer!Step.body \in Names /\ Sequencer!Step.n \in Nat /\ Sequencer!Step.strict \in BOOLEAN /\ Sequencer!Step.async \in BOOLEAN
          /\ Sequencer!Step.raises \in BOOLEAN
      BY <2>2 DEF Form, Sequencer!StepForms, Names
    <3>2. /\ TopOf(stack) \in StepFrames /\ Sequencer!Step = Blocks[TopOf(stack).blk][TopOf(stack).i]
          /\ TopOf(stack).i \in 1..Len(Blocks[TopOf(stack).blk])
      BY <2>1, StepTaken
    <3>3. TopOf(stack).blk \in Names
      BY <3>2 DEF StepFrames
    <3>4. Sequencer!Step.strict \in Strictness
      BY <2>2, <3>1, <3>2, <3>3 DEF Strictness
    <3> QED
      BY <3>1, <3>4
  <2>4. f \in Frame /\ f.k = "adaptive"
    BY <2>3 DEF Sequencer!AdaptiveFrame, StudyFrames, Frame
  <2> HIDE DEF f
  <2> QED
    BY <1>1, <2>1, <2>4 DEF Opens
<1>6. ASSUME NEW b \in Names, NEW exit \in {"none", "atomic"}
      PROVE  LET f == Sequencer!StepFrame(b, exit, FALSE, scope)
             IN  f \in Frame /\ ~Opens(f, "adaptive") /\ ~Opens(f, "use") /\ (Opens(f, "atomic") <=> exit = "atomic")
  BY <1>0 DEF Sequencer!StepFrame, Opens, StepFrames, Frame, Exits
<1>7. CASE Sequencer!ExecuteIf
  <2>1. PICK b \in {Sequencer!Step.then, Sequencer!Step.else} :
          Sequencer!Taking({"if"}) /\ depth' = depth /\ Sequencer!Push(<<Sequencer!StepFrame(b, "none", FALSE, scope)>>)
    BY <1>7 DEF Sequencer!ExecuteIf
  <2>2. Sequencer!Step \in Form /\ Sequencer!Step.k = "if"
    BY <1>2, <2>1
  <2>3. b \in Names
    BY <2>1, <2>2 DEF Form, Sequencer!StepForms, Names
  <2> DEFINE f == Sequencer!StepFrame(b, "none", FALSE, scope)
  <2>4. f \in Frame /\ ~Opens(f, "adaptive") /\ ~Opens(f, "use") /\ ~Opens(f, "atomic")
    BY <1>6, <2>3
  <2> HIDE DEF f
  <2> QED
    BY <1>1, <2>1, <2>4 DEF f
<1>8. CASE Sequencer!ExecuteAtomic
  <2> DEFINE f == Sequencer!StepFrame(Sequencer!Step.body, "atomic", FALSE, scope)
  <2>1. Sequencer!Taking({"atomic"}) /\ depth' = depth + 1 /\ Sequencer!Push(<<f>>)
    BY <1>8 DEF Sequencer!ExecuteAtomic
  <2>2. Sequencer!Step \in Form /\ Sequencer!Step.k = "atomic"
    BY <1>2, <2>1
  <2>3. Sequencer!Step.body \in Names
    BY <2>2 DEF Form, Sequencer!StepForms, Names
  <2>4. f \in Frame /\ ~Opens(f, "adaptive") /\ ~Opens(f, "use") /\ Opens(f, "atomic")
    BY <1>6, <2>3
  <2> HIDE DEF f
  <2> QED
    BY <1>1, <2>1, <2>4
<1> QED
  BY <1>3, <1>4, <1>5, <1>7, <1>8

(* try puts its frame and that of its body on the stack. *)
LEMMA TryKept ==
  ASSUME Sequencer!WellFormed, RunInv, Sequencer!ExecuteTry
  PROVE  RunInv'
<1> DEFINE a == Sequencer!Advanced
           t == Sequencer!TryFrame(Sequencer!Step.finally)
           f == Sequencer!StepFrame(Sequencer!Step.body, "none", FALSE, scope)
<1>1. /\ Sequencer!Taking({"try"}) /\ stack' = a \o <<t, f>> /\ completed' = completed + 1 /\ depth' = depth
      /\ UNCHANGED <<root, state, wait, pending, scope, useStack>>
      /\ phase' \in {"loop", "poll"} /\ (phase' = "loop" => state = "RUNNING")
  BY DEF Sequencer!ExecuteTry, Sequencer!Push, Sequencer!terminal
<1>2. /\ phase = "next" /\ a \in Seq(Frame) /\ Accounts(a, useStack, depth, scope, root)
      /\ Sequencer!Step \in Form /\ Sequencer!Step.k = "try"
  BY <1>1, StepTaken
<1>3. useStack \in Seq(Names) /\ scope \in Scopes /\ pending \in Targets /\ completed \in Int
  BY DEF RunInv, RunTyped
<1>4. Sequencer!Step.body \in Names /\ Sequencer!Step.finally \in Names
  BY <1>2 DEF Form, Sequencer!StepForms, Names
<1>5. t \in Frame /\ t.k = "try"
  BY <1>4 DEF Sequencer!TryFrame, TryFrames, Frame
<1>6. f \in Frame /\ f.k = "steps" /\ f.exit = "none"
  BY <1>3, <1>4 DEF Sequencer!StepFrame, StepFrames, Frame, Exits
<1> HIDE DEF a, t, f
<1> DEFINE b == Append(a, t)
<1>7. b \in Seq(Frame) /\ a \o <<t, f>> = Append(b, f)
  BY <1>2, <1>5, <1>6
<1>8. Accounts(b, useStack, depth, scope, root)
  BY <1>2, <1>3, <1>5, AccountsPushed DEF Opens
<1> HIDE DEF b
<1>9. Append(b, f) \in Seq(Frame) /\ Accounts(Append(b, f), useStack, depth, scope, root)
  BY <1>3, <1>6, <1>7, <1>8, AccountsPushed DEF Opens
<1>10. root # NoSeq /\ wait = Sequencer!NoWait /\ wait.k = "none" /\ state \in States \ {"IDLE"}
  BY <1>2, Ticking
<1>11. completed' \in Int /\ stack' \in Seq(Frame) /\ Accounts(stack', useStack', depth', scope', root)
  <2>1. completed' \in Int
    BY <1>1, <1>3
  <2>2. stack' = Append(b, f)
    BY <1>1, <1>7
  <2> QED
    BY <1>1, <1>9, <2>1, <2>2
<1> QED
  BY <1>1, <1>3, <1>10, <1>11, StackMoves DEF Phases

(* use saves the variables of the sequence outside, or is refused. *)
LEMMA UseKept ==
  ASSUME Sequencer!WellFormed, RunInv, Sequencer!ExecuteUse
  PROVE  RunInv'
<1> DEFINE a == Sequencer!Advanced
           b == Sequencer!Step.body
           f == Sequencer!StepFrame(b, "use", FALSE, scope)
<1>1. Sequencer!Taking({"use"}) /\ UNCHANGED <<root, depth>>
  BY DEF Sequencer!ExecuteUse
<1>2. /\ phase = "next" /\ a \in Seq(Frame) /\ Accounts(a, useStack, depth, scope, root)
      /\ Sequencer!Step \in Form /\ Sequencer!Step.k = "use"
  BY <1>1, StepTaken
<1>3. useStack \in Seq(Names) /\ scope \in Scopes /\ pending \in Targets /\ completed \in Int
  BY DEF RunInv, RunTyped
<1>4. root # NoSeq /\ wait = Sequencer!NoWait /\ wait.k = "none" /\ state \in States \ {"IDLE"} /\ (state = "RUNNING" \/ pending # "none")
  BY <1>2, Ticking
<1>5. CASE /\ stack' = a /\ Sequencer!Fails(Sequencer!NoWait, 0) /\ phase' = "poll" /\ UNCHANGED <<scope, useStack>>
  <2>1. /\ state' \in {state, "ERROR"} /\ pending' \in Targets /\ completed' \in Int /\ wait' = Sequencer!NoWait
    BY <1>5, Failing
  <2>2. state' \in States \ {"IDLE"} /\ wait'.k # "observe" /\ phase' \in Phases
    BY <1>4, <1>5, <2>1 DEF States, Phases, Sequencer!NoWait
  <2>3. stack' \in Seq(Frame) /\ Accounts(stack', useStack', depth', scope', root)
    BY <1>1, <1>2, <1>5
  <2> HIDE DEF a
  <2> QED
    BY <1>1, <1>3, <1>4, <1>5, <2>1, <2>2, <2>3, StackMoves
<1>6. CASE /\ stack' = Append(a, f) /\ scope' = b /\ useStack' = Append(useStack, b) /\ Sequencer!StepEnds
           /\ UNCHANGED <<state, wait, Sequencer!terminal>>
  <2>1. b \in Names
    BY <1>2 DEF Form, Sequencer!StepForms, Names
  <2>2. f \in Frame /\ Opens(f, "use") /\ ~Opens(f, "adaptive") /\ f.saved = scope
    BY <1>3, <2>1 DEF Sequencer!StepFrame, StepFrames, Frame, Exits, Opens
  <2>3. completed' = completed + 1 /\ phase' \in Phases /\ (phase' # "poll" => state = "RUNNING") /\ UNCHANGED <<state, wait, pending>>
    BY <1>6 DEF Sequencer!StepEnds, Sequencer!terminal, Phases
  <2> HIDE DEF a, b, f
  <2>4. Append(a, f) \in Seq(Frame) /\ Accounts(Append(a, f), Append(useStack, b), depth, b, root)
    BY <1>2, <1>3, <2>1, <2>2, AccountsPushed
  <2>5. stack' \in Seq(Frame) /\ Accounts(stack', useStack', depth', scope', root) /\ completed' \in Int
        /\ useStack' \in Seq(Names) /\ scope' \in Scopes
    BY <1>1, <1>3, <1>6, <2>1, <2>3, <2>4 DEF Scopes
  <2> QED
    BY <1>1, <1>3, <1>4, <2>3, <2>5, StackMoves
<1> QED
  BY <1>5, <1>6 DEF Sequencer!ExecuteUse, Sequencer!Raises

(* An exception out of tick(), with the stack as it was left. *)
LEMMA RaisesKept ==
  ASSUME Sequencer!WellFormed, RunInv,
         \/ Sequencer!ObservationRaises \/ Sequencer!TrialEndRaises \/ Sequencer!PassRaises \/ Sequencer!TrialRaises
         \/ Sequencer!StepRaises
  PROVE  RunInv'
<1> DEFINE top == TopOf(stack)
<1>0. /\ Sequencer!Fails(Sequencer!NoWait, 0) /\ phase' = "poll" /\ UNCHANGED <<root, depth, scope, useStack>>
  BY DEF Sequencer!ObservationRaises, Sequencer!TrialEndRaises, Sequencer!PassRaises, Sequencer!TrialRaises,
     Sequencer!StepRaises, Sequencer!Raises
<1>1. /\ stack \in Seq(Frame) /\ useStack \in Seq(Names) /\ scope \in Scopes
      /\ Accounts(stack, useStack, depth, scope, root)
  BY DEF RunInv, RunTyped
<1>2. ASSUME stack' \in Seq(Frame), Accounts(stack', useStack, depth, scope, root), root # NoSeq, state \in States \ {"IDLE"}
      PROVE  RunInv'
  <2>1. /\ state' \in {state, "ERROR"} /\ pending' \in Targets /\ completed' \in Int /\ wait' = Sequencer!NoWait
    BY <1>0, Failing
  <2>2. state' \in States \ {"IDLE"} /\ wait'.k # "observe" /\ phase' \in Phases
    BY <1>0, <1>2, <2>1 DEF States, Phases, Sequencer!NoWait
  <2> QED
    BY <1>0, <1>1, <1>2, <2>1, <2>2, StackMoves
<1>3. ASSUME phase = "next", stack # <<>>, NEW f \in Frame, Alike(top, f), stack' = Sequencer!SetTop(f)
      PROVE  RunInv'
  <2>1. stack' \in Seq(Frame) /\ Accounts(stack', useStack, depth, scope, root)
    BY <1>3, TopSet DEF Sequencer!SetTop
  <2> QED
    BY <1>2, <1>3, <2>1, Ticking
<1>4. ASSUME phase = "next", stack # <<>>
      PROVE  /\ root # NoSeq /\ state \in States \ {"IDLE"} /\ Sequencer!Top = top /\ top \in Frame
             /\ top.k \in {"loop", "while"} <=> top \in LoopFrames
             /\ top.k = "adaptive" <=> top \in StudyFrames
             /\ top.k = "steps" <=> top \in StepFrames
  BY <1>4, Ticking, TopTyped, FrameKinds
<1>5. CASE Sequencer!ObservationRaises
  <2>1. /\ state = "RUNNING" /\ wait.k = "observe" /\ stack' = Sequencer!TrialClosed(stack, wait.at)
    BY <1>5 DEF Sequencer!ObservationRaises, Sequencer!CanProceed
  <2>2. Len(stack) > 0 /\ wait.at = Len(stack) /\ TopOf(stack).k = "adaptive" /\ root # NoSeq
    BY <2>1 DEF RunInv, PhaseInv, TopOf
  <2>3. stack' \in Seq(Frame) /\ Accounts(stack', useStack, depth, scope, root)
    BY <1>1, <2>1, <2>2, TrialEnds
  <2> QED
    BY <1>2, <2>1, <2>2, <2>3 DEF States
<1>6. CASE Sequencer!TrialEndRaises
  <2> DEFINE p == Sequencer!Pop
             c == Sequencer!TrialClosed(p, Len(stack) - 1)
  <2>1. /\ phase = "next" /\ stack # <<>> /\ Sequencer!Top.k = "steps" /\ Sequencer!Top.exit = "adaptive" /\ stack' \in {p, c}
    BY <1>6 DEF Sequencer!TrialEndRaises, Sequencer!BlockOver, Sequencer!InNext
  <2>2. top.k = "steps" /\ top.exit = "adaptive" /\ Len(stack) \in Nat \ {0}
    BY <1>1, <1>4, <2>1
  <2>3. p \in Seq(Frame) /\ Accounts(p, useStack, depth, scope, root)
    BY <2>1, <2>2, TopPopped DEF Opens
  <2>4. Len(p) = Len(stack) - 1 /\ (\A j \in 1..Len(p) : p[j] = stack[j])
    BY <1>1, <2>1, Popped DEF Sequencer!Pop
  <2>5. Len(stack) > 1 /\ stack[Len(stack) - 1].k = "adaptive"
    BY <1>1, <2>2 DEF Accounts, Opens, TopOf
  <2>6. Len(p) \in Nat \ {0} /\ TopOf(p).k = "adaptive"
    <3> HIDE DEF p
    <3> QED
      BY <2>2, <2>4, <2>5 DEF TopOf
  <2>7. c = Sequencer!TrialClosed(p, Len(p))
    BY <2>4
  <2> HIDE DEF p, c
  <2>8. c \in Seq(Frame) /\ Accounts(c, useStack, depth, scope, root)
    BY <2>3, <2>6, <2>7, TrialEnds
  <2>9. stack' \in Seq(Frame) /\ Accounts(stack', useStack, depth, scope, root)
    BY <2>1, <2>3, <2>8
  <2> QED
    BY <1>2, <1>4, <2>1, <2>9
<1>7. CASE Sequencer!PassRaises
  <2> DEFINE f == [top EXCEPT !.left = @ - 1]
  <2>1. phase = "next" /\ stack # <<>> /\ Sequencer!Top.k \in {"loop", "while"}
    BY <1>7 DEF Sequencer!PassRaises, Sequencer!InNext
  <2>2. Sequencer!Top = top /\ top \in LoopFrames
    BY <1>4, <2>1
  <2>3. stack' = stack \/ (top.left > 0 /\ stack' = Sequencer!SetTop(f))
    BY <1>7, <2>2 DEF Sequencer!PassRaises
  <2>4. CASE stack' = stack
    BY <1>1, <1>2, <1>4, <2>1, <2>4
  <2>5. CASE top.left > 0 /\ stack' = Sequencer!SetTop(f)
    <3>1. f \in LoopFrames /\ Alike(top, f)
      BY <2>2, <2>5 DEF LoopFrames, Alike
    <3> HIDE DEF f, top
    <3>2. f \in Frame
      BY <3>1 DEF Frame
    <3> QED
      BY <1>3, <2>1, <2>5, <3>1, <3>2
  <2> QED
    BY <2>3, <2>4, <2>5
<1>8. CASE Sequencer!TrialRaises
  <2> DEFINE f == [top EXCEPT !.busy = TRUE]
  <2>1. phase = "next" /\ stack # <<>> /\ Sequencer!Top.k = "adaptive"
    BY <1>8 DEF Sequencer!TrialRaises, Sequencer!InNext
  <2>2. Sequencer!Top = top /\ top \in StudyFrames
    BY <1>4, <2>1
  <2>3. stack' = stack \/ stack' = Sequencer!SetTop(f)
    BY <1>8, <2>2 DEF Sequencer!TrialRaises
  <2>4. CASE stack' = stack
    BY <1>1, <1>2, <1>4, <2>1, <2>4
  <2>5. CASE stack' = Sequencer!SetTop(f)
    <3>1. f \in StudyFrames /\ Alike(top, f)
      BY <2>2 DEF StudyFrames, Alike
    <3> HIDE DEF f, top
    <3>2. f \in Frame
      BY <3>1 DEF Frame
    <3> QED
      BY <1>3, <2>1, <2>5, <3>1, <3>2
  <2> QED
    BY <2>3, <2>4, <2>5
<1>9. CASE Sequencer!StepRaises
  <2>1. \E kinds : Sequencer!Taking(kinds) /\ stack' = Sequencer!Advanced
    BY <1>9 DEF Sequencer!StepRaises
  <2>2. phase = "next" /\ stack # <<>> /\ stack' \in Seq(Frame) /\ Accounts(stack', useStack, depth, scope, root)
    BY <2>1, StepTaken
  <2> QED
    BY <1>2, <1>4, <2>2
<1> QED
  BY <1>5, <1>6, <1>7, <1>8, <1>9

(* Every step of the interpreter keeps the invariant. *)
LEMMA RunStep ==
  ASSUME Sequencer!WellFormed, RunInv, [Sequencer!Next]_Sequencer!vars
  PROVE  RunInv'
<1>1. CASE UNCHANGED Sequencer!vars
  BY <1>1 DEF Sequencer!vars, RunInv, RunTyped, PhaseInv
<1>2. CASE Sequencer!Rpc
  BY <1>2, BeginningsKept, CommandsKept DEF Sequencer!Rpc
<1>3. CASE Sequencer!Tick
  BY <1>3, BeginningsKept, WaitsKept, ObservationKept, LeavingKept, NextStepKept, StepsKept, BlocksKept, TryKept, UseKept,
     RaisesKept DEF Sequencer!Tick
<1> QED
  BY <1>1, <1>2, <1>3 DEF Sequencer!Next

(* The interpreter starts in the invariant. *)
LEMMA RunBegins ==
  ASSUME Sequencer!WellFormed, Sequencer!Init
  PROVE  RunInv
<1>1. RunTyped
  BY DEF Sequencer!Init, RunTyped, Scopes, States, Phases, Targets
<1>2. PhaseInv
  BY DEF Sequencer!Init, PhaseInv, Sequencer!NoWait
<1>3. Accounts(stack, useStack, depth, scope, root)
  BY EmptyAccounts DEF Sequencer!Init
<1> QED
  BY <1>1, <1>2, <1>3 DEF RunInv

(* Cardinality, inside the instance and here. *)
LEMMA SameCardinality ==
  ASSUME NEW S
  PROVE  Sequencer!Cardinality(S) = Cardinality(S)
BY Zenon DEF Sequencer!Cardinality, Cardinality

(* The invariant says what OpenBlocksAccounted says. *)
LEMMA RunAccounted ==
  ASSUME RunInv
  PROVE  Sequencer!OpenBlocksAccounted
<1> DEFINE with(e) == {j \in DOMAIN stack : stack[j].k = "steps" /\ stack[j].exit = e}
<1>1. stack \in Seq(Frame) /\ useStack \in Seq(Names) /\ Accounts(stack, useStack, depth, scope, root)
  BY DEF RunInv, RunTyped
<1>2. ASSUME NEW e PROVE Cardinality(with(e)) = Open(stack, Len(stack), e)
  <2>1. DOMAIN stack = 1..Len(stack)
    BY <1>1
  <2>2. with(e) = Opened(stack, Len(stack), e)
    BY <2>1 DEF Opened, Opens
  <2> QED
    BY <2>2 DEF Open
<1>3. depth = Cardinality(with("atomic")) /\ Len(useStack) = Cardinality(with("use"))
  <2> HIDE DEF with
  <2> QED
    BY <1>1, <1>2 DEF Accounts
<1>4. useStack = <<>> <=> Len(useStack) = 0
  BY <1>1, EmptySeq
<1>5. scope = IF useStack = <<>> THEN root ELSE useStack[Len(useStack)]
  BY <1>1, <1>4 DEF Accounts, Within
<1> QED
  BY <1>3, <1>5, SameCardinality DEF Sequencer!OpenBlocksAccounted

-----------------------------------------------------------------------------
(* The progress of a run whose step count is known *)

ExactFrame(f) == f.blk \in ExactBlocks /\ f.k \in {"steps", "loop", "try"}
Work(st) == Sequencer!SumTo([j \in 1..Len(st) |-> Sequencer!FrameCount(st[j])], Len(st))

(* The frames of a stack can all be counted, and n steps are left on it. *)
Planned(st, n) ==
    /\ st \in Seq(Frame) /\ n \in Int /\ Work(st) = n
    /\ \A j \in 1..Len(st) : ExactFrame(st[j])

PlanInv ==
    (Sequencer!Active /\ root \in ExactBlocks /\ pending = "none") =>
        Planned(stack, Sequencer!BlockCount[root] - completed - Sequencer!InFlight)

(* The count of an exact block from a step on. *)
LEMMA BlockSteps ==
  ASSUME Sequencer!WellFormed, NEW b \in ExactBlocks, NEW i \in Nat \ {0}
  PROVE  LET from(n) == Sequencer!CountFrom(Blocks[b], n, Sequencer!BlockCount)
         IN  /\ from(i) \in Int /\ from(i + 1) \in Int
             /\ from(1) = Sequencer!BlockCount[b] /\ Sequencer!BlockCount[b] \in Int
             /\ i > Len(Blocks[b]) => from(i) = 0
             /\ i \in 1..Len(Blocks[b]) =>
                  from(i) = Sequencer!StepCount(Blocks[b][i], Sequencer!BlockCount) + from(i + 1)
<1>1. /\ Blocks[b] \in Seq(Form) /\ Len(Blocks[b]) \in Nat
      /\ \A j \in 1..Len(Blocks[b]) : Sequencer!Bodies(Blocks[b][j]) \subseteq ExactBlocks
  BY ExactBlock
<1>2. \A j \in 1..Len(Blocks[b]) : \A c \in Sequencer!Bodies(Blocks[b][j]) : Sequencer!BlockCount[c] \in Int
  BY <1>1, BlocksCounted
<1>3. /\ Sequencer!CountFrom(Blocks[b], i, Sequencer!BlockCount) \in Int
      /\ i > Len(Blocks[b]) => Sequencer!CountFrom(Blocks[b], i, Sequencer!BlockCount) = 0
      /\ i <= Len(Blocks[b]) => Sequencer!CountFrom(Blocks[b], i, Sequencer!BlockCount)
           = Sequencer!StepCount(Blocks[b][i], Sequencer!BlockCount) + Sequencer!CountFrom(Blocks[b], i + 1, Sequencer!BlockCount)
  BY <1>1, <1>2, CountSteps
<1>4. Sequencer!CountFrom(Blocks[b], i + 1, Sequencer!BlockCount) \in Int
  BY <1>1, <1>2, CountSteps
<1>5. i \in 1..Len(Blocks[b]) => i <= Len(Blocks[b])
  BY <1>1
<1> QED
  BY <1>3, <1>4, <1>5, BlocksCounted

(* What a frame of an exact block counts for. *)
LEMMA FrameCounted ==
  ASSUME Sequencer!WellFormed, NEW f \in Frame, ExactFrame(f)
  PROVE  /\ Sequencer!FrameCount(f) \in Int
         /\ f.k = "steps" => f \in StepFrames /\ f.i \in Nat \ {0}
              /\ Sequencer!FrameCount(f) = Sequencer!CountFrom(Blocks[f.blk], f.i, Sequencer!BlockCount)
         /\ f.k = "loop" => f \in LoopFrames /\ f.left \in Nat /\ Sequencer!FrameCount(f) = f.left * Sequencer!BlockCount[f.blk]
         /\ f.k = "try" => f \in TryFrames /\ f.finalizing \in BOOLEAN
              /\ Sequencer!FrameCount(f) = IF f.finalizing THEN 0 ELSE Sequencer!BlockCount[f.blk]
<1>1. f.blk \in ExactBlocks /\ f.k \in {"steps", "loop", "try"}
  BY DEF ExactFrame
<1>2. Sequencer!BlockCount[f.blk] \in Int
  BY <1>1, BlocksCounted
<1>3. CASE f.k = "steps"
  <2>1. f \in StepFrames
    BY <1>3, FrameKinds
  <2>2. f.i \in Nat \ {0}
    BY <2>1 DEF StepFrames
  <2>3. Sequencer!CountFrom(Blocks[f.blk], f.i, Sequencer!BlockCount) \in Int
    BY <1>1, <2>2, BlockSteps
  <2>4. Sequencer!FrameCount(f) = Sequencer!CountFrom(Blocks[f.blk], f.i, Sequencer!BlockCount)
    BY <1>3 DEF Sequencer!FrameCount, Sequencer!Steps
  <2> QED
    BY <1>3, <2>1, <2>2, <2>3, <2>4
<1>4. CASE f.k = "loop"
  <2>1. f \in LoopFrames
    BY <1>4, FrameKinds
  <2>2. f.left \in Nat
    BY <2>1 DEF LoopFrames
  <2>3. Sequencer!FrameCount(f) = f.left * Sequencer!BlockCount[f.blk]
    BY <1>4 DEF Sequencer!FrameCount
  <2>4. f.left * Sequencer!BlockCount[f.blk] \in Int
    BY <1>2, <2>2
  <2> QED
    BY <1>4, <2>1, <2>2, <2>3, <2>4
<1>5. CASE f.k = "try"
  <2>1. f \in TryFrames
    BY <1>5, FrameKinds
  <2>2. f.finalizing \in BOOLEAN
    BY <2>1 DEF TryFrames
  <2>3. Sequencer!FrameCount(f) = IF f.finalizing THEN 0 ELSE Sequencer!BlockCount[f.blk]
    BY <1>5 DEF Sequencer!FrameCount
  <2> QED
    BY <1>2, <1>5, <2>1, <2>2, <2>3
<1> QED
  BY <1>1, <1>3, <1>4, <1>5

(* The work of a stack with one more frame. *)
LEMMA WorkPushed ==
  ASSUME Sequencer!WellFormed, NEW st \in Seq(Frame), NEW f \in Frame, ExactFrame(f), \A j \in 1..Len(st) : ExactFrame(st[j])
  PROVE  /\ Work(st) \in Int
         /\ Planned(Append(st, f), Work(st) + Sequencer!FrameCount(f))
<1> DEFINE q == Append(st, f)
           n == Len(st)
           u == [j \in 1..Len(q) |-> Sequencer!FrameCount(q[j])]
           v == [j \in 1..n |-> Sequencer!FrameCount(st[j])]
<1>1. /\ n \in Nat /\ q \in Seq(Frame) /\ Len(q) = n + 1 /\ q[n + 1] = f /\ (\A j \in 1..n : q[j] = st[j] /\ st[j] \in Frame)
      /\ \A j \in 1..(n + 1) : j \in 1..n \/ j = n + 1
  OBVIOUS
<1> HIDE DEF q
<1>2. \A j \in 1..(n + 1) : q[j] \in Frame /\ ExactFrame(q[j])
  BY <1>1
<1>3. \A j \in 1..(n + 1) : Sequencer!FrameCount(q[j]) \in Int
  BY <1>2, FrameCounted
<1>4. \A j \in 1..(n + 1) : u[j] = Sequencer!FrameCount(q[j])
  BY <1>1
<1>5. \A j \in 1..n : v[j] = Sequencer!FrameCount(q[j]) /\ j \in 1..(n + 1)
  BY <1>1
<1>6. Work(q) = Sequencer!SumTo(u, n + 1) /\ Work(st) = Sequencer!SumTo(v, n)
  BY <1>1 DEF Work
<1> HIDE DEF u, v, n
<1>7. (\A j \in 1..(n + 1) : u[j] \in Int) /\ (\A j \in 1..n : v[j] = u[j] /\ v[j] \in Int)
  BY <1>3, <1>4, <1>5
<1>8. Sequencer!SumTo(u, n + 1) = Sequencer!SumTo(v, n) + u[n + 1]
  BY <1>1, <1>7, SumNext
<1>9. Sequencer!SumTo(v, n) \in Int
  BY <1>1, <1>7, SumInt
<1>10. n + 1 \in 1..(n + 1)
  BY <1>1
<1>11. u[n + 1] = Sequencer!FrameCount(f) /\ u[n + 1] \in Int
  BY <1>1, <1>4, <1>7, <1>10
<1>12. Work(q) = Work(st) + Sequencer!FrameCount(f) /\ Work(q) \in Int /\ Work(st) \in Int
  BY <1>6, <1>8, <1>9, <1>11
<1> QED
  BY <1>1, <1>2, <1>12 DEF Planned, q

(* A planned stack with one more frame. *)
LEMMA PlanPushed ==
  ASSUME Sequencer!WellFormed, NEW st, NEW n, Planned(st, n), NEW f \in Frame, ExactFrame(f)
  PROVE  Planned(Append(st, f), n + Sequencer!FrameCount(f))
<1>1. st \in Seq(Frame) /\ Work(st) = n /\ \A j \in 1..Len(st) : ExactFrame(st[j])
  BY DEF Planned
<1> QED
  BY <1>1, WorkPushed

(* A stack is its lower frames and the one on top. *)
LEMMA TopIsLast ==
  ASSUME NEW st \in Seq(Frame), st # <<>>
  PROVE  LET p == SubSeq(st, 1, Len(st) - 1)
         IN  /\ p \in Seq(Frame) /\ st = Append(p, TopOf(st)) /\ TopOf(st) \in Frame
             /\ \A f \in Frame : [st EXCEPT ![Len(st)] = f] = Append(p, f)
<1> DEFINE p == SubSeq(st, 1, Len(st) - 1)
<1>1. /\ Len(st) - 1 \in Nat /\ p \in Seq(Frame) /\ Len(p) = Len(st) - 1 /\ \A j \in 1..(Len(st) - 1) : p[j] = st[j]
  BY Popped
<1>2. Len(st) \in Nat /\ TopOf(st) \in Frame
  BY <1>1 DEF TopOf
<1> HIDE DEF p
<1>3. ASSUME NEW f \in Frame PROVE [st EXCEPT ![Len(st)] = f] = Append(p, f)
  <2> DEFINE x == [st EXCEPT ![Len(st)] = f]
             y == Append(p, f)
  <2>1. x \in Seq(Frame) /\ Len(x) = Len(st) /\ \A j \in 1..Len(st) : x[j] = IF j = Len(st) THEN f ELSE st[j]
    BY <1>1, <1>2
  <2>2. y \in Seq(Frame) /\ Len(y) = Len(p) + 1 /\ (\A j \in 1..Len(p) : y[j] = p[j]) /\ y[Len(p) + 1] = f
    BY <1>1
  <2> HIDE DEF x, y
  <2>3. Len(x) = Len(y) /\ \A j \in 1..Len(x) : x[j] = y[j]
    <3>1. Len(x) = Len(y)
      BY <1>1, <1>2, <2>1, <2>2
    <3>2. ASSUME NEW j \in 1..Len(x) PROVE x[j] = y[j]
      <4>1. j = Len(st) \/ j \in 1..(Len(st) - 1)
        BY <1>2, <2>1
      <4> QED
        BY <1>1, <1>2, <2>1, <2>2, <4>1
    <3> QED
      BY <3>1, <3>2
  <2>4. x = y
    BY <2>1, <2>2, <2>3, SeqEqual
  <2> QED
    BY <2>4 DEF x, y
<1>4. [st EXCEPT ![Len(st)] = TopOf(st)] = st
  BY <1>1, <1>2 DEF TopOf
<1> QED
  BY <1>1, <1>2, <1>3, <1>4 DEF p

(* A planned stack without the frame on top. *)
LEMMA PlanPopped ==
  ASSUME Sequencer!WellFormed, NEW st, NEW n, Planned(st, n), st # <<>>
  PROVE  LET p == SubSeq(st, 1, Len(st) - 1)
         IN  /\ Planned(p, n - Sequencer!FrameCount(TopOf(st))) /\ ExactFrame(TopOf(st)) /\ TopOf(st) \in Frame
             /\ \A f \in Frame : [st EXCEPT ![Len(st)] = f] = Append(p, f)
<1> DEFINE p == SubSeq(st, 1, Len(st) - 1)
           t == TopOf(st)
<1>1. st \in Seq(Frame) /\ n \in Int /\ Work(st) = n /\ \A j \in 1..Len(st) : ExactFrame(st[j])
  BY DEF Planned
<1>2. /\ p \in Seq(Frame) /\ st = Append(p, t) /\ t \in Frame
      /\ \A f \in Frame : [st EXCEPT ![Len(st)] = f] = Append(p, f)
  BY <1>1, TopIsLast
<1>3. /\ Len(st) - 1 \in Nat /\ Len(p) = Len(st) - 1 /\ \A j \in 1..(Len(st) - 1) : p[j] = st[j]
  BY <1>1, Popped
<1>4. Len(st) \in Nat
  BY <1>1
<1> HIDE DEF p
<1>5. \A j \in 1..Len(p) : ExactFrame(p[j])
  BY <1>1, <1>3, <1>4
<1>6. ExactFrame(t)
  BY <1>1, <1>3, <1>4 DEF TopOf
<1> HIDE DEF t
<1>7. Work(p) \in Int /\ Planned(Append(p, t), Work(p) + Sequencer!FrameCount(t))
  BY <1>2, <1>5, <1>6, WorkPushed
<1>8. Work(st) = Work(p) + Sequencer!FrameCount(t)
  BY <1>2, <1>7 DEF Planned
<1>9. Sequencer!FrameCount(t) \in Int
  BY <1>2, <1>6, FrameCounted
<1>10. Work(p) = n - Sequencer!FrameCount(t)
  BY <1>1, <1>7, <1>8, <1>9
<1>11. Planned(p, n - Sequencer!FrameCount(t))
  BY <1>2, <1>5, <1>7, <1>10 DEF Planned
<1> QED
  BY <1>2, <1>6, <1>11 DEF p, t

(* The plan is kept where the stack stands. *)
LEMMA PlanStands ==
  ASSUME PlanInv, UNCHANGED <<root, stack>>,
         Sequencer!Active' /\ pending' = "none" =>
             /\ Sequencer!Active /\ pending = "none"
             /\ Sequencer!BlockCount[root] - completed' - Sequencer!InFlight'
                  = Sequencer!BlockCount[root] - completed - Sequencer!InFlight
  PROVE  PlanInv'
  BY DEF PlanInv

(* Nothing is in flight. *)
LEMMA InFlightNow ==
  ASSUME wait' = Sequencer!NoWait
  PROVE  Sequencer!InFlight' = 0
  BY DEF Sequencer!InFlight

(* Commands, faults, stops and pauses between ticks leave the progress as it *)
(* is.                                                                       *)
LEMMA PlanCommands ==
  ASSUME Sequencer!WellFormed, RunInv, PlanInv,
         \/ Sequencer!RequestPause \/ Sequencer!Resume \/ Sequencer!RequestStop \/ Sequencer!ExternalFault
         \/ Sequencer!FinishPending \/ Sequencer!HonourStop \/ Sequencer!HonourPause
         \/ Sequencer!EnterLoop \/ Sequencer!Continue
  PROVE  PlanInv'
<1>1. UNCHANGED <<root, stack>>
  BY DEF Sequencer!RequestPause, Sequencer!Resume, Sequencer!RequestStop, Sequencer!ExternalFault, Sequencer!Fail,
         Sequencer!FinishPending, Sequencer!HonourStop, Sequencer!HonourPause, Sequencer!EnterLoop, Sequencer!Continue,
         Sequencer!control
<1>2. ASSUME UNCHANGED <<completed, wait, pending>>, Sequencer!Active' => Sequencer!Active PROVE PlanInv'
  BY <1>1, <1>2, PlanStands DEF Sequencer!InFlight
<1>3. ASSUME ~Sequencer!Active' \/ pending' # "none" PROVE PlanInv'
  BY <1>3 DEF PlanInv
<1>4. CASE Sequencer!RequestPause \/ Sequencer!Resume \/ Sequencer!RequestStop \/ Sequencer!HonourPause \/ Sequencer!EnterLoop
           \/ Sequencer!Continue
  <2>1. UNCHANGED <<completed, wait, pending>> /\ (Sequencer!Active' => Sequencer!Active)
    BY <1>4 DEF Sequencer!RequestPause, Sequencer!Resume, Sequencer!RequestStop, Sequencer!HonourPause, Sequencer!EnterLoop,
       Sequencer!Continue, Sequencer!control, Sequencer!terminal, Sequencer!Active
  <2> QED
    BY <1>2, <2>1
<1>5. CASE Sequencer!ExternalFault
  <2>1. state = "RUNNING" /\ Sequencer!Fail
    BY <1>5 DEF Sequencer!ExternalFault
  <2>2. \/ UNCHANGED <<completed, wait, pending>> \/ ~Sequencer!Active' \/ pending' # "none"
    BY <2>1 DEF Sequencer!Fail, Sequencer!BeginUnwind, Sequencer!Active, Sequencer!terminal
  <2>3. Sequencer!Active
    BY <2>1 DEF Sequencer!Active
  <2> QED
    BY <1>2, <1>3, <2>2, <2>3
<1>6. CASE Sequencer!FinishPending
  <2>1. pending # "none" /\ state' = (IF cleanupFailed THEN "ERROR" ELSE pending) /\ pending \in Targets
    BY <1>6 DEF Sequencer!FinishPending, RunInv, RunTyped
  <2>2. ~Sequencer!Active'
    BY <2>1 DEF Sequencer!Active, Targets
  <2> QED
    BY <1>3, <2>2
<1>7. CASE Sequencer!HonourStop
  <2>1. state = "RUNNING" /\ (pending' # "none" \/ state' = "STOPPED")
    BY <1>7 DEF Sequencer!HonourStop, Sequencer!BeginUnwind, Sequencer!terminal
  <2>2. ~Sequencer!Active' \/ pending' # "none"
    BY <2>1 DEF Sequencer!Active
  <2> QED
    BY <1>3, <2>2
<1> QED
  BY <1>4, <1>5, <1>6, <1>7

(* A step that fails ends the plan. *)
LEMMA PlanFails ==
  ASSUME NEW w, NEW n, Sequencer!Fails(w, n)
  PROVE  PlanInv'
<1>1. ~Sequencer!Active' \/ pending' # "none"
  BY DEF Sequencer!Fails, Sequencer!BeginUnwind, Sequencer!Active, Sequencer!terminal
<1> QED
  BY <1>1 DEF PlanInv

(* A step in flight is completed, or fails and ends the plan. *)
LEMMA PlanWaits ==
  ASSUME Sequencer!WellFormed, RunInv, PlanInv,
         \/ Sequencer!SleepEnds \/ Sequencer!WaitUntilEnds \/ Sequencer!WaitRaises \/ Sequencer!ContextAcknowledged
         \/ Sequencer!ParallelJoined \/ Sequencer!ObservationEnds
  PROVE  PlanInv'
<1>1. ASSUME Sequencer!CanProceed, Sequencer!WaitOver, wait.k # "none" PROVE PlanInv'
  <2>1. /\ UNCHANGED <<root, stack, state, pending>> /\ wait' = Sequencer!NoWait /\ completed' = completed + 1
    BY <1>1 DEF Sequencer!WaitOver, Sequencer!terminal
  <2>2. Sequencer!InFlight' = 0
    BY <2>1, InFlightNow
  <2>3. Sequencer!InFlight = 1
    BY <1>1 DEF Sequencer!InFlight, Sequencer!NoWait
  <2>4. Sequencer!Active' => Sequencer!Active
    BY <2>1 DEF Sequencer!Active
  <2>5. root \in ExactBlocks => Sequencer!BlockCount[root] \in Int
    BY BlocksCounted
  <2>6. completed \in Int
    BY DEF RunInv, RunTyped
  <2>7. root \in ExactBlocks => Sequencer!BlockCount[root] - completed' - Sequencer!InFlight'
             = Sequencer!BlockCount[root] - completed - Sequencer!InFlight
    BY <2>1, <2>2, <2>3, <2>5, <2>6
  <2>8. CASE root \in ExactBlocks
    BY <2>1, <2>4, <2>7, <2>8, PlanStands
  <2>9. CASE root \notin ExactBlocks
    BY <2>1, <2>9 DEF PlanInv
  <2> QED
    BY <2>8, <2>9
<1>2. ASSUME Sequencer!WaitFailed PROVE PlanInv'
  BY <1>2, PlanFails DEF Sequencer!WaitFailed, Sequencer!StepFails
<1>3. CASE Sequencer!SleepEnds \/ Sequencer!WaitUntilEnds \/ Sequencer!ContextAcknowledged \/ Sequencer!ParallelJoined
  BY <1>1, <1>2, <1>3 DEF Sequencer!SleepEnds, Sequencer!WaitUntilEnds, Sequencer!ContextAcknowledged, Sequencer!ParallelJoined
<1>4. CASE Sequencer!WaitRaises
  BY <1>4, PlanFails DEF Sequencer!WaitRaises, Sequencer!Raises
<1>5. CASE Sequencer!ObservationEnds
  <2>1. /\ state = "RUNNING" /\ wait.k = "observe" /\ UNCHANGED <<root, pending>>
    BY <1>5 DEF Sequencer!ObservationEnds, Sequencer!CanProceed, Sequencer!control, Sequencer!terminal
  <2>2. Len(stack) > 0 /\ stack[Len(stack)].k = "adaptive" /\ stack \in Seq(Frame)
    BY <2>1 DEF RunInv, PhaseInv, RunTyped
  <2>3. Len(stack) \in 1..Len(stack)
    BY <2>2
  <2>4. ~(root \in ExactBlocks /\ pending = "none")
    BY <2>1, <2>2, <2>3 DEF PlanInv, Planned, ExactFrame, Sequencer!Active
  <2> QED
    BY <2>1, <2>4 DEF PlanInv
<1> QED
  BY <1>3, <1>4, <1>5

(* The plan of a run that begins is the count of its sequence. *)
LEMMA FreshPlan ==
  ASSUME Sequencer!WellFormed, NEW b \in ExactBlocks
  PROVE  Planned(<<Sequencer!StepFrame(b, "none", FALSE, b)>>, Sequencer!BlockCount[b])
<1> DEFINE f == Sequencer!StepFrame(b, "none", FALSE, b)
<1>1. b \in Names /\ Sequencer!BlockCount[b] \in Int /\ Sequencer!CountFrom(Blocks[b], 1, Sequencer!BlockCount) = Sequencer!BlockCount[b]
  BY ExactBlock, BlocksCounted
<1>2. f \in StepFrames /\ f.k = "steps" /\ f.blk = b /\ f.i = 1
  BY <1>1 DEF Sequencer!StepFrame, StepFrames, Exits, Scopes
<1>3. f \in Frame /\ ExactFrame(f)
  BY <1>2 DEF Frame, ExactFrame
<1> HIDE DEF f
<1>4. Sequencer!FrameCount(f) = Sequencer!BlockCount[b]
  BY <1>1, <1>2, <1>3, FrameCounted
<1>5. Work(<<>>) = 0
  <2> DEFINE u == [j \in 1..Len(<<>>) |-> Sequencer!FrameCount(<<>>[j])]
  <2>1. Work(<<>>) = Sequencer!SumTo(u, 0)
    BY DEF Work
  <2> HIDE DEF u
  <2> QED
    BY <2>1, SumEmpty
<1>6. <<>> \in Seq(Frame) /\ (\A j \in 1..Len(<<>>) : ExactFrame(<<>>[j])) /\ <<f>> = Append(<<>>, f)
  OBVIOUS
<1>7. Planned(Append(<<>>, f), Work(<<>>) + Sequencer!FrameCount(f))
  BY <1>3, <1>6, WorkPushed
<1>8. Work(<<>>) + Sequencer!FrameCount(f) = Sequencer!BlockCount[b]
  BY <1>1, <1>4, <1>5
<1> QED
  BY <1>6, <1>7, <1>8 DEF f

(* load, start, a refused start and the next run loop begin a plan or none. *)
LEMMA PlanBegins ==
  ASSUME Sequencer!WellFormed, RunInv, PlanInv,
         \/ \E r \in Roots : Sequencer!Load(r)
         \/ \E n \in {1, 2, -1} : Sequencer!Start(n)
         \/ Sequencer!StartRefused \/ Sequencer!RunEnds
  PROVE  PlanInv'
<1>1. ASSUME ~Sequencer!Active' PROVE PlanInv'
  BY <1>1 DEF PlanInv
<1>2. ASSUME UNCHANGED root, stack' = <<Sequencer!StepFrame(root, "none", FALSE, root)>>, completed' = 0,
             wait' = Sequencer!NoWait
      PROVE  PlanInv'
  <2>1. CASE root \in ExactBlocks
    <3>1. Planned(stack', Sequencer!BlockCount[root]) /\ Sequencer!BlockCount[root] \in Int
      BY <1>2, <2>1, FreshPlan, BlocksCounted
    <3>2. Sequencer!InFlight' = 0
      BY <1>2, InFlightNow
    <3>3. Sequencer!BlockCount[root] - completed' - Sequencer!InFlight' = Sequencer!BlockCount[root]
      BY <1>2, <3>1, <3>2
    <3> QED
      BY <1>2, <3>1, <3>3 DEF PlanInv
  <2>2. CASE root \notin ExactBlocks
    BY <1>2, <2>2 DEF PlanInv
  <2> QED
    BY <2>1, <2>2
<1>3. CASE \E r \in Roots : Sequencer!Load(r)
  <2>1. ~Sequencer!Active'
    BY <1>3 DEF Sequencer!Load, Sequencer!Active
  <2> QED
    BY <1>1, <2>1
<1>4. CASE \E n \in {1, 2, -1} : Sequencer!Start(n)
  <2>1. UNCHANGED root /\ stack' = <<Sequencer!StepFrame(root, "none", FALSE, root)>> /\ completed' = 0 /\ wait' = Sequencer!NoWait
    BY <1>4 DEF Sequencer!Start
  <2> QED
    BY <1>2, <2>1
<1>5. CASE Sequencer!StartRefused
  <2>1. ~Sequencer!Active'
    BY <1>5 DEF Sequencer!StartRefused, Sequencer!Active
  <2> QED
    BY <1>1, <2>1
<1>6. CASE Sequencer!RunEnds
  <2>0. phase = "next" /\ UNCHANGED <<root, wait>>
    BY <1>6 DEF Sequencer!RunEnds
  <2>1. wait' = Sequencer!NoWait
    BY <2>0, Ticking
  <2>2. CASE loopsLeft = -1 \/ loopsLeft > 1
    <3>1. stack' = <<Sequencer!StepFrame(root, "none", FALSE, root)>> /\ completed' = 0
      BY <1>6, <2>2 DEF Sequencer!RunEnds
    <3> QED
      BY <1>2, <2>0, <2>1, <3>1
  <2>3. CASE ~(loopsLeft = -1 \/ loopsLeft > 1)
    <3>1. ~Sequencer!Active'
      BY <1>6, <2>3 DEF Sequencer!RunEnds, Sequencer!Active
    <3> QED
      BY <1>1, <3>1
  <2> QED
    BY <2>2, <2>3
<1> QED
  BY <1>3, <1>4, <1>5, <1>6

(* Inside a tick of a run with a plan. *)
LEMMA PlanTicks ==
  ASSUME Sequencer!WellFormed, RunInv, PlanInv, phase = "next", stack # <<>>, pending = "none", root \in ExactBlocks
  PROVE  LET left == Sequencer!BlockCount[root] - completed
             p == Sequencer!Pop
             top == TopOf(stack)
         IN  /\ wait = Sequencer!NoWait /\ left \in Int /\ completed \in Int /\ Sequencer!BlockCount[root] \in Int
             /\ Sequencer!Top = top /\ top \in Frame /\ ExactFrame(top) /\ Sequencer!FrameCount(top) \in Int
             /\ Planned(p, left - Sequencer!FrameCount(top))
             /\ \A f \in Frame : Sequencer!SetTop(f) = Append(p, f)
<1>1. wait = Sequencer!NoWait /\ state = "RUNNING"
  BY Ticking
<1>2. completed \in Int /\ Sequencer!BlockCount[root] \in Int
  BY BlocksCounted DEF RunInv, RunTyped
<1>3. Sequencer!InFlight = 0 /\ Sequencer!Active
  BY <1>1 DEF Sequencer!InFlight, Sequencer!Active
<1>4. Sequencer!BlockCount[root] - completed - Sequencer!InFlight = Sequencer!BlockCount[root] - completed
  BY <1>2, <1>3
<1>5. Planned(stack, Sequencer!BlockCount[root] - completed)
  BY <1>3, <1>4 DEF PlanInv
<1> DEFINE left == Sequencer!BlockCount[root] - completed
<1>6. left \in Int
  BY <1>2
<1>7. Planned(stack, left)
  BY <1>5
<1> HIDE DEF left
<1>8. /\ Planned(Sequencer!Pop, left - Sequencer!FrameCount(TopOf(stack))) /\ ExactFrame(TopOf(stack)) /\ TopOf(stack) \in Frame
      /\ \A f \in Frame : Sequencer!SetTop(f) = Append(Sequencer!Pop, f)
  BY <1>7, PlanPopped DEF Sequencer!Pop, Sequencer!SetTop
<1>9. Sequencer!FrameCount(TopOf(stack)) \in Int
  BY <1>8, FrameCounted
<1>10. Sequencer!Top = TopOf(stack)
  BY DEF Sequencer!Top, TopOf
<1> QED
  BY <1>1, <1>2, <1>6, <1>8, <1>9, <1>10 DEF left

(* What is left on the stack when a frame is put on the others. *)
LEMMA OnTop ==
  ASSUME Sequencer!WellFormed, NEW p, NEW n \in Int, NEW c \in Int, Planned(p, n - c), NEW f \in Frame, ExactFrame(f)
  PROVE  /\ Sequencer!FrameCount(f) \in Int
         /\ Planned(Append(p, f), n - c + Sequencer!FrameCount(f))
         /\ Sequencer!FrameCount(f) = c => Planned(Append(p, f), n)
<1>1. Planned(Append(p, f), (n - c) + Sequencer!FrameCount(f))
  BY PlanPushed
<1>2. Sequencer!FrameCount(f) \in Int
  BY FrameCounted
<1>3. Sequencer!FrameCount(f) = c => (n - c) + Sequencer!FrameCount(f) = n
  BY <1>2
<1> QED
  BY <1>1, <1>2, <1>3

(* A step that completes none and leaves the work as it is. *)
LEMMA PlanKeeps ==
  ASSUME UNCHANGED <<root, pending, completed>>, wait' = Sequencer!NoWait,
         Sequencer!BlockCount[root] - completed \in Int, Planned(stack', Sequencer!BlockCount[root] - completed)
  PROVE  PlanInv'
<1>1. Sequencer!InFlight' = 0
  BY InFlightNow
<1>2. Sequencer!BlockCount[root'] - completed' - Sequencer!InFlight' = Sequencer!BlockCount[root] - completed
  BY <1>1
<1> QED
  BY <1>2 DEF PlanInv

(* A block that is left was spent: nothing was left in it. *)
LEMMA PlanLeaves ==
  ASSUME Sequencer!WellFormed, RunInv, PlanInv, Sequencer!LeaveBlock
  PROVE  PlanInv'
<1>1. phase = "next" /\ stack # <<>> /\ UNCHANGED <<root, pending, completed>> /\ Sequencer!Top.k = "steps"
  BY DEF Sequencer!LeaveBlock, Sequencer!BlockOver, Sequencer!InNext, Sequencer!terminal
<1>2. SUFFICES ASSUME pending = "none", root \in ExactBlocks PROVE PlanInv'
  BY <1>1 DEF PlanInv
<1> DEFINE left == Sequencer!BlockCount[root] - completed
           p == Sequencer!Pop
           top == TopOf(stack)
<1>3. /\ wait = Sequencer!NoWait /\ left \in Int
      /\ Sequencer!Top = top /\ top \in Frame /\ ExactFrame(top) /\ Planned(p, left - Sequencer!FrameCount(top))
  BY <1>1, <1>2, PlanTicks
<1>4. top.k = "steps" /\ Sequencer!Spent(top)
  BY <1>2, <1>3 DEF Sequencer!LeaveBlock, Sequencer!BlockOver, Sequencer!Normally
<1>5. top \in StepFrames /\ top.i \in Nat \ {0}
      /\ Sequencer!FrameCount(top) = Sequencer!CountFrom(Blocks[top.blk], top.i, Sequencer!BlockCount)
  BY <1>3, <1>4, FrameCounted
<1>6. top.i > Len(Blocks[top.blk]) /\ top.blk \in ExactBlocks
  BY <1>3, <1>4 DEF Sequencer!Spent, Sequencer!Steps, ExactFrame
<1>7. Sequencer!FrameCount(top) = 0
  BY <1>5, <1>6, BlockSteps
<1> HIDE DEF left
<1>8. Planned(p, left)
  <2>1. left - Sequencer!FrameCount(top) = left
    BY <1>3, <1>7
  <2> QED
    BY <1>3, <2>1
<1>9. top.exit # "adaptive"
  <2>1. Accounts(stack, useStack, depth, scope, root) /\ stack \in Seq(Frame)
    BY DEF RunInv, RunTyped
  <2>2. Len(stack) \in 1..Len(stack) /\ (Len(stack) > 1 => Len(stack) - 1 \in 1..Len(stack))
    BY <1>1, TopTyped DEF RunInv, RunTyped
  <2>3. top.exit = "adaptive" => Len(stack) > 1 /\ stack[Len(stack) - 1].k = "adaptive"
    BY <1>4, <2>1, <2>2 DEF Accounts, Opens, TopOf
  <2>4. \A j \in 1..Len(stack) : ExactFrame(stack[j])
    <3>1. Sequencer!Active
      BY <1>1, <1>2, Ticking DEF Sequencer!Active
    <3> QED
      BY <1>2, <3>1 DEF PlanInv, Planned
  <2> QED
    BY <2>2, <2>3, <2>4 DEF ExactFrame
<1>10. stack' = p /\ UNCHANGED wait
  <2>1. top.exit \in Exits
    BY <1>5 DEF StepFrames
  <2>2. top.exit = "none" \/ top.exit = "atomic" \/ top.exit = "use"
    BY <1>9, <2>1 DEF Exits
  <2> HIDE DEF top
  <2> QED
    BY <1>3, <2>2 DEF Sequencer!LeaveBlock, Sequencer!BlockOver
<1> HIDE DEF p, top
<1> QED
  BY <1>1, <1>3, <1>8, <1>10, PlanKeeps DEF left

(* _next_step: a disabled step counts for nothing, a pass and a finally body *)
(* were counted by their frame.                                              *)
LEMMA PlanMoves ==
  ASSUME Sequencer!WellFormed, RunInv, PlanInv,
         Sequencer!SkipDisabled \/ Sequencer!NextPass \/ Sequencer!NextTry \/ Sequencer!NextTrial \/ Sequencer!Discard
  PROVE  PlanInv'
<1>1. /\ phase = "next" /\ stack # <<>> /\ UNCHANGED <<root, scope, wait, pending, completed>>
  BY DEF Sequencer!SkipDisabled, Sequencer!NextPass, Sequencer!NextTry, Sequencer!NextTrial, Sequencer!Discard,
         Sequencer!InNext, Sequencer!control, Sequencer!terminal
<1>2. SUFFICES ASSUME pending = "none", root \in ExactBlocks PROVE PlanInv'
  BY <1>1 DEF PlanInv
<1> DEFINE left == Sequencer!BlockCount[root] - completed
           p == Sequencer!Pop
           top == TopOf(stack)
           c == Sequencer!FrameCount(top)
<1>3. /\ wait = Sequencer!NoWait /\ left \in Int /\ c \in Int
      /\ Sequencer!Top = top /\ top \in Frame /\ ExactFrame(top) /\ Planned(p, left - c)
      /\ \A f \in Frame : Sequencer!SetTop(f) = Append(p, f)
  BY <1>1, <1>2, PlanTicks
<1> HIDE DEF left, p, top, c
<1>4. ASSUME Planned(stack', left) PROVE PlanInv'
  BY <1>1, <1>3, <1>4, PlanKeeps DEF left
<1>5. ASSUME stack' = p, c = 0 PROVE PlanInv'
  <2>1. left - c = left
    BY <1>3, <1>5
  <2> QED
    BY <1>3, <1>4, <1>5, <2>1
<1>6. ASSUME NEW f \in Frame, ExactFrame(f), stack' = Sequencer!SetTop(f), Sequencer!FrameCount(f) = c PROVE PlanInv'
  <2>1. Planned(Append(p, f), left)
    BY <1>3, <1>6, OnTop
  <2> QED
    BY <1>3, <1>4, <1>6, <2>1
<1>7. ASSUME NEW f \in Frame, ExactFrame(f), NEW g \in Frame, ExactFrame(g), stack' = Append(Sequencer!SetTop(f), g),
             Sequencer!FrameCount(f) + Sequencer!FrameCount(g) = c
      PROVE  PlanInv'
  <2>1. Planned(Append(p, f), left - c + Sequencer!FrameCount(f)) /\ Sequencer!FrameCount(f) \in Int
    BY <1>3, <1>7, OnTop
  <2>2. Planned(Append(Append(p, f), g), left - c + Sequencer!FrameCount(f) + Sequencer!FrameCount(g))
    BY <1>7, <2>1, PlanPushed
  <2>3. Sequencer!FrameCount(g) \in Int
    BY <1>7, FrameCounted
  <2>4. left - c + Sequencer!FrameCount(f) + Sequencer!FrameCount(g) = left
    <3> DEFINE x == Sequencer!FrameCount(f)
               y == Sequencer!FrameCount(g)
    <3>1. left \in Int /\ c \in Int /\ x \in Int /\ y \in Int /\ x + y = c
      BY <1>3, <1>7, <2>1, <2>3
    <3> HIDE DEF x, y
    <3>2. left - c + x + y = left
      BY <3>1
    <3> QED
      BY <3>2 DEF x, y
  <2> QED
    BY <1>3, <1>4, <1>7, <2>2, <2>4
<1>8. top.blk \in ExactBlocks /\ top.blk \in Names /\ scope \in Scopes /\ Sequencer!BlockCount[top.blk] \in Int
  BY <1>3, FrameKinds, BlocksCounted DEF ExactFrame, RunInv, RunTyped
<1>9. ASSUME NEW unwind \in BOOLEAN
      PROVE  LET g == Sequencer!StepFrame(top.blk, "none", unwind, scope)
             IN  g \in Frame /\ ExactFrame(g) /\ Sequencer!FrameCount(g) = Sequencer!BlockCount[top.blk]
  <2> DEFINE g == Sequencer!StepFrame(top.blk, "none", unwind, scope)
  <2>1. g \in StepFrames /\ g.k = "steps" /\ g.blk = top.blk /\ g.i = 1
    BY <1>8 DEF Sequencer!StepFrame, StepFrames, Exits
  <2>2. g \in Frame /\ ExactFrame(g)
    BY <1>8, <2>1 DEF Frame, ExactFrame
  <2> HIDE DEF g
  <2>3. Sequencer!FrameCount(g) = Sequencer!CountFrom(Blocks[top.blk], 1, Sequencer!BlockCount)
    BY <2>1, <2>2, FrameCounted
  <2> QED
    BY <1>8, <2>2, <2>3, BlocksCounted DEF g
<1>10. CASE Sequencer!SkipDisabled
  <2> DEFINE f == [top EXCEPT !.i = @ + 1]
  <2>1. /\ top.k = "steps" /\ ~Sequencer!Spent(top) /\ Sequencer!Steps(top)[top.i].k = "disabled" /\ stack' = Sequencer!SetTop(f)
    BY <1>3, <1>10 DEF Sequencer!SkipDisabled
  <2>2. top \in StepFrames /\ top.i \in Nat \ {0} /\ c = Sequencer!CountFrom(Blocks[top.blk], top.i, Sequencer!BlockCount)
    BY <1>3, <2>1, FrameCounted DEF c
  <2>3. f \in StepFrames /\ f.k = "steps" /\ f.blk = top.blk /\ f.i = top.i + 1
    BY <2>2 DEF StepFrames
  <2>4. f \in Frame /\ ExactFrame(f)
    BY <1>8, <2>3 DEF Frame, ExactFrame
  <2> HIDE DEF f
  <2>5. Sequencer!FrameCount(f) = Sequencer!CountFrom(Blocks[top.blk], top.i + 1, Sequencer!BlockCount)
    BY <2>3, <2>4, FrameCounted
  <2>6. Len(Blocks[top.blk]) \in Nat
    BY <1>8, ExactBlock
  <2>7. top.i \in 1..Len(Blocks[top.blk]) /\ Sequencer!Steps(top)[top.i] = Blocks[top.blk][top.i]
    BY <2>1, <2>2, <2>6 DEF Sequencer!Spent, Sequencer!Steps
  <2>8. Sequencer!StepCount(Blocks[top.blk][top.i], Sequencer!BlockCount) = 0
    BY <2>1, <2>7 DEF Sequencer!StepCount
  <2>9. /\ Sequencer!CountFrom(Blocks[top.blk], top.i, Sequencer!BlockCount)
             = Sequencer!StepCount(Blocks[top.blk][top.i], Sequencer!BlockCount)
               + Sequencer!CountFrom(Blocks[top.blk], top.i + 1, Sequencer!BlockCount)
        /\ Sequencer!CountFrom(Blocks[top.blk], top.i + 1, Sequencer!BlockCount) \in Int
    BY <1>8, <2>2, <2>7, BlockSteps
  <2>10. Sequencer!FrameCount(f) = c
    BY <2>2, <2>5, <2>8, <2>9
  <2> QED
    BY <1>6, <2>1, <2>4, <2>10
<1>11. CASE Sequencer!NextPass
  <2> DEFINE f == [top EXCEPT !.left = @ - 1]
             g == Sequencer!StepFrame(top.blk, "none", FALSE, scope)
  <2>1. /\ top.k \in {"loop", "while"}
        /\ \/ top.left > 0 /\ stack' = Append(Sequencer!SetTop(f), g)
           \/ (top.left <= 0 \/ top.k = "while") /\ stack' = p
    BY <1>3, <1>11 DEF Sequencer!NextPass, p
  <2>2. top.k = "loop"
    BY <1>3, <2>1 DEF ExactFrame
  <2>3. top \in LoopFrames /\ top.left \in Nat /\ c = top.left * Sequencer!BlockCount[top.blk]
    BY <1>3, <2>2, FrameCounted DEF c
  <2>4. CASE top.left > 0 /\ stack' = Append(Sequencer!SetTop(f), g)
    <3>1. f \in LoopFrames /\ f.k = "loop" /\ f.blk = top.blk /\ f.left = top.left - 1
      BY <2>2, <2>3, <2>4 DEF LoopFrames
    <3>2. f \in Frame /\ ExactFrame(f)
      BY <1>8, <3>1 DEF Frame, ExactFrame
    <3> HIDE DEF f
    <3>3. Sequencer!FrameCount(f) = (top.left - 1) * Sequencer!BlockCount[top.blk]
      BY <3>1, <3>2, FrameCounted
    <3>4. g \in Frame /\ ExactFrame(g) /\ Sequencer!FrameCount(g) = Sequencer!BlockCount[top.blk]
      BY <1>9
    <3> HIDE DEF g
    <3>5. \A m \in Nat, b \in Int : (m - 1) * b + b = m * b
      OBVIOUS
    <3>6. Sequencer!FrameCount(f) + Sequencer!FrameCount(g) = c
      BY <1>8, <2>3, <3>3, <3>4, <3>5
    <3> QED
      BY <1>7, <2>4, <3>2, <3>4, <3>6
  <2>5. CASE top.left <= 0 /\ stack' = p
    <3>1. top.left = 0
      BY <2>3, <2>5
    <3>2. c = 0
      BY <1>8, <2>3, <3>1
    <3> QED
      BY <1>5, <2>5, <3>2
  <2> QED
    BY <2>1, <2>2, <2>4, <2>5
<1>12. CASE Sequencer!NextTry
  <2> DEFINE f == [top EXCEPT !.finalizing = TRUE]
             g == Sequencer!StepFrame(top.blk, "none", TRUE, scope)
  <2>1. top.k = "try"
    BY <1>3, <1>12 DEF Sequencer!NextTry
  <2>2. top \in TryFrames /\ top.finalizing \in BOOLEAN /\ c = IF top.finalizing THEN 0 ELSE Sequencer!BlockCount[top.blk]
    BY <1>3, <2>1, FrameCounted DEF c
  <2>3. f \in TryFrames /\ f.k = "try" /\ f.blk = top.blk /\ f.finalizing = TRUE
    BY <2>2 DEF TryFrames
  <2>4. f \in Frame /\ ExactFrame(f)
    BY <1>8, <2>3 DEF Frame, ExactFrame
  <2> HIDE DEF f
  <2>5. Sequencer!FrameCount(f) = 0
    BY <2>3, <2>4, FrameCounted
  <2>6. g \in Frame /\ ExactFrame(g) /\ Sequencer!FrameCount(g) = Sequencer!BlockCount[top.blk]
    BY <1>9
  <2>7. \/ top.finalizing /\ stack' = p
        \/ ~top.finalizing /\ Blocks[top.blk] = <<>> /\ stack' = Sequencer!SetTop(f)
        \/ ~top.finalizing /\ stack' = Append(Sequencer!SetTop(f), g)
    BY <1>3, <1>12, <2>2 DEF Sequencer!NextTry, p, f
  <2> HIDE DEF g
  <2>8. CASE top.finalizing /\ stack' = p
    BY <1>5, <2>2, <2>8
  <2>9. CASE ~top.finalizing /\ Blocks[top.blk] = <<>> /\ stack' = Sequencer!SetTop(f)
    <3>1. 1 > Len(Blocks[top.blk])
      BY <2>9
    <3>2. Sequencer!BlockCount[top.blk] = 0
      BY <1>8, <3>1, BlockSteps
    <3> QED
      BY <1>6, <2>2, <2>4, <2>5, <2>9, <3>2
  <2>10. CASE ~top.finalizing /\ stack' = Append(Sequencer!SetTop(f), g)
    <3>1. Sequencer!FrameCount(f) + Sequencer!FrameCount(g) = c
      BY <1>8, <2>2, <2>5, <2>6, <2>10
    <3> QED
      BY <1>7, <2>4, <2>6, <2>10, <3>1
  <2> QED
    BY <2>7, <2>8, <2>9, <2>10
<1>13. CASE Sequencer!NextTrial
  BY <1>3, <1>13 DEF Sequencer!NextTrial, ExactFrame
<1>14. CASE Sequencer!Discard
  BY <1>2, <1>14 DEF Sequencer!Discard, Sequencer!Normally
<1> QED
  BY <1>10, <1>11, <1>12, <1>13, <1>14

(* The frame on top moves past a step. *)
LEMMA StepPlanned ==
  ASSUME Sequencer!WellFormed, RunInv, PlanInv, NEW kinds, Sequencer!Taking(kinds), pending = "none", root \in ExactBlocks
  PROVE  LET left == Sequencer!BlockCount[root] - completed
             cost == Sequencer!StepCount(Sequencer!Step, Sequencer!BlockCount)
         IN  /\ wait = Sequencer!NoWait /\ left \in Int /\ completed \in Int /\ Sequencer!BlockCount[root] \in Int
             /\ Sequencer!Step \in Form /\ Sequencer!Step.k \in kinds /\ Countable(Sequencer!Step)
             /\ Sequencer!Bodies(Sequencer!Step) \subseteq ExactBlocks
             /\ cost \in Int /\ Planned(Sequencer!Advanced, left - cost)
<1> DEFINE left == Sequencer!BlockCount[root] - completed
           s == Sequencer!Step
           cost == Sequencer!StepCount(s, Sequencer!BlockCount)
           p == Sequencer!Pop
           top == TopOf(stack)
           c == Sequencer!FrameCount(top)
           f == [top EXCEPT !.i = @ + 1]
<1>1. /\ phase = "next" /\ stack # <<>> /\ top \in StepFrames
      /\ s = Blocks[top.blk][top.i] /\ s \in Form /\ s.k \in kinds /\ top.i \in 1..Len(Blocks[top.blk])
      /\ Sequencer!Advanced = [stack EXCEPT ![Len(stack)] = f]
  BY StepTaken
<1>2. /\ wait = Sequencer!NoWait /\ left \in Int /\ completed \in Int /\ Sequencer!BlockCount[root] \in Int /\ c \in Int
      /\ top \in Frame /\ ExactFrame(top) /\ Planned(p, left - c)
      /\ \A x \in Frame : Sequencer!SetTop(x) = Append(p, x)
  BY <1>1, PlanTicks
<1>3. top.k = "steps" /\ top.i \in Nat \ {0} /\ top.blk \in ExactBlocks
  BY <1>1, <1>2 DEF StepFrames, ExactFrame
<1>4. c = Sequencer!CountFrom(Blocks[top.blk], top.i, Sequencer!BlockCount)
  BY <1>2, <1>3, FrameCounted
<1>5. f \in StepFrames /\ f.k = "steps" /\ f.blk = top.blk /\ f.i = top.i + 1
  BY <1>1 DEF StepFrames
<1>6. f \in Frame /\ ExactFrame(f)
  BY <1>3, <1>5 DEF Frame, ExactFrame
<1>7. Countable(s) /\ Sequencer!Bodies(s) \subseteq ExactBlocks
  BY <1>1, <1>3, ExactBlock
<1>8. \A b \in Sequencer!Bodies(s) : Sequencer!BlockCount[b] \in Int
  BY <1>7, BlocksCounted
<1>9. cost \in Int
  BY <1>1, <1>8, StepCounted
<1> HIDE DEF f, c, p, left
<1>10. Sequencer!FrameCount(f) = Sequencer!CountFrom(Blocks[top.blk], top.i + 1, Sequencer!BlockCount)
  BY <1>5, <1>6, FrameCounted
<1>11. c = cost + Sequencer!FrameCount(f) /\ Sequencer!FrameCount(f) \in Int
  BY <1>1, <1>3, <1>4, <1>10, BlockSteps
<1>12. Planned(Append(p, f), left - c + Sequencer!FrameCount(f))
  BY <1>2, <1>6, OnTop
<1>13. Append(p, f) = Sequencer!Advanced
  BY <1>1, <1>2, <1>6 DEF Sequencer!SetTop
<1> HIDE DEF cost
<1>14. left - c + Sequencer!FrameCount(f) = left - cost
  <2>1. \A a, b, x, y \in Int : b = x + y => a - b + y = a - x
    OBVIOUS
  <2> QED
    BY <1>2, <1>9, <1>11, <2>1
<1> QED
  BY <1>1, <1>2, <1>7, <1>9, <1>12, <1>13, <1>14 DEF left, cost

(* A step is one step: it is completed or in flight. *)
LEMMA PlanTaken ==
  ASSUME UNCHANGED root, completed \in Int, Sequencer!BlockCount[root] \in Int,
         (completed' = completed + 1 /\ wait' = Sequencer!NoWait) \/ (completed' = completed /\ wait' # Sequencer!NoWait),
         Planned(stack', Sequencer!BlockCount[root] - completed - 1)
  PROVE  PlanInv'
<1>1. Sequencer!InFlight' = IF wait' = Sequencer!NoWait THEN 0 ELSE 1
  BY DEF Sequencer!InFlight
<1>2. Sequencer!BlockCount[root'] - completed' - Sequencer!InFlight' = Sequencer!BlockCount[root] - completed - 1
  BY <1>1
<1> QED
  BY <1>2 DEF PlanInv

(* Steps without a body count for one, completed or in flight. *)
LEMMA PlanSteps ==
  ASSUME Sequencer!WellFormed, RunInv, PlanInv,
         \/ Sequencer!ExecuteSet \/ Sequencer!ExecuteCall \/ Sequencer!ExecuteAssign \/ Sequencer!ExecuteSleep
         \/ Sequencer!ExecuteWaitUntil \/ Sequencer!ExecuteSetContext \/ Sequencer!ExecuteParallel
         \/ Sequencer!ExecutePause
  PROVE  PlanInv'
<1> DEFINE single == {"set", "call", "assign", "sleep", "until", "context", "parallel", "pause"}
<1>1. ASSUME NEW kind \in single, Sequencer!Taking({kind}), stack' = Sequencer!Advanced, UNCHANGED <<root, pending>>,
             \/ completed' = completed + 1 /\ wait' = wait
             \/ completed' = completed /\ wait' = Sequencer!Step
      PROVE  PlanInv'
  <2>1. SUFFICES ASSUME pending = "none", root \in ExactBlocks PROVE PlanInv'
    BY <1>1 DEF PlanInv
  <2>2. /\ wait = Sequencer!NoWait /\ completed \in Int /\ Sequencer!BlockCount[root] \in Int
        /\ Sequencer!Step.k = kind
        /\ Planned(Sequencer!Advanced,
             Sequencer!BlockCount[root] - completed - Sequencer!StepCount(Sequencer!Step, Sequencer!BlockCount))
    BY <1>1, <2>1, StepPlanned
  <2>3. Sequencer!StepCount(Sequencer!Step, Sequencer!BlockCount) = 1
    BY <2>2 DEF Sequencer!StepCount
  <2>4. Sequencer!Step # Sequencer!NoWait
    BY <2>2 DEF Sequencer!NoWait
  <2>5. Planned(stack', Sequencer!BlockCount[root] - completed - 1)
    BY <1>1, <2>2, <2>3
  <2> QED
    BY <1>1, <2>2, <2>4, <2>5, PlanTaken
<1>2. ASSUME NEW kind \in single, Sequencer!Request(kind) PROVE PlanInv'
  <2>1. CASE Sequencer!StepFails
    BY <2>1, PlanFails DEF Sequencer!StepFails
  <2>2. CASE ~Sequencer!StepFails
    <3>1. /\ Sequencer!Taking({kind}) /\ stack' = Sequencer!Advanced /\ UNCHANGED <<root, pending>>
          /\ completed' = completed + 1 /\ wait' = wait
      BY <1>2, <2>2 DEF Sequencer!Request, Sequencer!StepEnds, Sequencer!terminal
    <3> HIDE DEF single
    <3> QED
      BY <1>1, <3>1
  <2> QED
    BY <2>1, <2>2
<1>3. ASSUME NEW kind \in single, Sequencer!Await(kind) PROVE PlanInv'
  <2>1. /\ Sequencer!Taking({kind}) /\ stack' = Sequencer!Advanced /\ UNCHANGED <<root, pending>>
        /\ completed' = completed /\ wait' = Sequencer!Step
    BY <1>3 DEF Sequencer!Await, Sequencer!terminal
  <2> HIDE DEF single
  <2> QED
    BY <1>1, <2>1
<1>4. CASE Sequencer!ExecuteParallel
  <2>1. Sequencer!Await("parallel") \/ Sequencer!Fails(Sequencer!NoWait, 1)
    BY <1>4 DEF Sequencer!ExecuteParallel, Sequencer!StepFails
  <2> QED
    BY <1>3, <2>1, PlanFails
<1>5. CASE Sequencer!ExecutePause
  <2>1. /\ Sequencer!Taking({"pause"}) /\ stack' = Sequencer!Advanced /\ UNCHANGED <<root, pending>>
        /\ completed' = completed + 1 /\ wait' = wait
    BY <1>5 DEF Sequencer!ExecutePause, Sequencer!terminal
  <2> QED
    BY <1>1, <2>1
<1>6. CASE Sequencer!ExecuteSet \/ Sequencer!ExecuteCall \/ Sequencer!ExecuteAssign
  BY <1>2, <1>6 DEF Sequencer!ExecuteSet, Sequencer!ExecuteCall, Sequencer!ExecuteAssign
<1>7. CASE Sequencer!ExecuteSleep \/ Sequencer!ExecuteWaitUntil \/ Sequencer!ExecuteSetContext
  BY <1>3, <1>7 DEF Sequencer!ExecuteSleep, Sequencer!ExecuteWaitUntil, Sequencer!ExecuteSetContext
<1> QED
  BY <1>4, <1>5, <1>6, <1>7

(* A frame that runs a body counts for the body. *)
LEMMA BodyCounted ==
  ASSUME Sequencer!WellFormed, NEW b \in ExactBlocks, NEW exit \in Exits, scope \in Scopes
  PROVE  LET g == Sequencer!StepFrame(b, exit, FALSE, scope)
         IN  g \in Frame /\ ExactFrame(g) /\ Sequencer!FrameCount(g) = Sequencer!BlockCount[b]
<1> DEFINE g == Sequencer!StepFrame(b, exit, FALSE, scope)
<1>0. b \in Names
  BY ExactBlock
<1>1. g \in StepFrames /\ g.k = "steps" /\ g.blk = b /\ g.i = 1
  BY <1>0 DEF Sequencer!StepFrame, StepFrames
<1>2. g \in Frame /\ ExactFrame(g)
  BY <1>1 DEF Frame, ExactFrame
<1> HIDE DEF g
<1>3. Sequencer!FrameCount(g) = Sequencer!CountFrom(Blocks[b], 1, Sequencer!BlockCount)
  BY <1>1, <1>2, FrameCounted
<1> QED
  BY <1>2, <1>3, BlocksCounted DEF g

(* Steps with a body count for one and for what the frames they push count   *)
(* for.                                                                      *)
LEMMA PlanBlocks ==
  ASSUME Sequencer!WellFormed, RunInv, PlanInv,
         \/ Sequencer!ExecuteFor \/ Sequencer!ExecuteRepeat \/ Sequencer!ExecuteWhile \/ Sequencer!ExecuteAdaptive
         \/ Sequencer!ExecuteIf \/ Sequencer!ExecuteAtomic \/ Sequencer!ExecuteTry \/ Sequencer!ExecuteUse
  PROVE  PlanInv'
<1> DEFINE s == Sequencer!Step
           a == Sequencer!Advanced
           left == Sequencer!BlockCount[root] - completed
           cost == Sequencer!StepCount(s, Sequencer!BlockCount)
<1>1. ASSUME NEW kinds, Sequencer!Taking(kinds), NEW f \in Frame, ExactFrame(f), pending = "none", root \in ExactBlocks,
             stack' = Append(a, f), Sequencer!FrameCount(f) = cost - 1, UNCHANGED <<root, wait>>, completed' = completed + 1
      PROVE  PlanInv'
  <2>1. /\ wait = Sequencer!NoWait /\ completed \in Int /\ Sequencer!BlockCount[root] \in Int /\ left \in Int
        /\ cost \in Int /\ Planned(a, left - cost)
    BY <1>1, StepPlanned
  <2>2. left - 1 = Sequencer!BlockCount[root] - completed - 1
    OBVIOUS
  <2> HIDE DEF cost, a, left
  <2>3. Planned(Append(a, f), left - cost + Sequencer!FrameCount(f)) /\ Sequencer!FrameCount(f) \in Int
    BY <1>1, <2>1, OnTop
  <2>4. left - cost + Sequencer!FrameCount(f) = left - 1
    <3>1. \A x, y \in Int : x - y + (y - 1) = x - 1
      OBVIOUS
    <3> QED
      BY <1>1, <2>1, <3>1
  <2>5. Planned(stack', Sequencer!BlockCount[root] - completed - 1)
    BY <1>1, <2>2, <2>3, <2>4
  <2> QED
    BY <1>1, <2>1, <2>5, PlanTaken
<1>2. ASSUME NEW kinds, Sequencer!Taking(kinds), pending = "none", root \in ExactBlocks
      PROVE  /\ wait = Sequencer!NoWait /\ completed \in Int /\ Sequencer!BlockCount[root] \in Int /\ left \in Int
             /\ cost \in Int /\ a \in Seq(Frame) /\ Planned(a, left - cost)
             /\ s \in Form /\ s.k \in kinds /\ s.k \notin {"if", "while", "adaptive"} /\ Sequencer!Bodies(s) \subseteq ExactBlocks
  <2>1. /\ wait = Sequencer!NoWait /\ completed \in Int /\ Sequencer!BlockCount[root] \in Int /\ left \in Int
        /\ cost \in Int /\ Planned(a, left - cost)
        /\ s \in Form /\ s.k \in kinds /\ Countable(s) /\ Sequencer!Bodies(s) \subseteq ExactBlocks
    BY <1>2, StepPlanned
  <2> QED
    BY <2>1 DEF Planned, Countable
<1>3. scope \in Scopes
  BY DEF RunInv, RunTyped
<1>4. ASSUME NEW frames, Sequencer!Push(frames)
      PROVE  stack' = a \o frames /\ completed' = completed + 1 /\ UNCHANGED <<root, wait, pending>>
  BY <1>4 DEF Sequencer!Push, Sequencer!terminal
<1>5. ASSUME NEW kinds, Sequencer!Taking(kinds), UNCHANGED <<root, pending>>,
             pending = "none" /\ root \in ExactBlocks => FALSE
      PROVE  PlanInv'
  BY <1>5 DEF PlanInv
<1>6. CASE Sequencer!ExecuteWhile \/ Sequencer!ExecuteAdaptive \/ Sequencer!ExecuteIf
  <2>1. PICK kind, frames : kind \in {"while", "adaptive", "if"} /\ Sequencer!Taking({kind}) /\ Sequencer!Push(frames)
    BY <1>6 DEF Sequencer!ExecuteWhile, Sequencer!ExecuteAdaptive, Sequencer!ExecuteIf
  <2>2. UNCHANGED <<root, pending>>
    BY <1>4, <2>1
  <2>3. pending = "none" /\ root \in ExactBlocks => FALSE
    BY <1>2, <2>1
  <2> QED
    BY <2>2, <2>3 DEF PlanInv
<1>7. CASE Sequencer!ExecuteFor \/ Sequencer!ExecuteRepeat
  <2> DEFINE f == Sequencer!LoopFrame(s)
  <2>1. PICK kind \in {"for", "repeat"} : Sequencer!Taking({kind}) /\ Sequencer!Push(<<f>>)
    BY <1>7 DEF Sequencer!ExecuteFor, Sequencer!ExecuteRepeat
  <2>2. stack' = a \o <<f>> /\ completed' = completed + 1 /\ UNCHANGED <<root, wait, pending>>
    BY <1>4, <2>1
  <2>3. SUFFICES ASSUME pending = "none", root \in ExactBlocks PROVE PlanInv'
    BY <2>2 DEF PlanInv
  <2>4. s \in Form /\ s.k \in {"for", "repeat"} /\ Sequencer!Bodies(s) \subseteq ExactBlocks /\ a \in Seq(Frame)
    BY <1>2, <2>1, <2>3
  <2>5. s.body \in ExactBlocks /\ s.body \in Names /\ s.n \in Nat
    BY <2>4 DEF Form, Sequencer!StepForms, Names, Sequencer!Bodies
  <2>6. f \in Frame /\ ExactFrame(f) /\ f.k = "loop" /\ f.left = s.n /\ f.blk = s.body
    BY <2>5 DEF Sequencer!LoopFrame, LoopFrames, Frame, ExactFrame
  <2>7. Sequencer!FrameCount(f) = s.n * Sequencer!BlockCount[s.body]
    <3> HIDE DEF f
    <3> QED
      BY <2>6, FrameCounted
  <2>8. cost = 1 + s.n * Sequencer!BlockCount[s.body]
    BY <2>4 DEF Sequencer!StepCount
  <2>9. s.n * Sequencer!BlockCount[s.body] \in Int
    <3>1. Sequencer!BlockCount[s.body] \in Int
      BY <2>5, BlocksCounted
    <3> QED
      BY <2>5, <3>1
  <2> HIDE DEF f, a, cost, s
  <2>10. stack' = Append(a, f) /\ Sequencer!FrameCount(f) = cost - 1
    <3>1. a \o <<f>> = Append(a, f)
      BY <2>4, <2>6
    <3> QED
      BY <2>2, <2>7, <2>8, <2>9, <3>1
  <2> QED
    BY <1>1, <2>1, <2>2, <2>3, <2>6, <2>10
<1>8. CASE Sequencer!ExecuteAtomic
  <2> DEFINE f == Sequencer!StepFrame(s.body, "atomic", FALSE, scope)
  <2>1. Sequencer!Taking({"atomic"}) /\ Sequencer!Push(<<f>>)
    BY <1>8 DEF Sequencer!ExecuteAtomic
  <2>2. stack' = a \o <<f>> /\ completed' = completed + 1 /\ UNCHANGED <<root, wait, pending>>
    BY <1>4, <2>1
  <2>3. SUFFICES ASSUME pending = "none", root \in ExactBlocks PROVE PlanInv'
    BY <2>2 DEF PlanInv
  <2>4. s \in Form /\ s.k = "atomic" /\ Sequencer!Bodies(s) \subseteq ExactBlocks /\ a \in Seq(Frame)
    BY <1>2, <2>1, <2>3
  <2>5. s.body \in ExactBlocks
    BY <2>4 DEF Sequencer!Bodies
  <2>6. f \in Frame /\ ExactFrame(f) /\ Sequencer!FrameCount(f) = Sequencer!BlockCount[s.body]
    BY <1>3, <2>5, BodyCounted DEF Exits
  <2>7. cost = 1 + Sequencer!BlockCount[s.body] /\ Sequencer!BlockCount[s.body] \in Int
    BY <2>4, <2>5, BlocksCounted DEF Sequencer!StepCount
  <2> HIDE DEF f, a, cost, s
  <2>8. stack' = Append(a, f) /\ Sequencer!FrameCount(f) = cost - 1
    <3>1. a \o <<f>> = Append(a, f)
      BY <2>4, <2>6
    <3> QED
      BY <2>2, <2>6, <2>7, <3>1
  <2> QED
    BY <1>1, <2>1, <2>2, <2>3, <2>6, <2>8
<1>9. CASE Sequencer!ExecuteUse
  <2> DEFINE f == Sequencer!StepFrame(s.body, "use", FALSE, scope)
  <2>1. Sequencer!Taking({"use"}) /\ root' = root
    BY <1>9 DEF Sequencer!ExecuteUse
  <2>2. CASE Sequencer!Raises(Sequencer!NoWait)
    BY <2>2, PlanFails DEF Sequencer!Raises
  <2>3. CASE ~Sequencer!Raises(Sequencer!NoWait)
    <3>1. stack' = Append(a, f) /\ completed' = completed + 1 /\ UNCHANGED <<root, wait, pending>>
      BY <1>9, <2>3 DEF Sequencer!ExecuteUse, Sequencer!StepEnds, Sequencer!terminal
    <3>2. SUFFICES ASSUME pending = "none", root \in ExactBlocks PROVE PlanInv'
      BY <3>1 DEF PlanInv
    <3>3. s \in Form /\ s.k = "use" /\ Sequencer!Bodies(s) \subseteq ExactBlocks
      BY <1>2, <2>1, <3>2
    <3>4. s.body \in ExactBlocks
      BY <3>3 DEF Sequencer!Bodies
    <3>5. f \in Frame /\ ExactFrame(f) /\ Sequencer!FrameCount(f) = Sequencer!BlockCount[s.body]
      BY <1>3, <3>4, BodyCounted DEF Exits
    <3>6. cost = 1 + Sequencer!BlockCount[s.body] /\ Sequencer!BlockCount[s.body] \in Int
      BY <3>3, <3>4, BlocksCounted DEF Sequencer!StepCount
    <3> HIDE DEF f, a, cost, s
    <3>7. Sequencer!FrameCount(f) = cost - 1
      BY <3>5, <3>6
    <3> QED
      BY <1>1, <2>1, <3>1, <3>2, <3>5, <3>7
  <2> QED
    BY <2>2, <2>3
<1>10. CASE Sequencer!ExecuteTry
  <2> DEFINE t == Sequencer!TryFrame(s.finally)
             f == Sequencer!StepFrame(s.body, "none", FALSE, scope)
             x == Sequencer!BlockCount[s.body]
             y == Sequencer!BlockCount[s.finally]
  <2>1. Sequencer!Taking({"try"}) /\ Sequencer!Push(<<t, f>>)
    BY <1>10 DEF Sequencer!ExecuteTry
  <2>2. stack' = a \o <<t, f>> /\ completed' = completed + 1 /\ UNCHANGED <<root, wait, pending>>
    BY <1>4, <2>1
  <2>3. SUFFICES ASSUME pending = "none", root \in ExactBlocks PROVE PlanInv'
    BY <2>2 DEF PlanInv
  <2>4. /\ s \in Form /\ s.k = "try" /\ Sequencer!Bodies(s) \subseteq ExactBlocks /\ a \in Seq(Frame)
        /\ wait = Sequencer!NoWait /\ completed \in Int /\ Sequencer!BlockCount[root] \in Int /\ left \in Int
        /\ cost \in Int /\ Planned(a, left - cost)
    BY <1>2, <2>1, <2>3
  <2>5. s.body \in ExactBlocks /\ s.finally \in ExactBlocks /\ s.finally \in Names
    BY <2>4, ExactBlock DEF Sequencer!Bodies
  <2>6. f \in Frame /\ ExactFrame(f) /\ Sequencer!FrameCount(f) = x
    BY <1>3, <2>5, BodyCounted DEF Exits
  <2>7. t \in Frame /\ ExactFrame(t) /\ t.k = "try" /\ t.finalizing = FALSE /\ t.blk = s.finally
    BY <2>5 DEF Sequencer!TryFrame, TryFrames, Frame, ExactFrame
  <2>8. Sequencer!FrameCount(t) = y
    <3> HIDE DEF t
    <3> QED
      BY <2>7, FrameCounted
  <2>9. cost = 1 + x + y /\ x \in Int /\ y \in Int
    BY <2>4, <2>5, BlocksCounted DEF Sequencer!StepCount
  <2>10. left - 1 = Sequencer!BlockCount[root] - completed - 1
    OBVIOUS
  <2> HIDE DEF t, f, a, cost, s, x, y, left
  <2>11. Planned(Append(a, t), left - cost + y)
    BY <2>4, <2>7, <2>8, OnTop
  <2>12. Planned(Append(Append(a, t), f), left - cost + y + x)
    BY <2>6, <2>11, PlanPushed
  <2>13. left - cost + y + x = left - 1
    <3>1. \A n, i, j \in Int : n - (1 + i + j) + j + i = n - 1
      OBVIOUS
    <3> QED
      BY <2>4, <2>9, <3>1
  <2>14. a \o <<t, f>> = Append(Append(a, t), f)
    BY <2>4, <2>6, <2>7
  <2>15. Planned(stack', Sequencer!BlockCount[root] - completed - 1)
    BY <2>2, <2>10, <2>12, <2>13, <2>14
  <2> QED
    BY <2>2, <2>4, <2>15, PlanTaken
<1> QED
  BY <1>6, <1>7, <1>8, <1>9, <1>10

(* Every step of the interpreter keeps the plan. *)
LEMMA PlanStep ==
  ASSUME Sequencer!WellFormed, RunInv, PlanInv, [Sequencer!Next]_Sequencer!vars
  PROVE  PlanInv'
<1>1. CASE UNCHANGED Sequencer!vars
  BY <1>1 DEF Sequencer!vars, PlanInv, Sequencer!Active, Sequencer!InFlight
<1>2. CASE Sequencer!Rpc
  BY <1>2, PlanBegins, PlanCommands DEF Sequencer!Rpc
<1>3. CASE Sequencer!Tick
  <2>1. CASE \/ Sequencer!ObservationRaises \/ Sequencer!TrialEndRaises \/ Sequencer!PassRaises \/ Sequencer!TrialRaises
             \/ Sequencer!StepRaises
    BY <2>1, PlanFails DEF Sequencer!ObservationRaises, Sequencer!TrialEndRaises, Sequencer!PassRaises,
       Sequencer!TrialRaises, Sequencer!StepRaises, Sequencer!Raises
  <2> QED
    BY <1>3, <2>1, PlanBegins, PlanCommands, PlanWaits, PlanLeaves, PlanMoves, PlanSteps, PlanBlocks DEF Sequencer!Tick
<1> QED
  BY <1>1, <1>2, <1>3 DEF Sequencer!Next

(* The invariant says what ProgressExact says. *)
LEMMA PlanExact ==
  ASSUME Sequencer!WellFormed, RunInv, PlanInv
  PROVE  Sequencer!ProgressExact
<1>1. SUFFICES ASSUME Sequencer!Active, root \in ExactBlocks, pending = "none"
      PROVE  Sequencer!TotalSteps = Sequencer!BlockCount[root]
  BY DEF Sequencer!ProgressExact
<1>2. Work(stack) = Sequencer!BlockCount[root] - completed - Sequencer!InFlight
  BY <1>1 DEF PlanInv, Planned
<1>3. completed \in Int /\ Sequencer!BlockCount[root] \in Int /\ Sequencer!InFlight \in Int
  BY <1>1, BlocksCounted DEF RunInv, RunTyped, Sequencer!InFlight
<1>4. Sequencer!RemainingWork = Work(stack)
  BY DEF Sequencer!RemainingWork, Work
<1>5. completed + Sequencer!InFlight + (Sequencer!BlockCount[root] - completed - Sequencer!InFlight) = Sequencer!BlockCount[root]
  BY <1>3
<1> QED
  BY <1>2, <1>4, <1>5 DEF Sequencer!TotalSteps

(* The interpreter's bookkeeping, for every well-formed program, number of run loops and order of commands, faults,
   failures, timeouts and unwinds: _atomic_depth, _use_stack and _vars are those of the blocks that are open, and the
   steps completed, in flight and ahead add up to the plan. *)
THEOREM RunIsAccounted ==
  ASSUME Sequencer!WellFormed
  PROVE  Sequencer!Spec => [](Sequencer!OpenBlocksAccounted /\ Sequencer!ProgressExact)
<1>1. Sequencer!Init => RunInv /\ PlanInv
  <2>1. Sequencer!Init => PlanInv
    BY DEF Sequencer!Init, PlanInv, Sequencer!Active
  <2> QED
    BY <2>1, RunBegins
<1>2. (RunInv /\ PlanInv) /\ [Sequencer!Next]_Sequencer!vars => (RunInv /\ PlanInv)'
  BY RunStep, PlanStep
<1>3. RunInv /\ PlanInv => Sequencer!OpenBlocksAccounted /\ Sequencer!ProgressExact
  BY RunAccounted, PlanExact
<1> QED
  BY <1>1, <1>2, <1>3, PTL DEF Sequencer!Spec

-----------------------------------------------------------------------------
(* The end of a run *)

(* No study of the loaded programs is strict. *)
Lenient == \A b \in Names : \A i \in 1..Len(Blocks[b]) : Blocks[b][i].k = "adaptive" => ~Blocks[b][i].strict

(* A tick goes on only while the run is RUNNING. *)
EndInv == (phase # "poll" => state = "RUNNING") /\ Sequencer!FinallyBeforeEnd

(* A study on the stack is not strict. *)
LEMMA NoStrictStudy ==
  ASSUME Lenient, NEW f \in Frame, f.k = "adaptive"
  PROVE  f.strict = FALSE
<1>1. f \in StudyFrames
  BY FrameKinds
<1>2. f.strict \in Strictness
  BY <1>1 DEF StudyFrames
<1> QED
  BY <1>2 DEF Strictness, Lenient

(* A run ends with nothing owed to it. *)
LEMMA EndsClean ==
  ASSUME \/ state' = "RUNNING"
         \/ state' \in {"IDLE", "PAUSED"} /\ phase' = "poll"
         \/ phase' = "poll" /\ ~Sequencer!HasUnwindWork(stack)'
  PROVE  EndInv'
<1>1. phase' # "poll" => state' = "RUNNING"
  OBVIOUS
<1>2. Sequencer!FinallyBeforeEnd'
  BY DEF Sequencer!FinallyBeforeEnd, Sequencer!HasUnwindWork
<1> QED
  BY <1>1, <1>2 DEF EndInv

(* An empty stack owes nothing. *)
LEMMA NothingOwed ==
  ASSUME stack' = <<>>
  PROVE  ~Sequencer!HasUnwindWork(stack)'
<1>1. DOMAIN stack' = {}
  OBVIOUS
<1> QED
  BY <1>1 DEF Sequencer!HasUnwindWork

(* A step that fails ends the run only if nothing is owed. *)
LEMMA FailsClean ==
  ASSUME NEW w, NEW n, Sequencer!Fails(w, n), state = "RUNNING", phase' = "poll" \/ phase' = IF state' = "RUNNING" THEN "loop" ELSE "poll"
  PROVE  EndInv'
<1>1. state' = state \/ (state' = "ERROR" /\ ~Sequencer!HasUnwindWork(stack)')
  BY DEF Sequencer!Fails, Sequencer!BeginUnwind, Sequencer!HasUnwindWork
<1> QED
  BY <1>1, EndsClean

(* Every step of the interpreter keeps what the end of a run needs. *)
LEMMA EndStep ==
  ASSUME Sequencer!WellFormed, Lenient, RunInv, EndInv, [Sequencer!Next]_Sequencer!vars
  PROVE  EndInv'
<1>0. state \in States
  BY DEF RunInv, RunTyped
<1>1. CASE UNCHANGED Sequencer!vars
  BY <1>1 DEF Sequencer!vars, EndInv, Sequencer!FinallyBeforeEnd
<1>2. ASSUME state = "RUNNING", state' = "RUNNING" PROVE EndInv'
  BY <1>2, EndsClean
<1>3. CASE \E r \in Roots : Sequencer!Load(r)
  <2>1. state' = "IDLE" /\ phase' = "poll"
    BY <1>3 DEF Sequencer!Load, Sequencer!Command
  <2> QED
    BY <2>1, EndsClean
<1>4. CASE \E n \in {1, 2, -1} : Sequencer!Start(n)
  <2>1. state' = "RUNNING"
    BY <1>4 DEF Sequencer!Start
  <2> QED
    BY <2>1, EndsClean
<1>5. CASE Sequencer!StartRefused
  <2>1. stack' = <<Sequencer!StepFrame(root, "none", FALSE, root)>> /\ phase' = "poll"
    BY <1>5 DEF Sequencer!StartRefused, Sequencer!Command
  <2>2. DOMAIN stack' = {1} /\ stack'[1] = Sequencer!StepFrame(root, "none", FALSE, root)
    BY <2>1
  <2>3. ~Sequencer!HasUnwindWork(stack)'
    BY <2>2 DEF Sequencer!HasUnwindWork, Sequencer!OwesFinally, Sequencer!StepFrame
  <2> QED
    BY <2>1, <2>3, EndsClean
<1>6. CASE Sequencer!RequestPause \/ Sequencer!Resume \/ Sequencer!RequestStop
  <2>1. UNCHANGED <<stack, phase>> /\ phase = "poll" /\ (state' = state \/ state' = "RUNNING")
    BY <1>6 DEF Sequencer!RequestPause, Sequencer!Resume, Sequencer!RequestStop, Sequencer!Command, Sequencer!control
  <2>2. CASE state' = "RUNNING"
    BY <2>2, EndsClean
  <2>3. CASE state' = state
    BY <2>1, <2>3 DEF EndInv, Sequencer!FinallyBeforeEnd
  <2> QED
    BY <2>1, <2>2, <2>3
<1>7. CASE Sequencer!ExternalFault
  <2>1. state = "RUNNING" /\ Sequencer!Fail /\ phase = "poll" /\ UNCHANGED <<stack, phase>>
    BY <1>7 DEF Sequencer!ExternalFault, Sequencer!Fail, Sequencer!Command
  <2>2. state' = state \/ ~Sequencer!HasUnwindWork(stack)'
    BY <2>1 DEF Sequencer!Fail, Sequencer!BeginUnwind, Sequencer!HasUnwindWork
  <2> QED
    BY <2>1, <2>2, EndsClean
<1>8. CASE Sequencer!FinishPending
  <2>1. stack' = <<>> /\ phase' = "poll"
    BY <1>8 DEF Sequencer!FinishPending
  <2> QED
    BY <2>1, NothingOwed, EndsClean
<1>9. CASE Sequencer!HonourStop
  <2>1. state = "RUNNING" /\ phase' = "poll" /\ stack' = stack
    BY <1>9 DEF Sequencer!HonourStop
  <2>2. state' = state \/ ~Sequencer!HasUnwindWork(stack)'
    BY <1>9, <2>1 DEF Sequencer!HonourStop, Sequencer!BeginUnwind, Sequencer!HasUnwindWork
  <2> QED
    BY <2>1, <2>2, EndsClean
<1>10. CASE Sequencer!HonourPause
  <2>1. state' = "PAUSED" /\ phase' = "poll"
    BY <1>10 DEF Sequencer!HonourPause
  <2> QED
    BY <2>1, EndsClean
<1>11. ASSUME Sequencer!CanProceed, Sequencer!WaitOver \/ Sequencer!WaitFailed PROVE EndInv'
  <2>1. state = "RUNNING"
    BY <1>11 DEF Sequencer!CanProceed
  <2>2. CASE Sequencer!WaitOver
    <3>1. state' = "RUNNING"
      BY <2>1, <2>2 DEF Sequencer!WaitOver
    <3> QED
      BY <3>1, EndsClean
  <2>3. CASE Sequencer!WaitFailed
    BY <2>1, <2>3, FailsClean DEF Sequencer!WaitFailed, Sequencer!StepFails
  <2> QED
    BY <1>11, <2>2, <2>3
<1>12. CASE Sequencer!SleepEnds \/ Sequencer!WaitUntilEnds \/ Sequencer!ContextAcknowledged \/ Sequencer!ParallelJoined
  BY <1>11, <1>12 DEF Sequencer!SleepEnds, Sequencer!WaitUntilEnds, Sequencer!ContextAcknowledged, Sequencer!ParallelJoined
<1>13. CASE Sequencer!WaitRaises
  <2>1. state = "RUNNING" /\ phase' = "poll" /\ Sequencer!Fails(wait, 0)
    BY <1>13 DEF Sequencer!WaitRaises, Sequencer!Raises, Sequencer!CanProceed
  <2> QED
    BY <2>1, FailsClean
<1>14. CASE Sequencer!ObservationEnds
  <2>1. state = "RUNNING" /\ wait.k = "observe" /\ (state' = state \/ stack[wait.at].strict)
    BY <1>14 DEF Sequencer!ObservationEnds, Sequencer!CanProceed
  <2>2. wait.at = Len(stack) /\ Len(stack) > 0 /\ stack[Len(stack)].k = "adaptive" /\ stack \in Seq(Frame)
    BY <2>1 DEF RunInv, PhaseInv, RunTyped
  <2>3. stack[wait.at] \in Frame /\ stack[wait.at].k = "adaptive"
    BY <2>2
  <2>4. stack[wait.at].strict = FALSE
    BY <2>3, NoStrictStudy
  <2>5. state' = "RUNNING"
    BY <2>1, <2>4
  <2> QED
    BY <2>5, EndsClean
<1>15. CASE Sequencer!EnterLoop \/ Sequencer!Continue
  <2>1. state' = "RUNNING"
    BY <1>15 DEF Sequencer!EnterLoop, Sequencer!Continue, Sequencer!CanProceed
  <2> QED
    BY <2>1, EndsClean
<1>16. ASSUME phase = "next" PROVE state = "RUNNING"
  BY <1>16 DEF EndInv
<1>17. CASE Sequencer!SkipDisabled \/ Sequencer!NextPass \/ Sequencer!NextTry \/ Sequencer!NextTrial \/ Sequencer!Discard
  <2>1. phase = "next" /\ state' = state
    BY <1>17 DEF Sequencer!SkipDisabled, Sequencer!NextPass, Sequencer!NextTry, Sequencer!NextTrial, Sequencer!Discard, Sequencer!InNext
  <2> QED
    BY <1>16, <2>1, EndsClean
<1>18. CASE Sequencer!LeaveBlock
  <2>1. phase = "next" /\ stack # <<>> /\ Sequencer!Top.k = "steps"
    BY <1>18 DEF Sequencer!LeaveBlock, Sequencer!BlockOver, Sequencer!InNext
  <2>2. state = "RUNNING" /\ Sequencer!Top = TopOf(stack) /\ TopOf(stack) \in Frame /\ Len(stack) \in 1..Len(stack) /\ Len(stack) \in Nat
        /\ stack \in Seq(Frame)
    BY <1>16, <2>1, TopTyped DEF RunInv, RunTyped
  <2>3. TopOf(stack).exit \in Exits
    BY <2>1, <2>2, FrameKinds DEF StepFrames
  <2>4. CASE TopOf(stack).exit # "adaptive"
    <3>1. state' = state
      BY <1>18, <2>2, <2>3, <2>4 DEF Sequencer!LeaveBlock, Sequencer!BlockOver, Exits
    <3> QED
      BY <2>2, <3>1, EndsClean
  <2>5. CASE TopOf(stack).exit = "adaptive"
    <3>1. Len(stack) > 1 /\ stack[Len(stack) - 1].k = "adaptive"
      BY <2>1, <2>2, <2>5 DEF RunInv, Accounts, Opens, TopOf
    <3>2. stack[Len(stack) - 1] \in Frame
      BY <2>2, <3>1
    <3>3. stack[Len(stack) - 1].strict = FALSE
      BY <3>1, <3>2, NoStrictStudy
    <3>4. Sequencer!AfterAdaptiveBody
      BY <1>18, <2>2, <2>5 DEF Sequencer!LeaveBlock, Sequencer!BlockOver
    <3>5. state' = state
      BY <3>3, <3>4 DEF Sequencer!AfterAdaptiveBody
    <3> QED
      BY <2>2, <3>5, EndsClean
  <2> QED
    BY <2>4, <2>5
<1>19. CASE Sequencer!RunEnds
  <2>1. stack = <<>> /\ state = "RUNNING"
    BY <1>19 DEF Sequencer!RunEnds
  <2>2. state' = state \/ (stack' = <<>> /\ phase' = "poll")
    BY <1>19, <2>1 DEF Sequencer!RunEnds
  <2> QED
    BY <2>1, <2>2, NothingOwed, EndsClean
<1>20. ASSUME NEW kinds, Sequencer!Taking(kinds), ((\E n : Sequencer!Fails(Sequencer!NoWait, n)) /\ phase' = "poll") \/ state' = state
       PROVE  EndInv'
  <2>1. state = "RUNNING"
    BY <1>16, <1>20 DEF Sequencer!Taking, Sequencer!InNext
  <2> QED
    BY <1>20, <2>1, FailsClean, EndsClean
<1>21. CASE Sequencer!ExecuteSet \/ Sequencer!ExecuteCall \/ Sequencer!ExecuteAssign
  <2>1. \E kind : Sequencer!Taking({kind}) /\ (((\E n : Sequencer!Fails(Sequencer!NoWait, n)) /\ phase' = "poll") \/ state' = state)
    BY <1>21 DEF Sequencer!ExecuteSet, Sequencer!ExecuteCall, Sequencer!ExecuteAssign, Sequencer!Request,
       Sequencer!StepFails
  <2> QED
    BY <1>20, <2>1
<1>22. CASE Sequencer!ExecuteSleep \/ Sequencer!ExecuteWaitUntil \/ Sequencer!ExecuteSetContext \/ Sequencer!ExecuteParallel
  <2>1. \E kind : Sequencer!Taking({kind}) /\ (((\E n : Sequencer!Fails(Sequencer!NoWait, n)) /\ phase' = "poll") \/ state' = state)
    BY <1>22 DEF Sequencer!ExecuteSleep, Sequencer!ExecuteWaitUntil, Sequencer!ExecuteSetContext, Sequencer!ExecuteParallel,
       Sequencer!Await, Sequencer!StepFails
  <2> QED
    BY <1>20, <2>1
<1>23. CASE Sequencer!ExecutePause
  <2>1. state' = "PAUSED" /\ phase' = "poll"
    BY <1>23 DEF Sequencer!ExecutePause
  <2> QED
    BY <2>1, EndsClean
<1>24. CASE \/ Sequencer!ExecuteFor \/ Sequencer!ExecuteRepeat \/ Sequencer!ExecuteIf \/ Sequencer!ExecuteWhile
            \/ Sequencer!ExecuteAtomic \/ Sequencer!ExecuteTry \/ Sequencer!ExecuteAdaptive
  <2>1. \E kind : Sequencer!Taking({kind}) /\ state' = state
    BY <1>24 DEF Sequencer!ExecuteFor, Sequencer!ExecuteRepeat, Sequencer!ExecuteIf, Sequencer!ExecuteWhile,
       Sequencer!ExecuteAtomic, Sequencer!ExecuteTry, Sequencer!ExecuteAdaptive, Sequencer!Push
  <2> QED
    BY <1>20, <2>1
<1>25. CASE Sequencer!ExecuteUse
  <2>1. Sequencer!Taking({"use"}) /\ (((\E n : Sequencer!Fails(Sequencer!NoWait, n)) /\ phase' = "poll") \/ state' = state)
    BY <1>25 DEF Sequencer!ExecuteUse, Sequencer!Raises
  <2> QED
    BY <1>20, <2>1
<1>28. CASE \/ Sequencer!ObservationRaises \/ Sequencer!TrialEndRaises \/ Sequencer!PassRaises \/ Sequencer!TrialRaises
            \/ Sequencer!StepRaises
  <2>1. Sequencer!Fails(Sequencer!NoWait, 0) /\ phase' = "poll" /\ (state = "RUNNING" \/ phase = "next")
    BY <1>28 DEF Sequencer!ObservationRaises, Sequencer!TrialEndRaises, Sequencer!PassRaises, Sequencer!TrialRaises,
       Sequencer!StepRaises, Sequencer!Raises, Sequencer!CanProceed, Sequencer!BlockOver, Sequencer!Taking, Sequencer!InNext
  <2> QED
    BY <1>16, <2>1, FailsClean
<1>26. CASE Sequencer!Rpc
  BY <1>3, <1>4, <1>5, <1>6, <1>7, <1>26 DEF Sequencer!Rpc
<1>27. CASE Sequencer!Tick
  BY <1>8, <1>9, <1>10, <1>12, <1>13, <1>14, <1>15, <1>17, <1>18, <1>19, <1>21, <1>22, <1>23, <1>24, <1>25, <1>27, <1>28
     DEF Sequencer!Tick
<1> QED
  BY <1>1, <1>26, <1>27 DEF Sequencer!Next

(* A run that has ended owes no finally body, whatever ended it, unless a study of the program is strict: its failed
   trial sets ERROR without the unwind (_finalize_adaptive_trial). *)
THEOREM FinallyRuns ==
  ASSUME Sequencer!WellFormed, Lenient
  PROVE  Sequencer!Spec => []Sequencer!FinallyBeforeEnd
<1>1. Sequencer!Init => RunInv /\ EndInv
  <2>1. Sequencer!Init => EndInv
    BY DEF Sequencer!Init, EndInv, Sequencer!FinallyBeforeEnd
  <2> QED
    BY <2>1, RunBegins
<1>2. (RunInv /\ EndInv) /\ [Sequencer!Next]_Sequencer!vars => (RunInv /\ EndInv)'
  BY RunStep, EndStep
<1>3. RunInv /\ EndInv => Sequencer!FinallyBeforeEnd
  BY DEF EndInv
<1> QED
  BY <1>1, <1>2, <1>3, PTL DEF Sequencer!Spec
=============================================================================
