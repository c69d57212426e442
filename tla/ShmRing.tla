------------------------------ MODULE ShmRing ------------------------------
(* The shared-memory stream ring of shm/shm_ring.py: one writer (a driver      *)
(* process, _driver/runner.py) and any number of readers in other processes,   *)
(* which share one buffer and no lock.                                         *)
(*                                                                             *)
(* Every load and every store of the buffer is a step of its own, in program   *)
(* order.  That is the x86-64 ordering on which the repository says it relies  *)
(* (docs/shm_ring_arm_memory_ordering.md): the writer never loads from the     *)
(* buffer and the readers never store to it, so total store order and          *)
(* interleaving give the same outcomes.  A sequence marker is one word.        *)
(*                                                                             *)
(* The contents of a frame are abstracted to the number of the write that      *)
(* produced them: a word of a slot holds s after write s stored it and 0 after *)
(* create() cleared it, so a torn frame is one whose words differ.             *)
EXTENDS Integers, Sequences, FiniteSets

CONSTANTS
    SlotCount,      \* layout.slot_count
    StampWords,     \* t0_mono_ns and t0_wall_ns of a slot entry
    PayloadWords,   \* the words of a slot's payload area
    MetaWords,      \* the words of its metadata area; {} without a schema
    Layouts,        \* TRUE: a layout_version >= 2 ring, FALSE: a version 1 ring
    SearchWindow,   \* the window of read_event; 32 in the code
    Readers,        \* the attached consumers
    Consumers,      \* which kinds of consumer they may be, see Kinds
    FrameCap,       \* frames the gateway shows of one drain; 4 in the code
    MaxSeq,         \* bound: the writer publishes at most this many frames
    WriterMayDie    \* may the driver process be killed, at any instruction?

Words == StampWords \cup PayloadWords \cup MetaWords
Slots == 0 .. SlotCount - 1
Kinds == {"hdf",      \* HdfWriter: drains everything newer than its last seq
          "analysis", \* stream analysis: drains up to the notified seq
          "gateway",  \* StreamFrameHub: the same, and shows the newest FrameCap of them
          "trace"}    \* workspace trace socket: reads exactly the notified seq

ASSUME SlotCountAssumption == SlotCount \in Nat \ {0}
ASSUME WordsAssumption == /\ StampWords \cap PayloadWords = {}
                          /\ (StampWords \cup PayloadWords) \cap MetaWords = {}
ASSUME LayoutAssumption == Layouts \subseteq BOOLEAN /\ SearchWindow \in Nat
ASSUME KindAssumption == Consumers \subseteq Kinds /\ FrameCap \in Nat \ {0}
ASSUME BoundAssumption == MaxSeq \in Nat /\ WriterMayDie \in BOOLEAN

VARIABLES
    ring,       \* the slots: both markers and the words of the frame
    hinted,     \* does the header carry last_seq and last_slot?
    lastSlot,   \* the header's last_slot (last_seq is stored and never used)
    wpc,        \* where the writer is
    wtodo,      \* words of the area being copied that are not yet stored
    nextSeq,    \* _next_seq: the number of the last finished write
    nextSlot,   \* _next_slot
    batch,      \* frames of the running write or write_batch still to write
    first,      \* the first_seq of that call
    alive,      \* the driver process has not been killed
    notes,      \* the chunk_ready descriptors published so far
    rd,         \* one record of program state per reader, see ReaderType
    log         \* log[r]: every frame handed to the consumer r (history)

vars == <<ring, hinted, lastSlot, wpc, wtodo, nextSeq, nextSlot, batch, first,
          alive, notes, rd, log>>
readerVars == <<rd, log>>
writerVars == <<wpc, wtodo, nextSeq, nextSlot, batch, first, alive, notes>>
ringVars == <<ring, hinted, lastSlot>>

-----------------------------------------------------------------------------
SlotType == [begin : Nat, end : Nat, data : [Words -> Nat]]
EventType == [seq : Nat, data : [Words -> Nat]]
NoteType == [first : Nat \ {0}, seq : Nat \ {0}]
WriterPcs == {"idle", "begin0", "end0", "copy", "stamp", "commit",
              "hintSlot", "advance"}
ReaderPcs == {"idle", "hint", "scanBegin", "scanEnd", "begin1", "end1", "load",
              "end2", "return"}

ReaderType ==
    [kind : Kinds,
     pc : ReaderPcs,
     msg : Nat,                            \* seq of the chunk_ready being handled
     base : Nat \cup {-1},                 \* last_seq seeded at attach, or -1
     last : Nat,                           \* last_seq of the consumer
     plan : Seq(Slots),                    \* slots still to scan or to try
     entries : SUBSET (Nat \X Slots),      \* (seq, slot) pairs of read_events
     slot : Slots, exp : Nat,              \* arguments of _read_stable_slot
     mark : Nat,                           \* the marker loaded last
     todo : SUBSET Words, data : [Words -> Nat],
     out : Seq(EventType)]

\* The type of every variable.
TypeOK ==
    /\ ring \in [Slots -> SlotType]
    /\ hinted \in BOOLEAN
    /\ lastSlot \in Slots
    /\ wpc \in WriterPcs
    /\ wtodo \in SUBSET Words
    /\ nextSeq \in Nat
    /\ nextSlot \in Slots
    /\ batch \in Nat
    /\ first \in Nat
    /\ alive \in BOOLEAN
    /\ notes \in SUBSET NoteType
    /\ rd \in [Readers -> ReaderType]
    /\ log \in [Readers -> Seq(EventType)]

Blank == [w \in Words |-> 0]

\* A freshly created ring, no reader attached.
Init ==
    /\ ring = [i \in Slots |-> [begin |-> 0, end |-> 0, data |-> Blank]]
    /\ hinted \in Layouts
    /\ lastSlot = 0
    /\ wpc = "idle" /\ wtodo = {}
    /\ nextSeq = 0 /\ nextSlot = 0
    /\ batch = 0 /\ first = 0
    /\ alive = TRUE
    /\ notes = {}
    /\ \E kind \in [Readers -> Consumers] :
         rd = [r \in Readers |->
                 [kind |-> kind[r], pc |-> "idle", msg |-> 0, base |-> -1,
                  last |-> 0, plan |-> <<>>, entries |-> {}, slot |-> 0, exp |-> 0,
                  mark |-> 0, todo |-> {}, data |-> Blank, out |-> <<>>]]
    /\ log = [r \in Readers |-> <<>>]

-----------------------------------------------------------------------------
(* The writer.                                                                 *)

seq == nextSeq + 1      \* the number of the write in progress

WriterAt(pc) == alive /\ wpc = pc

\* publish_stream (n = 1) or publish_stream_batch: write_batch accepts between
\* 1 and slot_count frames.
Publish(n) ==
    /\ WriterAt("idle")
    /\ nextSeq + n <= MaxSeq
    /\ batch' = n /\ first' = seq
    /\ wpc' = "begin0"
    /\ UNCHANGED <<ringVars, wtodo, nextSeq, nextSlot, alive, notes, readerVars>>

\* Invalidate the slot: seq_begin first ...
InvalidateBegin ==
    /\ WriterAt("begin0")
    /\ ring' = [ring EXCEPT ![nextSlot].begin = 0]
    /\ wpc' = "end0"
    /\ UNCHANGED <<hinted, lastSlot, wtodo, nextSeq, nextSlot, batch, first,
                   alive, notes, readerVars>>

\* ... then seq_end.
InvalidateEnd ==
    /\ WriterAt("end0")
    /\ ring' = [ring EXCEPT ![nextSlot].end = 0]
    /\ wpc' = "copy" /\ wtodo' = PayloadWords \cup MetaWords
    /\ UNCHANGED <<hinted, lastSlot, nextSeq, nextSlot, batch, first, alive,
                   notes, readerVars>>

\* copyto stores the words of an area in no particular order; the payload
\* before the metadata.
CopyWord(w) ==
    /\ WriterAt("copy")
    /\ w \in wtodo
    /\ w \in MetaWords => wtodo \cap PayloadWords = {}
    /\ ring' = [ring EXCEPT ![nextSlot].data[w] = seq]
    /\ wtodo' = wtodo \ {w}
    /\ UNCHANGED <<hinted, lastSlot, wpc, nextSeq, nextSlot, batch, first, alive,
                   notes, readerVars>>

\* SLOT_STRUCT.pack_into stores seq_begin, then the timestamps ...
PackBegin ==
    /\ WriterAt("copy") /\ wtodo = {}
    /\ ring' = [ring EXCEPT ![nextSlot].begin = seq]
    /\ wpc' = "stamp" /\ wtodo' = StampWords
    /\ UNCHANGED <<hinted, lastSlot, nextSeq, nextSlot, batch, first, alive,
                   notes, readerVars>>

PackStamp(w) ==
    /\ WriterAt("stamp")
    /\ w \in wtodo
    /\ ring' = [ring EXCEPT ![nextSlot].data[w] = seq]
    /\ wtodo' = wtodo \ {w}
    /\ UNCHANGED <<hinted, lastSlot, wpc, nextSeq, nextSlot, batch, first, alive,
                   notes, readerVars>>

\* ... then the reserved flags word, which is the word of seq_end.
PackFlags ==
    /\ WriterAt("stamp") /\ wtodo = {}
    /\ ring' = [ring EXCEPT ![nextSlot].end = 0]
    /\ wpc' = "commit"
    /\ UNCHANGED <<hinted, lastSlot, wtodo, nextSeq, nextSlot, batch, first,
                   alive, notes, readerVars>>

Commit ==
    /\ WriterAt("commit")
    /\ ring' = [ring EXCEPT ![nextSlot].end = seq]
    /\ wpc' = IF hinted THEN "hintSlot" ELSE "advance"
    /\ UNCHANGED <<hinted, lastSlot, wtodo, nextSeq, nextSlot, batch, first,
                   alive, notes, readerVars>>

StoreHint ==
    /\ WriterAt("hintSlot")
    /\ lastSlot' = nextSlot
    /\ wpc' = "advance"
    /\ UNCHANGED <<ring, hinted, wtodo, nextSeq, nextSlot, batch, first, alive,
                   notes, readerVars>>

\* The end of write(): advance the cursor, and go on with the batch or return
\* and publish the chunk_ready descriptor of the whole call.
Advance ==
    /\ WriterAt("advance")
    /\ nextSeq' = seq
    /\ nextSlot' = (nextSlot + 1) % SlotCount
    /\ batch' = batch - 1
    /\ IF batch > 1
         THEN wpc' = "begin0" /\ UNCHANGED notes
         ELSE wpc' = "idle" /\ notes' = notes \cup {[first |-> first, seq |-> seq]}
    /\ UNCHANGED <<ringVars, wtodo, first, alive, readerVars>>

\* The driver process is killed between two stores (supervision terminates and
\* kills drivers); the segment survives in the readers' mappings.
WriterKilled ==
    /\ WriterMayDie /\ alive
    /\ alive' = FALSE
    /\ UNCHANGED <<ringVars, wpc, wtodo, nextSeq, nextSlot, batch, first, notes,
                   readerVars>>

WriterStep ==
    \/ InvalidateBegin \/ InvalidateEnd
    \/ \E w \in PayloadWords \cup MetaWords : CopyWord(w)
    \/ PackBegin \/ \E w \in StampWords : PackStamp(w)
    \/ PackFlags \/ Commit \/ StoreHint \/ Advance

-----------------------------------------------------------------------------
(* The readers.  A consumer handles one chunk_ready descriptor at a time; PUB/  *)
(* SUB keeps the order and may lose descriptors.                               *)

\* Reader r does a step that changes only its own record.
ReaderMoves(r, new) ==
    /\ rd' = [rd EXCEPT ![r] = new]
    /\ UNCHANGED <<ringVars, writerVars, log>>

\* Mutant: the full scan stops one slot early.
AllSlotsShort == [i \in 1 .. SlotCount - 1 |-> i - 1]

\* The order in which read_events scans, and read_event tries, the slots: from
\* the hinted slot h on, or from slot 0 without hints.
AllSlots == [i \in 1 .. SlotCount |-> i - 1]
ScanFrom(h) == [i \in 1 .. SlotCount |-> (h + i - 1) % SlotCount]
SearchFrom(h) ==
    <<h>> \o [i \in 1 .. 2 * SearchWindow |->
                LET delta == (i + 1) \div 2
                IN  (IF i % 2 = 1 THEN h + delta ELSE h - delta) % SlotCount]
          \o AllSlots

\* Call _read_stable_slot(slot, expected_seq = exp).
Try(me, slot, exp) == [me EXCEPT !.pc = "begin1", !.slot = slot, !.exp = exp]

\* read_event: try the next slot of the plan, or give up and return None.
NextTry(me) ==
    IF me.plan = <<>>
      THEN [me EXCEPT !.pc = "return"]
      ELSE [Try(me, Head(me.plan), me.exp) EXCEPT !.plan = Tail(me.plan)]

\* Mutant: the entries are read in the order of the scan, not sorted.
NextEntryUnsorted(r, me) ==
    \/ me.entries = {} /\ ReaderMoves(r, [me EXCEPT !.pc = "return"])
    \/ \E e \in me.entries :
         ReaderMoves(r, [Try(me, e[2], e[1]) EXCEPT !.entries = me.entries \ {e}])

\* read_events: read the oldest entry not read yet (entries.sort by seq), or
\* return what was collected.
NextEntry(r, me) ==
    \/ me.entries = {} /\ ReaderMoves(r, [me EXCEPT !.pc = "return"])
    \/ \E e \in me.entries :
         /\ \A f \in me.entries : e[1] <= f[1]
         /\ ReaderMoves(r, [Try(me, e[2], e[1]) EXCEPT
                                !.entries = me.entries \ {e}])

\* _read_stable_slot rejected the slot.
Reject(r, me) ==
    IF me.kind = "trace" THEN ReaderMoves(r, NextTry(me)) ELSE NextEntry(r, me)

\* _read_stable_slot returned the event it copied.
Accept(r, me) ==
    LET event == [seq |-> me.exp, data |-> me.data]
        got == [me EXCEPT !.out = Append(me.out, event)]
    IN  IF me.kind = "trace"
          THEN ReaderMoves(r, [got EXCEPT !.pc = "return"])
          ELSE NextEntry(r, got)

\* Start walking the slots in the order of plan.
Walk(r, me, plan) ==
    LET planned == [me EXCEPT !.plan = plan]
    IN  ReaderMoves(r, IF me.kind = "trace"
                         THEN NextTry(planned)
                         ELSE [planned EXCEPT !.pc = "scanBegin"])

\* A descriptor arrives.  The first one attaches the reader, whose last_seq
\* starts just before the frames of that descriptor.
TakeNote(r, n) ==
    LET fresh == rd[r].base = -1
        me == [rd[r] EXCEPT !.msg = n.seq, !.exp = n.seq,
                            !.base = IF fresh THEN n.first - 1 ELSE rd[r].base,
                            !.last = IF fresh THEN n.first - 1 ELSE rd[r].last]
    IN  /\ rd[r].pc = "idle"
        /\ n \in notes /\ n.seq > rd[r].msg
        /\ IF hinted THEN ReaderMoves(r, [me EXCEPT !.pc = "hint"])
                     ELSE Walk(r, me, AllSlots)

\* _read_last_hint.
LoadHint(r) ==
    /\ rd[r].pc = "hint"
    /\ Walk(r, rd[r], IF rd[r].kind = "trace" THEN SearchFrom(lastSlot)
                                           ELSE ScanFrom(lastSlot))

\* One slot of the scan of read_events: seq_begin, then seq_end.
ScanBegin(r) ==
    /\ rd[r].pc = "scanBegin"
    /\ ReaderMoves(r, [rd[r] EXCEPT !.pc = "scanEnd",
                                    !.mark = ring[Head(rd[r].plan)].begin])

ScanEnd(r) ==
    LET slot == Head(rd[r].plan)
        end == ring[slot].end
        found == rd[r].mark # 0 /\ rd[r].mark = end /\ end > rd[r].last
        new == IF found THEN {<<end, slot>>} ELSE {}
        me == [rd[r] EXCEPT !.plan = Tail(rd[r].plan),
                            !.entries = rd[r].entries \cup new]
    IN  /\ rd[r].pc = "scanEnd"
        /\ IF me.plan # <<>> THEN ReaderMoves(r, [me EXCEPT !.pc = "scanBegin"])
                             ELSE NextEntry(r, me)

\* _read_stable_slot: load both markers and compare, ...
StableBegin1(r) ==
    /\ rd[r].pc = "begin1"
    /\ ReaderMoves(r, [rd[r] EXCEPT !.pc = "end1", !.mark = ring[rd[r].slot].begin])

StableEnd1(r) ==
    LET end == ring[rd[r].slot].end
    IN  /\ rd[r].pc = "end1"
        /\ IF rd[r].mark = 0 \/ rd[r].mark # end \/ end # rd[r].exp
             THEN Reject(r, rd[r])
             ELSE ReaderMoves(r, [rd[r] EXCEPT !.pc = "load", !.todo = Words,
                                               !.data = Blank])

\* ... copy the timestamps, the payload and the metadata, ...
StableLoad(r, w) ==
    /\ rd[r].pc = "load"
    /\ w \in rd[r].todo
    /\ w \notin StampWords => rd[r].todo \cap StampWords = {}
    /\ w \in MetaWords => rd[r].todo \cap PayloadWords = {}
    /\ ReaderMoves(r, [rd[r] EXCEPT !.todo = rd[r].todo \ {w},
                                    !.data[w] = ring[rd[r].slot].data[w]])

\* ... and load both markers again.
StableBegin2(r) ==
    /\ rd[r].pc = "load" /\ rd[r].todo = {}
    /\ ReaderMoves(r, [rd[r] EXCEPT !.pc = "end2", !.mark = ring[rd[r].slot].begin])

\* Mutant: the markers are not compared again after the copy.
StableEnd2NoRecheck(r) == rd[r].pc = "end2" /\ Accept(r, rd[r])

StableEnd2(r) ==
    LET end == ring[rd[r].slot].end
    IN  /\ rd[r].pc = "end2"
        /\ IF rd[r].mark # rd[r].exp \/ end # rd[r].exp \/ rd[r].mark # end
             THEN Reject(r, rd[r])
             ELSE Accept(r, rd[r])

\* The consumers that ignore frames newer than the descriptor they are handling.
StopsAtNote == {"analysis", "gateway"}

\* Mutant: frames newer than the descriptor are kept.
KeepsAll(r, n) == n = Len(rd[r].out)

\* The events are in ascending order; the consumer keeps the first n.
Keeps(r, n) ==
    IF rd[r].kind \in StopsAtNote
      THEN \A k \in 1 .. Len(rd[r].out) : k <= n <=> rd[r].out[k].seq <= rd[r].msg
      ELSE n = Len(rd[r].out)

\* How many of those n the gateway throws away, so as not to flood its clients.
Capped(r, n) == IF rd[r].kind = "gateway" /\ n > FrameCap THEN n - FrameCap ELSE 0

Idle(me) == [me EXCEPT !.pc = "idle", !.slot = 0, !.exp = 0, !.mark = 0,
                       !.data = Blank, !.out = <<>>, !.plan = <<>>]

\* Mutant: the consumer does not remember the last event.
ReturnForgetsLast(r) ==
    /\ rd[r].pc = "return"
    /\ \E n \in 0 .. Len(rd[r].out) :
         /\ Keeps(r, n)
         /\ log' = [log EXCEPT ![r] = log[r] \o SubSeq(rd[r].out, Capped(r, n) + 1, n)]
    /\ rd' = [rd EXCEPT ![r] = Idle(rd[r])]
    /\ UNCHANGED <<ringVars, writerVars>>

\* The call returns; the consumer takes the events and remembers the last one.
Return(r) ==
    /\ rd[r].pc = "return"
    /\ \E n \in 0 .. Len(rd[r].out) :
         /\ Keeps(r, n)
         /\ log' = [log EXCEPT ![r] = log[r] \o SubSeq(rd[r].out, Capped(r, n) + 1, n)]
         /\ rd' = [rd EXCEPT ![r] =
                     [Idle(rd[r]) EXCEPT !.last = IF n = 0 THEN rd[r].last
                                                           ELSE rd[r].out[n].seq]]
    /\ UNCHANGED <<ringVars, writerVars>>

ReaderStep(r) ==
    \/ LoadHint(r) \/ ScanBegin(r) \/ ScanEnd(r)
    \/ StableBegin1(r) \/ StableEnd1(r)
    \/ \E w \in Words : StableLoad(r, w)
    \/ StableBegin2(r) \/ StableEnd2(r) \/ Return(r)

Next ==
    \/ \E n \in 1 .. SlotCount : Publish(n)
    \/ WriterStep
    \/ WriterKilled
    \/ \E r \in Readers : ReaderStep(r) \/ \E n \in notes : TakeNote(r, n)

Spec == Init /\ [][Next]_vars

\* A process that is inside a call goes on executing it, and a consumer takes the
\* descriptors that reach it; nothing obliges a driver to publish.
Fairness ==
    /\ WF_vars(WriterStep)
    /\ \A r \in Readers : WF_vars(ReaderStep(r) \/ \E n \in notes : TakeNote(r, n))

FairSpec == Spec /\ Fairness

-----------------------------------------------------------------------------
(* Properties.                                                                 *)

\* The number of frames whose seq_end has been stored.
Committed == IF wpc \in {"hintSlot", "advance"} THEN seq ELSE nextSeq

\* Write s is complete and nothing has begun to overwrite it.
SlotOf(s) == (s - 1) % SlotCount
Intact(s) == ring[SlotOf(s)].begin = s

Whole(ev) == \A w \in Words : ev.data[w] = ev.seq

\* No torn read: an event that read_event or read_events is about to return
\* consists, to the last word, of the frame written under its sequence number,
\* whatever the writer did to the slot in the meantime (_read_stable_slot).
NoTornRead == \A r \in Readers : \A k \in DOMAIN rd[r].out : Whole(rd[r].out[k])

\* The numbers between the consumer's baseline and its last_seq that it did not get.
Skipped(r) ==
    {s \in 1 .. rd[r].last :
       s > rd[r].base /\ \A k \in DOMAIN log[r] : log[r][k].seq # s}

\* The gateway has shown FrameCap frames in a row that are newer than s.
Outshone(r, s) ==
    /\ rd[r].kind = "gateway"
    /\ \E k \in 1 .. Len(log[r]) + 1 - FrameCap :
         \A j \in k .. k + FrameCap - 1 : log[r][j].seq > s

\* A consumer that stops at the notified sequence number passes over a frame that
\* is still in the ring only by intent: whatever stream analysis did not get has
\* been overwritten, and what the gateway did not show has been overwritten or
\* gave way to FrameCap newer frames of its drain.
DrainLossIsOverrun ==
    \A r \in Readers : rd[r].kind \in StopsAtNote =>
        \A s \in Skipped(r) : Intact(s) => Outshone(r, s)

\* HdfWriter counts each skipped number in seq_gap_total: the loss audit
\* (docs/stream_telemetry_loss_audit.md, row 19) gives ring wrap, more than
\* ring_slots writes between two drains, as the only cause.
HdfLossIsOverrun ==
    \A r \in Readers : rd[r].kind = "hdf" => \A s \in Skipped(r) : ~Intact(s)

\* read_event returns None for a notified frame only if that frame has been
\* overwritten: hint, window and full scan together visit its slot.
TraceFoundUnlessOverrun ==
    \A r \in Readers :
      rd[r].kind = "trace" /\ rd[r].pc = "return" /\ rd[r].out = <<>>
        => ~Intact(rd[r].exp)

\* The ring implements the lossy ordered log of StreamLog: whatever the writer
\* overwrites while it is read, a consumer receives whole frames, in the order
\* they were written, each at most once.
Log == INSTANCE StreamLog WITH written <- Committed
ImplementsLog == Log!Spec

\* A consumer whose producer lives catches up: once a descriptor is published
\* the consumer's last_seq reaches its sequence number or a later one.
CatchesUp ==
    \A r \in Readers : \A s \in 1 .. MaxSeq :
      rd[r].kind # "trace" =>
        ((\E n \in notes : n.seq = s) ~> (rd[r].last >= s \/ ~alive))
=============================================================================
