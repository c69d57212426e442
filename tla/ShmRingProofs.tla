--------------------------- MODULE ShmRingProofs ---------------------------
(* Machine-checked proofs about ShmRing, for every ring size, every layout of  *)
(* a frame and every set of readers.                                           *)
EXTENDS ShmRing, TLAPS, SequenceTheorems

\* The largest number stored in any seq_begin so far.
Latest == IF wpc \in {"stamp", "commit", "hintSlot", "advance"} THEN seq ELSE nextSeq

\* What holds of slot i at every instruction of the writer: markers never run
\* ahead of Latest, and a non-zero seq_end vouches for every word.
SlotInv(i) ==
    /\ ring[i].begin <= Latest
    /\ ring[i].end <= Latest
    /\ ring[i].end # 0 => \A w \in Words : ring[i].data[w] = ring[i].end

\* What the writer has done so far to the slot it is working on.
WriterInv ==
    /\ wpc # "idle" => batch >= 1 /\ first >= 1
    /\ wpc = "end0" => ring[nextSlot].begin = 0
    /\ wpc = "copy" => /\ ring[nextSlot].begin = 0 /\ ring[nextSlot].end = 0
                       /\ \A w \in PayloadWords \cup MetaWords :
                            w \notin wtodo => ring[nextSlot].data[w] = seq
    /\ wpc = "stamp" => /\ ring[nextSlot].begin = seq /\ ring[nextSlot].end = 0
                        /\ \A w \in Words :
                             w \notin wtodo => ring[nextSlot].data[w] = seq
    /\ wpc = "commit" => /\ ring[nextSlot].begin = seq /\ ring[nextSlot].end = 0
                         /\ \A w \in Words : ring[nextSlot].data[w] = seq

OutWhole(me) == \A k \in DOMAIN me.out : Whole(me.out[k])

\* What a reader may rely on: while it copies, if seq_begin still has the
\* expected value then the slot is committed and all it copied is genuine.
ReaderOK(me) ==
    /\ me.pc \in {"scanBegin", "scanEnd"} => me.plan # <<>>
    /\ me.pc = "load" =>
         /\ me.exp # 0 /\ me.exp <= Latest
         /\ ring[me.slot].begin = me.exp =>
              /\ ring[me.slot].end = me.exp
              /\ \A w \in Words : w \notin me.todo => me.data[w] = me.exp
    /\ me.pc = "end2" /\ me.mark = me.exp => \A w \in Words : me.data[w] = me.exp
    /\ OutWhole(me)

IInv ==
    /\ TypeOK
    /\ WriterInv
    /\ \A i \in Slots : SlotInv(i)
    /\ \A r \in Readers : ReaderOK(rd[r])

USE SlotCountAssumption, WordsAssumption, LayoutAssumption, KindAssumption,
    BoundAssumption

-----------------------------------------------------------------------------
(* The initial state.                                                          *)

\* The orders in which slots are visited are sequences of slots.
LEMMA PlansAreSlotSequences ==
  ASSUME NEW h \in Slots
  PROVE  /\ AllSlots \in Seq(Slots) /\ AllSlots # <<>>
         /\ ScanFrom(h) \in Seq(Slots) /\ ScanFrom(h) # <<>>
         /\ SearchFrom(h) \in Seq(Slots) /\ SearchFrom(h) # <<>>
<1>1. AllSlots \in Seq(Slots) /\ AllSlots # <<>>
  BY DEF AllSlots, Slots
<1>2. ScanFrom(h) \in Seq(Slots) /\ ScanFrom(h) # <<>>
  <2>1. \A i \in 1 .. SlotCount : (h + i - 1) % SlotCount \in 0 .. SlotCount - 1
    BY DEF Slots
  <2> QED
    BY <2>1 DEF ScanFrom, Slots
<1>3. SearchFrom(h) \in Seq(Slots) /\ SearchFrom(h) # <<>>
  <2> DEFINE Turn(i) == LET delta == (i + 1) \div 2
                        IN  (IF i % 2 = 1 THEN h + delta ELSE h - delta) % SlotCount
             Window == [i \in 1 .. 2 * SearchWindow |-> Turn(i)]
  <2>1. \A i \in 1 .. 2 * SearchWindow : Turn(i) \in Slots
    BY DEF Slots
  <2>2. Window \in Seq(Slots)
    BY <2>1
  <2>3. <<h>> \in Seq(Slots)
    OBVIOUS
  <2>4. <<h>> \o Window \in Seq(Slots) /\ Len(<<h>> \o Window) >= 1
    BY <2>2, <2>3
  <2>5. SearchFrom(h) = (<<h>> \o Window) \o AllSlots
    BY DEF SearchFrom
  <2> QED
    BY <2>4, <2>5, <1>1
<1> QED
  BY <1>1, <1>2, <1>3

\* A freshly created ring satisfies the invariant.
LEMMA InitInv == Init => IInv
<1> SUFFICES ASSUME Init PROVE IInv
  OBVIOUS
<1>1. 0 \in Slots
  BY DEF Slots
<1>2. Blank \in [Words -> Nat]
  BY DEF Blank
<1>3. PICK kind \in [Readers -> Consumers] :
         rd = [r \in Readers |->
                 [kind |-> kind[r], pc |-> "idle", msg |-> 0, base |-> -1,
                  last |-> 0, plan |-> <<>>, entries |-> {}, slot |-> 0, exp |-> 0,
                  mark |-> 0, todo |-> {}, data |-> Blank, out |-> <<>>]]
  BY DEF Init
<1>4. \A r \in Readers : rd[r] \in ReaderType /\ ReaderOK(rd[r])
  BY <1>1, <1>2, <1>3 DEF ReaderType, ReaderOK, OutWhole, ReaderPcs
<1>5. rd \in [Readers -> ReaderType]
  BY <1>3, <1>4
<1>6. ring \in [Slots -> SlotType] /\ \A i \in Slots : SlotInv(i)
  BY <1>1, <1>2 DEF Init, SlotType, SlotInv, Latest, Blank, seq
<1>7. TypeOK
  BY <1>1, <1>5, <1>6 DEF Init, TypeOK, WriterPcs
<1> QED
  BY <1>4, <1>6, <1>7 DEF Init, IInv, WriterInv

-----------------------------------------------------------------------------
(* The writer.                                                                 *)

\* A store that either leaves a slot's committed markers alone or moves its
\* seq_begin to 0 or to a fresh number takes nothing away from a reader.
LEMMA ReadersUndisturbed ==
  ASSUME IInv, ring' \in [Slots -> SlotType], rd' = rd,
         Latest \in Nat, Latest' \in Nat, Latest <= Latest',
         \A i \in Slots :
           \/ ring'[i].begin = 0
           \/ ring'[i].begin > Latest
           \/ /\ ring'[i].begin = ring[i].begin
              /\ ring[i].end = ring[i].begin => ring'[i].end = ring[i].end
  PROVE  \A r \in Readers : ReaderOK(rd[r])'
<1> SUFFICES ASSUME NEW r \in Readers PROVE ReaderOK(rd[r])'
  OBVIOUS
<1> DEFINE me == rd[r]
<1>1. me \in ReaderType /\ ReaderOK(me) /\ rd'[r] = me
  BY DEF IInv, TypeOK
<1>2. me.slot \in Slots /\ me.exp \in Nat
  BY <1>1 DEF ReaderType
<1>3. ring[me.slot] \in SlotType /\ ring'[me.slot] \in SlotType
  BY <1>2 DEF IInv, TypeOK
<1>4. ASSUME me.pc = "load", ring'[me.slot].begin = me.exp
      PROVE  /\ me.exp # 0
             /\ ring'[me.slot].end = me.exp
             /\ \A w \in Words : w \notin me.todo => me.data[w] = me.exp
  <2>1. me.exp # 0 /\ me.exp <= Latest
    BY <1>1, <1>4 DEF ReaderOK
  <2>2. ring'[me.slot].begin # 0 /\ ~(ring'[me.slot].begin > Latest)
    BY <1>2, <1>4, <2>1
  <2>3. ring[me.slot].begin = me.exp
    BY <1>2, <1>4, <2>2
  <2>4. /\ ring[me.slot].end = me.exp
        /\ \A w \in Words : w \notin me.todo => me.data[w] = me.exp
    BY <1>1, <1>4, <2>3 DEF ReaderOK
  <2> QED
    BY <1>2, <2>1, <2>2, <2>3, <2>4
<1>5. me.pc = "load" => me.exp # 0 /\ me.exp <= Latest'
  BY <1>1, <1>2 DEF ReaderOK
<1> QED
  BY <1>1, <1>4, <1>5 DEF ReaderOK, OutWhole, Whole

\* The slot under the cursor is the only one a store of the writer changes.
OthersSame == \A i \in Slots \ {nextSlot} : ring'[i] = ring[i]

\* What is left of the invariant once the slot under the cursor is dealt with.
LEMMA StoreInv ==
  ASSUME IInv, TypeOK', WriterInv', UNCHANGED rd, nextSlot \in Slots,
         Latest \in Nat, Latest' \in Nat, Latest <= Latest',
         OthersSame, SlotInv(nextSlot)',
         \/ ring'[nextSlot].begin = 0
         \/ ring'[nextSlot].begin > Latest
         \/ /\ ring'[nextSlot].begin = ring[nextSlot].begin
            /\ ring[nextSlot].end = ring[nextSlot].begin
                 => ring'[nextSlot].end = ring[nextSlot].end,
         nextSlot' = nextSlot
  PROVE  IInv'
<1>1. ring \in [Slots -> SlotType] /\ ring' \in [Slots -> SlotType]
  BY DEF IInv, TypeOK
<1>2. \A i \in Slots : SlotInv(i)'
  <2> SUFFICES ASSUME NEW i \in Slots, i # nextSlot PROVE SlotInv(i)'
    OBVIOUS
  <2>1. ring'[i] = ring[i] /\ SlotInv(i) /\ ring[i] \in SlotType
    BY <1>1 DEF OthersSame, IInv
  <2> QED
    BY <2>1 DEF SlotInv, SlotType
<1>3. \A r \in Readers : ReaderOK(rd[r])'
  BY <1>1, ReadersUndisturbed DEF OthersSame
<1> QED
  BY <1>2, <1>3 DEF IInv

\* Every store and every local step of the writer preserves the invariant.
LEMMA WriterStepInv ==
  ASSUME IInv, WriterStep
  PROVE  IInv'
<1> DEFINE old == ring[nextSlot]
           new == ring'[nextSlot]
<1>a. TypeOK /\ WriterInv /\ nextSlot \in Slots /\ SlotInv(nextSlot)
  BY DEF IInv, TypeOK
<1>b. old \in SlotType /\ nextSeq \in Nat /\ Latest \in Nat
  BY <1>a DEF TypeOK, Latest, seq
<1>1. CASE InvalidateBegin
  <2>1. new = [old EXCEPT !.begin = 0] /\ OthersSame /\ TypeOK'
    BY <1>1, <1>a DEF InvalidateBegin, WriterAt, TypeOK, SlotType, OthersSame, WriterPcs,
                      readerVars
  <2>2. new.begin = 0 /\ new.end = old.end /\ new.data = old.data
    BY <2>1, <1>b DEF SlotType
  <2>3. Latest' = Latest
    BY <1>1 DEF InvalidateBegin, WriterAt, Latest, seq
  <2>4. SlotInv(nextSlot)'
    BY <1>1, <1>a, <1>b, <2>2, <2>3 DEF SlotInv, InvalidateBegin, SlotType
  <2>5. WriterInv'
    BY <1>1, <1>a, <2>2 DEF WriterInv, InvalidateBegin, WriterAt
  <2> QED
    BY <1>1, <1>a, <1>b, <2>1, <2>2, <2>3, <2>4, <2>5, StoreInv
       DEF InvalidateBegin, readerVars
<1>2. CASE InvalidateEnd
  <2>1. new = [old EXCEPT !.end = 0] /\ OthersSame /\ TypeOK'
    BY <1>2, <1>a DEF InvalidateEnd, WriterAt, TypeOK, SlotType, OthersSame, WriterPcs,
                      readerVars, Words
  <2>2. new.begin = 0 /\ old.begin = 0 /\ new.end = 0 /\ new.data = old.data
    BY <1>2, <1>a, <2>1, <1>b DEF SlotType, WriterInv, InvalidateEnd, WriterAt
  <2>3. Latest' = Latest
    BY <1>2 DEF InvalidateEnd, WriterAt, Latest, seq
  <2>4. SlotInv(nextSlot)'
    BY <1>2, <1>a, <1>b, <2>2, <2>3 DEF SlotInv, InvalidateEnd, SlotType
  <2>5. WriterInv'
    BY <1>2, <1>a, <2>2 DEF WriterInv, InvalidateEnd, WriterAt
  <2> QED
    BY <1>2, <1>a, <1>b, <2>1, <2>2, <2>3, <2>4, <2>5, StoreInv
       DEF InvalidateEnd, readerVars
<1>3. CASE \E w \in PayloadWords \cup MetaWords : CopyWord(w)
  <2> PICK w \in PayloadWords \cup MetaWords : CopyWord(w)
    BY <1>3
  <2>0. seq \in Nat
    BY <1>b DEF seq
  <2>1. new = [old EXCEPT !.data[w] = seq] /\ OthersSame /\ TypeOK'
    <3>1. new = [old EXCEPT !.data[w] = seq] /\ OthersSame
      BY <1>a DEF CopyWord, TypeOK, SlotType, OthersSame
    <3>2. new \in SlotType
      BY <1>a, <1>b, <2>0, <3>1 DEF CopyWord, SlotType
    <3>3. ring' \in [Slots -> SlotType]
      BY <1>a, <3>2 DEF CopyWord, TypeOK
    <3> QED
      BY <1>a, <3>1, <3>3 DEF CopyWord, WriterAt, TypeOK, WriterPcs, readerVars
  <2>2. /\ new.begin = 0 /\ old.begin = 0 /\ new.end = 0
        /\ new.data = [old.data EXCEPT ![w] = seq]
    BY <1>a, <2>1, <1>b DEF SlotType, WriterInv, CopyWord, WriterAt
  <2>3. Latest' = Latest
    BY DEF CopyWord, WriterAt, Latest, seq
  <2>4. SlotInv(nextSlot)'
    BY <1>a, <1>b, <2>2, <2>3 DEF SlotInv, CopyWord, SlotType
  <2>5. WriterInv'
    <3>1. \A v \in PayloadWords \cup MetaWords : v \notin wtodo' => new.data[v] = seq
      BY <1>a, <1>b, <2>2 DEF WriterInv, CopyWord, WriterAt, SlotType, Words
    <3> QED
      BY <1>a, <2>2, <3>1 DEF WriterInv, CopyWord, WriterAt, seq
  <2> QED
    BY <1>a, <1>b, <2>1, <2>2, <2>3, <2>4, <2>5, StoreInv DEF CopyWord, readerVars
<1>4. CASE PackBegin
  <2>0. seq \in Nat
    BY <1>b DEF seq
  <2>1. new = [old EXCEPT !.begin = seq] /\ OthersSame /\ TypeOK'
    <3>1. new = [old EXCEPT !.begin = seq] /\ OthersSame
      BY <1>4, <1>a DEF PackBegin, TypeOK, SlotType, OthersSame
    <3>2. new \in SlotType
      BY <1>4, <1>a, <1>b, <2>0, <3>1 DEF PackBegin, SlotType
    <3>3. ring' \in [Slots -> SlotType]
      BY <1>4, <1>a, <3>2 DEF PackBegin, TypeOK
    <3> QED
      BY <1>4, <1>a, <3>1, <3>3 DEF PackBegin, WriterAt, TypeOK, WriterPcs, readerVars, Words
  <2>2. new.begin = seq /\ new.end = 0 /\ new.data = old.data
    BY <1>4, <1>a, <2>1, <1>b DEF SlotType, WriterInv, PackBegin, WriterAt
  <2>3. Latest = nextSeq /\ Latest' = seq /\ seq = nextSeq + 1
    BY <1>4 DEF PackBegin, WriterAt, Latest, seq
  <2>4. SlotInv(nextSlot)'
    BY <1>4, <1>a, <1>b, <2>2, <2>3 DEF SlotInv, PackBegin, SlotType
  <2>5. WriterInv'
    <3>1. \A v \in Words : v \notin StampWords => new.data[v] = seq
      BY <1>4, <1>a, <2>2 DEF WriterInv, PackBegin, WriterAt, Words
    <3> QED
      BY <1>4, <1>a, <2>2, <3>1 DEF WriterInv, PackBegin, WriterAt, seq
  <2> QED
    BY <1>4, <1>a, <1>b, <2>1, <2>2, <2>3, <2>4, <2>5, StoreInv
       DEF PackBegin, readerVars
<1>5. CASE \E w \in StampWords : PackStamp(w)
  <2> PICK w \in StampWords : PackStamp(w)
    BY <1>5
  <2>0. seq \in Nat
    BY <1>b DEF seq
  <2>1. new = [old EXCEPT !.data[w] = seq] /\ OthersSame /\ TypeOK'
    <3>1. new = [old EXCEPT !.data[w] = seq] /\ OthersSame
      BY <1>a DEF PackStamp, TypeOK, SlotType, OthersSame
    <3>2. new \in SlotType
      BY <1>a, <1>b, <2>0, <3>1 DEF PackStamp, SlotType
    <3>3. ring' \in [Slots -> SlotType]
      BY <1>a, <3>2 DEF PackStamp, TypeOK
    <3> QED
      BY <1>a, <3>1, <3>3 DEF PackStamp, WriterAt, TypeOK, WriterPcs, readerVars
  <2>2. /\ new.begin = seq /\ old.begin = seq /\ old.end = 0 /\ new.end = 0
        /\ new.data = [old.data EXCEPT ![w] = seq]
    BY <1>a, <2>1, <1>b DEF SlotType, WriterInv, PackStamp, WriterAt
  <2>3. Latest' = Latest /\ Latest = seq
    BY DEF PackStamp, WriterAt, Latest, seq
  <2>4. SlotInv(nextSlot)'
    BY <1>a, <1>b, <2>2, <2>3 DEF SlotInv, PackStamp, SlotType
  <2>5. WriterInv'
    <3>1. \A v \in Words : v \notin wtodo' => new.data[v] = seq
      BY <1>a, <1>b, <2>2 DEF WriterInv, PackStamp, WriterAt, SlotType, Words
    <3> QED
      BY <1>a, <2>2, <3>1 DEF WriterInv, PackStamp, WriterAt, seq
  <2> QED
    BY <1>a, <1>b, <2>1, <2>2, <2>3, <2>4, <2>5, StoreInv DEF PackStamp, readerVars, seq
<1>6. CASE PackFlags
  <2>1. new = [old EXCEPT !.end = 0] /\ OthersSame /\ TypeOK'
    BY <1>6, <1>a DEF PackFlags, WriterAt, TypeOK, SlotType, OthersSame, WriterPcs,
                      readerVars
  <2>2. /\ new.begin = seq /\ old.begin = seq /\ old.end = 0 /\ new.end = 0
        /\ new.data = old.data
    BY <1>6, <1>a, <2>1, <1>b DEF SlotType, WriterInv, PackFlags, WriterAt
  <2>3. Latest' = Latest
    BY <1>6 DEF PackFlags, WriterAt, Latest, seq
  <2>4. SlotInv(nextSlot)'
    BY <1>6, <1>a, <1>b, <2>2, <2>3 DEF SlotInv, PackFlags, SlotType
  <2>5. WriterInv'
    BY <1>6, <1>a, <2>2 DEF WriterInv, PackFlags, WriterAt, seq
  <2> QED
    BY <1>6, <1>a, <1>b, <2>1, <2>2, <2>3, <2>4, <2>5, StoreInv
       DEF PackFlags, readerVars
<1>7. CASE Commit
  <2>0. seq \in Nat
    BY <1>b DEF seq
  <2>1. new = [old EXCEPT !.end = seq] /\ OthersSame /\ TypeOK'
    <3>1. new = [old EXCEPT !.end = seq] /\ OthersSame
      BY <1>7, <1>a DEF Commit, TypeOK, SlotType, OthersSame
    <3>2. new \in SlotType
      BY <1>7, <1>a, <1>b, <2>0, <3>1 DEF Commit, SlotType
    <3>3. ring' \in [Slots -> SlotType]
      BY <1>7, <1>a, <3>2 DEF Commit, TypeOK
    <3> QED
      BY <1>7, <1>a, <3>1, <3>3 DEF Commit, WriterAt, TypeOK, WriterPcs, readerVars
  <2>2. /\ new.begin = seq /\ old.begin = seq /\ old.end = 0 /\ new.end = seq
        /\ new.data = old.data
        /\ \A w \in Words : old.data[w] = seq
    BY <1>7, <1>a, <2>1, <1>b DEF SlotType, WriterInv, Commit, WriterAt
  <2>3. Latest' = Latest /\ Latest = seq
    BY <1>7 DEF Commit, WriterAt, Latest, seq
  <2>4. SlotInv(nextSlot)'
    BY <1>7, <1>a, <1>b, <2>2, <2>3 DEF SlotInv, Commit, SlotType
  <2>5. WriterInv'
    BY <1>7, <1>a, <2>2 DEF WriterInv, Commit, WriterAt, seq
  <2> QED
    BY <1>7, <1>a, <1>b, <2>1, <2>2, <2>3, <2>4, <2>5, StoreInv
       DEF Commit, readerVars, seq
<1>8. CASE StoreHint
  <2>1. TypeOK' /\ ring' = ring /\ rd' = rd
    BY <1>8, <1>a DEF StoreHint, WriterAt, TypeOK, WriterPcs, readerVars
  <2>2. Latest' = Latest /\ WriterInv'
    BY <1>8, <1>a DEF StoreHint, WriterAt, Latest, seq, WriterInv
  <2> QED
    BY <2>1, <2>2, <1>b, ReadersUndisturbed DEF IInv, SlotInv, TypeOK
<1>9. CASE Advance
  <2>1. TypeOK' /\ ring' = ring /\ rd' = rd
    BY <1>9, <1>a DEF Advance, WriterAt, TypeOK, WriterPcs, readerVars, ringVars,
                      WriterInv, NoteType, Slots, seq
  <2>2. Latest' = Latest /\ WriterInv'
    BY <1>9, <1>a DEF Advance, WriterAt, Latest, seq, WriterInv, TypeOK
  <2> QED
    BY <2>1, <2>2, <1>b, ReadersUndisturbed DEF IInv, SlotInv, TypeOK
<1> QED
  BY <1>1, <1>2, <1>3, <1>4, <1>5, <1>6, <1>7, <1>8, <1>9 DEF WriterStep

-----------------------------------------------------------------------------
(* The readers.                                                                *)

\* A reader step is harmless when the record it leaves behind is well typed and
\* satisfies ReaderOK: it changes nothing else.
LEMMA ReaderMovesInv ==
  ASSUME IInv, NEW r \in Readers, NEW new \in ReaderType, ReaderOK(new),
         ReaderMoves(r, new)
  PROVE  IInv'
<1>1. UNCHANGED <<ring, hinted, lastSlot, wpc, wtodo, nextSeq, nextSlot, batch,
                  first, alive, notes, log>>
  BY DEF ReaderMoves, ringVars, writerVars
<1>2. rd' = [rd EXCEPT ![r] = new] /\ rd \in [Readers -> ReaderType]
  BY DEF ReaderMoves, IInv, TypeOK
<1>3. TypeOK'
  BY <1>1, <1>2 DEF IInv, TypeOK
<1>4. WriterInv' /\ \A i \in Slots : SlotInv(i)'
  BY <1>1 DEF IInv, WriterInv, SlotInv, Latest, seq
<1>5. \A q \in Readers : ReaderOK(rd'[q])
  BY <1>2 DEF IInv
<1>6. \A q \in Readers : ReaderOK(rd[q])'
  BY <1>1, <1>5 DEF ReaderOK, Latest, seq, OutWhole, Whole
<1> QED
  BY <1>3, <1>4, <1>6 DEF IInv

\* Starting a stable read of some slot keeps what was collected.
LEMMA TryOK ==
  ASSUME NEW me \in ReaderType, OutWhole(me), NEW slot \in Slots, NEW exp \in Nat
  PROVE  Try(me, slot, exp) \in ReaderType /\ ReaderOK(Try(me, slot, exp))
BY DEF Try, ReaderType, ReaderOK, ReaderPcs, OutWhole

\* Leaving the call keeps what was collected.
LEMMA ReturnOK ==
  ASSUME NEW me \in ReaderType, OutWhole(me)
  PROVE  /\ [me EXCEPT !.pc = "return"] \in ReaderType
         /\ ReaderOK([me EXCEPT !.pc = "return"])
BY DEF ReaderType, ReaderOK, ReaderPcs, OutWhole

\* read_event going on to the next slot of its plan.
LEMMA NextTryOK ==
  ASSUME NEW me \in ReaderType, OutWhole(me)
  PROVE  NextTry(me) \in ReaderType /\ ReaderOK(NextTry(me))
<1>1. CASE me.plan = <<>>
  BY <1>1, ReturnOK DEF NextTry
<1>2. CASE me.plan # <<>>
  <2>1. me.plan \in Seq(Slots) /\ me.exp \in Nat
    BY DEF ReaderType
  <2>2. Head(me.plan) \in Slots /\ Tail(me.plan) \in Seq(Slots)
    BY <1>2, <2>1
  <2> DEFINE t == Try(me, Head(me.plan), me.exp)
  <2>3. t \in ReaderType /\ ReaderOK(t) /\ t.pc = "begin1" /\ OutWhole(t)
    BY <2>1, <2>2, TryOK DEF Try, ReaderType, OutWhole
  <2>4. NextTry(me) = [t EXCEPT !.plan = Tail(me.plan)]
    BY <1>2 DEF NextTry
  <2> HIDE DEF t
  <2> QED
    BY <2>2, <2>3, <2>4 DEF ReaderType, ReaderOK, OutWhole
<1> QED
  BY <1>1, <1>2

\* read_events going on to the next entry it found.
LEMMA NextEntryInv ==
  ASSUME IInv, NEW r \in Readers, NEW me \in ReaderType, OutWhole(me),
         NextEntry(r, me)
  PROVE  IInv'
<1>1. CASE ReaderMoves(r, [me EXCEPT !.pc = "return"])
  BY <1>1, ReturnOK, ReaderMovesInv
<1>2. ASSUME NEW e \in me.entries,
             ReaderMoves(r, [Try(me, e[2], e[1]) EXCEPT !.entries = me.entries \ {e}])
      PROVE  IInv'
  <2>1. e[1] \in Nat /\ e[2] \in Slots /\ me.entries \ {e} \in SUBSET (Nat \X Slots)
    BY DEF ReaderType
  <2> DEFINE t == Try(me, e[2], e[1])
  <2>2. t \in ReaderType /\ ReaderOK(t) /\ t.pc = "begin1" /\ OutWhole(t)
    BY <2>1, TryOK DEF Try, ReaderType, OutWhole
  <2> HIDE DEF t
  <2>3. /\ [t EXCEPT !.entries = me.entries \ {e}] \in ReaderType
        /\ ReaderOK([t EXCEPT !.entries = me.entries \ {e}])
    BY <2>1, <2>2 DEF ReaderType, ReaderOK, OutWhole
  <2> QED
    BY <1>2, <2>3, ReaderMovesInv DEF t
<1> QED
  BY <1>1, <1>2 DEF NextEntry

\* Either call starting to walk over the slots.
LEMMA WalkInv ==
  ASSUME IInv, NEW r \in Readers, NEW me \in ReaderType, OutWhole(me),
         NEW plan \in Seq(Slots), plan # <<>>, Walk(r, me, plan)
  PROVE  IInv'
<1> DEFINE planned == [me EXCEPT !.plan = plan]
<1>1. planned \in ReaderType /\ OutWhole(planned) /\ planned.plan = plan
  BY DEF ReaderType, OutWhole
<1>2. NextTry(planned) \in ReaderType /\ ReaderOK(NextTry(planned))
  BY <1>1, NextTryOK
<1>3. /\ [planned EXCEPT !.pc = "scanBegin"] \in ReaderType
      /\ ReaderOK([planned EXCEPT !.pc = "scanBegin"])
  BY <1>1 DEF ReaderType, ReaderOK, ReaderPcs, OutWhole
<1>4. \/ ReaderMoves(r, NextTry(planned))
      \/ ReaderMoves(r, [planned EXCEPT !.pc = "scanBegin"])
  BY DEF Walk
<1> QED
  BY <1>2, <1>3, <1>4, ReaderMovesInv

\* A slot that is not stable adds nothing.
LEMMA RejectInv ==
  ASSUME IInv, NEW r \in Readers, Reject(r, rd[r])
  PROVE  IInv'
<1>1. rd[r] \in ReaderType /\ OutWhole(rd[r])
  BY DEF IInv, TypeOK, ReaderOK
<1>2. CASE ReaderMoves(r, NextTry(rd[r]))
  BY <1>1, <1>2, NextTryOK, ReaderMovesInv
<1>3. CASE NextEntry(r, rd[r])
  BY <1>1, <1>3, NextEntryInv
<1> QED
  BY <1>2, <1>3 DEF Reject

\* An event joins the output only when every word of it is genuine.
LEMMA AcceptInv ==
  ASSUME IInv, NEW r \in Readers, Accept(r, rd[r]),
         \A w \in Words : rd[r].data[w] = rd[r].exp
  PROVE  IInv'
<1> DEFINE me == rd[r]
           event == [seq |-> me.exp, data |-> me.data]
           got == [me EXCEPT !.out = Append(me.out, event)]
<1>1. me \in ReaderType /\ OutWhole(me)
  BY DEF IInv, TypeOK, ReaderOK
<1>2. event \in EventType /\ Whole(event) /\ me.out \in Seq(EventType)
  BY <1>1 DEF ReaderType, EventType, Whole
<1>3. Append(me.out, event) \in Seq(EventType)
  BY <1>2
<1>4. got \in ReaderType
  BY <1>1, <1>3 DEF ReaderType
<1>5. OutWhole(got)
  <2>1. got.out = Append(me.out, event)
    BY <1>1 DEF ReaderType
  <2>2. \A k \in DOMAIN Append(me.out, event) : Whole(Append(me.out, event)[k])
    BY <1>1, <1>2 DEF OutWhole
  <2> QED
    BY <2>1, <2>2 DEF OutWhole
<1> HIDE DEF got
<1>6. CASE ReaderMoves(r, [got EXCEPT !.pc = "return"])
  BY <1>4, <1>5, <1>6, ReturnOK, ReaderMovesInv
<1>7. CASE NextEntry(r, got)
  BY <1>4, <1>5, <1>7, NextEntryInv
<1> QED
  BY <1>6, <1>7 DEF Accept, got

\* Handling a descriptor, and the two ways in which it starts the walk.
LEMMA TakeNoteInv ==
  ASSUME IInv, NEW r \in Readers, NEW n \in notes, TakeNote(r, n)
  PROVE  IInv'
<1> DEFINE fresh == rd[r].base = -1
           me == [rd[r] EXCEPT !.msg = n.seq, !.exp = n.seq,
                               !.base = IF fresh THEN n.first - 1 ELSE rd[r].base,
                               !.last = IF fresh THEN n.first - 1 ELSE rd[r].last]
<1>1. rd[r] \in ReaderType /\ OutWhole(rd[r]) /\ n \in NoteType
  BY DEF IInv, TypeOK, ReaderOK
<1>2. n.seq \in Nat /\ n.first - 1 \in Nat
  BY <1>1 DEF NoteType
<1>3. me \in ReaderType /\ me.out = rd[r].out
  BY <1>1, <1>2 DEF ReaderType
<1>4. OutWhole(me)
  BY <1>1, <1>3 DEF OutWhole
<1>5. \/ ReaderMoves(r, [me EXCEPT !.pc = "hint"])
      \/ Walk(r, me, AllSlots)
  BY DEF TakeNote
<1> HIDE DEF me
<1>6. /\ [me EXCEPT !.pc = "hint"] \in ReaderType
      /\ ReaderOK([me EXCEPT !.pc = "hint"])
  BY <1>3, <1>4 DEF ReaderType, ReaderOK, ReaderPcs, OutWhole
<1>7. 0 \in Slots
  BY DEF Slots
<1>8. AllSlots \in Seq(Slots) /\ AllSlots # <<>>
  BY <1>7, PlansAreSlotSequences
<1> QED
  BY <1>3, <1>4, <1>5, <1>6, <1>8, ReaderMovesInv, WalkInv

\* Loading the header's hint.
LEMMA LoadHintInv ==
  ASSUME IInv, NEW r \in Readers, LoadHint(r)
  PROVE  IInv'
<1>1. rd[r] \in ReaderType /\ OutWhole(rd[r]) /\ lastSlot \in Slots
  BY DEF IInv, TypeOK, ReaderOK
<1>2. Walk(r, rd[r], SearchFrom(lastSlot)) \/ Walk(r, rd[r], ScanFrom(lastSlot))
  BY DEF LoadHint
<1> QED
  BY <1>1, <1>2, PlansAreSlotSequences, WalkInv

\* The two marker loads of the scan.
LEMMA ScanInv ==
  ASSUME IInv, NEW r \in Readers, ScanBegin(r) \/ ScanEnd(r)
  PROVE  IInv'
<1> DEFINE me == rd[r]
<1>1. me \in ReaderType /\ ReaderOK(me) /\ OutWhole(me)
  BY DEF IInv, TypeOK, ReaderOK
<1>2. me.plan # <<>> /\ me.plan \in Seq(Slots)
  BY <1>1 DEF ScanBegin, ScanEnd, ReaderOK, ReaderType
<1>3. Head(me.plan) \in Slots /\ Tail(me.plan) \in Seq(Slots)
  BY <1>2
<1>4. ring[Head(me.plan)] \in SlotType
  BY <1>3 DEF IInv, TypeOK
<1>5. CASE ScanBegin(r)
  <2>1. ring[Head(me.plan)].begin \in Nat
    BY <1>4 DEF SlotType
  <2> DEFINE new == [me EXCEPT !.pc = "scanEnd", !.mark = ring[Head(me.plan)].begin]
  <2>2. new \in ReaderType /\ ReaderOK(new)
    BY <1>1, <1>2, <2>1 DEF ReaderType, ReaderOK, ReaderPcs, OutWhole
  <2> QED
    BY <1>5, <2>2, ReaderMovesInv DEF ScanBegin
<1>6. CASE ScanEnd(r)
  <2> DEFINE end == ring[Head(me.plan)].end
             found == me.mark # 0 /\ me.mark = end /\ end > me.last
             new == IF found THEN {<<end, Head(me.plan)>>} ELSE {}
             moved == [me EXCEPT !.plan = Tail(me.plan),
                                 !.entries = me.entries \cup new]
  <2>1. end \in Nat
    BY <1>4 DEF SlotType
  <2>2. new \in SUBSET (Nat \X Slots)
    BY <1>3, <2>1
  <2>3. me.entries \cup new \in SUBSET (Nat \X Slots)
    BY <1>1, <2>2 DEF ReaderType
  <2>4. \/ moved.plan # <<>> /\ ReaderMoves(r, [moved EXCEPT !.pc = "scanBegin"])
        \/ NextEntry(r, moved)
    BY <1>6 DEF ScanEnd
  <2> HIDE DEF new
  <2>5. moved \in ReaderType /\ moved.out = me.out
    BY <1>1, <1>3, <2>3 DEF ReaderType
  <2>6. OutWhole(moved)
    BY <1>1, <2>5 DEF OutWhole
  <2> HIDE DEF moved
  <2>7. ASSUME moved.plan # <<>>
        PROVE  /\ [moved EXCEPT !.pc = "scanBegin"] \in ReaderType
               /\ ReaderOK([moved EXCEPT !.pc = "scanBegin"])
    BY <2>5, <2>6, <2>7 DEF ReaderType, ReaderOK, ReaderPcs, OutWhole
  <2> QED
    BY <2>4, <2>5, <2>6, <2>7, ReaderMovesInv, NextEntryInv
<1> QED
  BY <1>5, <1>6

\* _read_stable_slot up to the second look at the markers: the first look
\* establishes, and the copy keeps, that an unmoved seq_begin vouches for all
\* that has been copied.
LEMMA StableCopyInv ==
  ASSUME IInv, NEW r \in Readers,
         \/ StableBegin1(r) \/ StableEnd1(r) \/ StableBegin2(r)
         \/ \E w \in Words : StableLoad(r, w)
  PROVE  IInv'
<1> DEFINE me == rd[r]
           slot == ring[me.slot]
<1>1. me \in ReaderType /\ ReaderOK(me) /\ OutWhole(me) /\ me.slot \in Slots
  BY DEF IInv, TypeOK, ReaderOK, ReaderType
<1>2. slot \in SlotType /\ SlotInv(me.slot)
  BY <1>1 DEF IInv, TypeOK
<1>3. slot.begin \in Nat /\ slot.end \in Nat /\ slot.data \in [Words -> Nat]
  BY <1>2 DEF SlotType
<1>4. me.mark \in Nat /\ me.exp \in Nat /\ me.data \in [Words -> Nat]
  BY <1>1 DEF ReaderType
<1>5. CASE StableBegin1(r)
  <2> DEFINE new == [me EXCEPT !.pc = "end1", !.mark = slot.begin]
  <2>1. new \in ReaderType /\ ReaderOK(new)
    BY <1>1, <1>3 DEF ReaderType, ReaderOK, ReaderPcs, OutWhole
  <2> QED
    BY <1>5, <2>1, ReaderMovesInv DEF StableBegin1
<1>6. CASE StableEnd1(r)
  <2> DEFINE new == [me EXCEPT !.pc = "load", !.todo = Words, !.data = Blank]
  <2>1. CASE Reject(r, me)
    BY <2>1, RejectInv
  <2>2. CASE /\ ~(me.mark = 0 \/ me.mark # slot.end \/ slot.end # me.exp)
             /\ ReaderMoves(r, new)
    <3>1. me.exp # 0 /\ slot.end = me.exp /\ me.exp <= Latest
      BY <1>2, <1>3, <1>4, <2>2 DEF SlotInv
    <3>2. Blank \in [Words -> Nat]
      BY DEF Blank
    <3>3. new \in ReaderType
      BY <1>1, <3>2 DEF ReaderType, ReaderPcs
    <3>4. /\ new.pc = "load" /\ new.exp = me.exp /\ new.slot = me.slot
          /\ new.todo = Words /\ new.out = me.out
      BY <1>1 DEF ReaderType
    <3> HIDE DEF new
    <3>5. ReaderOK(new)
      BY <1>1, <3>1, <3>4 DEF ReaderOK, OutWhole
    <3> QED
      BY <2>2, <3>3, <3>5, ReaderMovesInv
  <2> QED
    BY <1>6, <2>1, <2>2 DEF StableEnd1
<1>7. CASE StableBegin2(r)
  <2> DEFINE new == [me EXCEPT !.pc = "end2", !.mark = slot.begin]
  <2>1. me.pc = "load" /\ me.todo = {}
    BY <1>7 DEF StableBegin2
  <2>2. slot.begin = me.exp => \A w \in Words : me.data[w] = me.exp
    BY <1>1, <2>1 DEF ReaderOK
  <2>3. new \in ReaderType
    BY <1>1, <1>3 DEF ReaderType, ReaderPcs
  <2>4. /\ new.pc = "end2" /\ new.mark = slot.begin /\ new.exp = me.exp
        /\ new.data = me.data /\ new.out = me.out
    BY <1>1 DEF ReaderType
  <2>5. ReaderMoves(r, new)
    BY <1>7 DEF StableBegin2
  <2> HIDE DEF new
  <2>6. ReaderOK(new)
    BY <1>1, <2>2, <2>4 DEF ReaderOK, OutWhole
  <2> QED
    BY <2>3, <2>5, <2>6, ReaderMovesInv
<1>8. CASE \E w \in Words : StableLoad(r, w)
  <2> PICK w \in Words : StableLoad(r, w)
    BY <1>8
  <2> DEFINE new == [me EXCEPT !.todo = me.todo \ {w},
                               !.data[w] = slot.data[w]]
  <2>1. me.pc = "load"
    BY DEF StableLoad
  <2>2. ReaderMoves(r, new)
    BY DEF StableLoad
  <2>3. /\ new \in ReaderType
        /\ new.pc = "load" /\ new.exp = me.exp /\ new.slot = me.slot
        /\ new.todo = me.todo \ {w} /\ new.out = me.out
        /\ new.data = [me.data EXCEPT ![w] = slot.data[w]]
    BY <1>1, <1>3, <1>4, <2>1 DEF ReaderType
  <2>4. me.exp # 0 /\ me.exp <= Latest
    BY <1>1, <2>1 DEF ReaderOK
  <2>5. ASSUME slot.begin = me.exp
        PROVE  /\ slot.end = me.exp
               /\ \A v \in Words : v \notin new.todo => new.data[v] = me.exp
    <3>1. slot.end = me.exp /\ \A v \in Words : v \notin me.todo => me.data[v] = me.exp
      BY <1>1, <2>1, <2>5 DEF ReaderOK
    <3>2. slot.data[w] = me.exp
      BY <1>2, <2>4, <3>1 DEF SlotInv
    <3> QED
      BY <1>4, <2>3, <3>1, <3>2
  <2> HIDE DEF new
  <2>6. ReaderOK(new)
    BY <1>1, <2>3, <2>4, <2>5 DEF ReaderOK, OutWhole
  <2> QED
    BY <2>2, <2>3, <2>6, ReaderMovesInv
<1> QED
  BY <1>5, <1>6, <1>7, <1>8

\* The second look at the markers admits only genuine copies.
LEMMA StableEnd2Inv ==
  ASSUME IInv, NEW r \in Readers, StableEnd2(r)
  PROVE  IInv'
<1>1. CASE Reject(r, rd[r])
  BY <1>1, RejectInv
<1>2. CASE rd[r].mark = rd[r].exp /\ Accept(r, rd[r])
  <2>1. \A w \in Words : rd[r].data[w] = rd[r].exp
    BY <1>2 DEF IInv, ReaderOK, StableEnd2
  <2> QED
    BY <1>2, <2>1, AcceptInv
<1> QED
  BY <1>1, <1>2 DEF StableEnd2

\* Handing the events over to the consumer.
LEMMA ReturnInv ==
  ASSUME IInv, NEW r \in Readers, Return(r)
  PROVE  IInv'
<1> DEFINE me == rd[r]
<1>1. me \in ReaderType /\ me.out \in Seq(EventType) /\ me.last \in Nat
  BY DEF IInv, TypeOK, ReaderType
<1>2. PICK n \in 0 .. Len(me.out) :
         /\ log' = [log EXCEPT ![r] = log[r] \o SubSeq(me.out, Capped(r, n) + 1, n)]
         /\ rd' = [rd EXCEPT ![r] = [Idle(me) EXCEPT
                                       !.last = IF n = 0 THEN me.last
                                                         ELSE me.out[n].seq]]
  BY DEF Return
<1> DEFINE last == IF n = 0 THEN me.last ELSE me.out[n].seq
           new == [Idle(me) EXCEPT !.last = last]
<1>3. last \in Nat
  <2>1. ASSUME n # 0 PROVE me.out[n] \in EventType
    BY <1>1, <2>1
  <2> QED
    BY <1>1, <2>1 DEF EventType
<1> HIDE DEF last
<1>4. Blank \in [Words -> Nat] /\ 0 \in Slots
  BY DEF Blank, Slots
<1>5. new \in ReaderType /\ new.pc = "idle" /\ new.out = <<>>
  <2> DEFINE idle == Idle(me)
  <2>1. "idle" \in ReaderPcs /\ <<>> \in Seq(Slots) /\ <<>> \in Seq(EventType)
    BY DEF ReaderPcs
  <2>2. idle \in ReaderType /\ idle.pc = "idle" /\ idle.out = <<>>
    BY <1>1, <1>4, <2>1 DEF ReaderType, Idle
  <2> HIDE DEF idle
  <2>3. /\ [idle EXCEPT !.last = last] \in ReaderType
        /\ [idle EXCEPT !.last = last].pc = "idle"
        /\ [idle EXCEPT !.last = last].out = <<>>
    BY <1>3, <2>2 DEF ReaderType
  <2> QED
    BY <2>3 DEF idle
<1>6. rd' = [rd EXCEPT ![r] = new]
  BY <1>2 DEF last
<1> HIDE DEF new
<1>7. ReaderOK(new)
  BY <1>5 DEF ReaderOK, OutWhole
<1>8. SubSeq(me.out, Capped(r, n) + 1, n) \in Seq(EventType)
  <2>1. n \in Nat /\ Capped(r, n) \in 0 .. n
    BY <1>2, KindAssumption DEF Capped
  <2> QED
    BY <1>1, <2>1, SubSeqProperties
<1>9. log' \in [Readers -> Seq(EventType)]
  <2>1. log \in [Readers -> Seq(EventType)]
    BY DEF IInv, TypeOK
  <2>2. log[r] \o SubSeq(me.out, Capped(r, n) + 1, n) \in Seq(EventType)
    BY <1>8, <2>1
  <2> QED
    BY <1>2, <2>1, <2>2
<1>10. UNCHANGED <<ring, hinted, lastSlot, wpc, wtodo, nextSeq, nextSlot, batch,
                   first, alive, notes>>
  BY DEF Return, ringVars, writerVars
<1>11. rd \in [Readers -> ReaderType] /\ rd' \in [Readers -> ReaderType]
  BY <1>5, <1>6 DEF IInv, TypeOK
<1>12. TypeOK'
  BY <1>9, <1>10, <1>11 DEF IInv, TypeOK
<1>13. WriterInv' /\ \A i \in Slots : SlotInv(i)'
  BY <1>10 DEF IInv, WriterInv, SlotInv, Latest, seq
<1>14. \A q \in Readers : ReaderOK(rd'[q])
  BY <1>6, <1>7, <1>11 DEF IInv
<1>15. \A q \in Readers : ReaderOK(rd[q])'
  BY <1>10, <1>14 DEF ReaderOK, Latest, seq, OutWhole, Whole
<1> QED
  BY <1>12, <1>13, <1>15 DEF IInv

-----------------------------------------------------------------------------
(* The theorems.                                                               *)

\* Publishing, being killed and doing nothing leave ring and readers alone.
LEMMA QuietInv ==
  ASSUME IInv,
         \/ \E n \in 1 .. SlotCount : Publish(n)
         \/ WriterKilled
         \/ UNCHANGED vars
  PROVE  IInv'
<1>1. TypeOK /\ WriterInv /\ nextSeq \in Nat /\ Latest \in Nat
  BY DEF IInv, TypeOK, Latest, seq
<1>2. ring' = ring /\ rd' = rd
  BY DEF Publish, WriterKilled, vars, ringVars, readerVars
<1>3. TypeOK' /\ WriterInv' /\ Latest' = Latest
  <2>1. CASE \E n \in 1 .. SlotCount : Publish(n)
    BY <1>1, <2>1 DEF Publish, WriterAt, TypeOK, WriterPcs, WriterInv, Latest, seq,
                      ringVars, readerVars
  <2>2. CASE WriterKilled
    BY <1>1, <2>2 DEF WriterKilled, TypeOK, WriterInv, Latest, seq, ringVars, readerVars
  <2>3. CASE UNCHANGED vars
    BY <1>1, <2>3 DEF vars, TypeOK, WriterInv, Latest, seq
  <2> QED
    BY <2>1, <2>2, <2>3
<1> QED
  BY <1>1, <1>2, <1>3, ReadersUndisturbed DEF IInv, SlotInv, TypeOK

\* IInv is inductive.
THEOREM Inductive == Spec => []IInv
<1>1. IInv /\ [Next]_vars => IInv'
  <2> SUFFICES ASSUME IInv, [Next]_vars PROVE IInv'
    OBVIOUS
  <2>1. CASE WriterStep
    BY <2>1, WriterStepInv
  <2>2. ASSUME NEW r \in Readers, ReaderStep(r) PROVE IInv'
    BY <2>2, LoadHintInv, ScanInv, StableCopyInv, StableEnd2Inv, ReturnInv
       DEF ReaderStep
  <2>3. ASSUME NEW r \in Readers, NEW n \in notes, TakeNote(r, n) PROVE IInv'
    BY <2>3, TakeNoteInv
  <2> QED
    BY <2>1, <2>2, <2>3, QuietInv DEF Next
<1> QED
  BY <1>1, InitInv, PTL DEF Spec

\* Every variable keeps its type: cursors stay inside the ring (_next_slot,
\* last_slot and every slot a reader visits), descriptors name written frames.
THEOREM TypeCorrect == Spec => []TypeOK
BY Inductive, PTL DEF IInv

\* _read_stable_slot never lets a torn frame out: whatever the ring size, the
\* frame layout, the number of readers and the moment the writer is killed, an
\* event that read_event or read_events is about to return holds, in every word,
\* the frame written under its sequence number.
THEOREM NoTornReads == Spec => []NoTornRead
<1>1. IInv => NoTornRead
  BY DEF IInv, ReaderOK, OutWhole, NoTornRead
<1> QED
  BY <1>1, Inductive, PTL

-----------------------------------------------------------------------------
(* What is lost, and in which order the rest arrives.                          *)
(*                                                                             *)
(* IInv says nothing about frames that a reader does not return.  LossInv      *)
(* follows every frame that a running call owes its consumer from slot to      *)
(* slot, and the order of the frames the call has collected.                   *)

\* Where the writer stands: the slot under the cursor is the one the next frame
\* belongs to, a seq_end sits in the slot of its frame, descriptors name finished
\* frames, and a finished frame whose seq_begin is in place is committed.
PosInv ==
    /\ nextSlot = SlotOf(seq)
    /\ wpc # "idle" => first <= seq
    /\ wpc \in {"hintSlot", "advance"} =>
         ring[nextSlot].begin = seq /\ ring[nextSlot].end = seq
    /\ \A n \in notes : n.first <= n.seq /\ n.seq <= nextSeq
    /\ \A i \in Slots : ring[i].end # 0 =>
         ring[i].end <= Committed /\ SlotOf(ring[i].end) = i
    /\ \A s \in 1 .. nextSeq : Intact(s) => ring[SlotOf(s)].end = s

\* Is the reader inside _read_stable_slot?
Trying(me) == me.pc \in {"begin1", "end1", "load", "end2"}

\* The frames that the running call must hand over if they survive: read_event
\* the notified one, read_events all those up to it that are new.
Owed(me) == IF me.kind = "trace" THEN {me.msg}
                                 ELSE me.last + 1 .. me.msg

InPlan(plan, i) == \E k \in 1 .. Len(plan) : plan[k] = i
InOut(me, s) == \E k \in 1 .. Len(me.out) : me.out[k].seq = s

\* Frame s has its turn ahead, is having it, or has been collected.
Covered(me, s) ==
    /\ me.pc = "scanBegin" =>
         InPlan(me.plan, SlotOf(s)) \/ <<s, SlotOf(s)>> \in me.entries
    /\ me.pc = "scanEnd" =>
         \/ Head(me.plan) = SlotOf(s) /\ me.mark = s
         \/ InPlan(Tail(me.plan), SlotOf(s)) \/ <<s, SlotOf(s)>> \in me.entries
    /\ Trying(me) =>
         \/ /\ me.exp = s /\ me.slot = SlotOf(s)
            /\ me.pc \in {"end1", "end2"} => me.mark = s
         \/ InOut(me, s)
         \/ IF me.kind = "trace" THEN InPlan(me.plan, SlotOf(s))
                                 ELSE <<s, SlotOf(s)>> \in me.entries
    /\ me.pc = "return" => InOut(me, s)

\* What was found and collected is new, committed and in ascending order.
Collected(me) ==
    /\ \A e \in me.entries :
         e[1] > me.last /\ e[1] <= Committed /\ e[2] = SlotOf(e[1])
    /\ \A k \in 1 .. Len(me.out) :
         /\ me.out[k].seq > me.last /\ me.out[k].seq <= Committed
         /\ \A j \in 1 .. k - 1 : me.out[j].seq < me.out[k].seq
         /\ \A e \in me.entries : me.out[k].seq < e[1]

\* The frame being tried comes between the collected ones and those to come.
TriedInOrder(me) ==
    /\ me.exp > me.last
    /\ \A k \in 1 .. Len(me.out) : me.out[k].seq < me.exp
    /\ \A e \in me.entries : me.exp < e[1]

\* Which parts of a reader's record the program position leaves empty.
Shape(me) ==
    /\ me.pc \in {"idle", "hint", "scanBegin", "scanEnd"} => me.out = <<>>
    /\ me.pc \in {"idle", "hint", "return"} => me.entries = {}
    /\ me.msg <= nextSeq
    /\ me.pc # "idle" => me.msg >= 1
    /\ me.kind = "trace" =>
         /\ me.pc \notin {"scanBegin", "scanEnd"} /\ me.entries = {}
         /\ me.last <= me.msg
         /\ me.pc # "idle" => me.exp = me.msg /\ me.last < me.msg
         /\ Trying(me) => me.out = <<>>
         /\ \A k \in 1 .. Len(me.out) : me.out[k].seq <= me.msg
    /\ me.kind \in StopsAtNote => me.last <= me.msg

CallInv(me) ==
    /\ Shape(me)
    /\ Collected(me)
    /\ Trying(me) => TriedInOrder(me)
    /\ \A s \in Owed(me) : Intact(s) => Covered(me, s)

\* What the consumer r has been given.
LogInv(r) ==
    /\ \A k \in 1 .. Len(log[r]) : log[r][k].seq <= rd[r].last
    /\ rd[r].base = -1 => log[r] = <<>> /\ rd[r].pc = "idle"
    /\ rd[r].kind \in StopsAtNote => \A s \in Skipped(r) : Intact(s) => Outshone(r, s)

LossInv ==
    /\ PosInv
    /\ \A r \in Readers : CallInv(rd[r]) /\ LogInv(r)

\* The slot after the slot of frame s is the slot of frame s + 1.
LEMMA SlotOfNext ==
  ASSUME NEW s \in Nat \ {0}
  PROVE  SlotOf(s + 1) = (SlotOf(s) + 1) % SlotCount
<1> DEFINE a == s - 1
           n == SlotCount
           q == a \div n
           m == a % n
           d == (a + 1) \div n
           e == (a + 1) % n
<1>1. a \in Nat /\ n \in Nat /\ n >= 1
  OBVIOUS
<1>2. /\ q \in Int /\ m \in 0 .. n - 1 /\ a = n * q + m
  BY <1>1
<1>3. /\ d \in Int /\ e \in 0 .. n - 1 /\ a + 1 = n * d + e
  BY <1>1
<1>4. SlotOf(s) = m /\ SlotOf(s + 1) = e
  BY DEF SlotOf
<1> HIDE DEF q, m, d, e, a, n
<1>5. n * (d - q) = m + 1 - e
  BY <1>1, <1>2, <1>3
<1>6. d - q <= 1 
  BY <1>1, <1>2, <1>3, <1>5
<1>7. d - q >= 0
  BY <1>1, <1>2, <1>3, <1>5
<1>8. e = (m + 1) % n
  BY <1>1, <1>2, <1>3, <1>5, <1>6, <1>7
<1> QED
  BY <1>4, <1>8 DEF n

\* Frames belong to slots of the ring.
LEMMA SlotOfIsSlot ==
  ASSUME NEW s \in Nat
  PROVE  SlotOf(s) \in Slots
BY DEF SlotOf, Slots

\* Every order in which slots are visited visits every slot.
LEMMA PlansVisitEverySlot ==
  ASSUME NEW h \in Slots, NEW i \in Slots
  PROVE  /\ InPlan(AllSlots, i)
         /\ InPlan(ScanFrom(h), i)
         /\ InPlan(SearchFrom(h), i)
<1>1. InPlan(AllSlots, i)
  <2>1. i + 1 \in 1 .. SlotCount /\ Len(AllSlots) = SlotCount /\ AllSlots[i + 1] = i
    BY DEF AllSlots, Slots
  <2> QED
    BY <2>1 DEF InPlan
<1>2. InPlan(ScanFrom(h), i)
  <2> DEFINE k == IF i >= h THEN i - h + 1 ELSE i - h + SlotCount + 1
  <2>1. k \in 1 .. SlotCount /\ (h + k - 1 = i \/ h + k - 1 = i + SlotCount)
    BY DEF Slots
  <2>2. i % SlotCount = i /\ (i + SlotCount) % SlotCount = i
    BY DEF Slots
  <2> HIDE DEF k
  <2>3. Len(ScanFrom(h)) = SlotCount /\ ScanFrom(h)[k] = i
    BY <2>1, <2>2 DEF ScanFrom
  <2> QED
    BY <2>1, <2>3 DEF InPlan
<1>3. InPlan(SearchFrom(h), i)
  <2> DEFINE Turn(j) == LET delta == (j + 1) \div 2
                        IN  (IF j % 2 = 1 THEN h + delta ELSE h - delta) % SlotCount
             Window == [j \in 1 .. 2 * SearchWindow |-> Turn(j)]
             near == <<h>> \o Window
  <2>1. \A j \in 1 .. 2 * SearchWindow : Turn(j) \in Slots
    BY DEF Slots
  <2>2. Window \in Seq(Slots) /\ <<h>> \in Seq(Slots)
    BY <2>1
  <2>3. near \in Seq(Slots) /\ AllSlots \in Seq(Slots) /\ SearchFrom(h) = near \o AllSlots
    BY <2>2, PlansAreSlotSequences DEF SearchFrom
  <2> HIDE DEF near
  <2>4. PICK k \in 1 .. Len(AllSlots) : AllSlots[k] = i
    BY <1>1 DEF InPlan
  <2>5. /\ Len(near) + k \in 1 .. Len(SearchFrom(h))
        /\ SearchFrom(h)[Len(near) + k] = i
    BY <2>3, <2>4
  <2> QED
    BY <2>5 DEF InPlan
<1> QED
  BY <1>1, <1>2, <1>3

\* What is left of a plan once its first slot has been taken.
LEMMA RestOfPlan ==
  ASSUME NEW plan \in Seq(Slots), NEW i, InPlan(plan, i)
  PROVE  /\ plan # <<>>
         /\ Head(plan) = i \/ InPlan(Tail(plan), i)
<1>1. PICK k \in 1 .. Len(plan) : plan[k] = i
  BY DEF InPlan
<1>2. plan # <<>>
  BY <1>1
<1>3. CASE k = 1
  BY <1>1, <1>2, <1>3
<1>4. CASE k > 1
  <2>1. k - 1 \in 1 .. Len(Tail(plan)) /\ Tail(plan)[k - 1] = i
    BY <1>1, <1>2, <1>4
  <2> QED
    BY <1>2, <2>1 DEF InPlan
<1> QED
  BY <1>2, <1>3, <1>4

-----------------------------------------------------------------------------
(* The writer takes nothing back.                                              *)

\* What a step of the writer means for the readers: numbers only grow, and no
\* finished frame comes back.
NothingReturns ==
    /\ nextSeq' \in Nat /\ nextSeq <= nextSeq'
    /\ Committed' \in Nat /\ Committed <= Committed'
    /\ \A s \in 1 .. nextSeq : Intact(s)' => Intact(s)

\* A store into the slot under the cursor.
LEMMA StorePos ==
  ASSUME IInv, ring' \in [Slots -> SlotType], PosInv, OthersSame,
         UNCHANGED <<nextSlot, nextSeq, notes, first>>, wpc # "idle",
         ring'[nextSlot].begin \notin 1 .. nextSeq,
         \/ ring'[nextSlot].end = 0
         \/ ring'[nextSlot].end = ring[nextSlot].end
         \/ ring'[nextSlot].end = seq /\ Committed' = seq,
         Committed' \in {nextSeq, seq}, Committed <= Committed',
         wpc' \in {"hintSlot", "advance"} =>
           ring'[nextSlot].begin = seq /\ ring'[nextSlot].end = seq
  PROVE  PosInv' /\ NothingReturns
<1>1. /\ nextSeq \in Nat /\ nextSlot \in Slots /\ seq = nextSeq + 1 /\ seq' = seq
      /\ Committed \in Nat /\ Committed' \in Nat
  BY DEF IInv, TypeOK, seq, Committed
<1>2. \A s \in 1 .. nextSeq : SlotOf(s) \in Slots
  BY <1>1, SlotOfIsSlot
<1>3. \A s \in 1 .. nextSeq : Intact(s)' =>
         SlotOf(s) # nextSlot /\ ring'[SlotOf(s)] = ring[SlotOf(s)]
  BY <1>1, <1>2 DEF Intact, OthersSame
<1>4. NothingReturns
  BY <1>1, <1>2, <1>3 DEF NothingReturns, Intact
<1>5. \A s \in 1 .. nextSeq : Intact(s)' => ring'[SlotOf(s)].end = s
  BY <1>2, <1>3 DEF PosInv, Intact
<1>6. ASSUME NEW i \in Slots, ring'[i].end # 0
      PROVE  ring'[i].end <= Committed' /\ SlotOf(ring'[i].end) = i
  <2>1. ring[i] \in SlotType /\ ring'[i] \in SlotType
    BY DEF IInv, TypeOK
  <2>2. ring[i].end \in Nat /\ ring'[i].end \in Nat
    BY <2>1 DEF SlotType
  <2>3. CASE ring'[i].end = ring[i].end
    BY <1>1, <1>6, <2>2, <2>3 DEF PosInv
  <2>4. CASE i = nextSlot /\ ring'[i].end = seq /\ Committed' = seq
    BY <1>1, <2>4 DEF PosInv
  <2> QED
    BY <1>6, <2>3, <2>4 DEF OthersSame
<1>7. \A n \in notes' : n.first <= n.seq /\ n.seq <= nextSeq'
  BY DEF PosInv
<1>8. nextSlot' = SlotOf(seq') /\ first' <= seq'
  BY <1>1 DEF PosInv
<1> QED
  BY <1>1, <1>4, <1>5, <1>6, <1>7, <1>8 DEF PosInv, Intact

\* Every step of the writer, and of anything but a reader.
LEMMA WriterPos ==
  ASSUME IInv, IInv', PosInv,
         \/ WriterStep \/ \E n \in 1 .. SlotCount : Publish(n)
         \/ WriterKilled \/ UNCHANGED vars
  PROVE  PosInv' /\ NothingReturns
<1> DEFINE old == ring[nextSlot]
           new == ring'[nextSlot]
<1>a. /\ nextSeq \in Nat /\ nextSlot \in Slots /\ seq = nextSeq + 1
      /\ ring \in [Slots -> SlotType] /\ ring' \in [Slots -> SlotType]
      /\ WriterInv /\ WriterInv' /\ notes \subseteq NoteType /\ first \in Nat
  BY DEF IInv, TypeOK, seq
<1>b. old \in SlotType /\ SlotInv(nextSlot)
  BY <1>a DEF IInv
<1>1. CASE InvalidateBegin
  <2>1. OthersSame /\ new = [old EXCEPT !.begin = 0]
    BY <1>1, <1>a DEF InvalidateBegin, OthersSame
  <2>2. new.begin = 0 /\ new.end = old.end
    BY <1>b, <2>1 DEF SlotType
  <2>3. Committed' = nextSeq /\ Committed = nextSeq
    BY <1>1 DEF InvalidateBegin, WriterAt, Committed
  <2> QED
    BY <1>1, <1>a, <2>1, <2>2, <2>3, StorePos DEF InvalidateBegin, WriterAt
<1>2. CASE InvalidateEnd
  <2>1. OthersSame /\ new = [old EXCEPT !.end = 0]
    BY <1>2, <1>a DEF InvalidateEnd, OthersSame
  <2>2. new.begin = 0 /\ new.end = 0
    BY <1>2, <1>a, <1>b, <2>1 DEF SlotType, InvalidateEnd, WriterAt, WriterInv
  <2>3. Committed' = nextSeq /\ Committed = nextSeq
    BY <1>2 DEF InvalidateEnd, WriterAt, Committed
  <2> QED
    BY <1>2, <1>a, <2>1, <2>2, <2>3, StorePos DEF InvalidateEnd, WriterAt
<1>3. ASSUME NEW w \in PayloadWords \cup MetaWords, CopyWord(w)
      PROVE  PosInv' /\ NothingReturns
  <2>1. OthersSame /\ new = [old EXCEPT !.data[w] = seq]
    BY <1>3, <1>a DEF CopyWord, OthersSame
  <2>2. new.begin = 0 /\ new.end = 0
    BY <1>3, <1>a, <1>b, <2>1 DEF SlotType, CopyWord, WriterAt, WriterInv
  <2>3. Committed' = nextSeq /\ Committed = nextSeq
    BY <1>3 DEF CopyWord, WriterAt, Committed
  <2> QED
    BY <1>3, <1>a, <2>1, <2>2, <2>3, StorePos DEF CopyWord, WriterAt
<1>4. CASE PackBegin
  <2>1. OthersSame /\ new = [old EXCEPT !.begin = seq]
    BY <1>4, <1>a DEF PackBegin, OthersSame
  <2>2. new.begin = seq /\ new.end = 0
    BY <1>4, <1>a, <1>b, <2>1 DEF SlotType, PackBegin, WriterAt, WriterInv
  <2>3. Committed' = nextSeq /\ Committed = nextSeq
    BY <1>4 DEF PackBegin, WriterAt, Committed
  <2> QED
    BY <1>4, <1>a, <2>1, <2>2, <2>3, StorePos DEF PackBegin, WriterAt
<1>5. ASSUME NEW w \in StampWords, PackStamp(w)
      PROVE  PosInv' /\ NothingReturns
  <2>1. OthersSame /\ new = [old EXCEPT !.data[w] = seq]
    BY <1>5, <1>a DEF PackStamp, OthersSame
  <2>2. new.begin = seq /\ new.end = 0
    BY <1>5, <1>a, <1>b, <2>1 DEF SlotType, PackStamp, WriterAt, WriterInv
  <2>3. Committed' = nextSeq /\ Committed = nextSeq
    BY <1>5 DEF PackStamp, WriterAt, Committed
  <2> QED
    BY <1>5, <1>a, <2>1, <2>2, <2>3, StorePos DEF PackStamp, WriterAt
<1>6. CASE PackFlags
  <2>1. OthersSame /\ new = [old EXCEPT !.end = 0]
    BY <1>6, <1>a DEF PackFlags, OthersSame
  <2>2. new.begin = seq /\ new.end = 0
    BY <1>6, <1>a, <1>b, <2>1 DEF SlotType, PackFlags, WriterAt, WriterInv
  <2>3. Committed' = nextSeq /\ Committed = nextSeq
    BY <1>6 DEF PackFlags, WriterAt, Committed
  <2> QED
    BY <1>6, <1>a, <2>1, <2>2, <2>3, StorePos DEF PackFlags, WriterAt
<1>7. CASE Commit
  <2>1. OthersSame /\ new = [old EXCEPT !.end = seq]
    BY <1>7, <1>a DEF Commit, OthersSame
  <2>2. new.begin = seq /\ new.end = seq
    BY <1>7, <1>a, <1>b, <2>1 DEF SlotType, Commit, WriterAt, WriterInv
  <2>3. Committed' = seq /\ Committed = nextSeq
    BY <1>7 DEF Commit, WriterAt, Committed, seq
  <2> QED
    BY <1>7, <1>a, <2>1, <2>2, <2>3, StorePos DEF Commit, WriterAt
<1>8. CASE StoreHint
  BY <1>8, <1>a DEF StoreHint, WriterAt, PosInv, NothingReturns, Committed, Intact, seq,
                    readerVars
<1>9. CASE Advance
  <2>1. /\ ring' = ring /\ nextSeq' = seq /\ seq' = seq + 1 /\ wpc = "advance"
        /\ first' = first /\ nextSlot' = (nextSlot + 1) % SlotCount
        /\ notes' \subseteq notes \cup {[first |-> first, seq |-> seq]}
        /\ wpc' \in {"begin0", "idle"}
    BY <1>9 DEF Advance, WriterAt, ringVars, seq
  <2>2. Committed' = seq /\ Committed = seq
    BY <2>1 DEF Committed
  <2>3. nextSlot' = SlotOf(seq')
    BY <1>a, <2>1, SlotOfNext DEF PosInv
  <2>4. NothingReturns
    BY <1>a, <2>1, <2>2 DEF NothingReturns, Intact
  <2>5. \A n \in notes' : n.first <= n.seq /\ n.seq <= nextSeq'
    <3> SUFFICES ASSUME NEW n \in notes' PROVE n.first <= n.seq /\ n.seq <= seq
      BY <2>1
    <3>1. CASE n \in notes
      <4>1. n.first <= n.seq /\ n.seq <= nextSeq /\ n.seq \in Nat
        BY <1>a, <3>1 DEF PosInv, NoteType
      <4> QED
        BY <1>a, <4>1
    <3>2. CASE n = [first |-> first, seq |-> seq]
      BY <1>a, <2>1, <3>2 DEF PosInv
    <3> QED
      BY <2>1, <3>1, <3>2
  <2>6. \A s \in 1 .. nextSeq' : Intact(s)' => ring'[SlotOf(s)].end = s
    <3> SUFFICES ASSUME NEW s \in 1 .. seq, Intact(s) PROVE ring[SlotOf(s)].end = s
      BY <2>1 DEF Intact
    <3>1. CASE s = seq
      BY <2>1, <3>1 DEF PosInv
    <3>2. CASE s \in 1 .. nextSeq
      BY <3>2 DEF PosInv
    <3> QED
      BY <1>a, <3>1, <3>2
  <2>7. first' <= seq'
    BY <1>a, <2>1 DEF PosInv
  <2> QED
    BY <1>a, <2>1, <2>2, <2>3, <2>4, <2>5, <2>6, <2>7 DEF PosInv
<1>10. ASSUME NEW n \in 1 .. SlotCount, Publish(n)
       PROVE  PosInv' /\ NothingReturns
  BY <1>10, <1>a DEF Publish, WriterAt, PosInv, NothingReturns, Committed, Intact, seq,
                     ringVars, readerVars
<1>11. CASE WriterKilled \/ UNCHANGED vars
  BY <1>11, <1>a DEF WriterKilled, vars, PosInv, NothingReturns, Committed, Intact, seq,
                     ringVars, readerVars
<1> QED
  BY <1>1, <1>2, <1>3, <1>4, <1>5, <1>6, <1>7, <1>8, <1>9, <1>10, <1>11 DEF WriterStep

-----------------------------------------------------------------------------
(* The readers pass nothing over.                                              *)

\* The numbers of frames a reader deals with.
LEMMA ReaderNumbers ==
  ASSUME NEW me \in ReaderType
  PROVE  /\ me.msg \in Nat /\ me.last \in Nat /\ me.exp \in Nat /\ me.mark \in Nat
         /\ me.slot \in Slots /\ me.plan \in Seq(Slots) /\ me.out \in Seq(EventType)
         /\ me.kind \in Kinds /\ me.base \in Int
         /\ \A k \in 1 .. Len(me.out) : me.out[k].seq \in Nat
         /\ \A e \in me.entries : e[1] \in Nat /\ e[2] \in Slots /\ e = <<e[1], e[2]>>
         /\ \A s \in Owed(me) : s \in Nat
<1>1. /\ me.msg \in Nat /\ me.last \in Nat /\ me.exp \in Nat /\ me.mark \in Nat
      /\ me.slot \in Slots /\ me.plan \in Seq(Slots) /\ me.out \in Seq(EventType)
      /\ me.entries \subseteq Nat \X Slots
      /\ me.kind \in Kinds /\ me.base \in Int
  BY DEF ReaderType
<1>2. \A k \in 1 .. Len(me.out) : me.out[k] \in EventType
  BY <1>1
<1> QED
  BY <1>1, <1>2, SMTT(30) DEF EventType, Owed

\* Whatever the writer does leaves the readers' invariant true.
LEMMA ReadersKeepLoss ==
  ASSUME IInv, LossInv, PosInv', UNCHANGED <<rd, log>>, NothingReturns
  PROVE  LossInv'
<1> SUFFICES ASSUME NEW r \in Readers
             PROVE  CallInv(rd[r])' /\ LogInv(r)'
  BY DEF LossInv
<1> DEFINE me == rd[r]
<1>1. me \in ReaderType /\ CallInv(me) /\ LogInv(r) /\ nextSeq \in Nat /\ Committed \in Nat
  BY DEF IInv, TypeOK, LossInv, Committed, seq
<1>2. Shape(me)' /\ me.msg <= nextSeq
  BY <1>1, ReaderNumbers DEF Shape, CallInv, NothingReturns, Trying
<1>3. Collected(me)' /\ (Trying(me) => TriedInOrder(me))'
  <2>1. Collected(me) /\ (Trying(me) => TriedInOrder(me))
    BY <1>1 DEF CallInv
  <2>2. (Trying(me) => TriedInOrder(me))'
    BY <2>1 DEF TriedInOrder, Trying
  <2>3. \A e \in me.entries :
          e[1] > me.last /\ e[1] <= Committed' /\ e[2] = SlotOf(e[1])
    BY <1>1, <2>1, ReaderNumbers DEF Collected, NothingReturns
  <2>4. \A k \in 1 .. Len(me.out) : me.out[k].seq <= Committed'
    BY <1>1, <2>1, ReaderNumbers DEF Collected, NothingReturns
  <2> QED
    BY <2>1, <2>2, <2>3, <2>4 DEF Collected
<1>4. ASSUME NEW s \in Owed(me), Intact(s)' PROVE Covered(me, s)'
  <2>1. s \in 1 .. nextSeq \/ me.pc = "idle"
    BY <1>1, <1>2, ReaderNumbers DEF Owed, CallInv, Shape
  <2>2. CASE me.pc = "idle"
    BY <2>2 DEF Covered, Trying
  <2>3. CASE s \in 1 .. nextSeq
    <3>1. Intact(s)
      BY <1>4, <2>3 DEF NothingReturns
    <3>2. Covered(me, s)
      BY <1>1, <3>1 DEF CallInv
    <3> QED
      BY <3>2 DEF Covered, Trying, InPlan, InOut
  <2> QED
    BY <2>1, <2>2, <2>3
<1>5. CallInv(me)'
  BY <1>2, <1>3, <1>4 DEF CallInv, Owed
<1>6. me.kind \in StopsAtNote => \A s \in Skipped(r)' : Intact(s)' => Outshone(r, s)'
  <2> SUFFICES ASSUME me.kind \in StopsAtNote, NEW s \in Skipped(r), Intact(s)'
               PROVE  Outshone(r, s)
    BY DEF Skipped, Outshone
  <2>1. s \in 1 .. nextSeq
    BY <1>1, <1>2, ReaderNumbers DEF Skipped, CallInv, Shape
  <2> QED
    BY <1>1, <2>1 DEF NothingReturns, LogInv
<1> QED
  BY <1>1, <1>5, <1>6 DEF LogInv

\* The consumer's position is untouched, or has just been seeded.
KeepsPlace(me, new) ==
    /\ new.kind = me.kind /\ new.base # -1
    /\ \/ new.base = me.base /\ new.last = me.last
       \/ me.base = -1 /\ new.last = new.base

\* A reader inside a call has been attached.
LEMMA InCallAttached ==
  ASSUME LossInv, NEW r \in Readers, rd[r].pc # "idle"
  PROVE  rd[r].base # -1
BY DEF LossInv, LogInv

\* A reader's step is harmless when the record it leaves behind satisfies CallInv
\* and keeps the consumer's place.
LEMMA ReaderMovesLoss ==
  ASSUME IInv, LossInv, NEW r \in Readers, NEW new \in ReaderType,
         CallInv(new), ReaderMoves(r, new), KeepsPlace(rd[r], new)
  PROVE  LossInv'
<1>1. UNCHANGED <<ring, wpc, nextSeq, nextSlot, first, notes, log>>
  BY DEF ReaderMoves, ringVars, writerVars
<1>2. rd \in [Readers -> ReaderType] /\ rd' = [rd EXCEPT ![r] = new]
  BY DEF ReaderMoves, IInv, TypeOK
<1>3. PosInv'
  BY <1>1 DEF LossInv, PosInv, Committed, Intact, seq
<1>4. ASSUME NEW q \in Readers PROVE CallInv(rd'[q])
  BY <1>2 DEF LossInv
<1>5. ASSUME NEW q \in Readers PROVE CallInv(rd[q])'
  <2>1. CallInv(rd'[q])
    BY <1>4
  <2> QED
    BY <1>1, <2>1 DEF CallInv, Shape, Collected, TriedInOrder, Trying, Covered, InPlan,
                      InOut, Owed, Committed, Intact, seq
<1>6. ASSUME NEW q \in Readers, q # r PROVE LogInv(q)'
  <2>1. LogInv(q) /\ rd'[q] = rd[q]
    BY <1>2, <1>6 DEF LossInv
  <2> QED
    BY <1>1, <2>1 DEF LogInv, Skipped, Intact, Outshone
<1>7. LogInv(r)'
  <2>1. LogInv(r) /\ rd'[r] = new
    BY <1>2 DEF LossInv
  <2>2. CASE new.base = rd[r].base /\ new.last = rd[r].last
    BY <1>1, <2>1, <2>2 DEF LogInv, Skipped, Intact, Outshone, KeepsPlace
  <2>3. CASE rd[r].base = -1 /\ new.base # -1 /\ new.last = new.base
    <3>1. log'[r] = <<>>
      BY <1>1, <2>1, <2>3 DEF LogInv
    <3>2. Skipped(r)' = {}
      BY <2>1, <2>3, ReaderNumbers DEF Skipped
    <3> QED
      BY <2>1, <2>3, <3>1, <3>2 DEF LogInv
  <2> QED
    BY <2>2, <2>3 DEF KeepsPlace
<1> QED
  BY <1>3, <1>5, <1>6, <1>7 DEF LossInv

\* read_event between two slots: nothing collected, and the notified frame, if it
\* survives, in a slot still to try.
BetweenTries(me) ==
    /\ me.kind = "trace" /\ me.exp = me.msg /\ me.last < me.msg /\ me.msg <= nextSeq
    /\ me.entries = {} /\ me.out = <<>>
    /\ Intact(me.msg) => InPlan(me.plan, SlotOf(me.msg))

\* read_event trying the next slot, or giving up.
LEMMA NextTryLoss ==
  ASSUME IInv, LossInv, NEW r \in Readers, NEW me \in ReaderType, KeepsPlace(rd[r], me),
         BetweenTries(me), ReaderMoves(r, NextTry(me))
  PROVE  LossInv'
<1> DEFINE new == NextTry(me)
<1>1. /\ me.msg \in Nat /\ me.last \in Nat /\ me.plan \in Seq(Slots) /\ me.exp \in Nat
      /\ nextSeq \in Nat
  BY ReaderNumbers DEF IInv, TypeOK
<1>2. /\ new.kind = me.kind /\ new.base = me.base /\ new.last = me.last
      /\ new.msg = me.msg /\ new.exp = me.exp /\ new.entries = me.entries
      /\ new.out = me.out
      /\ me.plan = <<>> => new.pc = "return"
      /\ me.plan # <<>> => /\ new.pc = "begin1" /\ new.slot = Head(me.plan)
                           /\ new.plan = Tail(me.plan)
  BY DEF NextTry, Try, ReaderType
<1>3. new \in ReaderType
  <2>1. CASE me.plan = <<>>
    BY <2>1 DEF NextTry, ReaderType, ReaderPcs
  <2>2. CASE me.plan # <<>>
    <3>1. Head(me.plan) \in Slots /\ Tail(me.plan) \in Seq(Slots)
      BY <1>1, <2>2
    <3> QED
      BY <2>2, <3>1 DEF NextTry, Try, ReaderType, ReaderPcs
  <2> QED
    BY <2>1, <2>2
<1> HIDE DEF new
<1>4. Shape(new) /\ Collected(new) /\ (Trying(new) => TriedInOrder(new))
  BY <1>1, <1>2 DEF BetweenTries, Shape, Collected, TriedInOrder, Trying
<1>5. ASSUME Intact(new.msg) PROVE Covered(new, new.msg)
  <2>1. InPlan(me.plan, SlotOf(me.msg))
    BY <1>2, <1>5 DEF BetweenTries
  <2>2. me.plan # <<>> /\ (Head(me.plan) = SlotOf(me.msg) \/ InPlan(Tail(me.plan), SlotOf(me.msg)))
    BY <1>1, <2>1, RestOfPlan
  <2> QED
    BY <1>2, <2>2 DEF Covered, Trying, BetweenTries
<1>6. CallInv(new)
  BY <1>2, <1>4, <1>5 DEF CallInv, Owed, BetweenTries
<1>7. KeepsPlace(rd[r], new) /\ ReaderMoves(r, new)
  BY <1>2 DEF KeepsPlace, new
<1> QED
  BY <1>3, <1>6, <1>7, ReaderMovesLoss

\* read_events between two slots: every new frame up to the notified one that
\* survives is collected or among the entries.
BetweenEntries(me) ==
    /\ me.kind # "trace" /\ 1 <= me.msg /\ me.msg <= nextSeq
    /\ me.kind \in StopsAtNote => me.last <= me.msg
    /\ Collected(me)
    /\ \A s \in Owed(me) : Intact(s) => InOut(me, s) \/ <<s, SlotOf(s)>> \in me.entries

\* read_events going on to the oldest entry, or returning.
LEMMA NextEntryLoss ==
  ASSUME IInv, LossInv, NEW r \in Readers, NEW me \in ReaderType, KeepsPlace(rd[r], me),
         BetweenEntries(me), NextEntry(r, me)
  PROVE  LossInv'
<1>0. /\ me.msg \in Nat /\ me.last \in Nat /\ nextSeq \in Nat
  BY ReaderNumbers DEF IInv, TypeOK
<1>1. CASE me.entries = {} /\ ReaderMoves(r, [me EXCEPT !.pc = "return"])
  <2> DEFINE new == [me EXCEPT !.pc = "return"]
  <2>1. /\ new \in ReaderType
        /\ new.kind = me.kind /\ new.base = me.base /\ new.last = me.last
        /\ new.msg = me.msg /\ new.entries = {} /\ new.out = me.out /\ new.pc = "return"
    BY <1>1 DEF ReaderType, ReaderPcs
  <2>2. ReaderMoves(r, new)
    BY <1>1
  <2> HIDE DEF new
  <2>3. Shape(new) /\ Collected(new)
    BY <1>0, <1>1, <2>1 DEF BetweenEntries, Shape, Collected, Trying
  <2>4. \A s \in Owed(new) : Intact(s) => Covered(new, s)
    BY <1>1, <2>1 DEF BetweenEntries, Owed, Covered, Trying, InOut
  <2>5. CallInv(new) /\ KeepsPlace(rd[r], new)
    BY <2>1, <2>3, <2>4 DEF CallInv, KeepsPlace, Trying
  <2> QED
    BY <2>1, <2>2, <2>5, ReaderMovesLoss
<1>2. ASSUME NEW e \in me.entries, \A f \in me.entries : e[1] <= f[1],
             ReaderMoves(r, [Try(me, e[2], e[1]) EXCEPT !.entries = me.entries \ {e}])
      PROVE  LossInv'
  <2> DEFINE new == [Try(me, e[2], e[1]) EXCEPT !.entries = me.entries \ {e}]
  <2>1. e[1] \in Nat /\ e[2] \in Slots /\ me.entries \ {e} \in SUBSET (Nat \X Slots)
    BY DEF ReaderType
  <2>2. /\ new \in ReaderType
        /\ new.kind = me.kind /\ new.base = me.base /\ new.last = me.last
        /\ new.msg = me.msg /\ new.entries = me.entries \ {e} /\ new.out = me.out
        /\ new.pc = "begin1" /\ new.exp = e[1] /\ new.slot = e[2]
    BY <2>1 DEF Try, ReaderType, ReaderPcs
  <2>3. ReaderMoves(r, new)
    BY <1>2
  <2> HIDE DEF new
  <2>4. \A f \in new.entries : e[1] < f[1]
    <3> SUFFICES ASSUME NEW f \in me.entries, f # e, e[1] = f[1] PROVE FALSE
      BY <1>2, <2>1, <2>2, ReaderNumbers
    <3>1. e = <<e[1], e[2]>> /\ f = <<f[1], f[2]>> /\ e[2] = SlotOf(e[1]) /\ f[2] = SlotOf(f[1])
      BY ReaderNumbers DEF BetweenEntries, Collected
    <3> QED
      BY <3>1
  <2>5. Collected(new)
    BY <2>2 DEF BetweenEntries, Collected
  <2>6. TriedInOrder(new)
    BY <2>2, <2>4 DEF BetweenEntries, Collected, TriedInOrder
  <2>7. Shape(new)
    BY <1>0, <2>2 DEF BetweenEntries, Shape, Trying
  <2>8. ASSUME NEW s \in Owed(new), Intact(s) PROVE Covered(new, s)
    <3>1. InOut(me, s) \/ <<s, SlotOf(s)>> \in me.entries
      BY <2>2, <2>8 DEF BetweenEntries, Owed
    <3>2. CASE InOut(me, s)
      BY <2>2, <3>2 DEF Covered, Trying, InOut
    <3>3. CASE <<s, SlotOf(s)>> \in me.entries
      BY <2>2, <3>3 DEF Covered, Trying, BetweenEntries
    <3> QED
      BY <3>1, <3>2, <3>3
  <2>9. CallInv(new) /\ KeepsPlace(rd[r], new)
    BY <2>2, <2>5, <2>6, <2>7, <2>8 DEF CallInv, KeepsPlace
  <2> QED
    BY <2>2, <2>3, <2>9, ReaderMovesLoss
<1> QED
  BY <1>1, <1>2 DEF NextEntry

\* A call that has not begun to walk over the slots.
Starting(me) ==
    /\ 1 <= me.msg /\ me.msg <= nextSeq
    /\ me.entries = {} /\ me.out = <<>>
    /\ me.kind = "trace" => me.exp = me.msg /\ me.last < me.msg
    /\ me.kind \in StopsAtNote => me.last <= me.msg

\* Either call starting to walk over all the slots.
LEMMA WalkLoss ==
  ASSUME IInv, LossInv, NEW r \in Readers, NEW me \in ReaderType, KeepsPlace(rd[r], me),
         Starting(me), NEW plan \in Seq(Slots), \A i \in Slots : InPlan(plan, i),
         Walk(r, me, plan)
  PROVE  LossInv'
<1> DEFINE planned == [me EXCEPT !.plan = plan]
           new == [planned EXCEPT !.pc = "scanBegin"]
<1>1. /\ planned \in ReaderType /\ planned.plan = plan
      /\ planned.kind = me.kind /\ planned.base = me.base /\ planned.last = me.last
      /\ planned.msg = me.msg /\ planned.exp = me.exp /\ planned.entries = me.entries
      /\ planned.out = me.out
  BY DEF ReaderType
<1>2. SlotOf(me.msg) \in Slots /\ me.msg \in Nat
  BY SlotOfIsSlot, ReaderNumbers
<1>3. KeepsPlace(rd[r], planned)
  BY <1>1 DEF KeepsPlace
<1>4. CASE me.kind = "trace" /\ ReaderMoves(r, NextTry(planned))
  <2>1. BetweenTries(planned)
    BY <1>1, <1>2, <1>4 DEF Starting, BetweenTries
  <2> HIDE DEF planned
  <2> QED
    BY <1>1, <1>3, <1>4, <2>1, NextTryLoss
<1>5. CASE me.kind # "trace" /\ ReaderMoves(r, new)
  <2>1. /\ new \in ReaderType /\ new.plan = plan /\ new.pc = "scanBegin"
        /\ new.kind = me.kind /\ new.base = me.base /\ new.last = me.last
        /\ new.msg = me.msg /\ new.entries = {} /\ new.out = <<>>
    BY <1>1 DEF ReaderType, ReaderPcs, Starting
  <2> HIDE DEF new
  <2>2. Shape(new) /\ Collected(new) /\ ~Trying(new)
    BY <1>2, <1>5, <2>1 DEF Starting, Shape, Collected, Trying
  <2>3. ASSUME NEW s \in Owed(new) PROVE Covered(new, s)
    <3>1. SlotOf(s) \in Slots
      BY <2>1, SlotOfIsSlot, ReaderNumbers
    <3> QED
      BY <2>1, <3>1 DEF Covered, Trying
  <2>4. CallInv(new) /\ KeepsPlace(rd[r], new)
    BY <2>1, <2>2, <2>3 DEF CallInv, KeepsPlace
  <2> QED
    BY <1>5, <2>1, <2>4, ReaderMovesLoss
<1> QED
  BY <1>4, <1>5 DEF Walk

\* A descriptor names a finished frame, so the call that it starts owes only
\* finished frames.
LEMMA TakeNoteLoss ==
  ASSUME IInv, LossInv, NEW r \in Readers, NEW n \in notes, TakeNote(r, n)
  PROVE  LossInv'
<1> DEFINE old == rd[r]
           fresh == old.base = -1
           me == [old EXCEPT !.msg = n.seq, !.exp = n.seq,
                             !.base = IF fresh THEN n.first - 1 ELSE old.base,
                             !.last = IF fresh THEN n.first - 1 ELSE old.last]
           new == [me EXCEPT !.pc = "hint"]
<1>1. /\ old \in ReaderType /\ CallInv(old) /\ n \in NoteType /\ nextSeq \in Nat
      /\ n.first <= n.seq /\ n.seq <= nextSeq
  BY DEF IInv, TypeOK, LossInv, PosInv
<1>2. n.seq \in Nat /\ n.seq >= 1 /\ n.first - 1 \in Nat /\ n.first \in Nat
  BY <1>1 DEF NoteType
<1>3. /\ me \in ReaderType /\ me.msg = n.seq /\ me.exp = n.seq /\ me.kind = old.kind
      /\ me.base = IF fresh THEN n.first - 1 ELSE old.base
      /\ me.last = IF fresh THEN n.first - 1 ELSE old.last
      /\ me.entries = old.entries /\ me.out = old.out
  BY <1>1, <1>2 DEF ReaderType
<1>4. old.pc = "idle" /\ n.seq > old.msg
  BY DEF TakeNote
<1>5. \/ ReaderMoves(r, new)
      \/ Walk(r, me, AllSlots)
  BY DEF TakeNote
<1> HIDE DEF me
<1>6. KeepsPlace(old, me)
  BY <1>2, <1>3 DEF KeepsPlace
<1>7. Starting(me)
  <2>1. old.msg \in Nat /\ old.last \in Nat
    BY <1>1, ReaderNumbers
  <2> QED
    BY <1>1, <1>2, <1>3, <1>4, <2>1 DEF Starting, CallInv, Shape
<1>8. CASE ReaderMoves(r, new)
  <2>1. /\ new \in ReaderType /\ new.pc = "hint" /\ new.kind = me.kind
        /\ new.base = me.base /\ new.last = me.last /\ new.msg = me.msg
        /\ new.exp = me.exp /\ new.entries = {} /\ new.out = <<>>
    BY <1>3, <1>7 DEF ReaderType, ReaderPcs, Starting
  <2> HIDE DEF new
  <2>2. Shape(new)
    BY <1>7, <2>1, ReaderNumbers DEF Starting, Shape, Trying
  <2>3. Collected(new) /\ ~Trying(new) /\ \A s \in Owed(new) : Covered(new, s)
    BY <2>1 DEF Collected, Trying, Covered
  <2>4. CallInv(new) /\ KeepsPlace(old, new)
    BY <1>6, <2>1, <2>2, <2>3 DEF CallInv, KeepsPlace
  <2> QED
    BY <1>8, <2>1, <2>4, ReaderMovesLoss
<1>9. CASE Walk(r, me, AllSlots)
  <2>1. 0 \in Slots
    BY DEF Slots
  <2>2. AllSlots \in Seq(Slots) /\ \A i \in Slots : InPlan(AllSlots, i)
    BY <2>1, PlansAreSlotSequences, PlansVisitEverySlot
  <2> QED
    BY <1>3, <1>6, <1>7, <1>9, <2>2, WalkLoss
<1> QED
  BY <1>5, <1>8, <1>9

\* The walk starts wherever the hint points, and visits every slot.
LEMMA LoadHintLoss ==
  ASSUME IInv, LossInv, NEW r \in Readers, LoadHint(r)
  PROVE  LossInv'
<1>1. /\ rd[r] \in ReaderType /\ CallInv(rd[r]) /\ lastSlot \in Slots /\ rd[r].pc = "hint"
  BY DEF IInv, TypeOK, LossInv, LoadHint
<1>2. Starting(rd[r]) /\ KeepsPlace(rd[r], rd[r])
  BY <1>1, InCallAttached DEF CallInv, Shape, Starting, KeepsPlace
<1>3. Walk(r, rd[r], SearchFrom(lastSlot)) \/ Walk(r, rd[r], ScanFrom(lastSlot))
  BY DEF LoadHint
<1>4. /\ SearchFrom(lastSlot) \in Seq(Slots) /\ ScanFrom(lastSlot) \in Seq(Slots)
      /\ \A i \in Slots : InPlan(SearchFrom(lastSlot), i) /\ InPlan(ScanFrom(lastSlot), i)
  BY <1>1, PlansAreSlotSequences, PlansVisitEverySlot
<1> QED
  BY <1>1, <1>2, <1>3, <1>4, WalkLoss

\* The scan: a surviving frame's slot shows the same number in both markers.
LEMMA ScanLoss ==
  ASSUME IInv, LossInv, NEW r \in Readers, ScanBegin(r) \/ ScanEnd(r)
  PROVE  LossInv'
<1> DEFINE me == rd[r]
           slot == Head(me.plan)
<1>1. /\ me \in ReaderType /\ CallInv(me) /\ PosInv /\ nextSeq \in Nat
      /\ me.plan # <<>> /\ me.base # -1
  BY InCallAttached DEF IInv, TypeOK, LossInv, ScanBegin, ScanEnd, ReaderOK
<1>2. /\ slot \in Slots /\ Tail(me.plan) \in Seq(Slots) /\ ring[slot] \in SlotType
      /\ me.plan \in Seq(Slots)
  BY <1>1, ReaderNumbers DEF IInv, TypeOK
<1>3. ring[slot].begin \in Nat /\ ring[slot].end \in Nat
  BY <1>2 DEF SlotType
<1>4. /\ me.kind # "trace" /\ me.out = <<>> /\ 1 <= me.msg /\ me.msg <= nextSeq
      /\ me.kind \in StopsAtNote => me.last <= me.msg
      /\ me.msg \in Nat /\ me.last \in Nat /\ me.mark \in Nat
  BY <1>1, ReaderNumbers DEF CallInv, Shape, ScanBegin, ScanEnd
<1>5. \A s \in Owed(me) : s \in 1 .. nextSeq /\ s > me.last
  BY <1>1, <1>4 DEF Owed
<1>6. CASE ScanBegin(r)
  <2> DEFINE new == [me EXCEPT !.pc = "scanEnd", !.mark = ring[slot].begin]
  <2>1. /\ new \in ReaderType /\ new.pc = "scanEnd" /\ new.mark = ring[slot].begin
        /\ new.kind = me.kind /\ new.base = me.base /\ new.last = me.last
        /\ new.msg = me.msg /\ new.entries = me.entries /\ new.out = me.out
        /\ new.plan = me.plan
    BY <1>1, <1>3 DEF ReaderType, ReaderPcs
  <2>2. ReaderMoves(r, new) /\ me.pc = "scanBegin"
    BY <1>6 DEF ScanBegin
  <2> HIDE DEF new
  <2>3. Shape(new) /\ ~Trying(new)
    BY <1>4, <2>1 DEF Shape, Trying
  <2>4. Collected(new)
    BY <1>1, <2>1 DEF CallInv, Collected
  <2>5. ASSUME NEW s \in Owed(new), Intact(s) PROVE Covered(new, s)
    <3>1. s \in Owed(me) /\ Covered(me, s)
      BY <1>1, <2>1, <2>5 DEF Owed, CallInv
    <3>2. CASE InPlan(me.plan, SlotOf(s))
      <4>1. slot = SlotOf(s) \/ InPlan(Tail(me.plan), SlotOf(s))
        BY <1>2, <3>2, RestOfPlan
      <4> QED
        BY <2>1, <2>5, <4>1 DEF Covered, Trying, Intact
    <3>3. CASE <<s, SlotOf(s)>> \in me.entries
      BY <2>1, <3>3 DEF Covered, Trying
    <3> QED
      BY <2>2, <3>1, <3>2, <3>3 DEF Covered
  <2>6. CallInv(new) /\ KeepsPlace(me, new)
    BY <1>1, <2>1, <2>3, <2>4, <2>5 DEF CallInv, KeepsPlace
  <2> QED
    BY <2>1, <2>2, <2>6, ReaderMovesLoss
<1>7. CASE ScanEnd(r)
  <2> DEFINE end == ring[slot].end
             found == me.mark # 0 /\ me.mark = end /\ end > me.last
             more == IF found THEN {<<end, slot>>} ELSE {}
             moved == [me EXCEPT !.plan = Tail(me.plan),
                                 !.entries = me.entries \cup more]
             new == [moved EXCEPT !.pc = "scanBegin"]
  <2>1. me.entries \cup more \in SUBSET (Nat \X Slots)
    BY <1>1, <1>2, <1>3, SMTT(30) DEF ReaderType
  <2>2. /\ moved \in ReaderType /\ moved.plan = Tail(me.plan)
        /\ moved.entries = me.entries \cup more
        /\ moved.kind = me.kind /\ moved.base = me.base /\ moved.last = me.last
        /\ moved.msg = me.msg /\ moved.out = me.out
    BY <1>1, <1>2, <2>1 DEF ReaderType
  <2>3. \/ moved.plan # <<>> /\ ReaderMoves(r, new)
        \/ moved.plan = <<>> /\ NextEntry(r, moved)
    BY <1>7 DEF ScanEnd
  <2>4. me.pc = "scanEnd"
    BY <1>7 DEF ScanEnd
  <2>5. \A e \in more : e[1] > me.last /\ e[1] <= Committed /\ e[2] = SlotOf(e[1])
    BY <1>1, <1>2, <1>3, <1>4 DEF PosInv
  <2>6. ASSUME NEW s \in Owed(me), Intact(s)
        PROVE  InPlan(Tail(me.plan), SlotOf(s)) \/ <<s, SlotOf(s)>> \in me.entries \cup more
    <3>1. Covered(me, s) /\ s \in 1 .. nextSeq /\ s > me.last
      BY <1>1, <1>5, <2>6 DEF CallInv
    <3>2. ring[SlotOf(s)].end = s
      BY <1>1, <2>6, <3>1 DEF PosInv
    <3>3. CASE slot = SlotOf(s) /\ me.mark = s
      BY <3>1, <3>2, <3>3
    <3> QED
      BY <2>4, <3>1, <3>3 DEF Covered
  <2> HIDE DEF more, moved
  <2>7. Collected(moved)
    <3>1. Collected(me)
      BY <1>1 DEF CallInv
    <3> QED
      BY <1>4, <2>2, <2>5, <3>1 DEF Collected
  <2>8. CASE moved.plan # <<>> /\ ReaderMoves(r, new)
    <3>1. /\ new \in ReaderType /\ new.pc = "scanBegin" /\ new.plan = moved.plan
          /\ new.kind = me.kind /\ new.base = me.base /\ new.last = me.last
          /\ new.msg = me.msg /\ new.entries = moved.entries /\ new.out = me.out
      BY <2>2 DEF ReaderType, ReaderPcs
    <3> HIDE DEF new
    <3>2. Shape(new) /\ ~Trying(new)
      BY <1>4, <3>1 DEF Shape, Trying
    <3>3. Collected(new)
      BY <2>2, <2>7, <3>1 DEF Collected
    <3>4. \A s \in Owed(new) : Intact(s) => Covered(new, s)
      BY <2>2, <2>6, <3>1 DEF Owed, Covered, Trying
    <3>5. CallInv(new) /\ KeepsPlace(me, new)
      BY <1>1, <3>1, <3>2, <3>3, <3>4 DEF CallInv, KeepsPlace
    <3> QED
      BY <2>8, <3>1, <3>5, ReaderMovesLoss
  <2>9. CASE moved.plan = <<>> /\ NextEntry(r, moved)
    <3>1. \A i \in Slots : ~InPlan(Tail(me.plan), i)
      <4>1. Tail(me.plan) = <<>>
        BY <2>2, <2>9 DEF moved
      <4> QED
        BY <1>2, <4>1, RestOfPlan
    <3>2. \A s \in Owed(moved) : Intact(s) =>
            InOut(moved, s) \/ <<s, SlotOf(s)>> \in moved.entries
      <4>1. Owed(moved) = Owed(me)
        BY <2>2 DEF Owed
      <4> QED
        BY <1>1, <2>2, <2>6, <3>1, <4>1, SlotOfIsSlot, ReaderNumbers
    <3>3. KeepsPlace(me, moved)
      BY <1>1, <2>2 DEF KeepsPlace
    <3>4. BetweenEntries(moved)
      BY <1>4, <2>2, <2>7, <3>2 DEF BetweenEntries
    <3> QED
      BY <2>2, <2>9, <3>3, <3>4, NextEntryLoss
  <2> QED
    BY <2>3, <2>8, <2>9
<1> QED
  BY <1>6, <1>7

\* A rejected slot does not hold the frame that was looked for.
LEMMA RejectLoss ==
  ASSUME IInv, LossInv, NEW r \in Readers, Trying(rd[r]), Reject(r, rd[r]),
         \A s \in Owed(rd[r]) : Intact(s) => ~(rd[r].exp = s /\ rd[r].slot = SlotOf(s)
                                 /\ (rd[r].pc \in {"end1", "end2"} => rd[r].mark = s))
  PROVE  LossInv'
<1> DEFINE me == rd[r]
<1>1. me \in ReaderType /\ CallInv(me)
  BY DEF IInv, TypeOK, LossInv
<1>2. KeepsPlace(me, me)
  BY InCallAttached DEF KeepsPlace, Trying
<1>3. CASE me.kind = "trace"
  <2>1. BetweenTries(me)
    BY <1>1, <1>3 DEF CallInv, Shape, Trying, BetweenTries, Owed, Covered, InOut
  <2>2. ReaderMoves(r, NextTry(me))
    BY <1>3 DEF Reject
  <2> QED
    BY <1>1, <1>2, <2>1, <2>2, NextTryLoss
<1>4. CASE me.kind # "trace"
  <2>1. BetweenEntries(me)
    BY <1>1, <1>4 DEF CallInv, Shape, Trying, BetweenEntries, Covered
  <2>2. NextEntry(r, me)
    BY <1>4 DEF Reject
  <2> QED
    BY <1>1, <1>2, <2>1, <2>2, NextEntryLoss
<1> QED
  BY <1>3, <1>4

\* What a running call owes are finished frames; the ones that survive are committed.
LEMMA OwedAreFinished ==
  ASSUME IInv, LossInv, NEW r \in Readers, rd[r].pc # "idle", NEW s \in Owed(rd[r])
  PROVE  /\ s \in 1 .. nextSeq
         /\ Intact(s) => Covered(rd[r], s) /\ ring[SlotOf(s)].end = s
<1>1. rd[r] \in ReaderType /\ CallInv(rd[r]) /\ PosInv /\ nextSeq \in Nat
  BY DEF IInv, TypeOK, LossInv
<1>2. s \in 1 .. nextSeq
  BY <1>1, ReaderNumbers DEF CallInv, Shape, Owed
<1> QED
  BY <1>1, <1>2 DEF CallInv, PosInv

\* A step inside _read_stable_slot that goes on with the same slot and has seen the
\* frame's number in seq_begin if the frame survives.
LEMMA StableStepLoss ==
  ASSUME IInv, LossInv, NEW r \in Readers, Trying(rd[r]),
         NEW new \in ReaderType, ReaderMoves(r, new), Trying(new),
         new.kind = rd[r].kind, new.base = rd[r].base, new.last = rd[r].last,
         new.msg = rd[r].msg, new.plan = rd[r].plan, new.entries = rd[r].entries,
         new.slot = rd[r].slot, new.exp = rd[r].exp, new.out = rd[r].out,
         new.pc \in {"end1", "end2"} => new.mark = ring[new.slot].begin
  PROVE  LossInv'
<1> DEFINE me == rd[r]
<1>1. me \in ReaderType /\ CallInv(me)
  BY DEF IInv, TypeOK, LossInv
<1>2. Shape(new)
  BY <1>1 DEF CallInv, Shape, Trying
<1>3. Collected(new) /\ TriedInOrder(new)
  BY <1>1 DEF CallInv, Collected, TriedInOrder
<1>4. ASSUME NEW s \in Owed(new), Intact(s) PROVE Covered(new, s)
  <2>1. Covered(me, s)
    BY <1>1, <1>4 DEF CallInv, Owed
  <2>2. CASE me.exp = s /\ me.slot = SlotOf(s)
    BY <1>4, <2>2 DEF Covered, Trying, Intact
  <2>3. CASE InOut(me, s)
    BY <2>3 DEF Covered, Trying, InOut
  <2>4. CASE IF me.kind = "trace" THEN InPlan(me.plan, SlotOf(s))
                                  ELSE <<s, SlotOf(s)>> \in me.entries
    BY <2>4 DEF Covered, Trying
  <2> QED
    BY <2>1, <2>2, <2>3, <2>4 DEF Covered
<1>5. CallInv(new) /\ KeepsPlace(me, new)
  BY <1>2, <1>3, <1>4, InCallAttached DEF CallInv, KeepsPlace, Trying
<1> QED
  BY <1>5, ReaderMovesLoss

\* The event that the second look admits carries the number of a committed frame
\* that comes after all those collected.
LEMMA AcceptLoss ==
  ASSUME IInv, LossInv, NEW r \in Readers, rd[r].pc = "end2", Accept(r, rd[r]),
         ring[rd[r].slot].end = rd[r].exp
  PROVE  LossInv'
<1> DEFINE me == rd[r]
           event == [seq |-> me.exp, data |-> me.data]
           got == [me EXCEPT !.out = Append(me.out, event)]
           new == [got EXCEPT !.pc = "return"]
<1>1. me \in ReaderType /\ CallInv(me) /\ PosInv /\ Trying(me) /\ nextSeq \in Nat
  BY DEF IInv, TypeOK, LossInv, Trying
<1>2. event \in EventType /\ me.out \in Seq(EventType) /\ event.seq = me.exp
  BY <1>1 DEF ReaderType, EventType
<1>3. /\ Append(me.out, event) \in Seq(EventType)
      /\ Len(Append(me.out, event)) = Len(me.out) + 1
      /\ Append(me.out, event)[Len(me.out) + 1] = event
      /\ \A k \in 1 .. Len(me.out) : Append(me.out, event)[k] = me.out[k]
  BY <1>2
<1>4. /\ got \in ReaderType /\ got.out = Append(me.out, event)
      /\ got.kind = me.kind /\ got.base = me.base /\ got.last = me.last
      /\ got.msg = me.msg /\ got.entries = me.entries /\ got.exp = me.exp
      /\ got.pc = me.pc
  BY <1>1, <1>3 DEF ReaderType
<1>5. me.exp \in Nat /\ me.last \in Nat /\ me.exp > me.last /\ TriedInOrder(me)
  BY <1>1, ReaderNumbers DEF CallInv, TriedInOrder
<1>6. me.exp <= Committed
  BY <1>1, <1>5, ReaderNumbers DEF PosInv
<1> HIDE DEF got, event
<1>7. Collected(got)
  <2>1. Collected(me) /\ Len(me.out) \in Nat
    BY <1>1, <1>2 DEF CallInv
  <2>2. \A k \in 1 .. Len(got.out) :
          \/ k \in 1 .. Len(me.out) /\ got.out[k].seq = me.out[k].seq
          \/ k = Len(me.out) + 1 /\ got.out[k].seq = me.exp
    BY <1>2, <1>3, <1>4, <2>1
  <2>3. \A k \in 1 .. Len(got.out) : \A j \in 1 .. k - 1 : j \in 1 .. Len(me.out)
                                       /\ got.out[j].seq = me.out[j].seq
    BY <1>3, <1>4, <2>1
  <2>4. ASSUME NEW k \in 1 .. Len(got.out)
        PROVE  /\ got.out[k].seq > got.last /\ got.out[k].seq <= Committed
               /\ \A j \in 1 .. k - 1 : got.out[j].seq < got.out[k].seq
               /\ \A e \in got.entries : got.out[k].seq < e[1]
    <3>1. CASE k \in 1 .. Len(me.out) /\ got.out[k].seq = me.out[k].seq
      BY <1>4, <2>1, <2>3, <3>1 DEF Collected
    <3>2. CASE k = Len(me.out) + 1 /\ got.out[k].seq = me.exp
      BY <1>4, <1>5, <1>6, <2>3, <3>2 DEF TriedInOrder
    <3> QED
      BY <2>2, <3>1, <3>2
  <2> QED
    BY <1>4, <2>1, <2>4 DEF Collected
<1>8. ASSUME NEW s, InOut(me, s) \/ me.exp = s PROVE InOut(got, s)
  <2>1. Len(me.out) \in Nat
    BY <1>2
  <2>2. CASE InOut(me, s)
    BY <1>3, <1>4, <2>1, <2>2 DEF InOut
  <2>3. CASE me.exp = s
    <3>1. Len(me.out) + 1 \in 1 .. Len(got.out) /\ got.out[Len(me.out) + 1].seq = s
      BY <1>2, <1>3, <1>4, <2>1, <2>3
    <3> QED
      BY <3>1 DEF InOut
  <2> QED
    BY <1>8, <2>2, <2>3
<1>8a. me.kind = "trace" => \A k \in 1 .. Len(got.out) : got.out[k].seq <= me.msg
  <2> SUFFICES ASSUME me.kind = "trace", NEW k \in 1 .. Len(got.out)
               PROVE  got.out[k].seq <= me.msg
    OBVIOUS
  <2>1. Len(me.out) = 0 /\ me.exp = me.msg
    BY <1>1 DEF CallInv, Shape, Trying
  <2>2. k = Len(me.out) + 1
    BY <1>3, <1>4, <2>1
  <2> QED
    BY <1>2, <1>3, <1>4, <1>5, <2>1, <2>2
<1>9. CASE me.kind = "trace" /\ ReaderMoves(r, new)
  <2>1. /\ new \in ReaderType /\ new.pc = "return" /\ new.out = got.out
        /\ new.kind = me.kind /\ new.base = me.base /\ new.last = me.last
        /\ new.msg = me.msg /\ new.entries = me.entries /\ new.exp = me.exp
    BY <1>4 DEF ReaderType, ReaderPcs
  <2> HIDE DEF new
  <2>2. Shape(new) /\ ~Trying(new) /\ me.exp = me.msg
    BY <1>1, <1>8a, <1>9, <2>1 DEF CallInv, Shape, Trying
  <2>3. Collected(new)
    BY <1>4, <1>7, <2>1 DEF Collected
  <2>4. \A s \in Owed(new) : Covered(new, s)
    <3>1. InOut(got, me.msg)
      BY <1>8, <2>2
    <3> QED
      BY <1>9, <2>1, <2>2, <3>1 DEF Owed, Covered, InOut, Trying
  <2>5. CallInv(new) /\ KeepsPlace(me, new)
    BY <2>1, <2>2, <2>3, <2>4, InCallAttached DEF CallInv, KeepsPlace
  <2> QED
    BY <1>9, <2>1, <2>5, ReaderMovesLoss
<1>10. CASE me.kind # "trace" /\ NextEntry(r, got)
  <2>1. \A s \in Owed(got) : Intact(s) => InOut(got, s) \/ <<s, SlotOf(s)>> \in got.entries
    <3>1. Owed(got) = Owed(me)
      BY <1>4 DEF Owed
    <3> QED
      BY <1>1, <1>4, <1>8, <1>10, <3>1 DEF CallInv, Covered
  <2>2. BetweenEntries(got) /\ KeepsPlace(me, got)
    BY <1>1, <1>4, <1>7, <1>10, <2>1, InCallAttached DEF BetweenEntries, KeepsPlace, CallInv, Shape, Trying
  <2> QED
    BY <1>4, <1>10, <2>2, NextEntryLoss
<1> QED
  BY <1>9, <1>10 DEF Accept, got, event, new

\* _read_stable_slot, step by step.
LEMMA StableLoss ==
  ASSUME IInv, LossInv, NEW r \in Readers,
         \/ StableBegin1(r) \/ StableEnd1(r) \/ StableBegin2(r) \/ StableEnd2(r)
         \/ \E w \in Words : StableLoad(r, w)
  PROVE  LossInv'
<1> DEFINE me == rd[r]
           slot == ring[me.slot]
<1>1. me \in ReaderType /\ me.slot \in Slots /\ slot \in SlotType /\ Trying(me)
  BY ReaderNumbers DEF IInv, TypeOK, Trying, StableBegin1, StableEnd1, StableBegin2,
                       StableEnd2, StableLoad
<1>2. slot.begin \in Nat /\ slot.data \in [Words -> Nat]
  BY <1>1 DEF SlotType
<1>3. \A s \in Owed(me) : Intact(s) /\ me.slot = SlotOf(s) => slot.end = s /\ s # 0
  BY <1>1, OwedAreFinished DEF Trying
<1>4. CASE StableBegin1(r)
  <2> DEFINE new == [me EXCEPT !.pc = "end1", !.mark = slot.begin]
  <2>1. /\ new \in ReaderType /\ new.pc = "end1" /\ new.mark = slot.begin
        /\ new.kind = me.kind /\ new.base = me.base /\ new.last = me.last
        /\ new.msg = me.msg /\ new.plan = me.plan /\ new.entries = me.entries
        /\ new.slot = me.slot /\ new.exp = me.exp /\ new.out = me.out
    BY <1>1, <1>2 DEF ReaderType, ReaderPcs
  <2>2. ReaderMoves(r, new)
    BY <1>4 DEF StableBegin1
  <2> HIDE DEF new
  <2>3. Trying(new)
    BY <2>1 DEF Trying
  <2> QED
    BY <1>1, <2>1, <2>2, <2>3, StableStepLoss
<1>5. CASE StableEnd1(r)
  <2> DEFINE new == [me EXCEPT !.pc = "load", !.todo = Words, !.data = Blank]
  <2>1. CASE /\ me.mark = 0 \/ me.mark # slot.end \/ slot.end # me.exp
             /\ Reject(r, me)
    BY <1>1, <1>3, <1>5, <2>1, RejectLoss DEF StableEnd1
  <2>2. CASE ReaderMoves(r, new)
    <3>1. Blank \in [Words -> Nat]
      BY DEF Blank
    <3>2. /\ new \in ReaderType /\ new.pc = "load"
          /\ new.kind = me.kind /\ new.base = me.base /\ new.last = me.last
          /\ new.msg = me.msg /\ new.plan = me.plan /\ new.entries = me.entries
          /\ new.slot = me.slot /\ new.exp = me.exp /\ new.out = me.out
      BY <1>1, <3>1 DEF ReaderType, ReaderPcs
    <3> HIDE DEF new
    <3>3. Trying(new)
      BY <3>2 DEF Trying
    <3> QED
      BY <1>1, <2>2, <3>2, <3>3, StableStepLoss
  <2> QED
    BY <1>5, <2>1, <2>2 DEF StableEnd1
<1>6. CASE StableBegin2(r)
  <2> DEFINE new == [me EXCEPT !.pc = "end2", !.mark = slot.begin]
  <2>1. /\ new \in ReaderType /\ new.pc = "end2" /\ new.mark = slot.begin
        /\ new.kind = me.kind /\ new.base = me.base /\ new.last = me.last
        /\ new.msg = me.msg /\ new.plan = me.plan /\ new.entries = me.entries
        /\ new.slot = me.slot /\ new.exp = me.exp /\ new.out = me.out
    BY <1>1, <1>2 DEF ReaderType, ReaderPcs
  <2>2. ReaderMoves(r, new)
    BY <1>6 DEF StableBegin2
  <2> HIDE DEF new
  <2>3. Trying(new)
    BY <2>1 DEF Trying
  <2> QED
    BY <1>1, <2>1, <2>2, <2>3, StableStepLoss
<1>7. CASE StableEnd2(r)
  <2>1. CASE /\ me.mark # me.exp \/ slot.end # me.exp \/ me.mark # slot.end
             /\ Reject(r, me)
    BY <1>1, <1>3, <1>7, <2>1, RejectLoss DEF StableEnd2
  <2>2. CASE slot.end = me.exp /\ Accept(r, me)
    BY <1>7, <2>2, AcceptLoss DEF StableEnd2
  <2> QED
    BY <1>7, <2>1, <2>2 DEF StableEnd2
<1>8. ASSUME NEW w \in Words, StableLoad(r, w) PROVE LossInv'
  <2> DEFINE new == [me EXCEPT !.todo = me.todo \ {w}, !.data[w] = slot.data[w]]
  <2>1. /\ new \in ReaderType /\ new.pc = "load"
        /\ new.kind = me.kind /\ new.base = me.base /\ new.last = me.last
        /\ new.msg = me.msg /\ new.plan = me.plan /\ new.entries = me.entries
        /\ new.slot = me.slot /\ new.exp = me.exp /\ new.out = me.out
    BY <1>1, <1>2, <1>8 DEF ReaderType, ReaderPcs, StableLoad
  <2>2. ReaderMoves(r, new)
    BY <1>8 DEF StableLoad
  <2> HIDE DEF new
  <2>3. Trying(new)
    BY <2>1 DEF Trying
  <2> QED
    BY <1>1, <2>1, <2>2, <2>3, StableStepLoss
<1> QED
  BY <1>4, <1>5, <1>6, <1>7, <1>8

\* Sequence c is a followed by the elements m + 1 to n of b, element by element.
Extends(c, a, b, m, n) ==
    /\ DOMAIN c = 1 .. Len(c) /\ Len(c) = Len(a) + (n - m)
    /\ \A k \in 1 .. Len(a) : k \in 1 .. Len(c) /\ c[k] = a[k]
    /\ \A k \in m + 1 .. n :
         Len(a) + (k - m) \in 1 .. Len(c) /\ c[Len(a) + (k - m)] = b[k]
    /\ \A k \in 1 .. Len(c) :
         \/ k \in 1 .. Len(a) /\ c[k] = a[k]
         \/ k - Len(a) + m \in m + 1 .. n /\ c[k] = b[k - Len(a) + m]

\* Appending the elements m + 1 to n of b to a.
LEMMA Handover ==
  ASSUME NEW S, NEW a \in Seq(S), NEW b \in Seq(S), NEW n \in 0 .. Len(b), NEW m \in 0 .. n
  PROVE  Extends(a \o SubSeq(b, m + 1, n), a, b, m, n)
<1> DEFINE p == SubSeq(b, m + 1, n)
           c == a \o p
<1>1. Len(a) \in Nat /\ Len(b) \in Nat /\ n \in Nat /\ m \in Nat
  OBVIOUS
<1>2. p \in Seq(S) /\ Len(p) = n - m /\ \A k \in 1 .. n - m : p[k] = b[k + m]
  <2>1. CASE m < n
    <3>1. m + 1 \in 1 .. Len(b) + 1 /\ n \in m .. Len(b) /\ n - (m + 1) + 1 = n - m
      BY <1>1, <2>1
    <3>2. \A k \in 1 .. n - m : m + 1 + k - 1 = k + m
      BY <1>1
    <3> QED
      BY <1>1, <2>1, <3>1, <3>2, SubSeqProperties
  <2>2. CASE m = n
    BY <1>1, <2>2, SubSeqProperties
  <2> QED
    BY <1>1, <2>1, <2>2
<1> HIDE DEF p
<1>4. c \in Seq(S) /\ Len(c) = Len(a) + (n - m)
  <2>1. c \in Seq(S) /\ Len(c) = Len(a) + Len(p)
    BY <1>2, ConcatProperties
  <2> QED
    BY <1>2, <2>1
<1>5. \A k \in 1 .. Len(c) : c[k] = IF k <= Len(a) THEN a[k] ELSE p[k - Len(a)]
  BY <1>1, <1>2
<1> HIDE DEF c
<1>6. ASSUME NEW k \in 1 .. Len(c)
      PROVE  \/ k \in 1 .. Len(a) /\ c[k] = a[k]
             \/ k - Len(a) + m \in m + 1 .. n /\ c[k] = b[k - Len(a) + m]
  <2>1. \/ k \in 1 .. Len(a)
        \/ k - Len(a) \in 1 .. n - m /\ k - Len(a) + m \in m + 1 .. n /\ ~(k <= Len(a))
    BY <1>1, <1>4
  <2>2. CASE k \in 1 .. Len(a)
    BY <1>1, <1>5, <2>2
  <2>3. CASE k - Len(a) \in 1 .. n - m /\ k - Len(a) + m \in m + 1 .. n /\ ~(k <= Len(a))
    BY <1>2, <1>5, <2>3
  <2> QED
    BY <2>1, <2>2, <2>3
<1>7. ASSUME NEW k \in m + 1 .. n
      PROVE  Len(a) + (k - m) \in 1 .. Len(c) /\ c[Len(a) + (k - m)] = b[k]
  <2>1. /\ Len(a) + (k - m) \in 1 .. Len(c) /\ ~(Len(a) + (k - m) <= Len(a))
        /\ Len(a) + (k - m) - Len(a) = k - m /\ k - m \in 1 .. n - m /\ (k - m) + m = k
    BY <1>1, <1>4
  <2>2. c[Len(a) + (k - m)] = p[k - m]
    BY <1>5, <2>1
  <2>3. p[k - m] = b[k]
    BY <1>2, <2>1
  <2> QED
    BY <2>1, <2>2, <2>3
<1>8. \A k \in 1 .. Len(a) : k \in 1 .. Len(c) /\ c[k] = a[k]
  BY <1>1, <1>4, <1>5
<1>9. DOMAIN c = 1 .. Len(c)
  BY <1>4
<1> QED
  BY <1>4, <1>6, <1>7, <1>8, <1>9 DEF Extends, c, p

\* The call returns: the consumer keeps the events up to the notified frame, and
\* what it passes over by moving last_seq has been overwritten, or is followed in the
\* log by the FrameCap frames the gateway preferred.
LEMMA ReturnLoss ==
  ASSUME IInv, LossInv, NEW r \in Readers, Return(r)
  PROVE  LossInv'
<1> DEFINE me == rd[r]
<1>1. /\ me \in ReaderType /\ CallInv(me) /\ LogInv(r) /\ PosInv /\ me.pc = "return"
      /\ log \in [Readers -> Seq(EventType)] /\ rd \in [Readers -> ReaderType]
  BY DEF IInv, TypeOK, LossInv, Return
<1>2. PICK n \in 0 .. Len(me.out) :
         /\ Keeps(r, n)
         /\ log' = [log EXCEPT ![r] = log[r] \o SubSeq(me.out, Capped(r, n) + 1, n)]
         /\ rd' = [rd EXCEPT ![r] = [Idle(me) EXCEPT
                                       !.last = IF n = 0 THEN me.last
                                                         ELSE me.out[n].seq]]
  BY DEF Return
<1> DEFINE m == Capped(r, n)
           last == IF n = 0 THEN me.last ELSE me.out[n].seq
           new == [Idle(me) EXCEPT !.last = last]
<1>3. UNCHANGED <<ring, wpc, nextSeq, nextSlot, first, notes>>
  BY DEF Return, ringVars, writerVars
<1>4. /\ me.last \in Nat /\ me.msg \in Nat /\ me.out \in Seq(EventType) /\ Len(me.out) \in Nat
      /\ \A k \in 1 .. Len(me.out) : me.out[k].seq \in Nat
      /\ log[r] \in Seq(EventType) /\ Len(log[r]) \in Nat /\ n \in Nat
  <2>1. me.last \in Nat /\ me.msg \in Nat /\ me.out \in Seq(EventType)
    BY <1>1 DEF ReaderType
  <2>2. Len(me.out) \in Nat /\ \A k \in 1 .. Len(me.out) : me.out[k] \in EventType
    BY <2>1, LenProperties, ElementOfSeq
  <2>3. \A k \in 1 .. Len(me.out) : me.out[k].seq \in Nat
    BY <2>2 DEF EventType
  <2>4. log[r] \in Seq(EventType)
    BY <1>1
  <2>5. Len(log[r]) \in Nat
    BY <2>4, LenProperties
  <2> QED
    BY <1>2, <2>1, <2>2, <2>3, <2>4, <2>5
<1>5. /\ last \in Nat /\ me.last <= last
      /\ me.kind \in StopsAtNote \cup {"trace"} /\ me.last <= me.msg => last <= me.msg
      /\ \A k \in 1 .. n : me.out[k].seq <= last
  <2>1. Collected(me) /\ Shape(me)
    BY <1>1 DEF CallInv
  <2>2. CASE n = 0
    BY <1>4, <2>2
  <2>3. CASE n # 0
    <3>1. n \in 1 .. Len(me.out) /\ last = me.out[n].seq
      BY <1>2, <1>4, <2>3
    <3>2. last \in Nat /\ me.last <= last
      BY <1>4, <2>1, <3>1 DEF Collected
    <3>3. me.kind \in StopsAtNote => last <= me.msg
      BY <1>2, <1>4, <3>1 DEF Keeps
    <3>4. me.kind = "trace" => last <= me.msg
      BY <2>1, <3>1 DEF Shape
    <3>5. ASSUME NEW k \in 1 .. n PROVE me.out[k].seq <= last
      <4>1. CASE k = n
        BY <1>4, <3>1, <4>1
      <4>2. CASE k \in 1 .. n - 1
        BY <1>4, <2>1, <3>1, <4>2, SMTT(30) DEF Collected
      <4> QED
        BY <1>4, <4>1, <4>2
    <3> QED
      BY <3>2, <3>3, <3>4, <3>5
  <2> QED
    BY <2>2, <2>3
<1>6. rd'[r] = new /\ \A q \in Readers \ {r} : rd'[q] = rd[q]
  BY <1>1, <1>2
<1> HIDE DEF last
<1>7. /\ new.kind = me.kind /\ new.base = me.base /\ new.last = last /\ new.msg = me.msg
      /\ new.pc = "idle" /\ new.out = <<>> /\ new.entries = me.entries
  BY <1>1 DEF ReaderType, Idle
<1> HIDE DEF new
<1>8. CallInv(new)
  <2>1. Shape(new) /\ new.entries = {}
    BY <1>1, <1>4, <1>5, <1>7 DEF CallInv, Shape, Trying
  <2> QED
    BY <1>7, <2>1 DEF CallInv, Collected, Trying, Covered
<1>9. ASSUME NEW q \in Readers PROVE CallInv(rd[q])'
  <2>1. CallInv(rd'[q])
    BY <1>6, <1>8 DEF LossInv
  <2> QED
    BY <1>3, <2>1 DEF CallInv, Shape, Collected, TriedInOrder, Trying, Covered, InPlan,
                      InOut, Owed, Committed, Intact, seq
<1>10. PosInv'
  BY <1>1, <1>3 DEF PosInv, Committed, Intact, seq
<1>11. ASSUME NEW q \in Readers, q # r PROVE LogInv(q)'
  <2>1. LogInv(q) /\ rd'[q] = rd[q] /\ log'[q] = log[q]
    BY <1>1, <1>2, <1>6, <1>11 DEF LossInv
  <2> QED
    BY <1>3, <2>1 DEF LogInv, Skipped, Intact, Outshone
<1> DEFINE had == log[r]
           has == log'[r]
<1>12. /\ has = had \o SubSeq(me.out, m + 1, n) /\ had \in Seq(EventType)
       /\ me.out \in Seq(EventType) /\ n \in 0 .. Len(me.out)
  BY <1>1, <1>2, <1>4
<1>12a. m \in 0 .. n /\ (m # 0 => me.kind = "gateway" /\ n - m = FrameCap)
  BY <1>4, KindAssumption DEF Capped
<1>13a. /\ \A k \in 1 .. Len(had) : had[k].seq \in Nat /\ had[k].seq <= me.last
        /\ DOMAIN had = 1 .. Len(had)
  <2>1. \A k \in 1 .. Len(had) : had[k] \in EventType
    BY <1>12
  <2> QED
    BY <1>1, <1>12, <2>1 DEF LogInv, EventType
<1>13b. /\ rd'[r].last = last /\ rd'[r].base = me.base /\ rd'[r].kind = me.kind
        /\ Skipped(r) = {s \in 1 .. me.last :
                           s > me.base /\ \A k \in DOMAIN had : had[k].seq # s}
        /\ Skipped(r)' = {s \in 1 .. last :
                            s > me.base /\ \A k \in DOMAIN has : has[k].seq # s}
  BY <1>6, <1>7 DEF Skipped
<1> HIDE DEF had, has, m
<1>13. Extends(has, had, me.out, m, n)
  BY <1>12, <1>12a, Handover
<1>13c. Len(had) \in Nat /\ Len(has) = Len(had) + (n - m)
  BY <1>4, <1>13 DEF had, Extends
<1>14. \A k \in 1 .. Len(has) : has[k].seq <= last
  <2> SUFFICES ASSUME NEW k \in 1 .. Len(has) PROVE has[k].seq <= last
    OBVIOUS
  <2>1. CASE k \in 1 .. Len(had) /\ has[k] = had[k]
    BY <1>4, <1>5, <1>13a, <2>1
  <2>2. CASE k - Len(had) + m \in m + 1 .. n /\ has[k] = me.out[k - Len(had) + m]
    <3>1. k - Len(had) + m \in 1 .. n
      BY <1>4, <1>12a, <1>13c, <2>2
    <3> QED
      BY <1>5, <2>2, <3>1
  <2> QED
    BY <1>13, <2>1, <2>2 DEF Extends
<1>14a. ASSUME NEW s, Outshone(r, s) PROVE Outshone(r, s)'
  <2>1. PICK k \in 1 .. Len(had) + 1 - FrameCap :
          \A j \in k .. k + FrameCap - 1 : had[j].seq > s
    BY <1>14a DEF Outshone, had
  <2>2. /\ k \in 1 .. Len(has) + 1 - FrameCap /\ me.kind = "gateway"
        /\ \A j \in k .. k + FrameCap - 1 : j \in 1 .. Len(had)
    BY <1>4, <1>12a, <1>13c, <1>14a, KindAssumption DEF Outshone
  <2>3. \A j \in k .. k + FrameCap - 1 : has[j].seq > s
    BY <1>13, <2>1, <2>2 DEF Extends
  <2> QED
    BY <1>13b, <2>2, <2>3 DEF Outshone, has
<1>15. ASSUME me.kind \in StopsAtNote, NEW s \in Skipped(r)', Intact(s)
       PROVE  Outshone(r, s)'
  <2>1. /\ s \in 1 .. last /\ s > me.base
        /\ \A k \in 1 .. Len(has) : has[k].seq # s
    BY <1>13, <1>13b, <1>15 DEF Extends
  <2>2. CASE s <= me.last
    <3>1. \A k \in 1 .. Len(had) : had[k].seq # s
      <4> SUFFICES ASSUME NEW k \in 1 .. Len(had), had[k].seq = s PROVE FALSE
        OBVIOUS
      <4>1. k \in 1 .. Len(has) /\ has[k] = had[k]
        BY <1>4, <1>13 DEF had, Extends
      <4> QED
        BY <2>1, <4>1
    <3>2. s \in Skipped(r)
      BY <1>4, <1>13a, <1>13b, <2>1, <2>2, <3>1
    <3> QED
      BY <1>1, <1>14a, <1>15, <3>2 DEF LogInv
  <2>3. CASE s > me.last
    <3>1. n # 0 /\ s <= me.msg
      BY <1>1, <1>4, <1>5, <1>15, <2>1, <2>3 DEF CallInv, Shape, last
    <3>2. s \in Owed(me)
      BY <1>4, <1>15, <2>1, <2>3, <3>1 DEF Owed, StopsAtNote
    <3>3. PICK k \in 1 .. Len(me.out) : me.out[k].seq = s
      BY <1>1, <1>15, <3>2 DEF CallInv, Covered, InOut
    <3>4. k \in 1 .. n
      BY <1>2, <1>4, <1>15, <3>1, <3>3 DEF Keeps
    <3>5. k <= m
      <4> SUFFICES ASSUME k \in m + 1 .. n PROVE FALSE
        BY <1>4, <1>12a, <3>4
      <4>1. /\ Len(had) + (k - m) \in 1 .. Len(has)
            /\ has[Len(had) + (k - m)].seq = s
        BY <1>13, <3>3 DEF Extends
      <4> QED
        BY <2>1, <4>1
    <3>6. me.kind = "gateway" /\ n - m = FrameCap /\ m \in Nat
      BY <1>4, <1>12a, <3>4, <3>5
    <3> DEFINE k0 == Len(had) + 1
    <3>7. k0 \in 1 .. Len(has) + 1 - FrameCap
      BY <1>13c, <3>6, KindAssumption
    <3>8. ASSUME NEW j \in k0 .. k0 + FrameCap - 1 PROVE has[j].seq > s
      <4> DEFINE i == j - Len(had) + m
      <4>1. /\ j \in 1 .. Len(has) /\ ~(j \in 1 .. Len(had))
            /\ i \in 1 .. Len(me.out) /\ k \in 1 .. i - 1
        <5>1. /\ n \in Nat /\ Len(me.out) \in Nat /\ n <= Len(me.out) /\ FrameCap \in Nat
              /\ k \in Nat /\ k >= 1
          BY <1>4, <1>12, <3>4
        <5>2. j \in Nat /\ Len(had) + 1 <= j /\ j <= Len(had) + FrameCap
          BY <1>13c, <5>1
        <5>3. Len(has) = Len(had) + FrameCap /\ n = m + FrameCap
          BY <1>13c, <3>6, <5>1
        <5> QED
          BY <1>13c, <3>5, <3>6, <5>1, <5>2, <5>3
      <4>2. has[j] = me.out[i]
        BY <1>13, <4>1 DEF Extends
      <4>3. me.out[k].seq < me.out[i].seq
        BY <1>1, <4>1 DEF CallInv, Collected
      <4> HIDE DEF i
      <4> QED
        BY <1>4, <3>3, <4>1, <4>2, <4>3
    <3> QED
      BY <1>13b, <3>6, <3>7, <3>8 DEF Outshone, has
  <2> QED
    BY <1>4, <1>5, <2>1, <2>2, <2>3
<1>16. LogInv(r)'
  <2>1. me.base # -1
    BY <1>1, InCallAttached
  <2>2. \A k \in 1 .. Len(log'[r]) : log'[r][k].seq <= rd'[r].last
    BY <1>13b, <1>14 DEF has
  <2>3. rd'[r].kind \in StopsAtNote =>
          \A s \in Skipped(r)' : Intact(s)' => Outshone(r, s)'
    BY <1>3, <1>13b, <1>15 DEF Intact
  <2> QED
    BY <1>13b, <2>1, <2>2, <2>3 DEF LogInv
<1> QED
  BY <1>9, <1>10, <1>11, <1>16 DEF LossInv

\* A fresh ring has no frames to lose.
LEMMA InitLoss == Init => LossInv
<1> SUFFICES ASSUME Init PROVE LossInv
  OBVIOUS
<1>1. 0 \in Slots /\ SlotOf(1) = 0
  BY DEF Slots, SlotOf
<1>2. PosInv
  BY <1>1 DEF Init, PosInv, seq, Committed
<1>3. PICK kind \in [Readers -> Consumers] :
         rd = [r \in Readers |->
                 [kind |-> kind[r], pc |-> "idle", msg |-> 0, base |-> -1,
                  last |-> 0, plan |-> <<>>, entries |-> {}, slot |-> 0, exp |-> 0,
                  mark |-> 0, todo |-> {}, data |-> Blank, out |-> <<>>]]
  BY DEF Init
<1>4. ASSUME NEW r \in Readers PROVE CallInv(rd[r]) /\ LogInv(r)
  <2>1. /\ rd[r].pc = "idle" /\ rd[r].msg = 0 /\ rd[r].last = 0 /\ rd[r].entries = {}
        /\ rd[r].out = <<>> /\ log[r] = <<>>
    BY <1>3 DEF Init
  <2>2. CallInv(rd[r])
    BY <2>1 DEF Init, CallInv, Shape, Collected, Trying, Covered
  <2>3. Skipped(r) = {}
    BY <2>1 DEF Skipped
  <2> QED
    BY <2>1, <2>2, <2>3 DEF LogInv
<1> QED
  BY <1>2, <1>4 DEF LossInv

\* LossInv is inductive relative to IInv: a frame that a running read_event or
\* read_events owes its consumer and that still sits whole in the ring is ahead in
\* the walk, being read, or collected, and what is collected is in order.
THEOREM LossInductive == Spec => []LossInv
<1>1. IInv /\ IInv' /\ LossInv /\ [Next]_vars => LossInv'
  <2> SUFFICES ASSUME IInv, IInv', LossInv, [Next]_vars PROVE LossInv'
    OBVIOUS
  <2>1. CASE \/ WriterStep \/ \E n \in 1 .. SlotCount : Publish(n)
             \/ WriterKilled \/ UNCHANGED vars
    <3>1. PosInv' /\ NothingReturns
      BY <2>1, WriterPos DEF LossInv
    <3>2. UNCHANGED <<rd, log>>
      BY <2>1 DEF WriterStep, InvalidateBegin, InvalidateEnd, CopyWord, PackBegin,
                  PackStamp, PackFlags, Commit, StoreHint, Advance, Publish, WriterKilled,
                  vars, readerVars
    <3> QED
      BY <3>1, <3>2, ReadersKeepLoss
  <2>2. ASSUME NEW r \in Readers, ReaderStep(r) PROVE LossInv'
    BY <2>2, LoadHintLoss, ScanLoss, StableLoss, ReturnLoss DEF ReaderStep
  <2>3. ASSUME NEW r \in Readers, NEW n \in notes, TakeNote(r, n) PROVE LossInv'
    BY <2>3, TakeNoteLoss
  <2> QED
    BY <2>1, <2>2, <2>3 DEF Next
<1> QED
  BY <1>1, InitLoss, Inductive, PTL DEF Spec

\* A drain that stops at the notified frame passes over a frame that is still in the
\* ring only by intent: whatever the ring size, the hint it starts from and the moment
\* the writer is killed, a number stream analysis skips has been overwritten, and one
\* the gateway skips has been overwritten or gave way to FrameCap newer frames.
THEOREM DrainsLoseOnlyOverruns == Spec => []DrainLossIsOverrun
<1>1. LossInv => DrainLossIsOverrun
  BY DEF LossInv, LogInv, DrainLossIsOverrun
<1> QED
  BY <1>1, LossInductive, PTL

\* read_event returns None for the notified frame only when that frame has been
\* overwritten: wherever the hint points, hint, window and full scan together reach
\* its slot, and a frame that survives the call passes both looks at the markers.
THEOREM TraceFindsSurvivors == Spec => []TraceFoundUnlessOverrun
<1>1. LossInv => TraceFoundUnlessOverrun
  <2> SUFFICES ASSUME LossInv, NEW r \in Readers, rd[r].kind = "trace", rd[r].pc = "return",
                      rd[r].out = <<>>, Intact(rd[r].exp)
               PROVE  FALSE
    BY DEF TraceFoundUnlessOverrun
  <2>1. rd[r].exp = rd[r].msg /\ rd[r].msg \in Owed(rd[r])
    BY DEF LossInv, CallInv, Shape, Owed
  <2>2. InOut(rd[r], rd[r].msg)
    BY <2>1 DEF LossInv, CallInv, Covered
  <2> QED
    BY <2>2 DEF InOut
<1> QED
  BY <1>1, LossInductive, PTL

-----------------------------------------------------------------------------
(* The refinement.                                                             *)

\* A whole event is the frame written under its number.
LEMMA WholeIsFrame ==
  ASSUME NEW ev \in EventType, Whole(ev)
  PROVE  ev = Log!Frame(ev.seq)
<1>1. ev.data = [w \in Words |-> ev.seq]
  BY DEF EventType, Whole
<1>2. ev = [seq |-> ev.seq, data |-> ev.data]
  BY DEF EventType
<1> QED
  BY <1>1, <1>2 DEF Log!Frame

\* A step of anything but a returning reader appends a frame or changes nothing.
LEMMA OthersAppend ==
  ASSUME IInv, [Next]_vars, \A r \in Readers : ~Return(r)
  PROVE  log' = log /\ Committed' \in {Committed, Committed + 1}
<1>1. nextSeq \in Nat
  BY DEF IInv, TypeOK
<1>2. CASE WriterStep
  <2>1. log' = log
    BY <1>2 DEF WriterStep, InvalidateBegin, InvalidateEnd, CopyWord, PackBegin,
                PackStamp, PackFlags, Commit, StoreHint, Advance, readerVars
  <2>2. CASE Commit
    BY <1>1, <2>1, <2>2 DEF Commit, WriterAt, Committed, seq
  <2>3. CASE Advance
    BY <1>1, <2>1, <2>3 DEF Advance, WriterAt, Committed, seq
  <2>4. CASE StoreHint
    BY <1>1, <2>1, <2>4 DEF StoreHint, WriterAt, Committed, seq
  <2>5. CASE ~(Commit \/ Advance \/ StoreHint)
    BY <1>1, <1>2, <2>1, <2>5 DEF WriterStep, InvalidateBegin, InvalidateEnd, CopyWord,
                PackBegin, PackStamp, PackFlags, WriterAt, Committed, seq
  <2> QED
    BY <2>2, <2>3, <2>4, <2>5
<1>3. ASSUME NEW r \in Readers, NEW new, ReaderMoves(r, new)
      PROVE  log' = log /\ Committed' = Committed
  BY <1>3 DEF ReaderMoves, writerVars, Committed, seq
<1>4. ASSUME NEW r \in Readers, NEW me, NextEntry(r, me)
      PROVE  log' = log /\ Committed' = Committed
  BY <1>3, <1>4 DEF NextEntry
<1>5. ASSUME NEW r \in Readers, ReaderStep(r)
      PROVE  log' = log /\ Committed' = Committed
  <2>1. CASE LoadHint(r)
    BY <1>3, <2>1 DEF LoadHint, Walk
  <2>2. CASE ScanBegin(r) \/ StableBegin1(r) \/ StableBegin2(r)
    BY <1>3, <2>2 DEF ScanBegin, StableBegin1, StableBegin2
  <2>3. CASE ScanEnd(r)
    BY <1>3, <1>4, <2>3 DEF ScanEnd
  <2>4. CASE StableEnd1(r)
    BY <1>3, <1>4, <2>4 DEF StableEnd1, Reject
  <2>5. CASE StableEnd2(r)
    BY <1>3, <1>4, <2>5 DEF StableEnd2, Reject, Accept
  <2>6. CASE \E w \in Words : StableLoad(r, w)
    BY <1>3, <2>6 DEF StableLoad
  <2> QED
    BY <1>5, <2>1, <2>2, <2>3, <2>4, <2>5, <2>6 DEF ReaderStep
<1>6. ASSUME NEW r \in Readers, NEW n \in notes, TakeNote(r, n)
      PROVE  log' = log /\ Committed' = Committed
  BY <1>3, <1>6 DEF TakeNote, Walk
<1>7. CASE (\E n \in 1 .. SlotCount : Publish(n)) \/ WriterKilled \/ UNCHANGED vars
  BY <1>1, <1>7 DEF Publish, WriterKilled, vars, readerVars, WriterAt, Committed, seq
<1> QED
  BY <1>2, <1>5, <1>6, <1>7 DEF Next

\* A call that returns delivers new frames, in order, or nothing.
LEMMA ReturnDelivers ==
  ASSUME IInv, LossInv, NEW r \in Readers, Return(r)
  PROVE  Log!Deliver(r) \/ UNCHANGED <<Committed, log>>
<1> DEFINE me == rd[r]
           had == log[r]
           has == log'[r]
<1>1. /\ me \in ReaderType /\ CallInv(me) /\ LogInv(r) /\ OutWhole(me)
      /\ log \in [Readers -> Seq(EventType)]
  BY DEF IInv, TypeOK, LossInv, ReaderOK
<1>2. PICK n \in 0 .. Len(me.out) :
         log' = [log EXCEPT ![r] = log[r] \o SubSeq(me.out, Capped(r, n) + 1, n)]
  BY DEF Return
<1> DEFINE m == Capped(r, n)
<1>3. Committed' = Committed
  BY DEF Return, writerVars, Committed, seq
<1>4. /\ me.last \in Nat /\ me.out \in Seq(EventType) /\ Len(me.out) \in Nat
      /\ \A k \in 1 .. Len(me.out) : me.out[k].seq \in Nat /\ me.out[k] \in EventType
      /\ had \in Seq(EventType) /\ Len(had) \in Nat /\ n \in 0 .. Len(me.out)
      /\ \A k \in 1 .. Len(had) : had[k] \in EventType
      /\ has = had \o SubSeq(me.out, m + 1, n)
      /\ \A q \in Readers \ {r} : log'[q] = log[q]
  <2>1. me.last \in Nat /\ me.out \in Seq(EventType)
    BY <1>1 DEF ReaderType
  <2>2. Len(me.out) \in Nat /\ \A k \in 1 .. Len(me.out) : me.out[k] \in EventType
    BY <2>1, LenProperties, ElementOfSeq
  <2>3. \A k \in 1 .. Len(me.out) : me.out[k].seq \in Nat
    BY <2>2 DEF EventType
  <2>4. had \in Seq(EventType)
    BY <1>1
  <2>5. Len(had) \in Nat /\ \A k \in 1 .. Len(had) : had[k] \in EventType
    BY <2>4, LenProperties, ElementOfSeq
  <2>6. has = had \o SubSeq(me.out, m + 1, n)
    BY <1>1, <1>2
  <2>7. \A q \in Readers \ {r} : log'[q] = log[q]
    BY <1>1, <1>2
  <2> QED
    BY <1>2, <2>1, <2>2, <2>3, <2>4, <2>5, <2>6, <2>7
<1>4a. m \in 0 .. n /\ (n # 0 => m < n)
  BY <1>4, KindAssumption DEF Capped
<1>5. Extends(has, had, me.out, m, n)
  BY <1>4, <1>4a, Handover
<1>6. CASE n = 0
  <2>1. SubSeq(me.out, m + 1, n) = <<>>
    BY <1>4, <1>4a, <1>6
  <2>2. has = had
    BY <1>4, <2>1, ConcatEmptySeq
  <2> QED
    BY <1>1, <1>2, <1>3, <1>4, <2>2
<1>7. CASE n # 0
  <2>0. /\ \A k \in 1 .. Len(had) : had[k].seq \in Nat /\ had[k].seq <= me.last
        /\ Collected(me)
    BY <1>1, <1>4 DEF LogInv, CallInv, EventType
  <2> HIDE DEF had, has, m
  <2>1. Len(has) > Len(had) /\ \A k \in 1 .. Len(had) : has[k] = had[k]
    BY <1>4, <1>4a, <1>5, <1>7 DEF Extends
  <2>2. ASSUME NEW k \in Len(had) + 1 .. Len(has)
        PROVE  /\ \E s \in 1 .. Committed : has[k] = Log!Frame(s)
               /\ k > 1 => has[k - 1].seq < has[k].seq
    <3> DEFINE j == k - Len(had) + m
    <3>1. j \in 1 .. Len(me.out) /\ has[k] = me.out[j] /\ j <= n
      <4>1. k \in 1 .. Len(has) /\ ~(k \in 1 .. Len(had)) /\ m \in Nat /\ n <= Len(me.out)
        BY <1>4, <1>4a, <2>2
      <4>2. j \in m + 1 .. n /\ has[k] = me.out[j]
        BY <1>5, <4>1 DEF Extends
      <4> HIDE DEF j
      <4> QED
        BY <1>4, <4>1, <4>2
    <3>2. /\ me.out[j].seq > me.last /\ me.out[j].seq <= Committed
          /\ me.out[j].seq \in Nat /\ me.out[j] \in EventType
      BY <1>4, <2>0, <3>1 DEF Collected
    <3>3. has[k] = Log!Frame(me.out[j].seq)
      <4> HIDE DEF j
      <4>1. Whole(me.out[j])
        BY <1>1, <3>1 DEF OutWhole
      <4> QED
        BY <3>1, <3>2, <4>1, WholeIsFrame
    <3>4. Committed \in Int
      BY DEF IInv, TypeOK, Committed, seq
    <3>5. me.out[j].seq \in 1 .. Committed
      BY <1>4, <3>2, <3>4, SMTT(30)
    <3>6. ASSUME k = Len(had) + 1, k > 1 PROVE has[k - 1].seq < has[k].seq
      <4>1. Len(had) \in 1 .. Len(had) /\ k - 1 = Len(had)
        BY <1>4, <3>6
      <4>2. has[k - 1] = had[Len(had)] /\ had[Len(had)].seq <= me.last
            /\ had[Len(had)].seq \in Nat
        BY <2>0, <2>1, <4>1
      <4>3. has[k - 1].seq <= me.last
        BY <4>2
      <4>4. me.last < has[k].seq /\ has[k].seq \in Nat
        BY <3>1, <3>2
      <4>5. has[k - 1].seq \in Nat
        BY <4>2
      <4>6. me.last \in Nat
        BY <1>4
      <4> DEFINE before == has[k - 1].seq
                 after == has[k].seq
      <4>7. before <= me.last /\ me.last < after /\ before \in Nat /\ after \in Nat
        BY <4>3, <4>4, <4>5
      <4> HIDE DEF before, after
      <4>8. before < after
        BY <4>6, <4>7
      <4> QED
        BY <4>8 DEF before, after
    <3>7. ASSUME k > Len(had) + 1 PROVE has[k - 1].seq < has[k].seq
      <4>1. /\ j - 1 \in m + 1 .. n /\ j - 1 \in 1 .. j - 1
            /\ k - 1 = Len(had) + ((j - 1) - m)
        BY <1>4, <1>4a, <3>1, <3>7
      <4>2. has[k - 1] = me.out[j - 1]
        BY <1>5, <4>1 DEF Extends
      <4>3. me.out[j - 1].seq < me.out[j].seq
        BY <2>0, <3>1, <4>1 DEF Collected
      <4> QED
        BY <3>1, <4>2, <4>3
    <3>8. k > 1 => has[k - 1].seq < has[k].seq
      <4>1. k = Len(had) + 1 \/ k > Len(had) + 1
        BY <1>4, <2>2
      <4> QED
        BY <3>6, <3>7, <4>1
    <3> QED
      BY <3>3, <3>5, <3>8
  <2> QED
    BY <1>3, <1>4, <2>1, <2>2 DEF Log!Deliver, had, has
<1> QED
  BY <1>4, <1>6, <1>7

\* The ring implements the lossy ordered log of StreamLog: a commit appends a frame,
\* a call that returns delivers whole frames, each newer than all its consumer has,
\* and no other instruction of writer or reader is visible to a consumer.
THEOREM RingImplementsLog == Spec => ImplementsLog
<1>1. Init => Log!Init
  BY DEF Init, Log!Init, Committed
<1>2. IInv /\ LossInv /\ [Next]_vars => [Log!Next]_<<Committed, log>>
  <2> SUFFICES ASSUME IInv, LossInv, [Next]_vars
               PROVE  Log!Next \/ UNCHANGED <<Committed, log>>
    OBVIOUS
  <2>1. CASE \E r \in Readers : Return(r)
    BY <2>1, ReturnDelivers DEF Log!Next
  <2>2. CASE \A r \in Readers : ~Return(r)
    BY <2>2, OthersAppend DEF Log!Next, Log!AppendFrame
  <2> QED
    BY <2>1, <2>2
<1> QED
  BY <1>1, <1>2, Inductive, LossInductive, PTL DEF Spec, ImplementsLog, Log!Spec
=============================================================================
