----------------------------- MODULE StreamLog -----------------------------
(* What a stream promises its consumers, with no ring, slot or marker in it:   *)
(* the producer appends frames, and a consumer receives some of them.  Frames  *)
(* may be lost; a frame that arrives is the one that was written, and frames   *)
(* arrive in the order they were written and at most once.                     *)
EXTENDS Integers, Sequences

CONSTANTS Readers, Words

VARIABLES written,  \* the number of frames appended
          log       \* log[r]: the frames consumer r has received

\* The frame of write s; its words hold s (see ShmRing).
Frame(s) == [seq |-> s, data |-> [w \in Words |-> s]]

Init == written = 0 /\ log = [r \in Readers |-> <<>>]

AppendFrame == written' = written + 1 /\ UNCHANGED log

\* Consumer r receives one or more frames newer than all it has.
Deliver(r) ==
    LET old == log[r]
        new == log'[r]
    IN  /\ Len(new) > Len(old)
        /\ \A k \in 1 .. Len(old) : new[k] = old[k]
        /\ \A k \in Len(old) + 1 .. Len(new) :
             /\ \E s \in 1 .. written : new[k] = Frame(s)
             /\ k > 1 => new[k - 1].seq < new[k].seq
        /\ \A q \in Readers \ {r} : log'[q] = log[q]
        /\ UNCHANGED written

Next == AppendFrame \/ \E r \in Readers : Deliver(r)

Spec == Init /\ [][Next]_<<written, log>>
=============================================================================
