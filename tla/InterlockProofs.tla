--------------------------- MODULE InterlockProofs ---------------------------
(***************************************************************************)
(* Machine-checked proofs about the command path: the device router with   *)
(* its workers (DeviceRouter) and the interlocks (Interlock), for any      *)
(* finite sets of requests and interceptors, any keys, patterns, targets,  *)
(* queue and inflight limits, and any number of faults and restarts.       *)
(***************************************************************************)
EXTENDS Interlock, TLAPS, FiniteSetTheorems, SequenceTheorems, WellFoundedInduction

(* What the code gives the constants: clients send finitely many requests  *)
(* to finitely many processes, and "no interceptor" is not one.            *)
Configured == IsFiniteSet(Requests) /\ IsFiniteSet(Interceptors) /\ None \notin Interceptors

-----------------------------------------------------------------------------
(* Sequences.                                                              *)

(* The order of the naturals is well-founded.                              *)
Less == {p \in Nat \X Nat : p[1] < p[2]}

(* It leaves no set of naturals without a least element.                   *)
LEMMA LessWellFounded == IsWellFoundedOn(Less, Nat)
<1>1. Less = OpToRel(<, Nat)
  BY Zenon DEF OpToRel, Less
<1> QED
  BY <1>1, NatLessThanWellFounded

(* A set of naturals has a least element: the form of induction used here. *)
LEMMA LeastNatural ==
  ASSUME NEW T \in SUBSET Nat, T # {}
  PROVE  \E x \in T : \A y \in T : x <= y
<1>1. PICK x \in T : \A y \in T : ~ (<<y, x>> \in Less)
  BY LessWellFounded, WFMin
<1>2. ASSUME NEW y \in T PROVE x <= y
  <2>1. x \in Nat /\ y \in Nat /\ <<y, x>> \notin Less
    BY <1>1
  <2> QED
    BY <2>1 DEF Less
<1> QED
  BY <1>2

(* An increasing enumeration of a set of positions.                        *)
Increasing(f, I) == /\ f \in [1 .. Cardinality(I) -> I]
                    /\ \A m, n \in 1 .. Cardinality(I) : m < n => f[m] < f[n]

(* Every set of positions has one: otherwise take the least bound of one   *)
(* that has none, and take its last position away.                         *)
LEMMA Enumerates ==
  ASSUME NEW b \in Nat, NEW I \in SUBSET (1 .. b)
  PROVE  IsFiniteSet(I) /\ Cardinality(I) \in Nat /\ \E f : Increasing(f, I)
<1> DEFINE Bad == {n \in Nat : \E J \in SUBSET (1 .. n) : ~ \E f : Increasing(f, J)}
<1>1. ASSUME NEW n \in Nat, NEW J \in SUBSET (1 .. n)
      PROVE  IsFiniteSet(J) /\ Cardinality(J) \in Nat
  <2>1. IsFiniteSet(1 .. n)
    BY FS_Interval
  <2>2. IsFiniteSet(J)
    BY <2>1, FS_Subset
  <2> QED
    BY <2>2, FS_CardinalityType
<1>2. Bad = {}
  <2> SUFFICES ASSUME Bad # {} PROVE FALSE
    OBVIOUS
  <2>1. PICK n \in Bad : \A y \in Bad : n <= y
    <3>1. Bad \in SUBSET Nat
      OBVIOUS
    <3> HIDE DEF Bad
    <3> QED
      BY <3>1, LeastNatural
  <2>2. n \in Nat
    BY <2>1
  <2>3. PICK J \in SUBSET (1 .. n) : ~ \E f : Increasing(f, J)
    BY <2>1
  <2>4. IsFiniteSet(J) /\ Cardinality(J) \in Nat
    BY <1>1, <2>2
  <2>5. n # 0
    <3> SUFFICES ASSUME n = 0 PROVE FALSE
      OBVIOUS
    <3>1. J = {}
      OBVIOUS
    <3>2. Cardinality(J) = 0
      BY <3>1, FS_EmptySet
    <3>3. Increasing([k \in 1 .. Cardinality(J) |-> k], J)
      BY <3>2 DEF Increasing
    <3> QED
      BY <2>3, <3>3
  <2>6. n - 1 \in Nat /\ n - 1 \notin Bad
    BY <2>1, <2>2, <2>5
  <2>7. \A K \in SUBSET (1 .. n - 1) : \E f : Increasing(f, K)
    BY <2>6
  <2>8. n \in J
    <3> SUFFICES ASSUME n \notin J PROVE FALSE
      OBVIOUS
    <3>1. J \in SUBSET (1 .. n - 1)
      BY <2>2
    <3> QED
      BY <2>3, <2>7, <3>1
  <2>9. J \ {n} \in SUBSET (1 .. n - 1)
    BY <2>2
  <2>10. Cardinality(J \ {n}) = Cardinality(J) - 1
    BY <2>4, <2>8, FS_RemoveElement
  <2>11. PICK f : Increasing(f, J \ {n})
    BY <2>7, <2>9
  <2> DEFINE g == [k \in 1 .. Cardinality(J) |-> IF k = Cardinality(J) THEN n ELSE f[k]]
  <2>12. \A k \in 1 .. Cardinality(J) - 1 : f[k] \in J \ {n} /\ f[k] < n
    <3>1. f \in [1 .. Cardinality(J) - 1 -> J \ {n}]
      BY <2>10, <2>11 DEF Increasing
    <3>2. \A k \in J \ {n} : k \in Nat /\ k < n
      BY <2>2, <2>9
    <3> QED
      BY <3>1, <3>2
  <2>13. g \in [1 .. Cardinality(J) -> J]
    BY <2>4, <2>8, <2>12
  <2>14. \A k, l \in 1 .. Cardinality(J) : k < l => g[k] < g[l]
    <3>1. \A k, l \in 1 .. Cardinality(J) - 1 : k < l => f[k] < f[l]
      BY <2>10, <2>11 DEF Increasing
    <3> QED
      BY <2>4, <2>12, <3>1
  <2>15. Increasing(g, J)
    <3> HIDE DEF g
    <3> QED
      BY <2>13, <2>14 DEF Increasing
  <2> QED
    BY <2>3, <2>15
<1> QED
  BY <1>1, <1>2

(* What Subsequence keeps: each of the positions, once.                    *)
LEMMA SubsequenceKeeps ==
  ASSUME NEW S, NEW s \in Seq(S), NEW I \in SUBSET DOMAIN s
  PROVE  \E f \in Bijection(1 .. Cardinality(I), I) :
            Subsequence(s, I) = [n \in 1 .. Cardinality(I) |-> s[f[n]]]
<1>1. Len(s) \in Nat /\ DOMAIN s = 1 .. Len(s)
  OBVIOUS
<1>2. IsFiniteSet(I) /\ Cardinality(I) \in Nat /\ \E f : Increasing(f, I)
  BY <1>1, Enumerates
<1> DEFINE f == CHOOSE f \in [1 .. Cardinality(I) -> I] :
                    \A m, n \in 1 .. Cardinality(I) : m < n => f[m] < f[n]
<1>3. Increasing(f, I)
  BY <1>2 DEF Increasing
<1>4. Subsequence(s, I) = [n \in 1 .. Cardinality(I) |-> s[f[n]]]
  BY DEF Subsequence
<1> HIDE DEF f
<1>5. f \in Injection(1 .. Cardinality(I), I)
  <2>1. I \subseteq Nat
    BY <1>1
  <2>2. \A m, n \in 1 .. Cardinality(I) : f[m] = f[n] => m = n
    BY <1>2, <1>3, <2>1 DEF Increasing
  <2> QED
    BY <1>3, <2>2 DEF Increasing, Injection, IsInjective
<1>6. Cardinality(1 .. Cardinality(I)) = Cardinality(I)
  BY <1>2, FS_Interval
<1>7. f \in Surjection(1 .. Cardinality(I), I)
  BY <1>2, <1>5, <1>6, FS_Injection
<1> QED
  BY <1>4, <1>5, <1>7 DEF Bijection

(* The same, element by element.                                           *)
LEMMA SubsequenceElements ==
  ASSUME NEW S, NEW s \in Seq(S), NEW I \in SUBSET DOMAIN s
  PROVE  /\ Subsequence(s, I) \in Seq(S)
         /\ \A n \in DOMAIN Subsequence(s, I) : \E k \in I : Subsequence(s, I)[n] = s[k]
         /\ \A k \in I : \E n \in DOMAIN Subsequence(s, I) : Subsequence(s, I)[n] = s[k]
<1>1. PICK f \in Bijection(1 .. Cardinality(I), I) :
            Subsequence(s, I) = [n \in 1 .. Cardinality(I) |-> s[f[n]]]
  BY SubsequenceKeeps
<1>2. f \in [1 .. Cardinality(I) -> I] /\ \A k \in I : \E n \in 1 .. Cardinality(I) : f[n] = k
  BY <1>1 DEF Bijection, Injection, Surjection
<1>3. Len(s) \in Nat /\ DOMAIN s = 1 .. Len(s) /\ \A k \in I : s[k] \in S
  OBVIOUS
<1>4. Cardinality(I) \in Nat
  BY <1>3, Enumerates
<1>5. Subsequence(s, I) \in [1 .. Cardinality(I) -> S]
  BY <1>1, <1>2, <1>3
<1>6. Subsequence(s, I) \in Seq(S)
  BY <1>4, <1>5
<1>7. DOMAIN Subsequence(s, I) = 1 .. Cardinality(I)
  BY <1>1
<1>8. \A n \in 1 .. Cardinality(I) : f[n] \in I /\ Subsequence(s, I)[n] = s[f[n]]
  BY <1>1, <1>2
<1>9. \A k \in I : \E n \in 1 .. Cardinality(I) : Subsequence(s, I)[n] = s[k]
  BY <1>2, <1>8
<1>10. \A n \in 1 .. Cardinality(I) : \E k \in I : Subsequence(s, I)[n] = s[k]
  BY <1>8
<1> QED
  BY <1>6, <1>7, <1>9, <1>10

(* Positions with different elements give a sequence without repetition.   *)
LEMMA SubsequenceDistinct ==
  ASSUME NEW S, NEW s \in Seq(S), NEW I \in SUBSET DOMAIN s,
         \A k, l \in I : s[k] = s[l] => k = l
  PROVE  \A m, n \in DOMAIN Subsequence(s, I) : Subsequence(s, I)[m] = Subsequence(s, I)[n] => m = n
<1>1. PICK f \in Bijection(1 .. Cardinality(I), I) :
            Subsequence(s, I) = [n \in 1 .. Cardinality(I) |-> s[f[n]]]
  BY SubsequenceKeeps
<1>2. f \in [1 .. Cardinality(I) -> I] /\ \A m, n \in 1 .. Cardinality(I) : f[m] = f[n] => m = n
  BY <1>1 DEF Bijection, Injection, IsInjective
<1> QED
  BY <1>1, <1>2

-----------------------------------------------------------------------------
(* The lanes.                                                              *)

Statuses == {"unused", "new", "held", "ok", "failed", "lost"}
Codes == {"ok", "failed"}
Hands(T, W) == [task : T, at : Nat, params : Nat, wait : W]

(* The tasks of the workers come from T, what they wait for from W.        *)
LaneTyped(T, W) ==
    /\ \A t \in T : t.req \in Requests
    /\ None \in W
    /\ queue \in [Lanes -> Seq(T)]
    /\ hand \in [Lanes -> {Idle} \cup Hands(T, W)]

WorkersTyped ==
    /\ \E T, W : LaneTyped(T, W)
    /\ replies \in Seq([req : Requests, code : Codes])
    /\ status \in [Requests -> Statuses]
    /\ inflight \in Int /\ leaked \in Nat

(* No request is twice in a lane.                                          *)
LaneDistinct(l) ==
    /\ \A m, n \in DOMAIN queue[l] : queue[l][m].req = queue[l][n].req => m = n
    /\ hand[l] # Idle => \A n \in DOMAIN queue[l] : queue[l][n].req # hand[l].task.req

(* Every request that a worker has or a reply waits for is in one place,   *)
(* once, and counts as held.                                               *)
OnePlace ==
    /\ \A l \in Lanes : \A r \in ReqsOf(l) : status[r] = "held"
    /\ \A n \in DOMAIN replies : status[replies[n].req] = "held"
    /\ \A m, n \in DOMAIN replies : replies[m].req = replies[n].req => m = n
    /\ \A l \in Lanes : \A n \in DOMAIN replies : replies[n].req \notin ReqsOf(l)
    /\ \A k, l \in Lanes : k # l => \A r \in ReqsOf(k) : r \notin ReqsOf(l)
    /\ \A l \in Lanes : LaneDistinct(l)

LaneInv == WorkersTyped /\ OnePlace /\ InflightAccounted

(* The requests of a lane, one by one.                                     *)
LEMMA LaneMembers ==
  ASSUME NEW l, NEW r
  PROVE  r \in ReqsOf(l) <=> \/ \E n \in DOMAIN queue[l] : queue[l][n].req = r
                             \/ hand[l] # Idle /\ hand[l].task.req = r
BY DEF ReqsOf, Held

(* They are requests.                                                      *)
LEMMA LaneRequests ==
  ASSUME NEW l \in Lanes, NEW T, NEW W, LaneTyped(T, W)
  PROVE  ReqsOf(l) \subseteq Requests
<1>1. \A n \in DOMAIN queue[l] : queue[l][n] \in T
  BY DEF LaneTyped
<1>2. hand[l] # Idle => hand[l].task \in T
  BY DEF LaneTyped, Hands
<1> QED
  BY <1>1, <1>2 DEF LaneTyped, ReqsOf, Held

(* So are those of the replies.                                            *)
LEMMA ReplyRequests ==
  ASSUME LaneInv
  PROVE  /\ Len(replies) \in Nat /\ DOMAIN replies = 1 .. Len(replies)
         /\ \A n \in DOMAIN replies : replies[n].req \in Requests /\ replies[n].code \in Codes
<1>1. replies \in Seq([req : Requests, code : Codes])
  BY DEF LaneInv, WorkersTyped
<1>2. Len(replies) \in Nat /\ DOMAIN replies = 1 .. Len(replies)
  BY <1>1, LenProperties
<1>3. ASSUME NEW n \in DOMAIN replies
      PROVE  replies[n].req \in Requests /\ replies[n].code \in Codes
  <2>1. replies[n] \in [req : Requests, code : Codes]
    BY <1>1, <1>2, <1>3, ElementOfSeq
  <2> QED
    BY <2>1
<1> QED
  BY <1>2, <1>3

(* A lane that a step leaves alone.                                        *)
LEMMA LaneKept ==
  ASSUME NEW l, queue'[l] = queue[l], hand'[l] = hand[l]
  PROVE  ReqsOf(l)' = ReqsOf(l) /\ (LaneDistinct(l)' <=> LaneDistinct(l))
BY DEF ReqsOf, Held, LaneDistinct

(* A step that touches neither the workers nor the requests.               *)
LEMMA SameKeeps == ASSUME LaneInv, UNCHANGED <<workers, status>> PROVE LaneInv'
<1>1. \A l \in Lanes : ReqsOf(l)' = ReqsOf(l) /\ (LaneDistinct(l)' <=> LaneDistinct(l))
  BY LaneKept DEF workers
<1>2. OnePlace'
  BY <1>1 DEF LaneInv, OnePlace, workers
<1>3. WorkersTyped'
  BY DEF LaneInv, WorkersTyped, LaneTyped, workers
<1> QED
  BY <1>2, <1>3 DEF LaneInv, InflightAccounted, HeldRequests, workers

(* A refused request was in no lane.                                       *)
LEMMA RejectKeeps ==
  ASSUME LaneInv, NEW r \in Requests, status[r] = "new", Reject(r), UNCHANGED workers
  PROVE  LaneInv'
<1>1. status' = [status EXCEPT ![r] = "failed"] /\ status \in [Requests -> Statuses]
  BY DEF Reject, LaneInv, WorkersTyped
<1>2. \A q \in Requests : status'[q] = "held" <=> status[q] = "held"
  BY <1>1
<1>3. HeldRequests' = HeldRequests
  BY <1>2 DEF HeldRequests
<1>4. WorkersTyped'
  BY <1>1 DEF LaneInv, WorkersTyped, LaneTyped, workers, Statuses
<1>5. PICK T, W : LaneTyped(T, W)
  BY DEF LaneInv, WorkersTyped
<1>6. \A l \in Lanes : ReqsOf(l)' = ReqsOf(l) /\ (LaneDistinct(l)' <=> LaneDistinct(l))
  BY LaneKept DEF workers
<1>7. \A l \in Lanes : ReqsOf(l) \subseteq Requests
  BY <1>5, LaneRequests
<1>8. \A n \in DOMAIN replies : replies[n].req \in Requests
  BY ReplyRequests
<1>9. OnePlace'
  BY <1>2, <1>6, <1>7, <1>8 DEF LaneInv, OnePlace, workers
<1> QED
  BY <1>3, <1>4, <1>9 DEF LaneInv, InflightAccounted, workers

(* A worker finishes its task: the request moves to the replies.           *)
LEMMA FinishKeeps ==
  ASSUME LaneInv, NEW l \in Lanes, hand[l] # Idle, NEW code \in Codes, Finish(l, code), status' = status
  PROVE  LaneInv'
<1>1. PICK T, W : LaneTyped(T, W)
  BY DEF LaneInv, WorkersTyped
<1> DEFINE r == hand[l].task.req
<1>2. /\ replies' = Append(replies, [req |-> r, code |-> code])
      /\ inflight' = inflight /\ leaked' = leaked
  BY DEF Finish
<1>3. /\ queue[l] \in Seq(T) /\ hand[l] \in Hands(T, W) /\ r \in Requests /\ r \in ReqsOf(l)
      /\ \A n \in DOMAIN queue[l] : queue[l][n] \in T
  BY <1>1, LaneMembers DEF LaneTyped, Hands
<1>4. LaneDistinct(l)
  BY DEF LaneInv, OnePlace
<1>5. \A k \in Lanes : k # l => queue'[k] = queue[k] /\ hand'[k] = hand[k]
  BY <1>1 DEF Finish, LaneTyped
<1>6. LaneTyped(T, W)' /\ LaneDistinct(l)' /\ \A q \in ReqsOf(l)' : q \in ReqsOf(l) /\ q # r
  <2>1. CASE queue[l] = <<>>
    <3>1. hand' = [hand EXCEPT ![l] = Idle] /\ queue' = queue
      BY <2>1 DEF Finish
    <3>2. LaneTyped(T, W)' /\ hand'[l] = Idle
      BY <1>1, <3>1 DEF LaneTyped
    <3>3. \A n \in DOMAIN queue'[l] : FALSE
      BY <2>1, <3>1
    <3> QED
      BY <3>2, <3>3 DEF LaneDistinct, ReqsOf
  <2>2. CASE queue[l] # <<>>
    <3>1. /\ hand' = [hand EXCEPT ![l] = Taken(Head(queue[l]))]
          /\ queue' = [queue EXCEPT ![l] = Tail(queue[l])]
      BY <2>2 DEF Finish
    <3>2. /\ queue'[l] = Tail(queue[l]) /\ hand'[l] = Taken(Head(queue[l]))
          /\ Head(queue[l]) = queue[l][1] /\ Head(queue[l]) \in T /\ Tail(queue[l]) \in Seq(T)
          /\ 1 \in DOMAIN queue[l]
      BY <1>1, <1>3, <2>2, <3>1 DEF LaneTyped
    <3>3. Taken(Head(queue[l])) \in Hands(T, W) /\ Taken(Head(queue[l])).task = queue[l][1]
      BY <1>1, <3>2 DEF Taken, Hands, LaneTyped
    <3>4. LaneTyped(T, W)'
      BY <1>1, <3>1, <3>2, <3>3 DEF LaneTyped
    <3>5. \A n \in DOMAIN queue'[l] : /\ n + 1 \in DOMAIN queue[l] /\ n \in Nat /\ n # 0
                                      /\ queue'[l][n] = queue[l][n + 1]
      BY <1>3, <2>2, <3>2
    <3>6. LaneDistinct(l)'
      <4>1. \A m, n \in DOMAIN queue'[l] : queue'[l][m].req = queue'[l][n].req => m = n
        BY <1>4, <3>5 DEF LaneDistinct
      <4>2. \A n \in DOMAIN queue'[l] : queue'[l][n].req # hand'[l].task.req
        <5>1. \A n \in DOMAIN queue'[l] : n + 1 # 1
          BY <3>5
        <5> QED
          BY <1>4, <3>2, <3>3, <3>5, <5>1 DEF LaneDistinct
      <4> QED
        BY <4>1, <4>2 DEF LaneDistinct
    <3>7. \A n \in DOMAIN queue[l] : queue[l][n].req \in ReqsOf(l) /\ queue[l][n].req # r
      BY <1>4, LaneMembers DEF LaneDistinct
    <3>8. \A q \in ReqsOf(l)' : q \in ReqsOf(l) /\ q # r
      <4>1. \A q : q \in ReqsOf(l)' => \/ \E n \in DOMAIN queue'[l] : queue'[l][n].req = q
                                       \/ hand'[l].task.req = q
        BY DEF ReqsOf, Held
      <4> QED
        BY <3>2, <3>3, <3>5, <3>7, <4>1
    <3> QED
      BY <3>4, <3>6, <3>8
  <2> QED
    BY <2>1, <2>2
<1>7. \A k \in Lanes : k # l => ReqsOf(k)' = ReqsOf(k) /\ (LaneDistinct(k)' <=> LaneDistinct(k))
  BY <1>5, LaneKept
<1> HIDE DEF r
<1>8. replies \in Seq([req : Requests, code : Codes])
  BY DEF LaneInv, WorkersTyped
<1>9. /\ replies' \in Seq([req : Requests, code : Codes])
      /\ \A n \in DOMAIN replies' : \/ n \in DOMAIN replies /\ replies'[n] = replies[n]
                                    \/ n = Len(replies) + 1 /\ replies'[n].req = r
  BY <1>2, <1>3, <1>8
<1>10. WorkersTyped'
  BY <1>2, <1>6, <1>9 DEF LaneInv, WorkersTyped
<1>11. OnePlace'
  <2>1. \A k \in Lanes : \A q \in ReqsOf(k)' : q \in ReqsOf(k) /\ q # r
    BY <1>3, <1>6, <1>7 DEF LaneInv, OnePlace
  <2>2. \A n \in DOMAIN replies : replies[n].req # r
    BY <1>3 DEF LaneInv, OnePlace
  <2>3. \A k \in Lanes : \A q \in ReqsOf(k)' : status'[q] = "held"
    BY <2>1 DEF LaneInv, OnePlace
  <2>4. \A n \in DOMAIN replies' : status'[replies'[n].req] = "held"
    BY <1>3, <1>9 DEF LaneInv, OnePlace
  <2>5. \A m, n \in DOMAIN replies' : replies'[m].req = replies'[n].req => m = n
    BY <1>9, <2>2 DEF LaneInv, OnePlace
  <2>6. \A k \in Lanes : \A n \in DOMAIN replies' : replies'[n].req \notin ReqsOf(k)'
    BY <1>9, <2>1 DEF LaneInv, OnePlace
  <2>7. \A j, k \in Lanes : j # k => \A q \in ReqsOf(j)' : q \notin ReqsOf(k)'
    BY <2>1 DEF LaneInv, OnePlace
  <2>8. \A k \in Lanes : LaneDistinct(k)'
    BY <1>6, <1>7 DEF LaneInv, OnePlace
  <2> QED
    BY <2>3, <2>4, <2>5, <2>6, <2>7, <2>8 DEF OnePlace
<1>12. InflightAccounted'
  BY <1>2 DEF LaneInv, InflightAccounted, HeldRequests
<1> QED
  BY <1>10, <1>11, <1>12 DEF LaneInv

(* An accepted request was new, and joins one lane.                        *)
LEMMA AcceptKeeps ==
  ASSUME Configured, LaneInv, NEW l \in Lanes, NEW r \in Requests, status[r] = "new",
         NEW task, task.req = r, Accept(r, l, task)
  PROVE  LaneInv'
<1>1. PICK T0, W : LaneTyped(T0, W)
  BY DEF LaneInv, WorkersTyped
<1> DEFINE T == T0 \cup {task}
<1>2. LaneTyped(T, W)
  <2>1. \A l1 \in Lanes : queue[l1] \in Seq(T) /\ hand[l1] \in {Idle} \cup Hands(T, W)
    BY <1>1 DEF LaneTyped, Hands
  <2> QED
    BY <1>1, <2>1 DEF LaneTyped
<1>3. task \in T
  OBVIOUS
<1> HIDE DEF T
<1>4. /\ inflight' = inflight + 1 /\ status' = [status EXCEPT ![r] = "held"]
      /\ replies' = replies /\ leaked' = leaked /\ status \in [Requests -> Statuses]
  BY DEF Accept, LaneInv, WorkersTyped
<1>5. \A k \in Lanes : k # l => queue'[k] = queue[k] /\ hand'[k] = hand[k]
  BY <1>2 DEF Accept, LaneTyped
<1>6. \A k \in Lanes : r \notin ReqsOf(k)
  BY DEF LaneInv, OnePlace
<1>7. /\ LaneDistinct(l)
      /\ \A n \in DOMAIN queue[l] : queue[l][n].req \in ReqsOf(l) /\ queue[l][n].req # r
      /\ hand[l] # Idle => hand[l].task.req \in ReqsOf(l) /\ hand[l].task.req # r
  BY <1>6, LaneMembers DEF LaneInv, OnePlace
<1>8. LaneTyped(T, W)' /\ LaneDistinct(l)' /\ \A q \in ReqsOf(l)' : q \in ReqsOf(l) \/ q = r
  <2>0. \A q : q \in ReqsOf(l)' => \/ \E n \in DOMAIN queue'[l] : queue'[l][n].req = q
                                   \/ hand'[l] # Idle /\ hand'[l].task.req = q
    BY DEF ReqsOf, Held
  <2>1. CASE hand[l] = Idle
    <3>1. hand' = [hand EXCEPT ![l] = Taken(task)] /\ queue' = queue
      BY <2>1 DEF Accept
    <3>2. Taken(task) \in Hands(T, W) /\ Taken(task).task = task
      BY <1>2, <1>3 DEF Taken, Hands, LaneTyped
    <3>3. hand'[l] = Taken(task)
      BY <1>2, <3>1 DEF LaneTyped
    <3>4. LaneTyped(T, W)'
      BY <1>2, <3>1, <3>2 DEF LaneTyped
    <3>5. LaneDistinct(l)'
      BY <1>6, <1>7, <3>1, <3>2, <3>3 DEF LaneDistinct
    <3> QED
      BY <1>7, <2>0, <3>1, <3>2, <3>3, <3>4, <3>5
  <2>2. CASE hand[l] # Idle
    <3>1. queue' = [queue EXCEPT ![l] = Append(queue[l], task)] /\ hand' = hand
      BY <2>2 DEF Accept
    <3>2. queue[l] \in Seq(T) /\ queue'[l] = Append(queue[l], task)
      BY <1>2, <3>1 DEF LaneTyped
    <3>3. /\ queue'[l] \in Seq(T)
          /\ \A n \in DOMAIN queue'[l] : \/ n \in DOMAIN queue[l] /\ queue'[l][n] = queue[l][n]
                                         \/ n = Len(queue[l]) + 1 /\ queue'[l][n] = task
      BY <1>3, <3>2
    <3>4. LaneTyped(T, W)'
      BY <1>2, <3>1, <3>2, <3>3 DEF LaneTyped
    <3>6. LaneDistinct(l)'
      <4>1. \A m, n \in DOMAIN queue'[l] : queue'[l][m].req = queue'[l][n].req => m = n
        BY <1>7, <3>3 DEF LaneDistinct
      <4>2. \A n \in DOMAIN queue'[l] : queue'[l][n].req # hand'[l].task.req
        BY <1>6, <1>7, <2>2, <3>1, <3>3 DEF LaneDistinct
      <4> QED
        BY <4>1, <4>2 DEF LaneDistinct
    <3>7. \A q \in ReqsOf(l)' : q \in ReqsOf(l) \/ q = r
      BY <1>7, <2>0, <3>1, <3>3
    <3> QED
      BY <3>4, <3>6, <3>7
  <2> QED
    BY <2>1, <2>2
<1>9. \A k \in Lanes : k # l => ReqsOf(k)' = ReqsOf(k) /\ (LaneDistinct(k)' <=> LaneDistinct(k))
  BY <1>5, LaneKept
<1>10. \A k \in Lanes : \A q \in ReqsOf(k)' : q \in ReqsOf(k) \/ (q = r /\ k = l)
  BY <1>8, <1>9
<1>11. \A k \in Lanes : ReqsOf(k) \subseteq Requests
  BY <1>2, LaneRequests
<1>12. \A q \in Requests : status'[q] = IF q = r THEN "held" ELSE status[q]
  BY <1>4
<1>13. \A n \in DOMAIN replies : replies[n].req \in Requests /\ replies[n].req # r
  BY ReplyRequests DEF LaneInv, OnePlace
<1>14. WorkersTyped'
  BY <1>4, <1>8 DEF LaneInv, WorkersTyped, Statuses
<1>15. OnePlace'
  <2>1. \A k \in Lanes : \A q \in ReqsOf(k)' : status'[q] = "held"
    BY <1>10, <1>11, <1>12 DEF LaneInv, OnePlace
  <2>2. \A n \in DOMAIN replies' : status'[replies'[n].req] = "held"
    BY <1>4, <1>12, <1>13 DEF LaneInv, OnePlace
  <2>3. \A m, n \in DOMAIN replies' : replies'[m].req = replies'[n].req => m = n
    BY <1>4 DEF LaneInv, OnePlace
  <2>4. \A k \in Lanes : \A n \in DOMAIN replies' : replies'[n].req \notin ReqsOf(k)'
    BY <1>4, <1>10, <1>13 DEF LaneInv, OnePlace
  <2>5. \A j, k \in Lanes : j # k => \A q \in ReqsOf(j)' : q \notin ReqsOf(k)'
    BY <1>6, <1>10 DEF LaneInv, OnePlace
  <2>6. \A k \in Lanes : LaneDistinct(k)'
    BY <1>8, <1>9 DEF LaneInv, OnePlace
  <2> QED
    BY <2>1, <2>2, <2>3, <2>4, <2>5, <2>6 DEF OnePlace
<1>16. InflightAccounted'
  <2>1. HeldRequests' = HeldRequests \cup {r} /\ r \notin HeldRequests
    BY <1>12 DEF HeldRequests
  <2>2. IsFiniteSet(HeldRequests)
    BY FS_Subset DEF HeldRequests, Configured
  <2>3. Cardinality(HeldRequests') = Cardinality(HeldRequests) + 1 /\ Cardinality(HeldRequests) \in Nat
    BY <2>1, <2>2, FS_AddElement, FS_CardinalityType
  <2> QED
    BY <1>4, <2>3 DEF LaneInv, WorkersTyped, InflightAccounted
<1> QED
  BY <1>14, <1>15, <1>16 DEF LaneInv

(* A request is submitted: accepted, or refused when a limit is reached.   *)
LEMMA SubmitKeeps ==
  ASSUME Configured, LaneInv, NEW l \in Lanes, NEW r \in Requests, status[r] = "new",
         NEW task, task.req = r, SubmitWithInflight(r, l, task)
  PROVE  LaneInv'
BY AcceptKeeps, RejectKeeps DEF SubmitWithInflight

(* Lane l has h in hand next, and the other lanes what they had.           *)
HandBecomes(l, h) == hand' = [k \in Lanes |-> IF k = l THEN h ELSE hand[k]]

(* A worker goes on with the task it has.                                  *)
LEMMA HandKeeps ==
  ASSUME LaneInv, NEW l \in Lanes, hand[l] # Idle, NEW w, NEW h \in Hands({hand[l].task}, {w}),
         HandBecomes(l, h), UNCHANGED <<queue, replies, status, inflight, leaked>>
  PROVE  LaneInv'
<1>1. PICK T, W0 : LaneTyped(T, W0)
  BY DEF LaneInv, WorkersTyped
<1> DEFINE W == W0 \cup {w}
<1>2. LaneTyped(T, W)
  BY <1>1 DEF LaneTyped, Hands
<1>3. w \in W
  OBVIOUS
<1> HIDE DEF W
<1>4. hand[l].task \in T
  BY <1>2 DEF LaneTyped, Hands
<1>5. h \in Hands(T, W) /\ h.task = hand[l].task /\ h # Idle
  <2>1. h \in Hands(T, W)
    BY <1>3, <1>4 DEF Hands
  <2>2. h # Idle
    BY <2>1 DEF Hands, Idle
  <2>3. h.task = hand[l].task
    BY DEF Hands
  <2> QED
    BY <2>1, <2>2, <2>3
<1>6. LaneTyped(T, W)' /\ hand'[l] = h /\ \A k \in Lanes : k # l => hand'[k] = hand[k]
  BY <1>2, <1>5 DEF LaneTyped, HandBecomes
<1>7. \A k \in Lanes : ReqsOf(k)' = ReqsOf(k) /\ (LaneDistinct(k)' <=> LaneDistinct(k))
  <2>1. \A k \in Lanes : k # l => ReqsOf(k)' = ReqsOf(k) /\ (LaneDistinct(k)' <=> LaneDistinct(k))
    BY <1>6, LaneKept
  <2>2. ReqsOf(l)' = ReqsOf(l) /\ (LaneDistinct(l)' <=> LaneDistinct(l))
    BY <1>5, <1>6 DEF ReqsOf, Held, LaneDistinct
  <2> QED
    BY <2>1, <2>2
<1>8. WorkersTyped'
  BY <1>6 DEF LaneInv, WorkersTyped
<1>9. OnePlace'
  BY <1>7 DEF LaneInv, OnePlace
<1> QED
  BY <1>8, <1>9 DEF LaneInv, InflightAccounted, HeldRequests

(* Requests that stop being held leave the count.                          *)
LEMMA HeldLess ==
  ASSUME Configured, NEW R \in SUBSET HeldRequests, HeldRequests' = HeldRequests \ R
  PROVE  /\ Cardinality(HeldRequests) \in Nat /\ Cardinality(R) \in Nat
         /\ Cardinality(HeldRequests') = Cardinality(HeldRequests) - Cardinality(R)
<1>1. IsFiniteSet(HeldRequests)
  BY FS_Subset DEF HeldRequests, Configured
<1>2. IsFiniteSet(R) /\ HeldRequests \cap R = R
  BY <1>1, FS_Subset
<1>3. Cardinality(HeldRequests \ R) = Cardinality(HeldRequests) - Cardinality(R)
  BY <1>1, <1>2, FS_Difference
<1>4. Cardinality(HeldRequests) \in Nat /\ Cardinality(R) \in Nat
  BY <1>1, <1>2, FS_CardinalityType
<1> QED
  BY <1>3, <1>4

(* The replies are sent: each gives back its own reservation.              *)
LEMMA DrainKeeps == ASSUME Configured, LaneInv, DrainReplies PROVE LaneInv'
<1> DEFINE R == {replies[n].req : n \in DOMAIN replies}
<1>1. /\ Len(replies) \in Nat /\ DOMAIN replies = 1 .. Len(replies)
      /\ \A n \in DOMAIN replies : replies[n].req \in Requests /\ replies[n].code \in Codes
  BY ReplyRequests
<1>2. /\ inflight' = inflight - Len(replies) /\ replies' = <<>>
      /\ UNCHANGED <<queue, hand, leaked>>
      /\ inflight \in Int /\ leaked \in Nat /\ status \in [Requests -> Statuses]
  BY DEF DrainReplies, LaneInv, WorkersTyped
<1>3. /\ status' \in [Requests -> Statuses]
      /\ \A r \in Requests : IF r \in R THEN status'[r] \in Codes ELSE status'[r] = status[r]
  <2>1. status' = [r \in Requests |->
                     IF \E x \in ToSet(replies) : x.req = r
                     THEN (CHOOSE x \in ToSet(replies) : x.req = r).code ELSE status[r]]
    BY DEF DrainReplies
  <2>2. \A r \in Requests : r \in R <=> \E x \in ToSet(replies) : x.req = r
    BY DEF ToSet
  <2>3. ASSUME NEW r \in R PROVE (CHOOSE x \in ToSet(replies) : x.req = r).code \in Codes
    <3>1. (CHOOSE x \in ToSet(replies) : x.req = r) \in ToSet(replies)
      BY DEF ToSet
    <3> QED
      BY <1>1, <3>1 DEF ToSet
  <2>4. ASSUME NEW r \in Requests
        PROVE  IF r \in R THEN status'[r] \in Codes ELSE status'[r] = status[r]
    BY <2>1, <2>2, <2>3
  <2>5. \A r \in Requests : status'[r] \in Statuses
    BY <1>2, <2>4 DEF Codes, Statuses
  <2>6. status' \in [Requests -> Statuses]
    <3>1. DOMAIN status' = Requests /\ status' = [r \in Requests |-> status'[r]]
      BY <2>1
    <3> QED
      BY <2>5, <3>1
  <2> QED
    BY <2>4, <2>6
<1>4. \A l \in Lanes : /\ ReqsOf(l)' = ReqsOf(l) /\ (LaneDistinct(l)' <=> LaneDistinct(l))
                       /\ ReqsOf(l) \subseteq Requests
  BY <1>2, LaneKept, LaneRequests DEF LaneInv, WorkersTyped
<1>5. WorkersTyped'
  <2>1. replies' \in Seq([req : Requests, code : Codes])
    BY <1>2
  <2>2. inflight' \in Int /\ leaked' \in Nat
    BY <1>1, <1>2
  <2>3. \E T, W : LaneTyped(T, W)'
    BY <1>2 DEF LaneInv, WorkersTyped, LaneTyped
  <2> QED
    BY <1>3, <2>1, <2>2, <2>3 DEF WorkersTyped
<1>6. OnePlace'
  <2>1. \A l \in Lanes : \A r \in ReqsOf(l) : r \notin R /\ r \in Requests /\ status[r] = "held"
    BY <1>4 DEF LaneInv, OnePlace
  <2>2. \A l \in Lanes : \A r \in ReqsOf(l)' : status'[r] = "held"
    BY <1>3, <1>4, <2>1
  <2>3. \A n \in DOMAIN replies' : FALSE
    BY <1>2
  <2> QED
    BY <1>4, <2>2, <2>3 DEF LaneInv, OnePlace
<1>7. InflightAccounted'
  <2>1. R \in SUBSET HeldRequests
    BY <1>1 DEF LaneInv, OnePlace, HeldRequests
  <2>2. HeldRequests' = HeldRequests \ R
    <3>1. \A r \in Requests : status'[r] = "held" <=> status[r] = "held" /\ r \notin R
      BY <1>3 DEF Codes
    <3> QED
      BY <3>1 DEF HeldRequests
  <2>3. Cardinality(R) = Len(replies)
    <3> DEFINE f == [n \in 1 .. Len(replies) |-> replies[n].req]
    <3>1. f \in Bijection(1 .. Len(replies), R)
      <4>1. f \in [1 .. Len(replies) -> R]
        BY <1>1
      <4>2. \A m, n \in 1 .. Len(replies) : f[m] = f[n] => m = n
        BY <1>1 DEF LaneInv, OnePlace
      <4>3. \A r \in R : \E n \in 1 .. Len(replies) : f[n] = r
        BY <1>1
      <4> QED
        BY <4>1, <4>2, <4>3 DEF Bijection, Injection, Surjection, IsInjective
    <3> HIDE DEF f, R
    <3>2. IsFiniteSet(1 .. Len(replies)) /\ Cardinality(1 .. Len(replies)) = Len(replies)
      BY <1>1, FS_Interval
    <3>3. ExistsBijection(1 .. Len(replies), R)
      BY <3>1 DEF ExistsBijection
    <3> QED
      BY <3>2, <3>3, FS_Bijection
  <2> HIDE DEF R
  <2>4. /\ Cardinality(HeldRequests) \in Nat
        /\ Cardinality(HeldRequests') = Cardinality(HeldRequests) - Cardinality(R)
    BY <2>1, <2>2, HeldLess
  <2>5. inflight = Cardinality(HeldRequests) + leaked
    BY DEF LaneInv, InflightAccounted
  <2>6. inflight' = Cardinality(HeldRequests') + leaked'
    BY <1>1, <1>2, <2>3, <2>4, <2>5
  <2> QED
    BY <2>6 DEF InflightAccounted
<1> QED
  BY <1>5, <1>6, <1>7 DEF LaneInv

(* A worker dies: its requests are lost and their reservations stay.       *)
LEMMA DiesKeeps == ASSUME Configured, LaneInv, NEW l \in Lanes, WorkerDies(l) PROVE LaneInv'
<1> DEFINE R == ReqsOf(l)
<1>1. PICK T, W : LaneTyped(T, W)
  BY DEF LaneInv, WorkersTyped
<1>2. /\ leaked' = leaked + Cardinality(R) /\ inflight' = inflight /\ replies' = replies
      /\ hand' = [hand EXCEPT ![l] = Idle] /\ queue' = [queue EXCEPT ![l] = <<>>]
      /\ status' = [r \in Requests |-> IF r \in R THEN "lost" ELSE status[r]]
      /\ inflight \in Int /\ leaked \in Nat /\ status \in [Requests -> Statuses]
  BY DEF WorkerDies, LaneInv, WorkersTyped
<1>3. \A r \in Requests : status'[r] = IF r \in R THEN "lost" ELSE status[r]
  BY <1>2
<1>4. \A k \in Lanes : k # l => queue'[k] = queue[k] /\ hand'[k] = hand[k]
  BY <1>1, <1>2 DEF LaneTyped
<1>5. queue'[l] = <<>> /\ hand'[l] = Idle
  BY <1>1, <1>2 DEF LaneTyped
<1>6. LaneTyped(T, W)'
  <2>1. <<>> \in Seq(T)
    OBVIOUS
  <2>2. queue' \in [Lanes -> Seq(T)]
    BY <1>1, <1>2, <2>1 DEF LaneTyped
  <2>3. hand' \in [Lanes -> {Idle} \cup Hands(T, W)]
    BY <1>1, <1>2 DEF LaneTyped
  <2> QED
    BY <1>1, <2>2, <2>3 DEF LaneTyped
<1>7. LaneDistinct(l)' /\ \A r \in ReqsOf(l)' : FALSE
  <2>1. \A n \in DOMAIN queue'[l] : FALSE
    BY <1>5
  <2> QED
    BY <1>5, <2>1 DEF LaneDistinct, ReqsOf
<1>8. \A k \in Lanes : k # l => ReqsOf(k)' = ReqsOf(k) /\ (LaneDistinct(k)' <=> LaneDistinct(k))
  BY <1>4, LaneKept
<1>9. \A k \in Lanes : ReqsOf(k) \subseteq Requests
  BY <1>1, LaneRequests
<1>10. R \in SUBSET HeldRequests /\ HeldRequests' = HeldRequests \ R
  BY <1>3, <1>9 DEF HeldRequests, LaneInv, OnePlace
<1>11. /\ Cardinality(HeldRequests) \in Nat /\ Cardinality(R) \in Nat
       /\ Cardinality(HeldRequests') = Cardinality(HeldRequests) - Cardinality(R)
  <2> HIDE DEF R
  <2> QED
    BY <1>10, HeldLess
<1>12. WorkersTyped'
  <2>1. status' \in [Requests -> Statuses]
    BY <1>2 DEF Statuses
  <2>2. leaked' \in Nat
    BY <1>2, <1>11
  <2> QED
    BY <1>2, <1>6, <2>1, <2>2 DEF LaneInv, WorkersTyped
<1>13. OnePlace'
  <2>1. \A n \in DOMAIN replies : replies[n].req \in Requests /\ replies[n].req \notin R
    BY ReplyRequests DEF LaneInv, OnePlace
  <2>2. \A k \in Lanes : \A r \in ReqsOf(k)' : k # l /\ r \in ReqsOf(k) /\ r \notin R /\ r \in Requests
    BY <1>7, <1>8, <1>9 DEF LaneInv, OnePlace
  <2>3. \A k \in Lanes : \A r \in ReqsOf(k)' : status'[r] = "held"
    BY <1>3, <2>2 DEF LaneInv, OnePlace
  <2>4. \A n \in DOMAIN replies' : status'[replies'[n].req] = "held"
    BY <1>2, <1>3, <2>1 DEF LaneInv, OnePlace
  <2>5. \A k \in Lanes : LaneDistinct(k)'
    BY <1>7, <1>8 DEF LaneInv, OnePlace
  <2>6. \A j, k \in Lanes : j # k => \A r \in ReqsOf(j)' : r \notin ReqsOf(k)'
    BY <2>2 DEF LaneInv, OnePlace
  <2>7. \A k \in Lanes : \A n \in DOMAIN replies' : replies'[n].req \notin ReqsOf(k)'
    BY <1>2, <2>2 DEF LaneInv, OnePlace
  <2>8. \A m, n \in DOMAIN replies' : replies'[m].req = replies'[n].req => m = n
    BY <1>2 DEF LaneInv, OnePlace
  <2> QED
    BY <2>3, <2>4, <2>5, <2>6, <2>7, <2>8 DEF OnePlace
<1>14. InflightAccounted'
  <2>1. inflight = Cardinality(HeldRequests) + leaked
    BY DEF LaneInv, InflightAccounted
  <2> HIDE DEF R
  <2>2. inflight' = Cardinality(HeldRequests') + leaked'
    BY <1>2, <1>11, <2>1
  <2> QED
    BY <2>2 DEF InflightAccounted
<1> QED
  BY <1>12, <1>13, <1>14 DEF LaneInv

(* With empty lanes there is nothing to account for.                       *)
LEMMA EmptyLanes ==
  ASSUME Configured, status' \in [Requests -> Statuses], \A r \in Requests : status'[r] # "held",
         replies' = <<>>, inflight' = 0, leaked' = 0,
         queue' = [l \in Lanes |-> <<>>], hand' = [l \in Lanes |-> Idle]
  PROVE  LaneInv'
<1>1. \A l \in Lanes : queue'[l] = <<>> /\ hand'[l] = Idle
  OBVIOUS
<1>2. \A l \in Lanes : LaneDistinct(l)' /\ \A r \in ReqsOf(l)' : FALSE
  <2>1. \A l \in Lanes : \A n \in DOMAIN queue'[l] : FALSE
    BY <1>1
  <2> QED
    BY <1>1, <2>1 DEF LaneDistinct, ReqsOf
<1>3. WorkersTyped'
  <2>1. LaneTyped({}, {None})'
    BY DEF LaneTyped
  <2>2. replies' \in Seq([req : Requests, code : Codes])
    OBVIOUS
  <2>3. inflight' \in Int /\ leaked' \in Nat
    OBVIOUS
  <2>4. \E T, W : LaneTyped(T, W)'
    BY <2>1
  <2> QED
    BY <2>2, <2>3, <2>4 DEF WorkersTyped
<1>4. OnePlace'
  <2>1. \A n \in DOMAIN replies' : FALSE
    OBVIOUS
  <2> QED
    BY <1>2, <2>1 DEF OnePlace
<1>5. InflightAccounted'
  <2>1. HeldRequests' = {}
    BY DEF HeldRequests
  <2> QED
    BY <2>1, FS_EmptySet DEF InflightAccounted
<1> QED
  BY <1>3, <1>4, <1>5 DEF LaneInv

(* At the start no request has been sent.                                  *)
LEMMA InitLanes == ASSUME Configured, Init PROVE LaneInv
<1>1. /\ replies = <<>> /\ inflight = 0 /\ leaked = 0
      /\ queue = [l \in Lanes |-> <<>>] /\ hand = [l \in Lanes |-> Idle]
      /\ status = [r \in Requests |-> IF r \in limit.sends THEN "new" ELSE "unused"]
  BY DEF Init
<1>2. \A l \in Lanes : queue[l] = <<>> /\ hand[l] = Idle
  BY <1>1
<1>3. \A l \in Lanes : LaneDistinct(l) /\ \A r \in ReqsOf(l) : FALSE
  <2>1. \A l \in Lanes : \A n \in DOMAIN queue[l] : FALSE
    BY <1>2
  <2> QED
    BY <1>2, <2>1 DEF LaneDistinct, ReqsOf
<1>4. WorkersTyped
  <2>1. LaneTyped({}, {None})
    BY <1>1 DEF LaneTyped
  <2>2. replies \in Seq([req : Requests, code : Codes])
    BY <1>1
  <2>3. inflight \in Int /\ leaked \in Nat
    BY <1>1
  <2>4. status \in [Requests -> Statuses]
    BY <1>1 DEF Statuses
  <2>5. \E T, W : LaneTyped(T, W)
    BY <2>1
  <2> QED
    BY <2>2, <2>3, <2>4, <2>5 DEF WorkersTyped
<1>5. OnePlace
  <2>1. \A n \in DOMAIN replies : FALSE
    BY <1>1
  <2> QED
    BY <1>3, <2>1 DEF OnePlace
<1>6. InflightAccounted
  <2>1. HeldRequests = {}
    BY <1>1 DEF HeldRequests
  <2> QED
    BY <1>1, <2>1, FS_EmptySet DEF InflightAccounted
<1> QED
  BY <1>4, <1>5, <1>6 DEF LaneInv

(* What the worker of a lane has in hand.                                  *)
LEMMA HandTyped ==
  ASSUME LaneInv, NEW l \in Lanes, hand[l] # Idle
  PROVE  /\ hand[l] \in Hands({hand[l].task}, {hand[l].wait})
         /\ hand[l].at \in Nat /\ hand[l].params \in Nat /\ hand[l].task.req \in Requests
         /\ hand = [k \in Lanes |-> hand[k]]
         /\ hand[l] = [task |-> hand[l].task, at |-> hand[l].at, params |-> hand[l].params,
                       wait |-> hand[l].wait]
<1>1. PICK T, W : LaneTyped(T, W)
  BY DEF LaneInv, WorkersTyped
<1>2. hand[l] \in Hands(T, W)
  BY <1>1 DEF LaneTyped
<1>3. hand[l] = [task |-> hand[l].task, at |-> hand[l].at, params |-> hand[l].params,
                 wait |-> hand[l].wait]
  BY <1>2 DEF Hands
<1> QED
  BY <1>1, <1>2, <1>3 DEF LaneTyped, Hands

(* The device worker.                                                      *)
LEMMA DeviceWorkerLanes == ASSUME LaneInv, DeviceWorker PROVE LaneInv'
<1>0. "device" \in Lanes /\ "ok" \in Codes /\ "failed" \in Codes
  BY DEF Lanes, Codes
<1>1. hand["device"] # Idle
  BY DEF DeviceWorker, DriverUnavailable, InterceptorUnavailable, CallInterceptor, ReceiveDecision,
         InterceptorTimeout, CallDevice, Working
<1>2. /\ hand["device"] \in Hands({hand["device"].task}, {hand["device"].wait})
      /\ hand["device"].at \in Nat /\ hand["device"].params \in Nat
      /\ hand = [k \in Lanes |-> hand[k]]
      /\ hand["device"] = [task |-> hand["device"].task, at |-> hand["device"].at,
                           params |-> hand["device"].params, wait |-> hand["device"].wait]
  BY <1>0, <1>1, HandTyped
<1>3. CASE DriverUnavailable
  BY <1>0, <1>1, <1>3, FinishKeeps DEF DriverUnavailable
<1>4. CASE InterceptorUnavailable
  BY <1>0, <1>1, <1>4, FinishKeeps DEF InterceptorUnavailable
<1>5. CASE CallInterceptor
  <2> DEFINE h == [task |-> hand["device"].task, at |-> hand["device"].at,
                   params |-> hand["device"].params, wait |-> Turn]
  <2>1. /\ hand' = [hand EXCEPT !["device"].wait = Turn]
        /\ UNCHANGED <<queue, replies, status, inflight, leaked>>
    BY <1>5 DEF CallInterceptor
  <2>2. HandBecomes("device", h)
    <3>1. [hand["device"] EXCEPT !.wait = Turn] = h
      BY <1>2
    <3> HIDE DEF h
    <3> QED
      BY <1>0, <1>2, <2>1, <3>1 DEF HandBecomes
  <2>3. h \in Hands({hand["device"].task}, {Turn})
    BY <1>2 DEF Hands
  <2> HIDE DEF h
  <2> QED
    BY <1>0, <1>1, <2>1, <2>2, <2>3, HandKeeps
<1>6. CASE ReceiveDecision
  <2> DEFINE i == hand["device"].wait
             m == Head(mail[i].box)
  <2>1. CASE ~Correlated(m)
    <3>1. UNCHANGED <<workers, status>>
      BY <1>6, <2>1 DEF ReceiveDecision
    <3> QED
      BY <3>1, SameKeeps
  <2>2. CASE Correlated(m) /\ LetsPass(m)
    <3> DEFINE h == [task |-> hand["device"].task, at |-> hand["device"].at + 1,
                     params |-> NewParams(m, hand["device"].params), wait |-> None]
    <3>1. /\ hand' = [hand EXCEPT !["device"].wait = None, !["device"].at = @ + 1,
                                  !["device"].params = NewParams(m, @)]
          /\ UNCHANGED <<queue, replies, status, inflight, leaked>>
      BY <1>6, <2>2 DEF ReceiveDecision
    <3>2. NewParams(m, hand["device"].params) \in Nat /\ hand["device"].at + 1 \in Nat
      BY <1>2 DEF NewParams
    <3> DEFINE x == [hand["device"] EXCEPT !.wait = None]
               y == [x EXCEPT !.at = hand["device"].at + 1]
               z == [y EXCEPT !.params = NewParams(m, hand["device"].params)]
    <3>3. hand' = [k \in Lanes |-> IF k = "device" THEN z ELSE hand[k]]
      BY <1>0, <1>2, <3>1
    <3> HIDE DEF m
    <3>4. HandBecomes("device", h)
      <4>1. x = [task |-> hand["device"].task, at |-> hand["device"].at,
                 params |-> hand["device"].params, wait |-> None]
        BY <1>2
      <4>2. y = [task |-> hand["device"].task, at |-> hand["device"].at + 1,
                 params |-> hand["device"].params, wait |-> None]
        <5> HIDE DEF x
        <5> QED
          BY <4>1
      <4>3. z = h
        <5> HIDE DEF y
        <5> QED
          BY <4>2
      <4> QED
        BY <3>3, <4>3 DEF HandBecomes
    <3>5. h \in Hands({hand["device"].task}, {None})
      BY <3>2 DEF Hands
    <3> HIDE DEF h
    <3> QED
      BY <1>0, <1>1, <3>1, <3>4, <3>5, HandKeeps
  <2>3. CASE Correlated(m) /\ ~LetsPass(m)
    <3>1. Finish("device", "failed") /\ status' = status
      BY <1>6, <2>3 DEF ReceiveDecision
    <3> QED
      BY <1>0, <1>1, <3>1, FinishKeeps
  <2> QED
    BY <2>1, <2>2, <2>3
<1>7. CASE InterceptorTimeout
  BY <1>0, <1>1, <1>7, FinishKeeps DEF InterceptorTimeout
<1>8. CASE CallDevice
  <2>1. status' = status /\ \E code \in Codes : Finish("device", code)
    BY <1>0, <1>8 DEF CallDevice
  <2> QED
    BY <1>0, <1>1, <2>1, FinishKeeps
<1> QED
  BY <1>3, <1>4, <1>5, <1>6, <1>7, <1>8 DEF DeviceWorker

(* An answer of a process reaches its worker if that still waits.          *)
LEMMA AnswerLanes ==
  ASSUME LaneInv, NEW r, NEW code \in Codes, ProcessAnswers(r, code), status' = status
  PROVE  LaneInv'
<1>1. CASE UNCHANGED workers
  BY <1>1, SameKeeps
<1>2. CASE hand["process"] # Idle /\ Finish("process", code)
  BY <1>2, FinishKeeps DEF Lanes
<1> QED
  BY <1>1, <1>2 DEF ProcessAnswers, Working

(* The other workers.                                                      *)
LEMMA OtherWorkerLanes == ASSUME LaneInv, NEW l \in Lanes, OtherWorker(l) PROVE LaneInv'
<1>1. CASE Forward(l)
  <2>1. hand[l] # Idle /\ status' = status /\ \E code \in Codes : Finish(l, code)
    BY <1>1 DEF Forward, Working, Codes
  <2> QED
    BY <2>1, FinishKeeps
<1>2. CASE CallProcess
  <2> DEFINE w == TargetOf[Held("process").req]
             h == [task |-> hand["process"].task, at |-> hand["process"].at,
                   params |-> hand["process"].params, wait |-> w]
  <2>1. /\ hand' = [hand EXCEPT !["process"].wait = w] /\ hand["process"] # Idle
        /\ UNCHANGED <<queue, replies, status, inflight, leaked>>
    BY <1>2 DEF CallProcess, Working
  <2>2. "process" \in Lanes
    BY DEF Lanes
  <2>3. /\ hand["process"] \in Hands({hand["process"].task}, {hand["process"].wait})
        /\ hand["process"].at \in Nat /\ hand["process"].params \in Nat
        /\ hand = [k \in Lanes |-> hand[k]]
        /\ hand["process"] = [task |-> hand["process"].task, at |-> hand["process"].at,
                              params |-> hand["process"].params, wait |-> hand["process"].wait]
    BY <2>1, <2>2, HandTyped
  <2> HIDE DEF w
  <2>4. HandBecomes("process", h)
    <3>1. [hand["process"] EXCEPT !.wait = w] = h
      BY <2>3
    <3> HIDE DEF h
    <3> QED
      BY <2>1, <2>2, <2>3, <3>1 DEF HandBecomes
  <2>5. h \in Hands({hand["process"].task}, {w})
    BY <2>3 DEF Hands
  <2> HIDE DEF h
  <2> QED
    BY <2>1, <2>2, <2>4, <2>5, HandKeeps
<1>3. CASE ProcessTimeout
  <2>1. hand["process"] # Idle /\ status' = status /\ Finish("process", "failed")
    BY <1>3 DEF ProcessTimeout, Working
  <2> QED
    BY <2>1, FinishKeeps DEF Lanes, Codes
<1> QED
  BY <1>1, <1>2, <1>3 DEF OtherWorker

(* The poll loop of the router.                                            *)
LEMMA RouterLanes == ASSUME Configured, LaneInv, Router PROVE LaneInv'
<1>1. CASE HandleManagerPub
  BY <1>1, SameKeeps DEF HandleManagerPub
<1>2. ASSUME NEW m \in Mirrored, DispatchMirroredCommand(m) PROVE LaneInv'
  <2>1. m \in Requests /\ status[m] = "new" /\ Task(m, 1, <<>>, <<>>).req = m /\ "mirror" \in Lanes
    BY <1>2 DEF DispatchMirroredCommand, Requests, Task, Lanes
  <2>2. \/ Reject(m) /\ UNCHANGED workers
        \/ SubmitWithInflight(m, "mirror", Task(m, 1, <<>>, <<>>))
    BY <1>2 DEF DispatchMirroredCommand
  <2> QED
    BY <2>1, <2>2, RejectKeeps, SubmitKeeps
<1>3. ASSUME NEW p \in ProcessRpcs, DispatchProcessRpc(p) PROVE LaneInv'
  <2> DEFINE ep == view.process[TargetOf[p]]
             l == IF ep # 0 THEN "process" ELSE "manager"
             task == Task(p, ep, <<>>, <<>>)
  <2>1. p \in Requests /\ status[p] = "new" /\ task.req = p /\ l \in Lanes
    BY <1>3 DEF DispatchProcessRpc, Requests, Task, Lanes
  <2>2. SubmitWithInflight(p, l, task)
    BY <1>3 DEF DispatchProcessRpc
  <2> HIDE DEF l, task
  <2> QED
    BY <2>1, <2>2, SubmitKeeps
<1>4. CASE DrainReplies
  BY <1>4, DrainKeeps
<1>5. CASE RouterRestart
  BY <1>5, SameKeeps DEF RouterRestart
<1> QED
  BY <1>1, <1>2, <1>3, <1>4, <1>5 DEF Router

(* A crash empties the lanes and loses what was held.                      *)
LEMMA CrashLanes == ASSUME Configured, LaneInv, Crash PROVE LaneInv'
<1>1. /\ replies' = <<>> /\ inflight' = 0 /\ leaked' = 0
      /\ queue' = [l \in Lanes |-> <<>>] /\ hand' = [l \in Lanes |-> Idle]
      /\ status' = [r \in Requests |-> IF status[r] = "held" THEN "lost" ELSE status[r]]
  BY DEF Crash, RouterCrash
<1>2. status \in [Requests -> Statuses]
  BY DEF LaneInv, WorkersTyped
<1>3. status' \in [Requests -> Statuses] /\ \A r \in Requests : status'[r] # "held"
  BY <1>1, <1>2 DEF Statuses
<1> QED
  BY <1>1, <1>3, EmptyLanes

(* A device command is submitted.                                          *)
LEMMA DispatchLanes == ASSUME Configured, LaneInv, NEW c \in Commands, Dispatch(c) PROVE LaneInv'
<1> DEFINE task == Task(c, view.device, CommandInterceptorChain(KeyOf[c]),
                        [i \in Interceptors |-> RouteEndpoint(i)])
<1>1. c \in Requests /\ status[c] = "new" /\ task.req = c /\ "device" \in Lanes
  BY DEF Dispatch, DispatchDeviceCommand, Requests, Task, Lanes
<1>2. SubmitWithInflight(c, "device", task)
  BY DEF Dispatch, DispatchDeviceCommand
<1> HIDE DEF task
<1> QED
  BY <1>1, <1>2, SubmitKeeps

(* The interlock processes answer the process worker, and nothing else.    *)
LEMMA InterlockLanes ==
  ASSUME LaneInv, NEW i \in Interceptors,
         InterlockLoop(i) \/ GracefulStop(i) \/ StartInterlock(i) \/ InterlockCrash(i)
  PROVE  LaneInv'
<1>0. "ok" \in Codes /\ "failed" \in Codes
  BY DEF Codes
<1>1. CASE Check(i) \/ ChangeRule(i) \/ GracefulStop(i) \/ StartInterlock(i)
  <2>1. UNCHANGED <<workers, status>>
    BY <1>1 DEF Check, ChangeRule, GracefulStop, StartInterlock
  <2> QED
    BY <2>1, SameKeeps
<1>2. CASE InterlockCrash(i)
  <2>1. UNCHANGED <<workers, status>>
    BY <1>2 DEF InterlockCrash, Exits
  <2> QED
    BY <2>1, SameKeeps
<1>3. CASE AnswerQuery(i)
  <2>1. status' = status /\ \E code \in Codes : ProcessAnswers(Head(inbox[i]).req, code)
    BY <1>3 DEF AnswerQuery, Codes
  <2> QED
    BY <2>1, AnswerLanes
<1>4. ASSUME NEW code \in Codes, AnswerRpc(i, code), status' = status PROVE LaneInv'
  <2>1. CASE UNCHANGED workers
    BY <1>4, <2>1, SameKeeps
  <2>2. CASE ProcessAnswers(call[i].req, code)
    BY <1>4, <2>2, AnswerLanes
  <2> QED
    BY <1>4, <2>1, <2>2 DEF AnswerRpc
<1>5. CASE Registered(i)
  <2>1. AnswerRpc(i, "ok") /\ status' = status
    BY <1>5 DEF Registered
  <2> QED
    BY <1>0, <1>4, <2>1
<1>6. CASE RegistrationTimesOut(i)
  <2>1. AnswerRpc(i, "failed") /\ status' = status
    BY <1>6 DEF RegistrationTimesOut
  <2> QED
    BY <1>0, <1>4, <2>1
<1>7. CASE StopEnds(i)
  <2>1. status' = status /\ \E code \in Codes : AnswerRpc(i, code)
    BY <1>0, <1>7 DEF StopEnds, Exits
  <2> QED
    BY <1>4, <2>1
<1> QED
  BY <1>1, <1>2, <1>3, <1>5, <1>6, <1>7 DEF InterlockLoop

(* Every step keeps the lanes.                                             *)
LEMMA LaneStep == ASSUME Configured, LaneInv, [Next]_vars PROVE LaneInv'
<1>1. CASE RouterHandles
  BY <1>1, SameKeeps DEF RouterHandles, HandleCommandInterceptor
<1>2. CASE Driver
  BY <1>2, SameKeeps DEF Driver, DriverStops, DriverRegisters
<1>3. CASE \E l \in Lanes : Dies(l)
  BY <1>3, DiesKeeps DEF Dies
<1>4. CASE UNCHANGED vars
  <2>1. UNCHANGED <<workers, status>>
    BY <1>4 DEF vars, routerVars
  <2> QED
    BY <2>1, SameKeeps
<1>5. CASE \E l \in Lanes \ {"device"} : OtherWorker(l)
  BY <1>5, OtherWorkerLanes
<1>6. CASE \E i \in Interceptors :
             InterlockLoop(i) \/ GracefulStop(i) \/ StartInterlock(i) \/ InterlockCrash(i)
  BY <1>6, InterlockLanes
<1>7. CASE \E c \in Commands : Dispatch(c)
  BY <1>7, DispatchLanes
<1> QED
  BY <1>1, <1>2, <1>3, <1>4, <1>5, <1>6, <1>7, RouterLanes, CrashLanes, DeviceWorkerLanes DEF Next

(* Every reservation of the router is that of a request under way or of    *)
(* one whose worker died: rejections, full queues, timeouts, late answers  *)
(* and retired workers give theirs back, and nothing is counted twice      *)
(* (_submit_with_inflight, _drain_replies).                                *)
THEOREM InflightIsAccounted == ASSUME Configured PROVE Spec => []InflightAccounted
<1>1. Init => LaneInv
  BY InitLanes
<1>2. LaneInv /\ [Next]_vars => LaneInv'
  BY LaneStep
<1>3. LaneInv => InflightAccounted
  BY DEF LaneInv
<1> QED
  BY <1>1, <1>2, <1>3, PTL DEF Spec

-----------------------------------------------------------------------------
(* The routes.                                                             *)

Pats == {PatternOf[i] : i \in Interceptors}
Keys == {KeyOf[c] : c \in Commands}
RouteOf(i) == [pid |-> i, pat |-> PatternOf[i]]
RouteSet == [pid : Interceptors, pat : Pats]
Messages == [kind : {"advertise", "register", "unregister"}, pid : Interceptors, inc : Nat,
             pats : Seq(Pats), ticket : Nat]

(* A call to the router is none, or has the fields CallRouter gives it.    *)
CallShape(x) ==
    \/ x = NoCall
    \/ DOMAIN x = {"why", "done", "req", "before"} /\ x.done \in BOOLEAN

CallsTyped ==
    /\ call = [i \in Interceptors |-> call[i]] /\ \A i \in Interceptors : CallShape(call[i])
    /\ rule = [i \in Interceptors |-> rule[i]]

RoutesTyped ==
    /\ routes \in Seq(RouteSet)
    /\ cache = [k \in Keys |-> cache[k]]
    /\ ext \in Seq(Messages)
    /\ tickets \in [Interceptors -> Nat]
    /\ live \in [Interceptors -> Nat] /\ starts \in [Interceptors -> Nat]
    /\ acked \in [Interceptors -> BOOLEAN]

(* A cached chain is the one the routes give now.                          *)
CacheRight == \A k \in Keys : cache[k] \subseteq {ChainFor(k)}

(* The messages of an interlock carry rising request_ids, up to its last.  *)
TicketsRise ==
    /\ \A n \in DOMAIN ext : ext[n].ticket <= tickets[ext[n].pid]
    /\ \A m, n \in DOMAIN ext : m < n /\ ext[m].pid = ext[n].pid => ext[m].ticket < ext[n].ticket

(* The registration an interlock waits for carries the rule it now has.    *)
LastCarriesRule ==
    \A n \in DOMAIN ext :
        ext[n].kind = "register" /\ ext[n].ticket = tickets[ext[n].pid] /\ call[ext[n].pid] # NoCall
            => ext[n].pats = RoutesForEnabledRules(ext[n].pid, rule[ext[n].pid])

(* Acknowledged: nothing of the interlock is under way, no rollback can    *)
(* come, and the route of an enabled rule is in the table.                 *)
AckedRight ==
    \A i \in Interceptors : acked[i] = TRUE =>
        /\ \A n \in DOMAIN ext : ext[n].pid # i
        /\ Active(rule[i]) => \E n \in DOMAIN routes : routes[n] = RouteOf(i)
        /\ call[i] # NoCall => call[i].done = TRUE

RouteInv == RoutesTyped /\ CallsTyped /\ CacheRight /\ TicketsRise /\ LastCarriesRule /\ AckedRight

(* A set as a sequence: of its elements, and all of them.                  *)
LEMMA SetAsSequence ==
  ASSUME NEW S, IsFiniteSet(S)
  PROVE  /\ SetToSeq(S) \in Seq(S)
         /\ \A x \in S : \E n \in DOMAIN SetToSeq(S) : SetToSeq(S)[n] = x
<1> DEFINE D == 1 .. Cardinality(S)
<1>1. Cardinality(S) \in Nat /\ ExistsBijection(D, S)
  BY FS_CardinalityType
<1>2. PICK f \in Bijection(D, S) : TRUE
  BY <1>1 DEF ExistsBijection
<1>3. f \in [D -> S] /\ IsInjective(f)
  BY <1>2 DEF Bijection, Injection, IsInjective
<1>4. SetToSeq(S) \in [D -> S] /\ IsInjective(SetToSeq(S))
  BY <1>3 DEF SetToSeq
<1>5. SetToSeq(S) \in Injection(D, S)
  BY <1>4 DEF Injection, IsInjective
<1>6. IsFiniteSet(D) /\ Cardinality(D) = Cardinality(S)
  BY <1>1, FS_Interval
<1> HIDE DEF D
<1>7. SetToSeq(S) \in Surjection(D, S)
  BY <1>5, <1>6, FS_Injection
<1>8. \A x \in S : \E n \in D : SetToSeq(S)[n] = x
  BY <1>7 DEF Surjection
<1>9. SetToSeq(S) \in Seq(S)
  BY <1>1, <1>4 DEF D
<1>10. DOMAIN SetToSeq(S) = D
  BY <1>4
<1> QED
  BY <1>8, <1>9, <1>10

(* A step that touches none of this.                                       *)
LEMMA RoutesSame ==
  ASSUME RouteInv, UNCHANGED <<routes, cache, ext, rule, call, tickets, live, starts, acked>>
  PROVE  RouteInv'
<1>1. \A k : ChainFor(k)' = ChainFor(k)
  BY DEF ChainFor, Subsequence, FirstHits, Hits
<1> QED
  BY <1>1 DEF RouteInv, RoutesTyped, CallsTyped, CacheRight, TicketsRise, LastCarriesRule, AckedRight

(* A call ends: the interlock's messages may still be on their way.        *)
LEMMA CallEnds ==
  ASSUME RouteInv, NEW i \in Interceptors, call' = [call EXCEPT ![i] = NoCall],
         UNCHANGED <<routes, cache, ext, tickets, starts>>, live' \in [Interceptors -> Nat],
         \/ rule' = rule /\ acked' = acked
         \/ (\E r : rule' = [rule EXCEPT ![i] = r]) /\ acked' = [acked EXCEPT ![i] = FALSE]
  PROVE  RouteInv'
<1>1. \A k : ChainFor(k)' = ChainFor(k)
  BY DEF ChainFor, Subsequence, FirstHits, Hits
<1>2. call'[i] = NoCall /\ \A j \in Interceptors : j # i => call'[j] = call[j]
  BY DEF RouteInv, CallsTyped
<1>3. CallsTyped'
  BY <1>2 DEF RouteInv, CallsTyped, CallShape
<1>4. acked' \in [Interceptors -> BOOLEAN] /\ \A j \in Interceptors : acked'[j] = TRUE => acked[j] = TRUE /\ rule'[j] = rule[j]
  BY DEF RouteInv, CallsTyped, RoutesTyped
<1>5. \A j \in Interceptors : j # i => rule'[j] = rule[j]
  BY DEF RouteInv, CallsTyped
<1>6. RoutesTyped'
  BY <1>4 DEF RouteInv, RoutesTyped
<1>7. CacheRight'
  BY <1>1 DEF RouteInv, CacheRight
<1>8. TicketsRise'
  BY DEF RouteInv, TicketsRise
<1>9. \A n \in DOMAIN ext : ext[n].pid \in Interceptors
  <2>1. \A n \in DOMAIN ext : ext[n] \in Messages
    BY DEF RouteInv, RoutesTyped
  <2> QED
    BY <2>1 DEF Messages
<1>10. LastCarriesRule'
  BY <1>2, <1>5, <1>9 DEF RouteInv, LastCarriesRule
<1>11. AckedRight'
  BY <1>2, <1>4 DEF RouteInv, AckedRight
<1> QED
  BY <1>3, <1>6, <1>7, <1>8, <1>10, <1>11 DEF RouteInv

(* What a call to the router may send: the last message is the one waited  *)
(* for, and a registration there carries the rule the interlock has next.  *)
Sendable(i, msgs, r) ==
    /\ msgs \in Seq([kind : {"advertise", "register", "unregister"}, pats : Seq(Pats)])
    /\ msgs # <<>>
    /\ msgs[Len(msgs)].kind = "register" => msgs[Len(msgs)].pats = RoutesForEnabledRules(i, r)

(* An interlock calls the router.                                          *)
LEMMA CallRouterKeeps ==
  ASSUME RouteInv, NEW i \in Interceptors, NEW inc \in Nat, NEW msgs, NEW why, NEW req, NEW before,
         NEW r, rule' = [rule EXCEPT ![i] = r],
         Sendable(i, msgs, r), CallRouter(i, inc, msgs, why, req, before),
         UNCHANGED <<routes, cache>>,
         live' \in [Interceptors -> Nat], starts' \in [Interceptors -> Nat]
  PROVE  RouteInv'
<1> DEFINE Sent(n) == [kind |-> msgs[n].kind, pid |-> i, inc |-> inc, pats |-> msgs[n].pats,
                       ticket |-> tickets[i] + n]
           new == [n \in DOMAIN msgs |-> Sent(n)]
<1>1. /\ Len(msgs) \in Nat \ {0} /\ DOMAIN msgs = 1 .. Len(msgs)
      /\ \A n \in 1 .. Len(msgs) : /\ msgs[n].kind \in {"advertise", "register", "unregister"}
                                   /\ msgs[n].pats \in Seq(Pats)
  <2>1. msgs \in Seq([kind : {"advertise", "register", "unregister"}, pats : Seq(Pats)])
    BY DEF Sendable
  <2>2. Len(msgs) \in Nat \ {0} /\ DOMAIN msgs = 1 .. Len(msgs)
    BY <2>1, EmptySeq, LenProperties DEF Sendable
  <2>3. \A n \in 1 .. Len(msgs) : msgs[n] \in [kind : {"advertise", "register", "unregister"}, pats : Seq(Pats)]
    BY <2>1, ElementOfSeq
  <2> QED
    BY <2>2, <2>3
<1>2. /\ ext \in Seq(Messages) /\ tickets \in [Interceptors -> Nat]
      /\ acked \in [Interceptors -> BOOLEAN]
  BY DEF RouteInv, RoutesTyped
<1>3. /\ ext' = ext \o new
      /\ tickets' = [tickets EXCEPT ![i] = tickets[i] + Len(msgs)]
      /\ call' = [call EXCEPT ![i] = [why |-> why, done |-> FALSE, req |-> req, before |-> before]]
      /\ acked' = [acked EXCEPT ![i] = FALSE]
  BY DEF CallRouter
<1>4. \A n \in 1 .. Len(msgs) : Sent(n) \in Messages
  <2>1. SUFFICES ASSUME NEW n \in 1 .. Len(msgs) PROVE Sent(n) \in Messages
    OBVIOUS
  <2>2. tickets[i] \in Nat /\ n \in Nat
    BY <1>1, <1>2
  <2>3. tickets[i] + n \in Nat
    BY <2>2
  <2>4. /\ msgs[n].kind \in {"advertise", "register", "unregister"}
        /\ msgs[n].pats \in Seq(Pats)
    BY <1>1
  <2> QED
    BY <2>3, <2>4 DEF Messages
<1>5. new \in Seq(Messages) /\ Len(new) = Len(msgs) /\ \A n \in 1 .. Len(msgs) : new[n] = Sent(n)
  <2>1. new \in [1 .. Len(msgs) -> Messages]
    BY <1>1, <1>4
  <2> QED
    BY <1>1, <2>1
<1>6. /\ Len(ext) \in Nat /\ DOMAIN ext = 1 .. Len(ext)
      /\ ext' \in Seq(Messages) /\ DOMAIN ext' = 1 .. Len(ext) + Len(msgs)
      /\ \A n \in 1 .. Len(ext) : ext'[n] = ext[n] /\ ext[n] \in Messages
      /\ \A n \in 1 .. Len(msgs) : ext'[Len(ext) + n] = Sent(n)
  <2> HIDE DEF new, Sent
  <2>1. Len(ext) \in Nat /\ DOMAIN ext = 1 .. Len(ext) /\ \A n \in 1 .. Len(ext) : ext[n] \in Messages
    BY <1>2
  <2>2. /\ ext' \in Seq(Messages) /\ Len(ext') = Len(ext) + Len(msgs)
        /\ \A n \in 1 .. Len(ext) + Len(msgs) : ext'[n] = IF n <= Len(ext) THEN ext[n] ELSE new[n - Len(ext)]
    <3>1. ext \in Seq(Messages) /\ new \in Seq(Messages) /\ Len(new) = Len(msgs) /\ ext' = ext \o new
      BY <1>2, <1>3, <1>5
    <3>2. /\ ext \o new \in Seq(Messages) /\ Len(ext \o new) = Len(ext) + Len(new)
          /\ \A n \in 1 .. Len(ext) + Len(new) :
                (ext \o new)[n] = IF n <= Len(ext) THEN ext[n] ELSE new[n - Len(ext)]
      BY <3>1, ConcatProperties, Zenon
    <3> QED
      BY <3>1, <3>2, Zenon
  <2>3. DOMAIN ext' = 1 .. Len(ext) + Len(msgs)
    BY <2>2
  <2>4. \A n \in 1 .. Len(ext) : ext'[n] = ext[n]
    BY <1>1, <2>1, <2>2
  <2>5. ASSUME NEW n \in 1 .. Len(msgs) PROVE ext'[Len(ext) + n] = Sent(n)
    <3>1. Len(ext) + n \in 1 .. Len(ext) + Len(msgs) /\ ~(Len(ext) + n <= Len(ext)) /\ Len(ext) + n - Len(ext) = n
      BY <1>1, <2>1
    <3>2. ext'[Len(ext) + n] = new[n]
      BY <2>2, <3>1
    <3> QED
      BY <1>5, <3>2
  <2> QED
    BY <2>1, <2>2, <2>3, <2>4, <2>5
<1> HIDE DEF new
<1>7. \A n \in DOMAIN ext' : \/ n \in DOMAIN ext /\ ext'[n] = ext[n]
                             \/ \E k \in 1 .. Len(msgs) : n = Len(ext) + k /\ ext'[n] = Sent(k)
  <2> HIDE DEF Sent
  <2>1. ASSUME NEW n \in 1 .. Len(ext) + Len(msgs), ~(n \in 1 .. Len(ext))
        PROVE  \E k \in 1 .. Len(msgs) : n = Len(ext) + k /\ ext'[n] = Sent(k)
    <3>1. n - Len(ext) \in 1 .. Len(msgs) /\ n = Len(ext) + (n - Len(ext))
      BY <1>1, <1>6, <2>1
    <3>2. \A k \in 1 .. Len(msgs) : ext'[Len(ext) + k] = Sent(k)
      BY <1>6
    <3> QED
      BY <3>1, <3>2
  <2>2. DOMAIN ext = 1 .. Len(ext) /\ DOMAIN ext' = 1 .. Len(ext) + Len(msgs)
    BY <1>6
  <2>3. \A n \in 1 .. Len(ext) : ext'[n] = ext[n]
    BY <1>6
  <2> QED
    BY <2>1, <2>2, <2>3
<1>8. \A k \in 1 .. Len(msgs) : Sent(k).pid = i /\ Sent(k).ticket = tickets[i] + k
                              /\ Sent(k).kind = msgs[k].kind /\ Sent(k).pats = msgs[k].pats
  OBVIOUS
<1>9. \A n \in DOMAIN ext : ext[n].pid \in Interceptors /\ ext[n].ticket \in Nat
  BY <1>6 DEF Messages
<1> HIDE DEF Sent
<1>10. /\ tickets' \in [Interceptors -> Nat] /\ tickets'[i] = tickets[i] + Len(msgs)
       /\ \A j \in Interceptors : j # i => tickets'[j] = tickets[j]
  BY <1>1, <1>2, <1>3
<1>11. /\ acked' \in [Interceptors -> BOOLEAN] /\ acked'[i] = FALSE
       /\ \A j \in Interceptors : j # i => acked'[j] = acked[j]
  BY <1>2, <1>3
<1>12. \A k : ChainFor(k)' = ChainFor(k)
  BY DEF ChainFor, Subsequence, FirstHits, Hits
<1>13. RoutesTyped'
  BY <1>6, <1>10, <1>11 DEF RouteInv, RoutesTyped
<1>14. CallsTyped' /\ rule'[i] = r /\ \A j \in Interceptors : j # i => call'[j] = call[j] /\ rule'[j] = rule[j]
  <2>1. CallShape([why |-> why, done |-> FALSE, req |-> req, before |-> before])
    BY DEF CallShape
  <2> QED
    BY <1>3, <2>1 DEF RouteInv, CallsTyped
<1>15. CacheRight'
  BY <1>12 DEF RouteInv, CacheRight
<1>16. TicketsRise'
  <2>1. ASSUME NEW n \in DOMAIN ext' PROVE ext'[n].ticket <= tickets'[ext'[n].pid]
    <3>1. CASE n \in DOMAIN ext /\ ext'[n] = ext[n]
      <4>1. ext[n].ticket <= tickets[ext[n].pid]
        BY <3>1 DEF RouteInv, TicketsRise
      <4>2. tickets[i] \in Nat
        BY <1>2
      <4>3. CASE ext[n].pid = i
        <5>1. ext[n].ticket \in Nat
          BY <1>9, <3>1
        <5>2. tickets'[ext[n].pid] = tickets[i] + Len(msgs)
          BY <1>10, <4>3
        <5>3. ext[n].ticket <= tickets[i]
          BY <4>1, <4>3
        <5>4. ext[n].ticket <= tickets[i] + Len(msgs)
          BY <1>1, <4>2, <5>1, <5>3
        <5> QED
          BY <3>1, <5>2, <5>4
      <4>4. CASE ext[n].pid # i
        BY <1>9, <1>10, <3>1, <4>1, <4>4
      <4> QED
        BY <4>3, <4>4
    <3>2. ASSUME NEW k \in 1 .. Len(msgs), ext'[n] = Sent(k) PROVE ext'[n].ticket <= tickets'[ext'[n].pid]
      BY <1>1, <1>2, <1>8, <1>10, <3>2
    <3> QED
      BY <1>7, <3>1, <3>2
  <2>2. ASSUME NEW m \in DOMAIN ext', NEW n \in DOMAIN ext', m < n, ext'[m].pid = ext'[n].pid
        PROVE  ext'[m].ticket < ext'[n].ticket
    <3>1. CASE n \in DOMAIN ext
      <4>1. m \in DOMAIN ext
        BY <1>1, <1>6, <2>2, <3>1
      <4> QED
        BY <1>6, <2>2, <3>1, <4>1 DEF RouteInv, TicketsRise
    <3>2. CASE n \notin DOMAIN ext
      <4>1. PICK k \in 1 .. Len(msgs) : n = Len(ext) + k /\ ext'[n] = Sent(k)
        BY <1>7, <3>2
      <4>2. CASE m \in DOMAIN ext /\ ext'[m] = ext[m]
        <5>1. ext[m].ticket <= tickets[i]
          BY <1>8, <2>2, <4>1, <4>2 DEF RouteInv, TicketsRise
        <5> QED
          BY <1>1, <1>2, <1>8, <1>9, <4>1, <4>2, <5>1
      <4>3. ASSUME NEW j \in 1 .. Len(msgs), m = Len(ext) + j, ext'[m] = Sent(j)
            PROVE  ext'[m].ticket < ext'[n].ticket
        <5>1. Len(ext) \in Nat /\ tickets[i] \in Nat
          BY <1>2, <1>6
        <5>2. j < k
          BY <2>2, <4>1, <4>3, <5>1
        <5>3. tickets[i] + j < tickets[i] + k
          BY <5>1, <5>2
        <5> QED
          BY <1>8, <4>1, <4>3, <5>3
      <4> QED
        BY <1>7, <4>2, <4>3
    <3> QED
      BY <3>1, <3>2
  <2> QED
    BY <2>1, <2>2 DEF TicketsRise
<1>17. LastCarriesRule'
  <2> SUFFICES ASSUME NEW n \in DOMAIN ext', ext'[n].kind = "register",
                      ext'[n].ticket = tickets'[ext'[n].pid], call'[ext'[n].pid] # NoCall
               PROVE  ext'[n].pats = RoutesForEnabledRules(ext'[n].pid, rule'[ext'[n].pid])
    BY DEF LastCarriesRule, RoutesForEnabledRules
  <2>1. CASE n \in DOMAIN ext /\ ext'[n] = ext[n]
    <3>1. ext[n].ticket <= tickets[ext[n].pid]
      BY <2>1 DEF RouteInv, TicketsRise
    <3>2. ext[n].pid # i
      BY <1>1, <1>2, <1>9, <1>10, <2>1, <3>1
    <3>3. /\ ext[n].pid \in Interceptors /\ tickets'[ext[n].pid] = tickets[ext[n].pid]
          /\ call'[ext[n].pid] = call[ext[n].pid] /\ rule'[ext[n].pid] = rule[ext[n].pid]
      BY <1>9, <1>10, <1>14, <2>1, <3>2
    <3>4. ext[n].kind = "register" /\ ext[n].ticket = tickets[ext[n].pid] /\ call[ext[n].pid] # NoCall
      BY <2>1, <3>3
    <3>5. ext[n].pats = RoutesForEnabledRules(ext[n].pid, rule[ext[n].pid])
      BY <2>1, <3>4 DEF RouteInv, LastCarriesRule
    <3> QED
      BY <2>1, <3>3, <3>5
  <2>2. ASSUME NEW k \in 1 .. Len(msgs), ext'[n] = Sent(k)
        PROVE  ext'[n].pats = RoutesForEnabledRules(ext'[n].pid, rule'[ext'[n].pid])
    <3>1. k = Len(msgs)
      <4>1. tickets[i] + k = tickets[i] + Len(msgs)
        BY <1>8, <1>10, <2>2
      <4>2. tickets[i] \in Nat /\ k \in Nat /\ Len(msgs) \in Nat
        BY <1>1, <1>2
      <4> QED
        BY <4>1, <4>2
    <3> QED
      BY <1>8, <1>14, <2>2, <3>1 DEF Sendable
  <2> QED
    BY <1>7, <2>1, <2>2
<1>18. AckedRight'
  <2> SUFFICES ASSUME NEW j \in Interceptors, acked'[j] = TRUE
               PROVE  /\ \A n \in DOMAIN ext' : ext'[n].pid # j
                      /\ Active(rule'[j]) => \E n \in DOMAIN routes : routes[n] = RouteOf(j)
                      /\ call'[j] # NoCall => call'[j].done = TRUE
    BY DEF AckedRight, RouteOf, Active
  <2>1. j # i /\ acked[j] = TRUE /\ call'[j] = call[j] /\ rule'[j] = rule[j]
    BY <1>11, <1>14
  <2>2. \A n \in DOMAIN ext : ext[n].pid # j
    BY <2>1 DEF RouteInv, AckedRight
  <2>3. \A n \in DOMAIN ext' : ext'[n].pid # j
    BY <1>7, <1>8, <2>1, <2>2
  <2>4. /\ Active(rule[j]) => \E n \in DOMAIN routes : routes[n] = RouteOf(j)
        /\ call[j] # NoCall => call[j].done = TRUE
    BY <2>1 DEF RouteInv, AckedRight
  <2> QED
    BY <2>1, <2>3, <2>4
<1> QED
  BY <1>13, <1>14, <1>15, <1>16, <1>17, <1>18 DEF RouteInv

(* Taking the routes of a process away leaves those of the others.         *)
LEMMA WithoutRoutes ==
  ASSUME RouteInv, NEW p
  PROVE  /\ Without(p) \in Seq(RouteSet)
         /\ \A n \in DOMAIN routes :
              routes[n].pid # p => \E k \in DOMAIN Without(p) : Without(p)[k] = routes[n]
<1> DEFINE I == {n \in DOMAIN routes : routes[n].pid # p}
<1>1. routes \in Seq(RouteSet) /\ I \in SUBSET DOMAIN routes
  BY DEF RouteInv, RoutesTyped
<1>2. Without(p) = Subsequence(routes, I)
  BY DEF Without
<1>3. \A n \in DOMAIN routes : routes[n].pid # p => n \in I
  OBVIOUS
<1> HIDE DEF I
<1>4. /\ Subsequence(routes, I) \in Seq(RouteSet)
      /\ \A k \in I : \E n \in DOMAIN Subsequence(routes, I) : Subsequence(routes, I)[n] = routes[k]
  BY <1>1, SubsequenceElements
<1> QED
  BY <1>2, <1>3, <1>4

(* A registration or its withdrawal changes the routes of one process, and *)
(* no cached chain of the old routes is left.                              *)
LEMMA TableChanges ==
  ASSUME RouteInv, NEW m \in Messages,
         \/ m.kind = "advertise" /\ UNCHANGED table
         \/ m.kind = "register" /\ RegisterRoutes(m.pid, m.pats)
         \/ m.kind = "unregister" /\ DropRoutes(m.pid)
  PROVE  /\ routes' \in Seq(RouteSet) /\ (cache = [k \in Keys |-> cache[k]])' /\ CacheRight'
         /\ \A n \in DOMAIN routes :
              routes[n].pid # m.pid => \E k \in DOMAIN routes' : routes'[k] = routes[n]
         /\ m.kind = "register" => \A q \in DOMAIN m.pats : \E k \in DOMAIN routes' :
                                      routes'[k] = [pid |-> m.pid, pat |-> m.pats[q]]
<1>0. routes \in Seq(RouteSet) /\ cache = [k \in Keys |-> cache[k]] /\ DOMAIN cache = Keys
  BY DEF RouteInv, RoutesTyped
<1>1. CASE routes' = routes /\ cache' = cache /\ m.kind # "register"
  <2>1. \A k : ChainFor(k)' = ChainFor(k)
    BY <1>1 DEF ChainFor, Subsequence, FirstHits, Hits
  <2>2. CacheRight'
    BY <1>1, <2>1 DEF RouteInv, CacheRight
  <2>3. (cache = [k \in Keys |-> cache[k]])'
    BY <1>0, <1>1
  <2> QED
    BY <1>0, <1>1, <2>2, <2>3
<1>2. ASSUME cache' = CacheCleared PROVE (cache = [k \in Keys |-> cache[k]])' /\ CacheRight'
  BY <1>0, <1>2 DEF CacheCleared, CacheRight
<1>3. /\ Without(m.pid) \in Seq(RouteSet)
      /\ \A n \in DOMAIN routes :
           routes[n].pid # m.pid => \E k \in DOMAIN Without(m.pid) : Without(m.pid)[k] = routes[n]
  BY WithoutRoutes
<1>4. CASE m.kind = "unregister" /\ routes' = Without(m.pid) /\ cache' = CacheCleared
  BY <1>2, <1>3, <1>4
<1>5. CASE m.kind = "register" /\ RegisterRoutes(m.pid, m.pats)
  <2> DEFINE a == Without(m.pid)
             b == [n \in DOMAIN m.pats |-> [pid |-> m.pid, pat |-> m.pats[n]]]
  <2>1. routes' = a \o b /\ cache' = CacheCleared
    BY <1>5 DEF RegisterRoutes
  <2>2. m.pats \in Seq(Pats) /\ m.pid \in Interceptors
    BY DEF Messages
  <2>3. Len(m.pats) \in Nat /\ DOMAIN m.pats = 1 .. Len(m.pats) /\ \A n \in 1 .. Len(m.pats) : m.pats[n] \in Pats
    BY <2>2
  <2>4. b \in [1 .. Len(m.pats) -> RouteSet]
    BY <2>2, <2>3 DEF RouteSet
  <2>5. b \in Seq(RouteSet) /\ Len(b) = Len(m.pats)
    BY <2>3, <2>4
  <2>6. a \in Seq(RouteSet)
    BY <1>3
  <2>7. \A n \in DOMAIN m.pats : b[n] = [pid |-> m.pid, pat |-> m.pats[n]]
    OBVIOUS
  <2>8. \A n \in DOMAIN routes : routes[n].pid # m.pid => \E k \in DOMAIN a : a[k] = routes[n]
    BY <1>3
  <2> DEFINE ab == a \o b
  <2> HIDE DEF a, b
  <2>9. /\ ab \in Seq(RouteSet) /\ Len(ab) = Len(a) + Len(b) /\ routes' = ab
        /\ \A n \in 1 .. Len(a) + Len(b) : ab[n] = IF n <= Len(a) THEN a[n] ELSE b[n - Len(a)]
    BY <2>1, <2>5, <2>6, ConcatProperties, Zenon
  <2> HIDE DEF ab
  <2>10. Len(a) \in Nat /\ Len(b) \in Nat /\ DOMAIN a = 1 .. Len(a) /\ DOMAIN ab = 1 .. Len(a) + Len(b)
    BY <2>5, <2>6, <2>9
  <2>11. \A n \in DOMAIN a : n \in DOMAIN routes' /\ routes'[n] = a[n]
    BY <2>9, <2>10
  <2>12. ASSUME NEW q \in DOMAIN m.pats PROVE Len(a) + q \in DOMAIN routes' /\ routes'[Len(a) + q] = b[q]
    <3>1. q \in Nat /\ q >= 1 /\ q <= Len(b)
      BY <2>3, <2>5
    <3>2. /\ Len(a) + q \in 1 .. Len(a) + Len(b) /\ ~(Len(a) + q <= Len(a)) /\ (Len(a) + q) - Len(a) = q
      BY <2>10, <3>1
    <3>3. ab[Len(a) + q] = b[(Len(a) + q) - Len(a)]
      BY <2>9, <3>2
    <3> QED
      BY <2>9, <2>10, <3>2, <3>3
  <2>13. \A n \in DOMAIN routes : routes[n].pid # m.pid => \E k \in DOMAIN routes' : routes'[k] = routes[n]
    BY <2>8, <2>11
  <2>14. \A q \in DOMAIN m.pats : \E k \in DOMAIN routes' : routes'[k] = [pid |-> m.pid, pat |-> m.pats[q]]
    BY <2>7, <2>12
  <2> QED
    BY <1>2, <2>1, <2>9, <2>13, <2>14
<1>6. CASE m.kind = "unregister" /\ DropRoutes(m.pid)
  <2>1. \/ routes' = routes /\ cache' = cache
        \/ routes' = Without(m.pid) /\ cache' = CacheCleared
    BY <1>6 DEF DropRoutes
  <2> QED
    BY <1>1, <1>4, <1>6, <2>1
<1> QED
  BY <1>1, <1>5, <1>6 DEF table

(* The router handles a message: a registration that is still awaited is   *)
(* acknowledged, and is the interlock's last.                              *)
LEMMA HandlesRoutes == ASSUME RouteInv, RouterHandles PROVE RouteInv'
<1> DEFINE m == Head(ext)
<1>1. /\ ext # <<>> /\ ext' = Tail(ext) /\ live' = live
      /\ call' = IF Awaited(m) THEN [call EXCEPT ![m.pid].done = TRUE] ELSE call
      /\ acked' = IF Awaited(m) /\ m.kind = "register" THEN [acked EXCEPT ![m.pid] = TRUE] ELSE acked
      /\ UNCHANGED <<rule, tickets, starts>>
  BY DEF RouterHandles, HandleCommandInterceptor
<1>2. ext \in Seq(Messages)
  BY DEF RouteInv, RoutesTyped
<1>3. /\ m \in Messages /\ m = ext[1] /\ 1 \in DOMAIN ext /\ ext' \in Seq(Messages)
      /\ \A n \in DOMAIN ext' : n \in Nat /\ n + 1 \in DOMAIN ext /\ 1 < n + 1 /\ ext'[n] = ext[n + 1]
  BY <1>1, <1>2
<1>4. m.kind \in {"advertise", "register", "unregister"} /\ m.pid \in Interceptors /\ m.ticket \in Nat
  BY <1>3 DEF Messages
<1>5. \/ m.kind = "advertise" /\ UNCHANGED table
      \/ m.kind = "register" /\ RegisterRoutes(m.pid, m.pats)
      \/ m.kind = "unregister" /\ DropRoutes(m.pid)
  BY <1>4 DEF RouterHandles, HandleCommandInterceptor
<1> HIDE DEF m
<1>6. /\ routes' \in Seq(RouteSet) /\ (cache = [k \in Keys |-> cache[k]])' /\ CacheRight'
      /\ \A n \in DOMAIN routes :
           routes[n].pid # m.pid => \E k \in DOMAIN routes' : routes'[k] = routes[n]
      /\ m.kind = "register" => \A q \in DOMAIN m.pats : \E k \in DOMAIN routes' :
                                   routes'[k] = [pid |-> m.pid, pat |-> m.pats[q]]
  BY <1>3, <1>5, TableChanges
<1>7. \A n \in DOMAIN ext : ext[n].pid \in Interceptors /\ ext[n].ticket \in Nat
  <2>1. \A n \in DOMAIN ext : ext[n] \in Messages
    BY <1>2
  <2> QED
    BY <2>1 DEF Messages
<1>8. CallsTyped' /\ \A j \in Interceptors : /\ call'[j] # NoCall <=> call[j] # NoCall
                                             /\ j # m.pid => call'[j] = call[j]
                                             /\ j = m.pid /\ Awaited(m) => call'[j].done = TRUE
  <2>1. CallsTyped
    BY DEF RouteInv
  <2>2. CASE ~Awaited(m)
    BY <1>1, <2>1, <2>2 DEF CallsTyped
  <2>3. CASE Awaited(m)
    <3> DEFINE x == [call[m.pid] EXCEPT !.done = TRUE]
    <3>1. call[m.pid] # NoCall
      BY <2>3 DEF Awaited
    <3>2. DOMAIN call[m.pid] = {"why", "done", "req", "before"}
      BY <1>4, <2>1, <3>1 DEF CallsTyped, CallShape
    <3>3. DOMAIN x = {"why", "done", "req", "before"} /\ x.done = TRUE
      BY <3>2
    <3>4. x.done = TRUE /\ CallShape(x) /\ x # NoCall
      <4> HIDE DEF x
      <4>1. x.done = TRUE /\ CallShape(x)
        BY <3>3 DEF CallShape
      <4>2. "done" \in DOMAIN x /\ "done" \notin DOMAIN NoCall
        BY <3>3 DEF NoCall
      <4> QED
        BY <4>1, <4>2
    <3>5. call' = [j \in Interceptors |-> IF j = m.pid THEN x ELSE call[j]]
      BY <1>1, <1>4, <2>1, <2>3 DEF CallsTyped
    <3> HIDE DEF x
    <3> QED
      BY <1>1, <2>1, <3>1, <3>4, <3>5 DEF CallsTyped
  <2> QED
    BY <2>2, <2>3
<1>9. acked' \in [Interceptors -> BOOLEAN]
  BY <1>1, <1>4 DEF RouteInv, RoutesTyped
<1>10. RoutesTyped'
  BY <1>1, <1>3, <1>6, <1>9 DEF RouteInv, RoutesTyped
<1>11. TicketsRise'
  <2>1. \A n \in DOMAIN ext' : ext'[n].ticket <= tickets'[ext'[n].pid]
    BY <1>1, <1>3 DEF RouteInv, TicketsRise
  <2>2. \A k, n \in DOMAIN ext' : k < n /\ ext'[k].pid = ext'[n].pid => ext'[k].ticket < ext'[n].ticket
    <3>1. \A k, n \in DOMAIN ext' : k < n => k + 1 < n + 1
      BY <1>3
    <3> QED
      BY <1>3, <3>1 DEF RouteInv, TicketsRise
  <2> QED
    BY <2>1, <2>2 DEF TicketsRise
<1>12. LastCarriesRule'
  BY <1>1, <1>3, <1>7, <1>8, SMTT(30) DEF RouteInv, LastCarriesRule, RoutesForEnabledRules
<1>13. AckedRight'
  <2> SUFFICES ASSUME NEW j \in Interceptors, acked'[j] = TRUE
               PROVE  /\ \A n \in DOMAIN ext' : ext'[n].pid # j
                      /\ Active(rule[j]) => \E n \in DOMAIN routes' : routes'[n] = RouteOf(j)
                      /\ call'[j] # NoCall => call'[j].done = TRUE
    BY <1>1 DEF AckedRight, RouteOf, Active
  <2>1. CASE acked[j] = TRUE
    <3>1. /\ \A n \in DOMAIN ext : ext[n].pid # j
          /\ Active(rule[j]) => \E n \in DOMAIN routes : routes[n] = RouteOf(j)
          /\ call[j] # NoCall => call[j].done = TRUE
      BY <2>1 DEF RouteInv, AckedRight
    <3>2. j # m.pid /\ RouteOf(j).pid = j
      BY <1>3, <3>1 DEF RouteOf
    <3>3. Active(rule[j]) => \E n \in DOMAIN routes' : routes'[n] = RouteOf(j)
      BY <1>6, <3>1, <3>2
    <3> QED
      BY <1>3, <1>8, <3>1, <3>2, <3>3
  <2>2. CASE ~(acked[j] = TRUE)
    <3>1. Awaited(m) /\ m.kind = "register" /\ j = m.pid
      BY <1>1, <1>4, <2>2 DEF RouteInv, RoutesTyped
    <3>2. m.ticket = tickets[j] /\ call[j] # NoCall
      BY <3>1 DEF Awaited
    <3>3. \A n \in DOMAIN ext' : ext'[n].pid # j
      <4> SUFFICES ASSUME NEW n \in DOMAIN ext', ext'[n].pid = j PROVE FALSE
        OBVIOUS
      <4>1. ext[n + 1].pid = ext[1].pid /\ n + 1 \in DOMAIN ext /\ 1 < n + 1
        BY <1>3, <3>1
      <4>2. ext[1].ticket < ext[n + 1].ticket
        BY <1>3, <4>1 DEF RouteInv, TicketsRise
      <4>3. ext[n + 1].ticket <= tickets[j] /\ ext[1].ticket = tickets[j]
        BY <1>3, <3>1, <3>2, <4>1 DEF RouteInv, TicketsRise
      <4>4. tickets[j] \in Nat /\ ext[n + 1].ticket \in Nat
        BY <1>7, <4>1 DEF RouteInv, RoutesTyped
      <4> QED
        BY <4>2, <4>3, <4>4
    <3>4. m.pats = RoutesForEnabledRules(j, rule[j])
      BY <1>3, <3>1, <3>2 DEF RouteInv, LastCarriesRule
    <3>5. ASSUME Active(rule[j]) PROVE \E n \in DOMAIN routes' : routes'[n] = RouteOf(j)
      <4>1. m.pats = <<PatternOf[j]>>
        BY <3>4, <3>5 DEF RoutesForEnabledRules
      <4>2. 1 \in DOMAIN m.pats /\ m.pats[1] = PatternOf[j]
        BY <4>1
      <4> QED
        BY <1>6, <3>1, <4>2 DEF RouteOf
    <3> QED
      BY <1>8, <3>1, <3>3, <3>5
  <2> QED
    BY <2>1, <2>2
<1> QED
  BY <1>6, <1>8, <1>10, <1>11, <1>12, <1>13 DEF RouteInv

(* A crash of the router forgets the routes and every acknowledgement.     *)
LEMMA CrashRoutes == ASSUME RouteInv, Crash PROVE RouteInv'
<1>1. /\ routes' = <<>> /\ cache' = CacheCleared /\ ext' = <<>> /\ acked' = [i \in Interceptors |-> FALSE]
      /\ UNCHANGED <<rule, call, tickets, starts, live>>
  BY DEF Crash, RouterCrash, interlockVars
<1>2. (cache = [k \in Keys |-> cache[k]])' /\ CacheRight'
  BY <1>1 DEF CacheCleared, CacheRight, RouteInv, RoutesTyped
<1>3. routes' \in Seq(RouteSet) /\ ext' \in Seq(Messages) /\ \A n \in DOMAIN ext' : FALSE
  BY <1>1
<1>4. acked' \in [Interceptors -> BOOLEAN] /\ \A i \in Interceptors : acked'[i] = FALSE
  BY <1>1
<1>5. RoutesTyped' /\ CallsTyped'
  BY <1>1, <1>2, <1>3, <1>4 DEF RouteInv, RoutesTyped, CallsTyped
<1>6. TicketsRise' /\ LastCarriesRule'
  BY <1>3 DEF TicketsRise, LastCarriesRule
<1>7. AckedRight'
  BY <1>4 DEF AckedRight
<1> QED
  BY <1>2, <1>5, <1>6, <1>7 DEF RouteInv

(* The chain of a dispatched command, cached or not, is the one of the     *)
(* routes.                                                                 *)
LEMMA ChainIsCurrent ==
  ASSUME RouteInv, NEW k \in Keys
  PROVE  CommandInterceptorChain(k) = ChainFor(k)
<1>1. cache[k] \subseteq {ChainFor(k)}
  BY DEF RouteInv, CacheRight
<1>2. CASE cache[k] # {}
  <2>1. cache[k] = {ChainFor(k)}
    BY <1>1, <1>2
  <2>2. (CHOOSE c \in cache[k] : TRUE) \in cache[k]
    BY <1>2
  <2> QED
    BY <1>2, <2>1, <2>2 DEF CommandInterceptorChain
<1> QED
  BY <1>2 DEF CommandInterceptorChain

(* A dispatch may fill the cache; the routes stay.                         *)
LEMMA DispatchRoutes == ASSUME RouteInv, NEW c \in Commands, Dispatch(c) PROVE RouteInv'
<1>1. KeyOf[c] \in Keys
  BY DEF Keys
<1>2. /\ cache' = [cache EXCEPT ![KeyOf[c]] = {ChainFor(KeyOf[c])}]
      /\ UNCHANGED <<routes, ext, rule, call, tickets, live, starts, acked>>
  BY <1>1, ChainIsCurrent DEF Dispatch, DispatchDeviceCommand, interlockVars
<1>3. \A k : ChainFor(k)' = ChainFor(k)
  <2>1. \A k : FirstHits(k)' = FirstHits(k)
    BY <1>2 DEF FirstHits, Hits
  <2>2. [n \in DOMAIN routes' |-> routes'[n].pid] = [n \in DOMAIN routes |-> routes[n].pid]
    BY <1>2
  <2> QED
    BY <2>1, <2>2 DEF ChainFor, Subsequence
<1>4. (cache = [k \in Keys |-> cache[k]])'
  BY <1>2 DEF RouteInv, RoutesTyped
<1>5. CacheRight'
  BY <1>1, <1>2, <1>3 DEF RouteInv, RoutesTyped, CacheRight
<1> QED
  BY <1>2, <1>4, <1>5 DEF RouteInv, RoutesTyped, CallsTyped, TicketsRise, LastCarriesRule, AckedRight,
     RouteOf, Active, RoutesForEnabledRules

(* At the start the routes are those of the enabled rules.                 *)
LEMMA InitRoutes == ASSUME Configured, Init PROVE RouteInv
<1> DEFINE On == {i \in Interceptors : Active(rule[i])}
           S == {RouteOf(i) : i \in On}
<1>1. /\ routes = SetToSeq(S) /\ cache = [k \in Keys |-> {}] /\ ext = <<>>
      /\ call = [i \in Interceptors |-> NoCall] /\ tickets = [i \in Interceptors |-> 0]
      /\ live = [i \in Interceptors |-> 1] /\ starts = [i \in Interceptors |-> 1]
      /\ acked = [i \in Interceptors |-> TRUE] /\ rule = [i \in Interceptors |-> rule[i]]
  BY DEF Init, Keys, RouteOf
<1>2. IsFiniteSet(S)
  <2>1. IsFiniteSet(On)
    BY FS_Subset DEF Configured
  <2> DEFINE f == [i \in On |-> RouteOf(i)]
  <2>2. f \in Surjection(On, S)
    BY DEF Surjection
  <2> HIDE DEF f, On, S
  <2> QED
    BY <2>1, <2>2, FS_Surjection
<1>3. S \subseteq RouteSet
  BY DEF RouteSet, RouteOf, Pats
<1>4. \A i \in Interceptors : Active(rule[i]) => RouteOf(i) \in S
  OBVIOUS
<1> HIDE DEF S
<1>5. SetToSeq(S) \in Seq(S) /\ \A x \in S : \E n \in DOMAIN SetToSeq(S) : SetToSeq(S)[n] = x
  BY <1>2, SetAsSequence
<1>6. routes \in Seq(RouteSet)
  BY <1>1, <1>3, <1>5
<1>7. ext \in Seq(Messages) /\ \A n \in DOMAIN ext : FALSE
  BY <1>1
<1>8. RoutesTyped
  BY <1>1, <1>6, <1>7 DEF RoutesTyped
<1>9. CallsTyped
  BY <1>1 DEF CallsTyped, CallShape
<1>10. CacheRight
  BY <1>1 DEF CacheRight
<1>11. AckedRight
  BY <1>1, <1>4, <1>5, <1>7 DEF AckedRight
<1> QED
  BY <1>7, <1>8, <1>9, <1>10, <1>11 DEF RouteInv, TicketsRise, LastCarriesRule

(* The calls an interlock makes.                                           *)
LEMMA InterlockCalls ==
  ASSUME RouteInv, NEW i \in Interceptors, ChangeRule(i) \/ GracefulStop(i) \/ StartInterlock(i)
  PROVE  RouteInv'
<1>0. /\ live \in [Interceptors -> Nat] /\ starts \in [Interceptors -> Nat]
      /\ rule = [j \in Interceptors |-> rule[j]]
  BY DEF RouteInv, RoutesTyped, CallsTyped
<1>1. \A r : /\ RoutesForEnabledRules(i, r) \in Seq(Pats)
             /\ RegisterMessage(i, r) \in [kind : {"advertise", "register", "unregister"}, pats : Seq(Pats)]
  <2>1. PatternOf[i] \in Pats
    BY DEF Pats
  <2>2. \A r : RoutesForEnabledRules(i, r) \in Seq(Pats)
    BY <2>1 DEF RoutesForEnabledRules
  <2> QED
    BY <2>2 DEF RegisterMessage
<1>2. CASE ChangeRule(i)
  <2>1. PICK r \in Changes(rule[i]) :
           /\ rule' = [rule EXCEPT ![i] = r]
           /\ CallRouter(i, live[i], <<RegisterMessage(i, r)>>, "change", Head(inbox[i]).req, rule[i])
    BY <1>2 DEF ChangeRule
  <2>2. UNCHANGED <<routes, cache, live, starts>>
    BY <1>2 DEF ChangeRule, table
  <2>3. Sendable(i, <<RegisterMessage(i, r)>>, r)
    <3> DEFINE x == RegisterMessage(i, r)
    <3>1. x.pats = RoutesForEnabledRules(i, r)
      BY DEF RegisterMessage
    <3>2. x \in [kind : {"advertise", "register", "unregister"}, pats : Seq(Pats)]
      BY <1>1
    <3> HIDE DEF x
    <3> QED
      BY <3>1, <3>2 DEF Sendable, x
  <2>4. live[i] \in Nat /\ live' \in [Interceptors -> Nat] /\ starts' \in [Interceptors -> Nat]
    BY <1>0, <2>2
  <2> QED
    BY <2>1, <2>2, <2>3, <2>4, CallRouterKeeps
<1>3. CASE GracefulStop(i)
  <2> DEFINE msgs == <<[kind |-> "unregister", pats |-> <<>>]>>
  <2>1. /\ CallRouter(i, live[i], msgs, "stop", Head(inbox[i]).req, rule[i])
        /\ UNCHANGED <<routes, cache, live, starts, rule>>
    BY <1>3 DEF GracefulStop, table
  <2>2. rule' = [rule EXCEPT ![i] = rule[i]]
    BY <1>0, <2>1
  <2>3. Sendable(i, msgs, rule[i])
    <3>1. [kind |-> "unregister", pats |-> <<>>] \in [kind : {"advertise", "register", "unregister"}, pats : Seq(Pats)]
      OBVIOUS
    <3> QED
      BY <3>1 DEF Sendable
  <2> HIDE DEF msgs
  <2>4. live[i] \in Nat /\ live' \in [Interceptors -> Nat] /\ starts' \in [Interceptors -> Nat]
    BY <1>0, <2>1
  <2> QED
    BY <2>1, <2>2, <2>3, <2>4, CallRouterKeeps
<1>4. CASE StartInterlock(i)
  <2> DEFINE a == [kind |-> "advertise", pats |-> <<>>]
             b == RegisterMessage(i, DefaultRule)
             msgs == <<a, b>>
  <2>1. /\ CallRouter(i, starts[i] + 1, msgs, "start", None, DefaultRule)
        /\ UNCHANGED <<routes, cache>>
        /\ rule' = [rule EXCEPT ![i] = DefaultRule]
        /\ starts' = [starts EXCEPT ![i] = starts[i] + 1]
        /\ live' = [live EXCEPT ![i] = starts[i] + 1]
    BY <1>4 DEF StartInterlock, table
  <2>2. starts[i] + 1 \in Nat /\ live' \in [Interceptors -> Nat] /\ starts' \in [Interceptors -> Nat]
    BY <1>0, <2>1
  <2>3. Sendable(i, msgs, DefaultRule)
    <3>1. a \in [kind : {"advertise", "register", "unregister"}, pats : Seq(Pats)]
      OBVIOUS
    <3>2. b \in [kind : {"advertise", "register", "unregister"}, pats : Seq(Pats)]
      BY <1>1
    <3>3. b.pats = RoutesForEnabledRules(i, DefaultRule)
      BY DEF RegisterMessage
    <3> HIDE DEF a, b
    <3> QED
      BY <3>1, <3>2, <3>3 DEF Sendable
  <2> HIDE DEF msgs
  <2> QED
    BY <2>1, <2>2, <2>3, CallRouterKeeps
<1> QED
  BY <1>2, <1>3, <1>4

(* The ends of those calls.                                                *)
LEMMA InterlockCallEnds ==
  ASSUME RouteInv, NEW i \in Interceptors,
         Registered(i) \/ RegistrationTimesOut(i) \/ Exits(i)
  PROVE  RouteInv'
<1>0. /\ live \in [Interceptors -> Nat] /\ acked \in [Interceptors -> BOOLEAN]
      /\ rule = [j \in Interceptors |-> rule[j]]
  BY DEF RouteInv, RoutesTyped, CallsTyped
<1>1. CASE Registered(i)
  <2>1. /\ call' = [call EXCEPT ![i] = NoCall]
        /\ UNCHANGED <<routes, cache, ext, tickets, starts, live, rule, acked>>
    BY <1>1 DEF Registered, table, ghosts
  <2> QED
    BY <1>0, <2>1, CallEnds
<1>2. CASE RegistrationTimesOut(i)
  <2>1. /\ call' = [call EXCEPT ![i] = NoCall] /\ rule' = [rule EXCEPT ![i] = RolledBack(i)]
        /\ UNCHANGED <<routes, cache, ext, tickets, starts, live, acked>>
        /\ call[i].why = "change" /\ ~call[i].done
    BY <1>2 DEF RegistrationTimesOut, table, ghosts
  <2>2. call[i] # NoCall /\ ~(call[i].done = TRUE)
    BY <2>1 DEF NoCall
  <2>3. acked[i] = FALSE
    BY <1>0, <2>2 DEF RouteInv, AckedRight
  <2>4. acked' = [acked EXCEPT ![i] = FALSE]
    BY <1>0, <2>1, <2>3
  <2> QED
    BY <1>0, <2>1, <2>4, CallEnds
<1>3. CASE Exits(i)
  <2>1. /\ call' = [call EXCEPT ![i] = NoCall] /\ acked' = [acked EXCEPT ![i] = FALSE]
        /\ UNCHANGED <<routes, cache, ext, tickets, starts, rule>>
        /\ live' = [live EXCEPT ![i] = 0]
    BY <1>3 DEF Exits, table
  <2>2. rule' = [rule EXCEPT ![i] = rule[i]] /\ live' \in [Interceptors -> Nat]
    BY <1>0, <2>1
  <2> QED
    BY <2>1, <2>2, CallEnds
<1> QED
  BY <1>1, <1>2, <1>3

(* Every step keeps the routes right.                                      *)
LEMMA RouteStep == ASSUME RouteInv, [Next]_vars PROVE RouteInv'
<1>1. CASE Router
  BY <1>1, RoutesSame DEF Router, HandleManagerPub, DispatchMirroredCommand, DispatchProcessRpc, DrainReplies,
     RouterRestart, table, interlockVars, ghosts
<1>2. CASE DeviceWorker
  <2>1. UNCHANGED <<table, ext, live, interlockVars, ghosts>>
    BY <1>2 DEF DeviceWorker, DriverUnavailable, InterceptorUnavailable, CallInterceptor, ReceiveDecision,
       InterceptorTimeout, CallDevice
  <2> QED
    BY <2>1, RoutesSame DEF table, interlockVars, ghosts
<1>3. CASE Driver
  BY <1>3, RoutesSame DEF Driver, DriverStops, DriverRegisters, table, interlockVars, ghosts
<1>4. ASSUME NEW l \in Lanes, OtherWorker(l) PROVE RouteInv'
  BY <1>4, RoutesSame DEF OtherWorker, Forward, CallProcess, ProcessTimeout, table, interlockVars, ghosts
<1>5. ASSUME NEW l \in Lanes, Dies(l) PROVE RouteInv'
  BY <1>5, RoutesSame DEF Dies, WorkerDies, table, interlockVars, ghosts
<1>6. ASSUME NEW i \in Interceptors, Check(i) \/ AnswerQuery(i) PROVE RouteInv'
  BY <1>6, RoutesSame DEF Check, AnswerQuery, table, interlockVars, ghosts
<1>7. ASSUME NEW i \in Interceptors, StopEnds(i) \/ InterlockCrash(i) PROVE RouteInv'
  BY <1>7, InterlockCallEnds DEF StopEnds, InterlockCrash
<1>8. CASE UNCHANGED vars
  BY <1>8, RoutesSame DEF vars, routerVars, table, interlockVars, ghosts
<1>9. ASSUME NEW i \in Interceptors,
             InterlockLoop(i) \/ GracefulStop(i) \/ StartInterlock(i) \/ InterlockCrash(i)
      PROVE  RouteInv'
  BY <1>6, <1>7, <1>9, InterlockCalls, InterlockCallEnds DEF InterlockLoop
<1> QED
  BY <1>1, <1>2, <1>3, <1>4, <1>5, <1>8, <1>9, HandlesRoutes, CrashRoutes, DispatchRoutes DEF Next

-----------------------------------------------------------------------------
(* The checks.                                                             *)

(* What the routes give: a chain without repetition, with every process    *)
(* one of whose routes matches.                                            *)
LEMMA ChainOfRoutes ==
  ASSUME RouteInv, NEW k
  PROVE  /\ ChainFor(k) \in Seq(Interceptors)
         /\ \A m, n \in DOMAIN ChainFor(k) : ChainFor(k)[m] = ChainFor(k)[n] => m = n
         /\ \A n \in DOMAIN routes :
              Matches(routes[n], k) => \E q \in DOMAIN ChainFor(k) : ChainFor(k)[q] = routes[n].pid
<1> DEFINE s == [n \in DOMAIN routes |-> routes[n].pid]
           I == FirstHits(k)
<1>1. routes \in Seq(RouteSet)
  BY DEF RouteInv, RoutesTyped
<1>2. Len(routes) \in Nat /\ DOMAIN routes = 1 .. Len(routes) /\ \A n \in DOMAIN routes : routes[n].pid \in Interceptors
  <2>1. \A n \in DOMAIN routes : routes[n] \in RouteSet
    BY <1>1
  <2> QED
    BY <1>1, <2>1 DEF RouteSet
<1>3. s \in Seq(Interceptors) /\ DOMAIN s = DOMAIN routes /\ \A n \in DOMAIN routes : s[n] = routes[n].pid
  <2>1. s \in [1 .. Len(routes) -> Interceptors]
    BY <1>2
  <2> QED
    BY <1>2, <2>1
<1>4. I \in SUBSET DOMAIN s /\ I \subseteq Hits(k) /\ Hits(k) \subseteq DOMAIN routes
  BY <1>3 DEF FirstHits, Hits
<1>5. ChainFor(k) = Subsequence(s, I)
  BY DEF ChainFor
<1>6. \A a, b \in I : s[a] = s[b] => a = b
  <2>1. \A a, b \in I : a < b => routes[a].pid # routes[b].pid
    BY <1>4 DEF FirstHits
  <2>2. \A a, b \in I : a \in Nat /\ b \in Nat /\ s[a] = routes[a].pid
    BY <1>2, <1>3, <1>4
  <2> HIDE DEF s, I
  <2> QED
    BY <2>1, <2>2
<1>7. ASSUME NEW n \in DOMAIN routes, Matches(routes[n], k)
      PROVE  \E x \in I : s[x] = routes[n].pid
  <2> DEFINE T == {m \in Hits(k) : routes[m].pid = routes[n].pid}
  <2>1. T \in SUBSET Nat /\ n \in T
    BY <1>2, <1>7 DEF Hits
  <2>2. PICK x \in T : \A y \in T : x <= y
    <3> HIDE DEF T
    <3> QED
      BY <2>1, LeastNatural
  <2>3. x \in Hits(k) /\ x \in Nat /\ routes[x].pid = routes[n].pid
    BY <2>1
  <2>4. ASSUME NEW m \in Hits(k), m < x PROVE routes[m].pid # routes[x].pid
    BY <1>2, <1>4, <2>2, <2>3, <2>4
  <2>5. x \in I
    BY <2>3, <2>4 DEF FirstHits
  <2> QED
    BY <1>3, <1>4, <2>3, <2>5
<1> HIDE DEF s, I
<1>8. /\ Subsequence(s, I) \in Seq(Interceptors)
      /\ \A x \in I : \E q \in DOMAIN Subsequence(s, I) : Subsequence(s, I)[q] = s[x]
  BY <1>3, <1>4, SubsequenceElements
<1>9. \A m, n \in DOMAIN Subsequence(s, I) : Subsequence(s, I)[m] = Subsequence(s, I)[n] => m = n
  BY <1>3, <1>4, <1>6, SubsequenceDistinct
<1>10. \A n \in DOMAIN routes :
         Matches(routes[n], k) => \E q \in DOMAIN Subsequence(s, I) : Subsequence(s, I)[q] = routes[n].pid
  <2> SUFFICES ASSUME NEW n \in DOMAIN routes, Matches(routes[n], k)
               PROVE  \E q \in DOMAIN Subsequence(s, I) : Subsequence(s, I)[q] = routes[n].pid
    OBVIOUS
  <2>1. PICK x \in I : s[x] = routes[n].pid
    BY <1>7
  <2> QED
    BY <1>8, <2>1
<1> QED
  BY <1>5, <1>8, <1>9, <1>10

CheckOf(c) == [kind |-> "check", req |-> c]
Checks == {CheckOf(c) : c \in Commands}
InboxSet == Checks \cup [kind : {"rpc"}, req : Requests]
VerdictSet == {"allow", "transform", "reject"}
Mails == [req : Commands, verdict : VerdictSet, inc : Nat]

ChecksTyped ==
    /\ inbox \in [Interceptors -> Seq(InboxSet)]
    /\ mail \in [Interceptors -> [box : Seq(Mails), stale : BOOLEAN]]
    /\ chainOf \in [Commands -> Seq(Interceptors)]
    /\ decided \in [Commands -> [Interceptors -> VerdictSet \cup {None}]]
    /\ sworn \in [Commands -> SUBSET Interceptors]

(* A check of c waits for i; a reply about c waits in its socket; the      *)
(* device worker is asking i about c; the device worker is done with c and *)
(* did not pass it on.                                                     *)
Asked(c, i) == \E n \in DOMAIN inbox[i] : inbox[i][n] = CheckOf(c)
Told(c, i) == \E n \in DOMAIN mail[i].box : mail[i].box[n].req = c
Asking(c, i) == hand["device"] # Idle /\ hand["device"].task.req = c /\ hand["device"].wait = i
Begun(c) == status[c] \notin {"new", "unused"}
Over(c) == Begun(c) /\ c \notin ReqsOf("device") /\ \A x \in executed : x.req # c

(* There is at most one check of c at i, or one reply, which is then the   *)
(* decision.                                                               *)
OnceOf(c, i) ==
    /\ \A m, n \in DOMAIN inbox[i] : inbox[i][m] = CheckOf(c) /\ inbox[i][n] = CheckOf(c) => m = n
    /\ \A m, n \in DOMAIN mail[i].box : mail[i].box[m].req = c /\ mail[i].box[n].req = c => m = n
    /\ ~(Asked(c, i) /\ Told(c, i))
    /\ \A n \in DOMAIN mail[i].box : mail[i].box[n].req = c => mail[i].box[n].verdict = decided[c][i]

(* A check or reply left behind by a timeout is of a command that is over. *)
Quiet == \A c \in Commands, i \in Interceptors : Asked(c, i) \/ Told(c, i) => Asking(c, i) \/ Over(c)
Once == \A c \in Commands, i \in Interceptors : Asking(c, i) => OnceOf(c, i)
ExecutedOver ==
    \A x \in executed : x.req \in Commands /\ Begun(x.req) /\ x.req \notin ReqsOf("device")

(* The tasks of the device lane carry the chain of their dispatch.         *)
Follows ==
    /\ \A n \in DOMAIN queue["device"] : /\ queue["device"][n].req \in Commands
                                         /\ queue["device"][n].chain = chainOf[queue["device"][n].req]
    /\ hand["device"] # Idle => /\ hand["device"].task.req \in Commands
                                /\ hand["device"].task.chain = chainOf[hand["device"].task.req]
Distinct == \A c \in Commands : \A m, n \in DOMAIN chainOf[c] : chainOf[c][m] = chainOf[c][n] => m = n

(* Those of the first k of the chain that transformed c; they all let it   *)
(* pass.                                                                   *)
Transformed(c, k) == {i \in Interceptors : decided[c][i] = "transform" /\ \E n \in 1 .. k : chainOf[c][n] = i}
Passed(c, k) == \A n \in 1 .. k : decided[c][chainOf[c][n]] \in {"allow", "transform"}

(* The command in hand was let pass by the chain so far.                   *)
ProgressOf(c, at, params, wait) ==
    /\ 1 <= at /\ at <= Len(chainOf[c]) + 1
    /\ wait # None => at <= Len(chainOf[c]) /\ wait = chainOf[c][at]
    /\ Passed(c, at - 1)
    /\ params = Cardinality(Transformed(c, at - 1))
Progress ==
    hand["device"] # Idle =>
        ProgressOf(hand["device"].task.req, hand["device"].at, hand["device"].params, hand["device"].wait)

(* An interlock whose routes were acknowledged is in the chain.            *)
SwornInChain == \A c \in Commands : \A i \in sworn[c] : \E n \in DOMAIN chainOf[c] : chainOf[c][n] = i

CheckInv == /\ ChecksTyped /\ Quiet /\ Once /\ ExecutedOver /\ Follows /\ Distinct /\ Progress /\ SwornInChain
            /\ CheckedByItsChain

(* The elements of t that are in X are elements of s, each from a place of *)
(* its own.                                                                *)
From(f, t, s, X) == \A m \in DOMAIN t : t[m] \in X =>
    /\ f[m] \in DOMAIN s /\ s[f[m]] = t[m]
    /\ \A n \in DOMAIN t : t[n] \in X /\ f[m] = f[n] => m = n
Within(t, s, X) == \E f : From(f, t, s, X)

(* A sequence is within itself.                                            *)
LEMMA WithinSame == ASSUME NEW s, NEW X PROVE Within(s, s, X)
<1>1. From([n \in DOMAIN s |-> n], s, s, X)
  BY DEF From
<1> QED
  BY <1>1 DEF Within

(* The empty one is within every sequence.                                 *)
LEMMA WithinNone == ASSUME NEW s, NEW X PROVE Within(<<>>, s, X)
<1>1. \A n \in DOMAIN <<>> : FALSE
  OBVIOUS
<1>2. From(s, <<>>, s, X)
  BY <1>1 DEF From
<1> QED
  BY <1>2 DEF Within

(* So is what is left when the head is taken.                              *)
LEMMA WithinTail == ASSUME NEW S, NEW s \in Seq(S), s # <<>>, NEW X PROVE Within(Tail(s), s, X)
<1> DEFINE t == Tail(s)
           f == [n \in DOMAIN t |-> n + 1]
<1>1. \A n \in DOMAIN t : n \in Nat /\ n + 1 \in DOMAIN s /\ t[n] = s[n + 1]
  OBVIOUS
<1>2. \A n \in DOMAIN t : f[n] = n + 1
  OBVIOUS
<1> HIDE DEF t, f
<1>3. From(f, t, s, X)
  BY <1>1, <1>2 DEF From
<1> QED
  BY <1>3 DEF Within, t

(* So is every subsequence.                                                *)
LEMMA WithinSubsequence ==
  ASSUME NEW S, NEW s \in Seq(S), NEW I \in SUBSET DOMAIN s, NEW X
  PROVE  Within(Subsequence(s, I), s, X)
<1> DEFINE t == Subsequence(s, I)
<1>1. PICK f \in Bijection(1 .. Cardinality(I), I) : t = [n \in 1 .. Cardinality(I) |-> s[f[n]]]
  BY SubsequenceKeeps
<1>2. f \in [1 .. Cardinality(I) -> I] /\ \A m, n \in 1 .. Cardinality(I) : f[m] = f[n] => m = n
  BY <1>1 DEF Bijection, Injection, IsInjective
<1>3. DOMAIN t = 1 .. Cardinality(I) /\ \A n \in DOMAIN t : t[n] = s[f[n]]
  BY <1>1
<1> HIDE DEF t
<1>4. From(f, t, s, X)
  BY <1>2, <1>3 DEF From
<1> QED
  BY <1>4 DEF Within, t

(* An element that is not in X may be appended.                            *)
LEMMA WithinAppend ==
  ASSUME NEW S, NEW s \in Seq(S), NEW e \in S, NEW X, e \notin X
  PROVE  Within(Append(s, e), s, X)
<1> DEFINE t == Append(s, e)
           f == [n \in DOMAIN t |-> n]
<1>1. \A n \in DOMAIN t : \/ n \in DOMAIN s /\ t[n] = s[n]
                          \/ t[n] = e
  OBVIOUS
<1>2. \A n \in DOMAIN t : f[n] = n
  OBVIOUS
<1> HIDE DEF t, f
<1>3. From(f, t, s, X)
  BY <1>1, <1>2 DEF From
<1> QED
  BY <1>3 DEF Within, t

(* What waits at i is what waited there, less some of it.                  *)
FewerAt(i) == Within(inbox'[i], inbox[i], Checks) /\ Within(mail'[i].box, mail[i].box, Mails)

(* Then nothing new is asked or told, and what was single stays single.    *)
LEMMA FewerKeeps ==
  ASSUME ChecksTyped', NEW c \in Commands, NEW i \in Interceptors, FewerAt(i)
  PROVE  /\ Asked(c, i)' => Asked(c, i)
         /\ Told(c, i)' => Told(c, i)
         /\ OnceOf(c, i) /\ decided'[c][i] = decided[c][i] => OnceOf(c, i)'
<1>1. PICK f : From(f, inbox'[i], inbox[i], Checks)
  BY DEF FewerAt, Within
<1>2. PICK g : From(g, mail'[i].box, mail[i].box, Mails)
  BY DEF FewerAt, Within
<1>3. CheckOf(c) \in Checks
  BY DEF Checks
<1>4. \A n \in DOMAIN mail'[i].box : mail'[i].box[n] \in Mails
  <2>1. mail'[i].box \in Seq(Mails)
    BY DEF ChecksTyped
  <2> QED
    BY <2>1
<1>5. \A n \in DOMAIN inbox'[i] : inbox'[i][n] = CheckOf(c) =>
         /\ f[n] \in DOMAIN inbox[i] /\ inbox[i][f[n]] = CheckOf(c)
         /\ \A m \in DOMAIN inbox'[i] : inbox'[i][m] = CheckOf(c) /\ f[n] = f[m] => n = m
  BY <1>1, <1>3 DEF From
<1>6. \A n \in DOMAIN mail'[i].box :
         /\ g[n] \in DOMAIN mail[i].box /\ mail[i].box[g[n]] = mail'[i].box[n]
         /\ \A m \in DOMAIN mail'[i].box : g[n] = g[m] => n = m
  BY <1>2, <1>4 DEF From
<1>7. Asked(c, i)' => Asked(c, i)
  BY <1>5 DEF Asked, CheckOf
<1>8. Told(c, i)' => Told(c, i)
  BY <1>6 DEF Told
<1>9. ASSUME OnceOf(c, i), decided'[c][i] = decided[c][i] PROVE OnceOf(c, i)'
  <2>1. \A m, n \in DOMAIN inbox'[i] : inbox'[i][m] = CheckOf(c) /\ inbox'[i][n] = CheckOf(c) => m = n
    BY <1>5, <1>9 DEF OnceOf
  <2>2. \A m, n \in DOMAIN mail'[i].box : mail'[i].box[m].req = c /\ mail'[i].box[n].req = c => m = n
    BY <1>6, <1>9 DEF OnceOf
  <2>3. ~(Asked(c, i)' /\ Told(c, i)')
    BY <1>7, <1>8, <1>9 DEF OnceOf
  <2>4. \A n \in DOMAIN mail'[i].box : mail'[i].box[n].req = c => mail'[i].box[n].verdict = decided'[c][i]
    BY <1>6, <1>9 DEF OnceOf
  <2> QED
    BY <2>1, <2>2, <2>3, <2>4 DEF OnceOf, CheckOf
<1> QED
  BY <1>7, <1>8, <1>9

(* No command that was dispatched is new again.                            *)
Onward == \A c \in Commands : Begun(c) => Begun(c)'

(* A step that leaves the chains, the decisions and the calls alone.       *)
LEMMA ChainsSame ==
  ASSUME CheckInv, UNCHANGED <<executed, chainOf, decided, sworn>>
  PROVE  Distinct' /\ SwornInChain' /\ CheckedByItsChain'
BY DEF CheckInv, Distinct, SwornInChain, CheckedByItsChain

(* A step away from the device lane and from the decisions.                *)
LEMMA CalmKeeps ==
  ASSUME CheckInv, ChecksTyped', Onward, \A i \in Interceptors : FewerAt(i),
         queue'["device"] = queue["device"], hand'["device"] = hand["device"],
         UNCHANGED <<executed, chainOf, decided, sworn>>
  PROVE  CheckInv'
<1>1. ReqsOf("device")' = ReqsOf("device")
  BY LaneKept
<1>2. \A c \in Commands : Over(c) => Over(c)'
  BY <1>1 DEF Over, Onward
<1>3. \A c \in Commands, i \in Interceptors : Asking(c, i)' <=> Asking(c, i)
  BY DEF Asking
<1>4. \A c \in Commands, i \in Interceptors :
         /\ Asked(c, i)' => Asked(c, i)
         /\ Told(c, i)' => Told(c, i)
         /\ OnceOf(c, i) => OnceOf(c, i)'
  BY FewerKeeps
<1>5. Quiet'
  BY <1>2, <1>3, <1>4 DEF CheckInv, Quiet
<1>6. Once'
  BY <1>3, <1>4 DEF CheckInv, Once
<1>7. ExecutedOver'
  BY <1>1 DEF CheckInv, ExecutedOver, Onward
<1>8. Follows' /\ Distinct' /\ SwornInChain' /\ CheckedByItsChain'
  BY ChainsSame DEF CheckInv, Follows
<1>9. Progress'
  BY DEF CheckInv, Progress, ProgressOf, Passed, Transformed
<1> QED
  BY <1>5, <1>6, <1>7, <1>8, <1>9 DEF CheckInv

(* The worker holds a task it has just taken, of a command of the queue.   *)
Fresh(h) == h = Idle \/ (h # Idle /\ h.at = 1 /\ h.params = 0 /\ h.wait = None)

(* What a step may add to the calls the driver carried out: the command in *)
(* hand, once its chain is through and nothing of it is under way.         *)
ThroughChain(x) ==
    /\ hand["device"] # Idle /\ x.req = hand["device"].task.req
    /\ \A i \in Interceptors : ~Asked(x.req, i) /\ ~Told(x.req, i)
    /\ \A n \in DOMAIN chainOf[x.req] : decided[x.req][chainOf[x.req][n]] \in {"allow", "transform"}
    /\ x.params = Cardinality({i \in ToSet(chainOf[x.req]) : decided[x.req][i] = "transform"})

(* A task just taken has made no progress yet.                             *)
LEMMA FreshProgress == ASSUME ChecksTyped', NEW c \in Commands PROVE ProgressOf(c, 1, 0, None)'
<1>1. Len(chainOf'[c]) \in Nat
  <2>1. chainOf'[c] \in Seq(Interceptors)
    BY DEF ChecksTyped
  <2> QED
    BY <2>1
<1>2. Passed(c, 1 - 1)' /\ Transformed(c, 1 - 1)' = {}
  BY DEF Passed, Transformed
<1>3. Cardinality(Transformed(c, 1 - 1)') = 0
  BY <1>2, FS_EmptySet
<1> QED
  BY <1>1, <1>2, <1>3 DEF ProgressOf

(* The device worker gives up what it has in hand, and may take more from  *)
(* its queue.                                                              *)
LEMMA LeaveKeeps ==
  ASSUME None \notin Interceptors, CheckInv, ChecksTyped', Onward, \A i \in Interceptors : FewerAt(i),
         Follows', Fresh(hand'["device"]),
         ReqsOf("device")' \subseteq ReqsOf("device"),
         \A r \in ReqsOf("device") : Begun(r),
         hand["device"] # Idle => hand["device"].task.req \notin ReqsOf("device")',
         \A x \in executed' : x \in executed \/ ThroughChain(x), executed \subseteq executed',
         UNCHANGED <<chainOf, decided, sworn>>
  PROVE  CheckInv'
<1>1. \A c \in Commands, i \in Interceptors : (Asked(c, i)' => Asked(c, i)) /\ (Told(c, i)' => Told(c, i))
  BY FewerKeeps
<1>2. \A c \in Commands, i \in Interceptors : ~(Asking(c, i)')
  BY DEF Asking, Fresh
<1>3. hand["device"] # Idle => hand["device"].task.req \in ReqsOf("device") /\ hand["device"].task.req \in Commands
  BY LaneMembers DEF CheckInv, Follows
<1>4. Quiet'
  <2> SUFFICES ASSUME NEW c \in Commands, NEW i \in Interceptors, Asked(c, i)' \/ Told(c, i)'
               PROVE  Over(c)'
    BY DEF Quiet
  <2>1. Asking(c, i) \/ Over(c)
    BY <1>1 DEF CheckInv, Quiet
  <2>2. Begun(c)' /\ c \notin ReqsOf("device")'
    <3>1. CASE Asking(c, i)
      BY <1>3, <3>1 DEF Asking, Onward
    <3>2. CASE Over(c)
      BY <3>2 DEF Over, Onward
    <3> QED
      BY <2>1, <3>1, <3>2
  <2>3. \A x \in executed' : x.req # c
    <3> SUFFICES ASSUME NEW x \in executed', x.req = c PROVE FALSE
      OBVIOUS
    <3>1. x \in executed
      BY <1>1 DEF ThroughChain
    <3>2. CASE Asking(c, i)
      BY <1>3, <3>1, <3>2 DEF Asking, CheckInv, ExecutedOver
    <3>3. CASE Over(c)
      BY <3>1, <3>3 DEF Over
    <3> QED
      BY <2>1, <3>2, <3>3
  <2> QED
    BY <2>2, <2>3 DEF Over
<1>5. Once'
  BY <1>2 DEF Once
<1>6. ExecutedOver'
  <2> SUFFICES ASSUME NEW x \in executed'
               PROVE  x.req \in Commands /\ Begun(x.req)' /\ x.req \notin ReqsOf("device")'
    BY DEF ExecutedOver, Begun
  <2>1. CASE x \in executed
    BY <2>1 DEF CheckInv, ExecutedOver, Onward
  <2>2. CASE ThroughChain(x)
    BY <1>3, <2>2 DEF ThroughChain, Onward
  <2> QED
    BY <2>1, <2>2
<1>7. Distinct' /\ SwornInChain'
  BY DEF CheckInv, Distinct, SwornInChain
<1>8. CheckedByItsChain'
  BY DEF CheckInv, CheckedByItsChain, ThroughChain
<1>9. Progress'
  <2> SUFFICES ASSUME hand'["device"] # Idle PROVE Progress'
    BY DEF Progress
  <2>1. PICK c : c = hand'["device"].task.req
    OBVIOUS
  <2>2. c \in Commands /\ hand'["device"].at = 1 /\ hand'["device"].params = 0 /\ hand'["device"].wait = None
    BY <2>1 DEF Follows, Fresh
  <2>3. ProgressOf(c, 1, 0, None)'
    BY <2>2, FreshProgress
  <2> QED
    BY <2>1, <2>2, <2>3 DEF Progress, ProgressOf, Passed, Transformed
<1> QED
  BY <1>4, <1>5, <1>6, <1>7, <1>8, <1>9 DEF CheckInv

(* While the device worker waits for no process, nothing of the command it *)
(* has in hand is under way.                                               *)
LEMMA Silent ==
  ASSUME CheckInv, hand["device"] # Idle, hand["device"].wait \notin Interceptors, NEW i \in Interceptors
  PROVE  ~Asked(hand["device"].task.req, i) /\ ~Told(hand["device"].task.req, i)
<1> DEFINE c == hand["device"].task.req
<1>1. c \in Commands /\ c \in ReqsOf("device")
  BY LaneMembers DEF CheckInv, Follows
<1>2. ~Asking(c, i) /\ ~Over(c)
  BY <1>1 DEF Asking, Over
<1> HIDE DEF c
<1>3. ~(Asked(c, i) \/ Told(c, i))
  BY <1>1, <1>2 DEF CheckInv, Quiet
<1> QED
  BY <1>3 DEF c

(* The requests of the device lane have been dispatched.                   *)
LEMMA LaneBegun == ASSUME LaneInv PROVE \A r \in ReqsOf("device") : Begun(r)
<1>1. \A r \in ReqsOf("device") : status[r] = "held"
  BY DEF LaneInv, OnePlace, Lanes
<1> QED
  BY <1>1 DEF Begun

(* The device worker finishes its task.                                    *)
LEMMA FinishChecks ==
  ASSUME Configured, LaneInv, CheckInv, ChecksTyped', hand["device"] # Idle,
         NEW code \in Codes, Finish("device", code), \A i \in Interceptors : FewerAt(i),
         \A x \in executed' : x \in executed \/ ThroughChain(x), executed \subseteq executed',
         UNCHANGED <<status, chainOf, decided, sworn>>
  PROVE  CheckInv'
<1> DEFINE r == hand["device"].task.req
<1>0. "device" \in Lanes
  BY DEF Lanes
<1>1. PICK T, W : LaneTyped(T, W)
  BY DEF LaneInv, WorkersTyped
<1>2. queue["device"] \in Seq(T) /\ queue = [l \in Lanes |-> queue[l]] /\ hand = [l \in Lanes |-> hand[l]]
  BY <1>0, <1>1 DEF LaneTyped
<1>3. r \notin ReqsOf("device")'
  <2>1. LaneInv'
    BY <1>0, FinishKeeps
  <2>2. replies \in Seq([req : Requests, code : Codes]) /\ r \in Requests
    BY <1>0, HandTyped DEF LaneInv, WorkersTyped
  <2>3. replies' = Append(replies, [req |-> r, code |-> code])
    BY DEF Finish, Held
  <2>4. Len(replies) + 1 \in DOMAIN replies' /\ replies'[Len(replies) + 1] = [req |-> r, code |-> code]
    <3> HIDE DEF r
    <3>1. [req |-> r, code |-> code] \in [req : Requests, code : Codes]
      BY <2>2
    <3> QED
      BY <2>2, <2>3, <3>1
  <2>5. replies'[Len(replies) + 1].req = r
    BY <2>4
  <2> HIDE DEF r
  <2> QED
    BY <1>0, <2>1, <2>4, <2>5 DEF LaneInv, OnePlace
<1>4. /\ \A n \in DOMAIN queue'["device"] : \E m \in DOMAIN queue["device"] : queue'["device"][n] = queue["device"][m]
      /\ Fresh(hand'["device"])
      /\ hand'["device"] # Idle => \E m \in DOMAIN queue["device"] : hand'["device"].task = queue["device"][m]
  <2>1. CASE queue["device"] = <<>>
    <3>1. queue' = queue /\ hand'["device"] = Idle
      BY <1>0, <1>2, <2>1 DEF Finish
    <3> QED
      BY <3>1 DEF Fresh
  <2>2. CASE queue["device"] # <<>>
    <3>1. queue'["device"] = Tail(queue["device"]) /\ hand'["device"] = Taken(Head(queue["device"]))
      BY <1>0, <1>2, <2>2 DEF Finish
    <3>2. \A n \in DOMAIN queue'["device"] : \E m \in DOMAIN queue["device"] : queue'["device"][n] = queue["device"][m]
      <4>1. \A n \in DOMAIN queue'["device"] : /\ n + 1 \in DOMAIN queue["device"]
                                              /\ queue'["device"][n] = queue["device"][n + 1]
        BY <1>2, <2>2, <3>1
      <4> QED
        BY <4>1
    <3>3. Head(queue["device"]) = queue["device"][1] /\ 1 \in DOMAIN queue["device"]
      BY <1>2, <2>2
    <3>4. /\ hand'["device"].task = Head(queue["device"]) /\ hand'["device"].at = 1
          /\ hand'["device"].params = 0 /\ hand'["device"].wait = None
      BY <3>1 DEF Taken
    <3> QED
      BY <3>2, <3>3, <3>4 DEF Fresh
  <2> QED
    BY <2>1, <2>2
<1>5. Follows'
  BY <1>4 DEF CheckInv, Follows
<1>6. ReqsOf("device")' \subseteq ReqsOf("device")
  <2>1. \A m \in DOMAIN queue["device"] : queue["device"][m].req \in ReqsOf("device")
    BY LaneMembers
  <2>2. \A q : q \in ReqsOf("device")' => \/ \E n \in DOMAIN queue'["device"] : queue'["device"][n].req = q
                                          \/ hand'["device"] # Idle /\ hand'["device"].task.req = q
    BY DEF ReqsOf, Held
  <2> QED
    BY <1>4, <2>1, <2>2
<1>7. Onward
  BY DEF Onward, Begun
<1> QED
  BY <1>3, <1>4, <1>5, <1>6, <1>7, LaneBegun, LeaveKeeps DEF Configured

(* The socket of i has b next, and the others what they had.               *)
BoxBecomes(i, b) ==
    /\ mail' \in [Interceptors -> [box : Seq(Mails), stale : BOOLEAN]]
    /\ mail'[i].box = b
    /\ \A j \in Interceptors : j # i => mail'[j] = mail[j]

(* The box of one socket changes.                                          *)
LEMMA BoxSet ==
  ASSUME ChecksTyped, NEW i \in Interceptors, NEW b \in Seq(Mails), mail' = [mail EXCEPT ![i].box = b]
  PROVE  BoxBecomes(i, b)
<1>1. mail \in [Interceptors -> [box : Seq(Mails), stale : BOOLEAN]]
  BY DEF ChecksTyped
<1> DEFINE x == [mail[i] EXCEPT !.box = b]
<1>2. x \in [box : Seq(Mails), stale : BOOLEAN] /\ x.box = b
  BY <1>1
<1>3. mail' = [j \in Interceptors |-> IF j = i THEN x ELSE mail[j]]
  BY <1>1
<1> HIDE DEF x
<1> QED
  BY <1>1, <1>2, <1>3 DEF BoxBecomes

(* One socket is marked stale.                                             *)
LEMMA StaleSet ==
  ASSUME ChecksTyped, NEW i \in Interceptors, mail' = [mail EXCEPT ![i].stale = TRUE]
  PROVE  BoxBecomes(i, mail[i].box)
<1>1. mail \in [Interceptors -> [box : Seq(Mails), stale : BOOLEAN]]
  BY DEF ChecksTyped
<1> DEFINE x == [mail[i] EXCEPT !.stale = TRUE]
<1>2. x \in [box : Seq(Mails), stale : BOOLEAN] /\ x.box = mail[i].box
  BY <1>1
<1>3. mail' = [j \in Interceptors |-> IF j = i THEN x ELSE mail[j]]
  BY <1>1
<1> HIDE DEF x
<1> QED
  BY <1>1, <1>2, <1>3 DEF BoxBecomes

(* A socket that loses replies, with the inboxes as they were.             *)
LEMMA FewerMail ==
  ASSUME ChecksTyped, NEW i \in Interceptors, NEW b, BoxBecomes(i, b), Within(b, mail[i].box, Mails),
         UNCHANGED <<inbox, chainOf, decided, sworn>>
  PROVE  ChecksTyped' /\ \A j \in Interceptors : FewerAt(j)
<1>1. ChecksTyped'
  BY DEF ChecksTyped, BoxBecomes
<1>2. \A j \in Interceptors : FewerAt(j)
  BY WithinSame DEF FewerAt, BoxBecomes
<1> QED
  BY <1>1, <1>2

(* Nothing of the inboxes and sockets changes.                             *)
LEMMA SameMail ==
  ASSUME ChecksTyped, UNCHANGED <<mail, inbox, chainOf, decided, sworn>>
  PROVE  ChecksTyped' /\ \A j \in Interceptors : FewerAt(j)
BY WithinSame DEF FewerAt, ChecksTyped

(* The call to the driver: the chain is through.                           *)
LEMMA DeviceCallThrough ==
  ASSUME Configured, LaneInv, CheckInv, CallDevice,
         NEW x, x = [req |-> Held("device").req, params |-> hand["device"].params]
  PROVE  ThroughChain(x)
<1> DEFINE c == hand["device"].task.req
           k == Len(chainOf[c])
<1>1. /\ hand["device"] # Idle /\ hand["device"].wait = None
      /\ ~(hand["device"].at <= Len(hand["device"].task.chain))
      /\ x.req = c /\ x.params = hand["device"].params
  BY DEF CallDevice, Working, InChain, Held
<1>2. c \in Commands /\ hand["device"].task.chain = chainOf[c]
  BY <1>1 DEF CheckInv, Follows
<1>3. ProgressOf(c, hand["device"].at, hand["device"].params, hand["device"].wait)
  BY <1>1 DEF CheckInv, Progress
<1>4. hand["device"].at \in Nat
  BY <1>1, HandTyped DEF Lanes
<1>5. chainOf[c] \in Seq(Interceptors)
  BY <1>2 DEF CheckInv, ChecksTyped
<1>6. k \in Nat /\ DOMAIN chainOf[c] = 1 .. k /\ \A n \in 1 .. k : chainOf[c][n] \in Interceptors
  BY <1>5
<1> HIDE DEF c, k
<1>7. hand["device"].at - 1 = k
  <2>1. hand["device"].at <= k + 1 /\ ~(hand["device"].at <= k)
    BY <1>1, <1>2, <1>3 DEF ProgressOf, k
  <2> QED
    BY <1>4, <1>6, <2>1
<1>8. Passed(c, k) /\ hand["device"].params = Cardinality(Transformed(c, k))
  BY <1>3, <1>7 DEF ProgressOf
<1>9. Transformed(c, k) = {i \in ToSet(chainOf[c]) : decided[c][i] = "transform"}
  <2>1. \A i : i \in ToSet(chainOf[c]) <=> \E n \in 1 .. k : chainOf[c][n] = i
    BY <1>6 DEF ToSet
  <2> QED
    BY <1>6, <2>1 DEF Transformed
<1>10. \A i \in Interceptors : ~Asked(c, i) /\ ~Told(c, i)
  BY <1>1, Silent DEF Configured, c
<1> QED
  BY <1>1, <1>6, <1>8, <1>9, <1>10 DEF ThroughChain, Passed, c

(* The device worker sends a check: the only one of its command.           *)
LEMMA CallChecks == ASSUME Configured, LaneInv, CheckInv, CallInterceptor, UNCHANGED ghosts PROVE CheckInv'
<1>c. PICK c, at, i, p : /\ c = hand["device"].task.req /\ at = hand["device"].at /\ i = chainOf[c][at]
                         /\ p = hand["device"].params
  OBVIOUS
<1> DEFINE ep == Held("device").eps[Turn]
<1>0. "device" \in Lanes /\ None \notin Interceptors
  BY DEF Lanes, Configured
<1>1. /\ hand["device"] # Idle /\ hand["device"].wait = None
      /\ at <= Len(hand["device"].task.chain)
      /\ Turn = hand["device"].task.chain[at]
      /\ mail' = [mail EXCEPT ![Turn] = Reused(mail[Turn], ep)]
      /\ hand' = [hand EXCEPT !["device"].wait = Turn]
      /\ \/ inbox' = inbox
         \/ inbox' = [inbox EXCEPT ![Turn] = Append(inbox[Turn], [kind |-> "check", req |-> c])]
      /\ UNCHANGED <<queue, status, executed, chainOf, decided, sworn>>
  BY <1>c DEF CallInterceptor, Working, InChain, Held, Turn, device, ghosts
<1>2. c \in Commands /\ hand["device"].task.chain = chainOf[c] /\ c \in ReqsOf("device")
  BY <1>1, <1>c, LaneMembers DEF CheckInv, Follows
<1>3. ProgressOf(c, at, p, None)
  BY <1>1, <1>c DEF CheckInv, Progress
<1>4. /\ at \in Nat /\ hand = [l \in Lanes |-> hand[l]]
      /\ hand["device"] = [task |-> hand["device"].task, at |-> at,
                           params |-> hand["device"].params, wait |-> hand["device"].wait]
  BY <1>0, <1>1, <1>c, HandTyped
<1>5. /\ inbox \in [Interceptors -> Seq(InboxSet)]
      /\ mail \in [Interceptors -> [box : Seq(Mails), stale : BOOLEAN]]
      /\ chainOf[c] \in Seq(Interceptors)
  BY <1>2 DEF CheckInv, ChecksTyped
<1>6. Len(chainOf[c]) \in Nat /\ at <= Len(chainOf[c]) /\ at \in 1 .. Len(chainOf[c]) /\ i \in Interceptors /\ Turn = i
  <2>1. Len(chainOf[c]) \in Nat /\ at <= Len(chainOf[c]) /\ Turn = i
    <3>1. at <= Len(hand["device"].task.chain) /\ Turn = hand["device"].task.chain[at]
      BY <1>1
    <3>2. hand["device"].task.chain = chainOf[c] /\ i = chainOf[c][at]
      BY <1>2, <1>c
    <3>3. Len(chainOf[c]) \in Nat
      BY <1>5
    <3> QED
      BY <3>1, <3>2, <3>3, Zenon
  <2>2. at \in 1 .. Len(chainOf[c])
    BY <1>3, <1>4, <2>1 DEF ProgressOf
  <2> QED
    BY <1>5, <1>c, <2>1, <2>2, ElementOfSeq
<1> DEFINE h == [task |-> hand["device"].task, at |-> at, params |-> hand["device"].params, wait |-> i]
<1>7. hand'["device"] = h /\ \A l \in Lanes : l # "device" => hand'[l] = hand[l]
  <2>1. [hand["device"] EXCEPT !.wait = i] = h
    BY <1>4
  <2> HIDE DEF h
  <2> QED
    BY <1>0, <1>1, <1>4, <1>6, <2>1
<1>8. /\ hand'["device"] # Idle /\ hand'["device"].task = hand["device"].task /\ hand'["device"].at = at
      /\ hand'["device"].params = hand["device"].params /\ hand'["device"].wait = i
  <2>1. h # Idle
    <3>1. "at" \in DOMAIN h /\ "at" \notin DOMAIN Idle
      BY DEF Idle
    <3> QED
      BY <3>1
  <2> QED
    BY <1>7, <2>1
<1> DEFINE b == Reused(mail[i], ep).box
<1>9. b \in Seq(Mails) /\ Reused(mail[i], ep) \in [box : Seq(Mails), stale : BOOLEAN] /\ Within(b, mail[i].box, Mails)
  <2>1. mail[i].box \in Seq(Mails)
    BY <1>5, <1>6
  <2> DEFINE I == {n \in DOMAIN mail[i].box : mail[i].box[n].inc = ep}
  <2>2. b = IF mail[i].stale THEN <<>> ELSE Subsequence(mail[i].box, I)
    BY DEF Reused
  <2>3. Reused(mail[i], ep) = [box |-> b, stale |-> FALSE]
    BY DEF Reused
  <2>4. I \in SUBSET DOMAIN mail[i].box
    OBVIOUS
  <2> HIDE DEF I, b
  <2>7. ASSUME b \in Seq(Mails) PROVE Reused(mail[i], ep) \in [box : Seq(Mails), stale : BOOLEAN]
    <3>1. [box |-> b, stale |-> FALSE] \in [box : Seq(Mails), stale : BOOLEAN]
      BY <2>7
    <3> QED
      BY <2>3, <3>1, Zenon
  <2>5. CASE b = <<>>
    <3>1. b \in Seq(Mails)
      BY <2>5
    <3> QED
      BY <2>5, <2>7, <3>1, WithinNone, Zenon
  <2>6. CASE b = Subsequence(mail[i].box, I)
    <3>1. b \in Seq(Mails) /\ Within(b, mail[i].box, Mails)
      BY <2>1, <2>4, <2>6, SubsequenceElements, WithinSubsequence
    <3> QED
      BY <2>7, <3>1, Zenon
  <2> QED
    BY <2>2, <2>5, <2>6
<1> HIDE DEF b, h, ep
<1>10. BoxBecomes(i, b)
  <2>1. mail' = [j \in Interceptors |-> IF j = i THEN Reused(mail[i], ep) ELSE mail[j]]
    BY <1>1, <1>5, <1>6
  <2>2. Reused(mail[i], ep).box = b
    BY DEF b
  <2> QED
    BY <1>5, <1>6, <1>9, <2>1, <2>2 DEF BoxBecomes
<1>11. \A j \in Interceptors : ~Asked(c, j) /\ ~Told(c, j)
  BY <1>0, <1>1, <1>c, Silent
<1>12. CheckOf(c) \in InboxSet
  BY <1>2 DEF InboxSet, Checks
<1>13. /\ inbox' \in [Interceptors -> Seq(InboxSet)]
       /\ \A j \in Interceptors : j # i => inbox'[j] = inbox[j]
       /\ inbox'[i] = inbox[i] \/ inbox'[i] = Append(inbox[i], CheckOf(c))
  <2>1. Append(inbox[i], CheckOf(c)) \in Seq(InboxSet)
    BY <1>5, <1>6, <1>12
  <2> QED
    BY <1>1, <1>5, <1>6, <2>1 DEF CheckOf
<1>14. ChecksTyped'
  BY <1>1, <1>10, <1>13 DEF CheckInv, ChecksTyped, BoxBecomes
<1>15. inbox[i] \in Seq(InboxSet) /\ Len(inbox[i]) \in Nat /\ DOMAIN inbox[i] = 1 .. Len(inbox[i])
  BY <1>5, <1>6
<1>16. \A n \in DOMAIN inbox'[i] : \/ n \in DOMAIN inbox[i] /\ inbox'[i][n] = inbox[i][n]
                                   \/ n = Len(inbox[i]) + 1 /\ inbox'[i][n] = CheckOf(c)
  <2>1. CASE inbox'[i] = inbox[i]
    BY <2>1
  <2>2. CASE inbox'[i] = Append(inbox[i], CheckOf(c))
    BY <1>12, <1>15, <2>2
  <2> QED
    BY <1>13, <2>1, <2>2
<1>17. \A d \in Commands, j \in Interceptors : Told(d, j)' => Told(d, j)
  <2> SUFFICES ASSUME NEW d \in Commands, NEW j \in Interceptors, Told(d, j)' PROVE Told(d, j)
    OBVIOUS
  <2>1. CASE j # i
    BY <1>6, <1>10, <2>1 DEF Told, BoxBecomes
  <2>2. CASE j = i
    <3>1. PICK f : From(f, b, mail[i].box, Mails)
      BY <1>9 DEF Within
    <3>2. PICK n \in DOMAIN b : b[n].req = d
      BY <1>10, <2>2 DEF Told, BoxBecomes
    <3>3. b[n] \in Mails
      BY <1>9, <3>2
    <3> QED
      BY <2>2, <3>1, <3>2, <3>3 DEF From, Told
  <2> QED
    BY <2>1, <2>2
<1>18. \A d \in Commands, j \in Interceptors : d # c /\ Asked(d, j)' => Asked(d, j)
  <2> SUFFICES ASSUME NEW d \in Commands, NEW j \in Interceptors, d # c, Asked(d, j)' PROVE Asked(d, j)
    OBVIOUS
  <2>1. CheckOf(d) # CheckOf(c)
    BY DEF CheckOf
  <2>2. PICK n \in DOMAIN inbox'[j] : inbox'[j][n] = CheckOf(d)
    BY DEF Asked, CheckOf
  <2> QED
    BY <1>13, <1>16, <2>1, <2>2 DEF Asked
<1>19. ReqsOf("device")' = ReqsOf("device")
  BY <1>1, <1>8 DEF ReqsOf, Held
<1>20. Asking(c, i)'
  BY <1>8, <1>c DEF Asking
<1>21. Quiet'
  <2> SUFFICES ASSUME NEW d \in Commands, NEW j \in Interceptors, Asked(d, j)' \/ Told(d, j)'
               PROVE  Asking(d, j)' \/ Over(d)'
    BY DEF Quiet
  <2>1. CASE d = c
    <3>1. ~(Told(d, j)')
      BY <1>11, <1>17, <2>1
    <3>2. j = i
      <4> SUFFICES ASSUME j # i PROVE FALSE
        OBVIOUS
      <4>1. Asked(d, j)
        BY <1>13, <3>1 DEF Asked, CheckOf
      <4> QED
        BY <1>11, <2>1, <4>1
    <3> QED
      BY <1>20, <2>1, <3>2
  <2>2. CASE d # c
    <3>1. Asked(d, j) \/ Told(d, j)
      BY <1>17, <1>18, <2>2
    <3>2. ~Asking(d, j)
      BY <1>c, <2>2 DEF Asking
    <3>3. Over(d)
      BY <3>1, <3>2 DEF CheckInv, Quiet
    <3> QED
      BY <1>1, <1>19, <3>3 DEF Over, Begun
  <2> QED
    BY <2>1, <2>2
<1>22. Once'
  <2> SUFFICES ASSUME NEW d \in Commands, NEW j \in Interceptors, Asking(d, j)' PROVE OnceOf(d, j)'
    BY DEF Once
  <2>1. d = c /\ j = i
    BY <1>8, <1>c DEF Asking
  <2>2. \A n \in DOMAIN inbox[i] : inbox[i][n] # CheckOf(c)
    BY <1>6, <1>11 DEF Asked
  <2>3. \A m, n \in DOMAIN inbox'[i] : inbox'[i][m] = CheckOf(c) /\ inbox'[i][n] = CheckOf(c) => m = n
    BY <1>16, <2>2
  <2>4. ~(Told(c, i)')
    BY <1>2, <1>6, <1>11, <1>17
  <2>5. \A n \in DOMAIN mail'[i].box : mail'[i].box[n].req # c
    BY <2>4 DEF Told
  <2> QED
    BY <2>1, <2>3, <2>4, <2>5 DEF OnceOf, CheckOf
<1>23. ExecutedOver'
  BY <1>1, <1>19 DEF CheckInv, ExecutedOver, Begun
<1>24. Follows' /\ Distinct' /\ SwornInChain' /\ CheckedByItsChain'
  <2>1. Follows'
    BY <1>1, <1>8 DEF CheckInv, Follows
  <2>2. UNCHANGED <<executed, chainOf, decided, sworn>>
    BY <1>1
  <2> QED
    BY <2>1, <2>2, ChainsSame
<1>25. Progress'
  <2>1. chainOf' = chainOf /\ decided' = decided
    BY <1>1
  <2>2. ProgressOf(c, at, p, i)'
    BY <1>3, <1>6, <1>c, <2>1 DEF ProgressOf, Passed, Transformed
  <2> QED
    BY <1>8, <1>c, <2>2 DEF Progress, ProgressOf, Passed, Transformed
<1> QED
  BY <1>14, <1>21, <1>22, <1>23, <1>24, <1>25 DEF CheckInv

(* One more of the chain let the command pass.                             *)
LEMMA OneMorePassed ==
  ASSUME Configured, CheckInv, NEW c \in Commands, NEW at \in Nat, NEW p, NEW v, NEW i,
         ProgressOf(c, at, p, i), i \in Interceptors, v \in {"allow", "transform"}, decided[c][i] = v
  PROVE  ProgressOf(c, at + 1, IF v = "transform" THEN p + 1 ELSE p, None)
<1>1. chainOf[c] \in Seq(Interceptors)
  BY DEF CheckInv, ChecksTyped
<1>2. Len(chainOf[c]) \in Nat /\ DOMAIN chainOf[c] = 1 .. Len(chainOf[c])
  BY <1>1
<1>3. /\ 1 <= at /\ at <= Len(chainOf[c]) /\ chainOf[c][at] = i
      /\ Passed(c, at - 1) /\ p = Cardinality(Transformed(c, at - 1))
  BY DEF ProgressOf, Configured
<1>4. \A n \in 1 .. (at + 1) - 1 : n \in 1 .. at - 1 \/ n = at
  BY <1>3
<1>5. Passed(c, (at + 1) - 1)
  BY <1>3, <1>4 DEF Passed
<1>6. ASSUME NEW n \in 1 .. at - 1 PROVE chainOf[c][n] # i
  <2>1. n \in DOMAIN chainOf[c] /\ at \in DOMAIN chainOf[c] /\ n # at
    BY <1>2, <1>3
  <2> QED
    BY <1>3, <2>1 DEF CheckInv, Distinct
<1>7. i \notin Transformed(c, at - 1)
  BY <1>6 DEF Transformed
<1>8. IsFiniteSet(Transformed(c, at - 1))
  BY FS_Subset DEF Transformed, Configured
<1>9. at \in 1 .. (at + 1) - 1 /\ \A n \in 1 .. at - 1 : n \in 1 .. (at + 1) - 1
  BY <1>3
<1>10. CASE v = "transform"
  <2>1. Transformed(c, (at + 1) - 1) = Transformed(c, at - 1) \cup {i}
    <3>1. \A j : (\E n \in 1 .. (at + 1) - 1 : chainOf[c][n] = j) <=> (j = i \/ \E n \in 1 .. at - 1 : chainOf[c][n] = j)
      BY <1>3, <1>4, <1>9
    <3> QED
      BY <1>10, <3>1 DEF Transformed
  <2>2. Cardinality(Transformed(c, (at + 1) - 1)) = p + 1
    BY <1>3, <1>7, <1>8, <2>1, FS_AddElement
  <2> QED
    BY <1>2, <1>3, <1>5, <1>10, <2>2 DEF ProgressOf
<1>11. CASE v = "allow"
  <2>1. Transformed(c, (at + 1) - 1) = Transformed(c, at - 1)
    <3>1. \A j : (\E n \in 1 .. (at + 1) - 1 : chainOf[c][n] = j) <=> (j = i \/ \E n \in 1 .. at - 1 : chainOf[c][n] = j)
      BY <1>3, <1>4, <1>9
    <3> QED
      BY <1>11, <3>1 DEF Transformed
  <2> QED
    BY <1>2, <1>3, <1>5, <1>11, <2>1 DEF ProgressOf
<1> QED
  BY <1>10, <1>11

(* The decision on the command in hand lets it on.                         *)
LEMMA PassChecks ==
  ASSUME Configured, LaneInv, CheckInv, ReceiveDecision, UNCHANGED ghosts,
         Correlated(Head(mail[hand["device"].wait].box)), LetsPass(Head(mail[hand["device"].wait].box))
  PROVE  CheckInv'
<1>0. "device" \in Lanes /\ None \notin Interceptors
  BY DEF Lanes, Configured
<1>c. PICK c, at, i, p, m, b : /\ c = hand["device"].task.req /\ at = hand["device"].at
                               /\ i = hand["device"].wait /\ p = hand["device"].params
                               /\ b = mail[i].box /\ m = Head(b)
  OBVIOUS
<1>1. /\ hand["device"] # Idle /\ i \in Interceptors /\ b # <<>>
      /\ mail' = [mail EXCEPT ![i].box = Tail(b)]
      /\ hand' = [hand EXCEPT !["device"].wait = None, !["device"].at = at + 1,
                              !["device"].params = NewParams(m, p)]
      /\ m.req = c /\ m.verdict \in {"allow", "transform"}
      /\ UNCHANGED <<queue, status, executed, inbox, chainOf, decided, sworn>>
  BY <1>c DEF ReceiveDecision, Working, Correlated, LetsPass, Held, device, ghosts
<1>2. c \in Commands /\ c \in ReqsOf("device") /\ hand["device"].task.chain = chainOf[c]
  BY <1>1, <1>c, LaneMembers DEF CheckInv, Follows
<1>3. ProgressOf(c, at, p, i)
  BY <1>1, <1>c DEF CheckInv, Progress
<1>4. /\ at \in Nat /\ hand = [l \in Lanes |-> hand[l]]
      /\ hand["device"] = [task |-> hand["device"].task, at |-> at, params |-> p, wait |-> i]
  BY <1>0, <1>1, <1>c, HandTyped
<1>5. mail \in [Interceptors -> [box : Seq(Mails), stale : BOOLEAN]] /\ b \in Seq(Mails)
  BY <1>1, <1>c DEF CheckInv, ChecksTyped
<1>6. OnceOf(c, i)
  <2>1. Asking(c, i)
    BY <1>1, <1>c DEF Asking
  <2> QED
    BY <1>1, <1>2, <2>1 DEF CheckInv, Once
<1>7. m = b[1] /\ 1 \in DOMAIN b /\ Tail(b) \in Seq(Mails)
  <2>1. b \in Seq(Mails) /\ b # <<>> /\ m = Head(b)
    BY <1>1, <1>5, <1>c
  <2>2. Len(b) \in Nat /\ DOMAIN b = 1 .. Len(b) /\ Len(b) # 0
    BY <2>1, LenProperties, EmptySeq
  <2>3. Tail(b) \in Seq(Mails)
    BY <2>1, HeadTailProperties
  <2> QED
    BY <2>1, <2>2, <2>3
<1>8. m.verdict = decided[c][i] /\ Told(c, i) /\ ~Asked(c, i)
  BY <1>1, <1>6, <1>7, <1>c DEF OnceOf, Told
<1>9. BoxBecomes(i, Tail(b))
  BY <1>1, <1>7, BoxSet DEF CheckInv
<1>10. ChecksTyped' /\ \A j \in Interceptors : FewerAt(j)
  <2>1. Within(Tail(b), mail[i].box, Mails)
    BY <1>1, <1>5, <1>c, WithinTail
  <2>2. ChecksTyped
    BY DEF CheckInv
  <2>3. UNCHANGED <<inbox, chainOf, decided, sworn>>
    BY <1>1
  <2> QED
    BY <1>1, <1>9, <2>1, <2>2, <2>3, FewerMail
<1>11. \A d \in Commands, j \in Interceptors : (Asked(d, j)' => Asked(d, j)) /\ (Told(d, j)' => Told(d, j))
  BY <1>10, FewerKeeps
<1>12. ~(Told(c, i)')
  <2> SUFFICES ASSUME Told(c, i)' PROVE FALSE
    OBVIOUS
  <2>1. PICK n \in DOMAIN Tail(b) : Tail(b)[n].req = c
    BY <1>9 DEF Told, BoxBecomes
  <2>2. n + 1 \in DOMAIN b /\ b[n + 1].req = c /\ n + 1 # 1
    BY <1>1, <1>5, <2>1
  <2> QED
    BY <1>1, <1>6, <1>7, <1>c, <2>2 DEF OnceOf
<1> DEFINE q == IF m.verdict = "transform" THEN p + 1 ELSE p
           h == [task |-> hand["device"].task, at |-> at + 1, params |-> q, wait |-> None]
           x == [hand["device"] EXCEPT !.wait = None]
           y == [x EXCEPT !.at = at + 1]
           z == [y EXCEPT !.params = q]
<1>13. hand'["device"] = h
  <2>1. NewParams(m, p) = q
    BY DEF NewParams
  <2> HIDE DEF q
  <2>2. hand'["device"] = z
    BY <1>0, <1>1, <1>4, <2>1
  <2>3. x = [task |-> hand["device"].task, at |-> at, params |-> p, wait |-> None]
    BY <1>4
  <2>4. y = [task |-> hand["device"].task, at |-> at + 1, params |-> p, wait |-> None]
    <3> HIDE DEF x
    <3> QED
      BY <2>3
  <2>5. z = h
    <3> HIDE DEF y
    <3> QED
      BY <2>4
  <2> QED
    BY <2>2, <2>5
<1>14. /\ hand'["device"] # Idle /\ hand'["device"].task = hand["device"].task /\ hand'["device"].at = at + 1
       /\ hand'["device"].params = q /\ hand'["device"].wait = None
  <2>1. h # Idle
    <3>1. "at" \in DOMAIN h /\ "at" \notin DOMAIN Idle
      BY DEF Idle
    <3> QED
      BY <3>1
  <2> HIDE DEF q
  <2> QED
    BY <1>13, <2>1
<1> HIDE DEF h, x, y, z
<1>15. ReqsOf("device")' = ReqsOf("device")
  BY <1>1, <1>14 DEF ReqsOf, Held
<1>16. Quiet'
  <2> SUFFICES ASSUME NEW d \in Commands, NEW j \in Interceptors, Asked(d, j)' \/ Told(d, j)'
               PROVE  Over(d)'
    BY DEF Quiet
  <2>1. Asking(d, j) \/ Over(d)
    BY <1>11 DEF CheckInv, Quiet
  <2>2. ~Asking(d, j)
    <3> SUFFICES ASSUME Asking(d, j) PROVE FALSE
      OBVIOUS
    <3>1. d = c /\ j = i
      BY <1>c DEF Asking
    <3> QED
      BY <1>8, <1>11, <1>12, <3>1
  <2>3. UNCHANGED <<status, executed>>
    BY <1>1
  <2> QED
    BY <1>15, <2>1, <2>2, <2>3 DEF Over, Begun
<1>17. Once'
  <2>1. \A d \in Commands, j \in Interceptors : ~(Asking(d, j)')
    BY <1>0, <1>14 DEF Asking
  <2> QED
    BY <2>1 DEF Once
<1>18. ExecutedOver'
  <2>1. UNCHANGED <<status, executed>>
    BY <1>1
  <2> QED
    BY <1>15, <2>1 DEF CheckInv, ExecutedOver, Begun
<1>19. Follows'
  BY <1>1, <1>14 DEF CheckInv, Follows
<1>20. Distinct' /\ SwornInChain' /\ CheckedByItsChain'
  <2>1. UNCHANGED <<executed, chainOf, decided, sworn>>
    BY <1>1
  <2> QED
    BY <2>1, ChainsSame
<1>21. Progress'
  <2>1. chainOf' = chainOf /\ decided' = decided
    BY <1>1
  <2>2. ProgressOf(c, at + 1, q, None)
    BY <1>1, <1>2, <1>3, <1>4, <1>8, OneMorePassed
  <2> HIDE DEF q
  <2>3. PICK r : r = q
    OBVIOUS
  <2>4. ProgressOf(c, at + 1, r, None)'
    BY <2>1, <2>2, <2>3 DEF ProgressOf, Passed, Transformed
  <2> QED
    BY <1>14, <1>c, <2>3, <2>4 DEF Progress, ProgressOf, Passed, Transformed
<1> QED
  BY <1>10, <1>16, <1>17, <1>18, <1>19, <1>20, <1>21 DEF CheckInv

(* The device worker.                                                      *)
LEMMA DeviceWorkerChecks == ASSUME Configured, LaneInv, CheckInv, DeviceWorker PROVE CheckInv'
<1>0. "ok" \in Codes /\ "failed" \in Codes /\ ChecksTyped /\ UNCHANGED ghosts
  BY DEF Codes, CheckInv, DeviceWorker
<1>1. UNCHANGED <<decided, sworn>>
  BY <1>0 DEF ghosts
<1>2. CASE DriverUnavailable \/ InterceptorUnavailable
  <2>1. /\ hand["device"] # Idle /\ Finish("device", "failed")
        /\ UNCHANGED <<mail, inbox, chainOf, executed, status>>
    BY <1>2 DEF DriverUnavailable, InterceptorUnavailable, Working, device
  <2>2. ChecksTyped' /\ \A i \in Interceptors : FewerAt(i)
    BY <1>0, <1>1, <2>1, SameMail
  <2> QED
    BY <1>0, <1>1, <2>1, <2>2, FinishChecks
<1>3. CASE CallInterceptor
  BY <1>0, <1>3, CallChecks
<1>4. CASE InterceptorTimeout
  <2>1. /\ hand["device"] # Idle /\ Finish("device", "failed") /\ hand["device"].wait \in Interceptors
        /\ mail' = [mail EXCEPT ![hand["device"].wait].stale = TRUE]
        /\ UNCHANGED <<inbox, chainOf, executed, status>>
    BY <1>4 DEF InterceptorTimeout, Working, device
  <2>2. BoxBecomes(hand["device"].wait, mail[hand["device"].wait].box)
    BY <1>0, <2>1, StaleSet
  <2>3. ChecksTyped' /\ \A i \in Interceptors : FewerAt(i)
    BY <1>0, <1>1, <2>1, <2>2, FewerMail, WithinSame
  <2> QED
    BY <1>0, <1>1, <2>1, <2>3, FinishChecks
<1>5. CASE CallDevice
  <2> DEFINE x == [req |-> Held("device").req, params |-> hand["device"].params]
  <2>1. /\ hand["device"] # Idle /\ \E code \in Codes : Finish("device", code)
        /\ executed' = executed \/ executed' = executed \cup {x}
        /\ UNCHANGED <<mail, inbox, chainOf, status>>
    BY <1>0, <1>5 DEF CallDevice, Working
  <2>2. ThroughChain(x)
    BY <1>5, DeviceCallThrough
  <2> HIDE DEF x
  <2>3. /\ \A y \in executed' : y \in executed \/ ThroughChain(y)
        /\ executed \subseteq executed'
    BY <2>1, <2>2
  <2>4. ChecksTyped' /\ \A i \in Interceptors : FewerAt(i)
    BY <1>0, <1>1, <2>1, SameMail
  <2> QED
    BY <1>1, <2>1, <2>3, <2>4, FinishChecks
<1>6. CASE ReceiveDecision
  <2> DEFINE i == hand["device"].wait
             b == mail[i].box
  <2>1. /\ hand["device"] # Idle /\ i \in Interceptors /\ b # <<>>
        /\ mail' = [mail EXCEPT ![i].box = Tail(b)]
        /\ UNCHANGED <<inbox, chainOf, executed, status>>
    BY <1>6 DEF ReceiveDecision, Working, device
  <2>2. b \in Seq(Mails)
    BY <1>0, <2>1 DEF ChecksTyped
  <2>3. Tail(b) \in Seq(Mails) /\ Within(Tail(b), b, Mails)
    <3> HIDE DEF b
    <3> QED
      BY <2>1, <2>2, WithinTail, HeadTailProperties
  <2>4. BoxBecomes(i, Tail(b))
    BY <1>0, <2>1, <2>3, BoxSet
  <2>5. ChecksTyped' /\ \A j \in Interceptors : FewerAt(j)
    BY <1>0, <1>1, <2>1, <2>3, <2>4, FewerMail
  <2>6. CASE ~Correlated(Head(b))
    <3>1. UNCHANGED <<queue, hand>>
      BY <1>6, <2>6 DEF ReceiveDecision, workers
    <3>2. Onward
      BY <2>1 DEF Onward, Begun
    <3> QED
      BY <1>1, <2>1, <2>5, <3>1, <3>2, CalmKeeps
  <2>7. CASE Correlated(Head(b)) /\ LetsPass(Head(b))
    BY <1>0, <1>6, <2>7, PassChecks
  <2>8. CASE Correlated(Head(b)) /\ ~LetsPass(Head(b))
    <3>1. Finish("device", "failed")
      BY <1>6, <2>8 DEF ReceiveDecision
    <3> QED
      BY <1>0, <1>1, <2>1, <2>5, <3>1, FinishChecks
  <2> QED
    BY <2>6, <2>7, <2>8
<1> QED
  BY <1>2, <1>3, <1>4, <1>5, <1>6 DEF DeviceWorker

(* What a rule can say.                                                    *)
LEMMA VerdictsTyped == ASSUME NEW i, NEW c PROVE Verdicts(i, c) \subseteq VerdictSet
<1>1. ASSUME NEW s, NEW q, NEW o, NEW t \in {"none", "params", "error"}
      PROVE  Evaluate(s, q, o, t) \in VerdictSet
  <2>1. CASE TelemetryError(s, q)
    BY <2>1 DEF Evaluate, VerdictSet
  <2>2. CASE ~TelemetryError(s, q) /\ ~ConditionHolds(o)
    BY <2>2 DEF Evaluate, VerdictSet
  <2>3. CASE ~TelemetryError(s, q) /\ ConditionHolds(o)
    BY <2>3 DEF Evaluate, VerdictSet
  <2> QED
    BY <2>1, <2>2, <2>3
<1> QED
  BY <1>1 DEF Verdicts, VerdictSet

(* An interlock decides on a check: on the command that is asking, or on   *)
(* one that is over.                                                       *)
LEMMA CheckChecks == ASSUME Configured, LaneInv, RouteInv, CheckInv, NEW i \in Interceptors, Check(i) PROVE CheckInv'
<1>c. PICK b, s, c : b = mail[i].box /\ s = inbox[i] /\ c = Head(s).req
  OBVIOUS
<1>1. /\ inbox \in [Interceptors -> Seq(InboxSet)] /\ s \in Seq(InboxSet)
      /\ mail \in [Interceptors -> [box : Seq(Mails), stale : BOOLEAN]] /\ b \in Seq(Mails)
      /\ decided \in [Commands -> [Interceptors -> VerdictSet \cup {None}]]
  BY <1>c DEF CheckInv, ChecksTyped
<1>2. PICK v \in VerdictSet :
        /\ mail' = [mail EXCEPT ![i].box = Append(b, [req |-> c, verdict |-> v, inc |-> live[i]])]
        /\ decided' = [decided EXCEPT ![c][i] = v]
  BY <1>c, VerdictsTyped DEF Check
<1>3. /\ s # <<>> /\ Head(s).kind = "check" /\ inbox' = [inbox EXCEPT ![i] = Tail(s)]
      /\ UNCHANGED <<queue, hand, status, executed, chainOf, sworn>>
  BY <1>c DEF Check, workers, device
<1>4. /\ Head(s) = s[1] /\ 1 \in DOMAIN s /\ s[1] \in InboxSet /\ Tail(s) \in Seq(InboxSet)
      /\ \A n \in DOMAIN Tail(s) : n + 1 \in DOMAIN s /\ n + 1 # 1 /\ Tail(s)[n] = s[n + 1] /\ n \in Nat
  BY <1>1, <1>3
<1>5. c \in Commands /\ s[1] = CheckOf(c)
  <2>1. s[1].kind = "check" /\ c = s[1].req
    BY <1>3, <1>4, <1>c
  <2>2. ~(s[1] \in [kind : {"rpc"}, req : Requests])
    BY <2>1
  <2>3. PICK d \in Commands : s[1] = CheckOf(d)
    BY <1>4, <2>2 DEF InboxSet, Checks
  <2>4. c = d
    BY <2>1, <2>3 DEF CheckOf
  <2> QED
    BY <2>3, <2>4
<1> DEFINE e == [req |-> c, verdict |-> v, inc |-> live[i]]
           t == Append(b, e)
<1>6. e \in Mails /\ e.req = c /\ e.verdict = v
  BY <1>2, <1>5 DEF Mails, RouteInv, RoutesTyped
<1>7. /\ t \in Seq(Mails) /\ Len(b) \in Nat
      /\ \A n \in DOMAIN t : \/ n \in DOMAIN b /\ t[n] = b[n]
                             \/ n = Len(b) + 1 /\ t[n] = e
      /\ \A n \in DOMAIN b : n \in Nat /\ n # Len(b) + 1
  <2> HIDE DEF e
  <2> QED
    BY <1>1, <1>6
<1>8. BoxBecomes(i, t)
  <2> HIDE DEF t
  <2> QED
    BY <1>2, <1>7, BoxSet DEF CheckInv, t
<1> HIDE DEF e, t
<1>9. /\ inbox' \in [Interceptors -> Seq(InboxSet)] /\ inbox'[i] = Tail(s)
      /\ \A j \in Interceptors : j # i => inbox'[j] = inbox[j]
  BY <1>1, <1>3, <1>4
<1>10. /\ decided' \in [Commands -> [Interceptors -> VerdictSet \cup {None}]]
       /\ decided'[c][i] = v
       /\ \A d \in Commands, j \in Interceptors : d # c \/ j # i => decided'[d][j] = decided[d][j]
  <2> DEFINE g == [decided[c] EXCEPT ![i] = v]
  <2>1. g \in [Interceptors -> VerdictSet \cup {None}] /\ g[i] = v /\ \A j \in Interceptors : j # i => g[j] = decided[c][j]
    BY <1>1, <1>5
  <2>2. decided' = [d \in Commands |-> IF d = c THEN g ELSE decided[d]]
    BY <1>1, <1>2, <1>5
  <2> HIDE DEF g
  <2> QED
    BY <1>1, <1>5, <2>1, <2>2
<1>11. ChecksTyped'
  BY <1>3, <1>8, <1>9, <1>10 DEF CheckInv, ChecksTyped, BoxBecomes
<1>12. Asked(c, i)
  BY <1>4, <1>5, <1>c DEF Asked
<1>13. Asking(c, i) \/ Over(c)
  BY <1>5, <1>12 DEF CheckInv, Quiet
<1>14. \A d \in Commands, j \in Interceptors : Asked(d, j)' => Asked(d, j)
  <2> SUFFICES ASSUME NEW d \in Commands, NEW j \in Interceptors, Asked(d, j)' PROVE Asked(d, j)
    OBVIOUS
  <2>1. PICK n \in DOMAIN inbox'[j] : inbox'[j][n] = CheckOf(d)
    BY DEF Asked, CheckOf
  <2>2. CASE j = i
    <3>1. n \in DOMAIN Tail(s) /\ Tail(s)[n] = CheckOf(d)
      BY <1>9, <2>1, <2>2
    <3>2. n + 1 \in DOMAIN inbox[i] /\ inbox[i][n + 1] = CheckOf(d)
      BY <1>4, <1>c, <3>1
    <3> QED
      BY <2>2, <3>2 DEF Asked
  <2>3. CASE j # i
    BY <1>9, <2>1, <2>3 DEF Asked
  <2> QED
    BY <2>2, <2>3
<1>15. \A d \in Commands, j \in Interceptors : Told(d, j)' => Told(d, j) \/ (d = c /\ j = i)
  <2> SUFFICES ASSUME NEW d \in Commands, NEW j \in Interceptors, Told(d, j)'
               PROVE  Told(d, j) \/ (d = c /\ j = i)
    OBVIOUS
  <2>1. PICK n \in DOMAIN mail'[j].box : mail'[j].box[n].req = d
    BY DEF Told
  <2>2. CASE j = i
    BY <1>6, <1>7, <1>8, <1>c, <2>1, <2>2 DEF Told, BoxBecomes
  <2>3. CASE j # i
    BY <1>8, <2>1, <2>3 DEF Told, BoxBecomes
  <2> QED
    BY <2>2, <2>3
<1>16. ReqsOf("device")' = ReqsOf("device") /\ UNCHANGED <<status, executed>>
  BY <1>3 DEF ReqsOf, Held
<1>17. \A d \in Commands, j \in Interceptors : (Asking(d, j)' <=> Asking(d, j)) /\ (Over(d) => Over(d)')
  BY <1>3, <1>16 DEF Asking, Over, Begun
<1>18. Quiet'
  <2> SUFFICES ASSUME NEW d \in Commands, NEW j \in Interceptors, Asked(d, j)' \/ Told(d, j)'
               PROVE  Asking(d, j)' \/ Over(d)'
    BY DEF Quiet
  <2>1. Asked(d, j) \/ Told(d, j) \/ (d = c /\ j = i)
    BY <1>14, <1>15
  <2>2. Asking(d, j) \/ Over(d)
    BY <1>13, <2>1 DEF CheckInv, Quiet
  <2> QED
    BY <1>17, <2>2
<1>19. Once'
  <2> SUFFICES ASSUME NEW d \in Commands, NEW j \in Interceptors, Asking(d, j) PROVE OnceOf(d, j)'
    BY <1>17 DEF Once
  <2>1. OnceOf(d, j)
    BY DEF CheckInv, Once
  <2>2. CASE j # i
    <3>1. inbox'[j] = inbox[j] /\ mail'[j] = mail[j] /\ decided'[d][j] = decided[d][j]
      BY <1>8, <1>9, <1>10, <2>2 DEF BoxBecomes
    <3>2. FewerAt(j)
      BY <3>1, WithinSame DEF FewerAt
    <3> QED
      BY <1>11, <2>1, <3>1, <3>2, FewerKeeps
  <2>3. CASE j = i
    <3>1. /\ \A m, n \in DOMAIN s : s[m] = CheckOf(d) /\ s[n] = CheckOf(d) => m = n
          /\ \A m, n \in DOMAIN b : b[m].req = d /\ b[n].req = d => m = n
          /\ \A n \in DOMAIN b : b[n].req = d => b[n].verdict = decided[d][i]
      BY <1>c, <2>1, <2>3 DEF OnceOf
    <3>2. \A m, n \in DOMAIN inbox'[i] : inbox'[i][m] = CheckOf(d) /\ inbox'[i][n] = CheckOf(d) => m = n
      <4>1. \A m, n \in DOMAIN Tail(s) : Tail(s)[m] = CheckOf(d) /\ Tail(s)[n] = CheckOf(d) => m + 1 = n + 1
        BY <1>4, <3>1
      <4>2. \A m, n \in DOMAIN Tail(s) : m + 1 = n + 1 => m = n
        BY <1>4
      <4> QED
        BY <1>9, <4>1, <4>2
    <3>3. CASE d = c
      <4>1. \A n \in DOMAIN b : b[n].req # c
        BY <1>12, <1>c, <2>1, <2>3, <3>3 DEF OnceOf, Told
      <4>2. ~(Asked(c, i)')
        <5> SUFFICES ASSUME Asked(c, i)' PROVE FALSE
          OBVIOUS
        <5>1. PICK n \in DOMAIN Tail(s) : Tail(s)[n] = CheckOf(c)
          BY <1>9 DEF Asked, CheckOf
        <5> QED
          BY <1>4, <1>5, <3>1, <3>3, <5>1
      <4>3. \A n \in DOMAIN t : t[n].req = c => n = Len(b) + 1 /\ t[n].verdict = v
        BY <1>6, <1>7, <4>1
      <4>4. mail'[i].box = t
        BY <1>8 DEF BoxBecomes
      <4>5. \A m, n \in DOMAIN mail'[i].box : mail'[i].box[m].req = c /\ mail'[i].box[n].req = c => m = n
        BY <4>3, <4>4
      <4>6. \A n \in DOMAIN mail'[i].box : mail'[i].box[n].req = c => mail'[i].box[n].verdict = decided'[c][i]
        BY <1>10, <4>3, <4>4
      <4> QED
        BY <2>3, <3>2, <3>3, <4>2, <4>5, <4>6 DEF OnceOf, CheckOf
    <3>4. CASE d # c
      <4>1. \A n \in DOMAIN t : t[n].req = d => n \in DOMAIN b /\ t[n] = b[n]
        BY <1>6, <1>7, <3>4
      <4>2. mail'[i].box = t /\ decided'[d][i] = decided[d][i]
        BY <1>8, <1>10, <3>4 DEF BoxBecomes
      <4>3. \A m, n \in DOMAIN mail'[i].box : mail'[i].box[m].req = d /\ mail'[i].box[n].req = d => m = n
        BY <3>1, <4>1, <4>2
      <4>4. \A n \in DOMAIN mail'[i].box : mail'[i].box[n].req = d => mail'[i].box[n].verdict = decided'[d][i]
        BY <3>1, <4>1, <4>2
      <4>5. ~(Asked(d, i)' /\ Told(d, i)')
        BY <1>14, <1>15, <2>1, <2>3, <3>4 DEF OnceOf
      <4> QED
        BY <2>3, <3>2, <4>3, <4>4, <4>5 DEF OnceOf, CheckOf
    <3> QED
      BY <3>3, <3>4
  <2> QED
    BY <2>2, <2>3
<1>20. ExecutedOver' /\ Follows' /\ Distinct' /\ SwornInChain'
  <2>1. ExecutedOver'
    BY <1>16 DEF CheckInv, ExecutedOver, Begun
  <2>2. UNCHANGED <<queue, hand, chainOf, sworn>>
    BY <1>3
  <2>3. Follows'
    BY <2>2 DEF CheckInv, Follows
  <2>4. Distinct' /\ SwornInChain'
    BY <2>2 DEF CheckInv, Distinct, SwornInChain
  <2> QED
    BY <2>1, <2>3, <2>4
<1>21. \A x \in executed : x.req \in Commands /\ x.req # c
  BY <1>13, LaneMembers DEF CheckInv, ExecutedOver, Over, Asking
<1>22. CheckedByItsChain'
  <2> SUFFICES ASSUME NEW x \in executed
               PROVE  /\ \A n \in DOMAIN chainOf[x.req] :
                            decided'[x.req][chainOf[x.req][n]] \in {"allow", "transform"}
                      /\ x.params = Cardinality({j \in ToSet(chainOf[x.req]) : decided'[x.req][j] = "transform"})
    BY <1>3 DEF CheckedByItsChain
  <2>1. decided'[x.req] = decided[x.req]
    BY <1>1, <1>2, <1>21
  <2> QED
    BY <2>1 DEF CheckInv, CheckedByItsChain
<1>23. Progress'
  <2> SUFFICES ASSUME hand["device"] # Idle PROVE Progress'
    BY <1>3 DEF Progress
  <2>1. PICK d, at, p, w : /\ d = hand["device"].task.req /\ at = hand["device"].at
                           /\ p = hand["device"].params /\ w = hand["device"].wait
    OBVIOUS
  <2>2. ProgressOf(d, at, p, w) /\ d \in Commands /\ d \in ReqsOf("device")
    BY <2>1, LaneMembers DEF CheckInv, Progress, Follows
  <2>3. at \in Nat /\ chainOf[d] \in Seq(Interceptors) /\ 1 <= at /\ at <= Len(chainOf[d]) + 1
    BY <2>1, <2>2, HandTyped DEF Lanes, CheckInv, ChecksTyped, ProgressOf
  <2>4. Len(chainOf[d]) \in Nat /\ DOMAIN chainOf[d] = 1 .. Len(chainOf[d])
    BY <2>3
  <2>5. \A n \in 1 .. at - 1 : n \in DOMAIN chainOf[d] /\ n # at /\ chainOf[d][n] \in Interceptors
    BY <2>3, <2>4
  <2>6. \A n \in 1 .. at - 1 : decided'[d][chainOf[d][n]] = decided[d][chainOf[d][n]]
    <3>1. CASE d # c
      BY <1>1, <1>2, <2>2, <3>1
    <3>2. CASE d = c
      <4>1. Asking(c, i)
        BY <1>13, <2>2, <3>2 DEF Over
      <4>2. w = i /\ i # None
        BY <2>1, <4>1 DEF Asking, Configured
      <4>3. at <= Len(chainOf[d]) /\ chainOf[d][at] = i
        BY <2>2, <4>2 DEF ProgressOf
      <4>4. at \in DOMAIN chainOf[d]
        BY <2>3, <2>4, <4>3
      <4>5. \A n \in 1 .. at - 1 : chainOf[d][n] # i
        BY <2>2, <2>5, <4>3, <4>4 DEF CheckInv, Distinct
      <4> QED
        BY <1>10, <2>2, <2>5, <4>5
    <3> QED
      BY <3>1, <3>2
  <2>7. chainOf' = chainOf /\ hand' = hand
    BY <1>3
  <2>8. Passed(d, at - 1)'
    BY <2>2, <2>6, <2>7 DEF ProgressOf, Passed
  <2>9. Transformed(d, at - 1)' = Transformed(d, at - 1)
    BY <2>6, <2>7 DEF Transformed
  <2>10. ProgressOf(d, at, p, w)'
    BY <2>2, <2>7, <2>8, <2>9 DEF ProgressOf
  <2> QED
    BY <2>1, <2>7, <2>10 DEF Progress, ProgressOf, Passed, Transformed
<1> QED
  BY <1>11, <1>18, <1>19, <1>20, <1>22, <1>23 DEF CheckInv

(* The interlocks that are owed a check are in the chain of the routes.    *)
LEMMA SwornAreRouted ==
  ASSUME RouteInv, NEW c \in Commands, NEW i \in Watching(c), acked[i]
  PROVE  \E n \in DOMAIN ChainFor(KeyOf[c]) : ChainFor(KeyOf[c])[n] = i
<1>1. i \in Interceptors /\ Active(rule[i]) /\ Matches([pat |-> PatternOf[i]], KeyOf[c])
  BY DEF Watching
<1>2. acked[i] = TRUE
  BY <1>1 DEF RouteInv, RoutesTyped
<1>3. PICK n \in DOMAIN routes : routes[n] = RouteOf(i)
  BY <1>1, <1>2 DEF RouteInv, AckedRight
<1>4. Matches(routes[n], KeyOf[c]) /\ routes[n].pid = i
  BY <1>1, <1>3 DEF Matches, RouteOf
<1> QED
  BY <1>4, ChainOfRoutes

(* A device command is dispatched, with the chain of the routes.           *)
LEMMA DispatchChecks ==
  ASSUME Configured, LaneInv, RouteInv, CheckInv, NEW c \in Commands, Dispatch(c)
  PROVE  CheckInv'
<1>0. "device" \in Lanes /\ None \notin Interceptors /\ c \in Requests
  BY DEF Lanes, Configured, Requests
<1>c. PICK chain : chain = ChainFor(KeyOf[c])
  OBVIOUS
<1>1. CommandInterceptorChain(KeyOf[c]) = chain
  BY <1>c, ChainIsCurrent DEF Keys
<1>2. /\ chain \in Seq(Interceptors) /\ \A m, n \in DOMAIN chain : chain[m] = chain[n] => m = n
      /\ \A i \in Watching(c) : acked[i] => \E n \in DOMAIN chain : chain[n] = i
  BY <1>c, ChainOfRoutes, SwornAreRouted
<1>3. PICK task : task.req = c /\ task.chain = chain /\ SubmitWithInflight(c, "device", task)
  <2> DEFINE x == Task(c, view.device, chain, [i \in Interceptors |-> RouteEndpoint(i)])
  <2>1. SubmitWithInflight(c, "device", x)
    BY <1>1 DEF Dispatch, DispatchDeviceCommand
  <2>2. x.req = c /\ x.chain = chain
    BY DEF Task
  <2> HIDE DEF x
  <2> QED
    BY <2>1, <2>2
<1>4. /\ status[c] = "new" /\ chainOf' = [chainOf EXCEPT ![c] = chain]
      /\ sworn' = [sworn EXCEPT ![c] = {i \in Watching(c) : acked[i]}]
      /\ UNCHANGED <<inbox, mail, executed, decided>>
  BY <1>1 DEF Dispatch, DispatchDeviceCommand, device
<1>5. status \in [Requests -> Statuses] /\ Commands \subseteq Requests
  BY DEF LaneInv, WorkersTyped, Requests
<1>6. /\ chainOf \in [Commands -> Seq(Interceptors)] /\ sworn \in [Commands -> SUBSET Interceptors]
  BY DEF CheckInv, ChecksTyped
<1>7. /\ chainOf' \in [Commands -> Seq(Interceptors)] /\ chainOf'[c] = chain
      /\ \A d \in Commands : d # c => chainOf'[d] = chainOf[d]
  BY <1>2, <1>4, <1>6
<1>8. /\ sworn' \in [Commands -> SUBSET Interceptors] /\ sworn'[c] = {i \in Watching(c) : acked[i]}
      /\ \A d \in Commands : d # c => sworn'[d] = sworn[d]
  BY <1>4, <1>6 DEF Watching
<1>9. ChecksTyped'
  BY <1>4, <1>7, <1>8 DEF CheckInv, ChecksTyped
<1>10. c \notin ReqsOf("device") /\ ~Begun(c) /\ \A x \in executed : x.req # c
  <2>1. \A r \in ReqsOf("device") : status[r] = "held"
    BY <1>0 DEF LaneInv, OnePlace
  <2>2. c \notin ReqsOf("device") /\ ~Begun(c)
    BY <1>4, <2>1 DEF Begun
  <2> QED
    BY <2>2 DEF CheckInv, ExecutedOver
<1>11. \A i \in Interceptors : ~Asked(c, i) /\ ~Told(c, i) /\ ~Asking(c, i)
  BY <1>10, LaneMembers DEF CheckInv, Quiet, Over, Asking
<1>12. /\ Begun(c)' /\ \A d \in Commands : d # c => status'[d] = status[d]
  BY <1>0, <1>3, <1>5 DEF SubmitWithInflight, Reject, Accept, Begun
<1>13. PICK T, W : LaneTyped(T, W)
  BY DEF LaneInv, WorkersTyped
<1>14. queue["device"] \in Seq(T) /\ queue = [l \in Lanes |-> queue[l]] /\ hand = [l \in Lanes |-> hand[l]]
  BY <1>0, <1>13 DEF LaneTyped
<1>15. /\ \A n \in DOMAIN queue'["device"] : \/ queue'["device"][n] = task
                                             \/ \E m \in DOMAIN queue["device"] : queue'["device"][n] = queue["device"][m]
       /\ \/ hand'["device"] = hand["device"]
          \/ hand["device"] = Idle /\ hand'["device"] = Taken(task)
  <2>1. CASE UNCHANGED <<queue, hand>>
    BY <2>1
  <2>2. CASE hand["device"] = Idle /\ hand' = [hand EXCEPT !["device"] = Taken(task)] /\ UNCHANGED queue
    BY <1>0, <1>14, <2>2
  <2>3. CASE queue' = [queue EXCEPT !["device"] = Append(queue["device"], task)] /\ UNCHANGED hand
    <3>1. queue'["device"] = Append(queue["device"], task)
      BY <1>0, <1>14, <2>3
    <3>2. queue["device"] \in Seq(T \cup {task}) /\ task \in T \cup {task}
      BY <1>14
    <3>3. \A n \in DOMAIN queue'["device"] : queue'["device"][n] = task \/ (n \in DOMAIN queue["device"] /\ queue'["device"][n] = queue["device"][n])
      BY <3>1, <3>2
    <3> QED
      BY <2>3, <3>3
  <2> QED
    BY <1>3, <2>1, <2>2, <2>3 DEF SubmitWithInflight, Accept, workers
<1>16. /\ Taken(task) # Idle /\ Taken(task).task = task /\ Taken(task).at = 1
       /\ Taken(task).params = 0 /\ Taken(task).wait = None
  <2>1. "at" \in DOMAIN Taken(task) /\ "at" \notin DOMAIN Idle
    BY DEF Taken, Idle
  <2>2. Taken(task) # Idle
    BY <2>1
  <2> QED
    BY <2>2 DEF Taken
<1>17. /\ \A n \in DOMAIN queue["device"] : queue["device"][n].req \in ReqsOf("device") /\ queue["device"][n].req # c
       /\ hand["device"] # Idle => hand["device"].task.req \in ReqsOf("device") /\ hand["device"].task.req # c
  BY <1>10, LaneMembers
<1>18. \A r \in ReqsOf("device")' : r \in ReqsOf("device") \/ r = c
  <2>1. \A q : q \in ReqsOf("device")' => \/ \E n \in DOMAIN queue'["device"] : queue'["device"][n].req = q
                                          \/ hand'["device"] # Idle /\ hand'["device"].task.req = q
    BY DEF ReqsOf, Held
  <2> QED
    BY <1>3, <1>15, <1>16, <1>17, <2>1
<1>19. \A d \in Commands, i \in Interceptors : Asking(d, i)' => Asking(d, i) /\ d # c
  BY <1>0, <1>11, <1>15, <1>16 DEF Asking
<1>20. \A d \in Commands, i \in Interceptors : Asking(d, i) => Asking(d, i)'
  BY <1>15 DEF Asking
<1>21. \A i \in Interceptors : FewerAt(i)
  BY <1>4, WithinSame DEF FewerAt
<1>22. \A d \in Commands, i \in Interceptors :
          /\ Asked(d, i)' => Asked(d, i)
          /\ Told(d, i)' => Told(d, i)
          /\ OnceOf(d, i) => OnceOf(d, i)'
  BY <1>4, <1>9, <1>21, FewerKeeps
<1>23. Quiet'
  <2> SUFFICES ASSUME NEW d \in Commands, NEW i \in Interceptors, Asked(d, i)' \/ Told(d, i)'
               PROVE  Asking(d, i)' \/ Over(d)'
    BY DEF Quiet
  <2>1. d # c /\ (Asking(d, i) \/ Over(d))
    BY <1>11, <1>22 DEF CheckInv, Quiet
  <2>2. ASSUME Over(d) PROVE Over(d)'
    BY <1>4, <1>12, <1>18, <2>1, <2>2 DEF Over, Begun
  <2> QED
    BY <1>20, <2>1, <2>2
<1>24. Once'
  BY <1>19, <1>22 DEF CheckInv, Once
<1>25. ExecutedOver'
  <2> SUFFICES ASSUME NEW x \in executed
               PROVE  x.req \in Commands /\ Begun(x.req)' /\ x.req \notin ReqsOf("device")'
    BY <1>4 DEF ExecutedOver, Begun
  <2>1. x.req # c /\ x.req \in Commands /\ Begun(x.req) /\ x.req \notin ReqsOf("device")
    BY <1>10 DEF CheckInv, ExecutedOver
  <2> QED
    BY <1>12, <1>18, <2>1 DEF Begun
<1>26. Follows'
  <2>1. \A n \in DOMAIN queue'["device"] : /\ queue'["device"][n].req \in Commands
                                           /\ queue'["device"][n].chain = chainOf'[queue'["device"][n].req]
    BY <1>3, <1>7, <1>15, <1>17 DEF CheckInv, Follows
  <2>2. hand'["device"] # Idle => /\ hand'["device"].task.req \in Commands
                                  /\ hand'["device"].task.chain = chainOf'[hand'["device"].task.req]
    BY <1>3, <1>7, <1>15, <1>16, <1>17 DEF CheckInv, Follows
  <2> QED
    BY <2>1, <2>2 DEF Follows
<1>27. Distinct'
  BY <1>2, <1>7 DEF CheckInv, Distinct
<1>28. SwornInChain'
  BY <1>2, <1>7, <1>8 DEF CheckInv, SwornInChain
<1>29. CheckedByItsChain'
  <2> SUFFICES ASSUME NEW x \in executed
               PROVE  /\ \A n \in DOMAIN chainOf'[x.req] :
                            decided[x.req][chainOf'[x.req][n]] \in {"allow", "transform"}
                      /\ x.params = Cardinality({j \in ToSet(chainOf'[x.req]) : decided[x.req][j] = "transform"})
    BY <1>4 DEF CheckedByItsChain
  <2>1. chainOf'[x.req] = chainOf[x.req]
    BY <1>7, <1>10 DEF CheckInv, ExecutedOver
  <2> QED
    BY <2>1 DEF CheckInv, CheckedByItsChain
<1>30. Progress'
  <2>1. CASE hand["device"] = Idle /\ hand'["device"] = Taken(task)
    <3>1. ProgressOf(c, 1, 0, None)'
      BY <1>9, FreshProgress
    <3>2. /\ hand'["device"].task.req = c /\ hand'["device"].at = 1
          /\ hand'["device"].params = 0 /\ hand'["device"].wait = None
      BY <1>3, <1>16, <2>1
    <3> QED
      BY <3>1, <3>2 DEF Progress, ProgressOf, Passed, Transformed
  <2>2. CASE hand'["device"] = hand["device"]
    <3> SUFFICES ASSUME hand["device"] # Idle PROVE Progress'
      BY <2>2 DEF Progress
    <3>1. PICK d, at, p, w : /\ d = hand["device"].task.req /\ at = hand["device"].at
                             /\ p = hand["device"].params /\ w = hand["device"].wait
      OBVIOUS
    <3>2. ProgressOf(d, at, p, w) /\ d \in Commands /\ d # c
      BY <1>17, <3>1 DEF CheckInv, Progress, Follows
    <3>3. chainOf'[d] = chainOf[d] /\ decided' = decided
      BY <1>4, <1>7, <3>2
    <3>4. ProgressOf(d, at, p, w)'
      BY <3>2, <3>3 DEF ProgressOf, Passed, Transformed
    <3> QED
      BY <2>2, <3>1, <3>4 DEF Progress, ProgressOf, Passed, Transformed
  <2> QED
    BY <1>15, <2>1, <2>2
<1> QED
  BY <1>9, <1>23, <1>24, <1>25, <1>26, <1>27, <1>28, <1>29, <1>30 DEF CheckInv

(* The inbox of i becomes s, and the other inboxes stay.                   *)
LEMMA InboxSetTo ==
  ASSUME ChecksTyped, NEW i \in Interceptors, NEW s \in Seq(InboxSet), Within(s, inbox[i], Checks),
         inbox' = [inbox EXCEPT ![i] = s], UNCHANGED <<mail, chainOf, decided, sworn>>
  PROVE  ChecksTyped' /\ \A j \in Interceptors : FewerAt(j)
<1>1. /\ inbox' \in [Interceptors -> Seq(InboxSet)] /\ inbox'[i] = s
      /\ \A j \in Interceptors : j # i => inbox'[j] = inbox[j]
  BY DEF ChecksTyped
<1>2. ChecksTyped'
  BY <1>1 DEF ChecksTyped
<1>3. \A j \in Interceptors : FewerAt(j)
  BY <1>1, WithinSame DEF FewerAt
<1> QED
  BY <1>2, <1>3

(* An answer to a process RPC does not touch the device lane.              *)
LEMMA OtherLaneFinishes ==
  ASSUME LaneInv, NEW l \in Lanes, l # "device", NEW code, Finish(l, code)
  PROVE  queue'["device"] = queue["device"] /\ hand'["device"] = hand["device"]
<1>1. PICK T, W : LaneTyped(T, W)
  BY DEF LaneInv, WorkersTyped
<1> QED
  BY <1>1 DEF Finish, LaneTyped, Lanes

(* Nor does the answer of a process that a worker may no longer wait for.  *)
LEMMA AnswersAside ==
  ASSUME LaneInv, NEW r, NEW code, ProcessAnswers(r, code)
  PROVE  queue'["device"] = queue["device"] /\ hand'["device"] = hand["device"]
BY OtherLaneFinishes DEF ProcessAnswers, workers, Lanes

(* The interlock processes, but for their decisions.                       *)
LEMMA InterlockChecks ==
  ASSUME LaneInv, CheckInv, NEW i \in Interceptors,
         \/ AnswerQuery(i) \/ ChangeRule(i) \/ Registered(i) \/ RegistrationTimesOut(i)
         \/ StopEnds(i) \/ GracefulStop(i) \/ StartInterlock(i) \/ InterlockCrash(i)
  PROVE  CheckInv'
<1>0. ChecksTyped /\ inbox[i] \in Seq(InboxSet)
  BY DEF CheckInv, ChecksTyped
<1>1. UNCHANGED <<mail, chainOf, decided, sworn, executed, status>>
  BY DEF AnswerQuery, ChangeRule, Registered, RegistrationTimesOut, StopEnds, GracefulStop, StartInterlock,
         InterlockCrash, Exits, device, ghosts
<1>2. queue'["device"] = queue["device"] /\ hand'["device"] = hand["device"]
  <2>1. CASE AnswerQuery(i)
    BY <2>1, AnswersAside DEF AnswerQuery
  <2>2. CASE UNCHANGED workers
    BY <2>2 DEF workers
  <2>3. CASE \E code : AnswerRpc(i, code)
    BY <2>2, <2>3, AnswersAside DEF AnswerRpc
  <2> QED
    BY <2>1, <2>2, <2>3 DEF ChangeRule, Registered, RegistrationTimesOut, StopEnds, GracefulStop, StartInterlock,
       InterlockCrash
<1>3. Onward
  BY <1>1 DEF Onward, Begun
<1>4. ChecksTyped' /\ \A j \in Interceptors : FewerAt(j)
  <2>1. CASE inbox' = inbox
    BY <1>0, <1>1, <2>1, SameMail
  <2>2. CASE inbox' = [inbox EXCEPT ![i] = Tail(inbox[i])] /\ inbox[i] # <<>>
    <3>1. Tail(inbox[i]) \in Seq(InboxSet) /\ Within(Tail(inbox[i]), inbox[i], Checks)
      BY <1>0, <2>2, WithinTail, HeadTailProperties
    <3> QED
      BY <1>0, <1>1, <2>2, <3>1, InboxSetTo
  <2>3. CASE inbox' = [inbox EXCEPT ![i] = <<>>]
    <3>1. <<>> \in Seq(InboxSet)
      OBVIOUS
    <3> QED
      BY <1>0, <1>1, <2>3, <3>1, WithinNone, InboxSetTo
  <2> QED
    BY <2>1, <2>2, <2>3 DEF AnswerQuery, ChangeRule, Registered, RegistrationTimesOut, StopEnds, GracefulStop,
       StartInterlock, InterlockCrash, Exits, Rpc
<1> QED
  BY <1>1, <1>2, <1>3, <1>4, CalmKeeps

(* The workers of the other lanes.                                         *)
LEMMA OtherWorkerChecks ==
  ASSUME LaneInv, CheckInv, NEW l \in Lanes \ {"device"}, OtherWorker(l)
  PROVE  CheckInv'
<1>0. ChecksTyped /\ inbox \in [Interceptors -> Seq(InboxSet)]
  BY DEF CheckInv, ChecksTyped
<1>1. UNCHANGED <<mail, chainOf, decided, sworn, executed, status>>
  BY DEF OtherWorker, Forward, CallProcess, ProcessTimeout, device, ghosts
<1>2. Onward
  BY <1>1 DEF Onward, Begun
<1>3. CASE Forward(l) \/ (l = "process" /\ ProcessTimeout)
  <2>1. inbox' = inbox /\ \E code : Finish(l, code)
    BY <1>3 DEF Forward, ProcessTimeout
  <2>2. queue'["device"] = queue["device"] /\ hand'["device"] = hand["device"]
    BY <2>1, OtherLaneFinishes
  <2> QED
    BY <1>0, <1>1, <1>2, <2>1, <2>2, SameMail, CalmKeeps
<1>4. CASE CallProcess
  <2>1. hand["process"] # Idle /\ queue' = queue /\ \E w : hand' = [hand EXCEPT !["process"].wait = w]
    BY <1>4 DEF CallProcess, Working
  <2>2. "process" \in Lanes /\ "device" \in Lanes
    BY DEF Lanes
  <2>3. hand = [k \in Lanes |-> hand[k]] /\ hand["process"].task.req \in Requests
    BY <2>1, <2>2, HandTyped
  <2>4. queue'["device"] = queue["device"] /\ hand'["device"] = hand["device"]
    BY <2>1, <2>2, <2>3
  <2> DEFINE i == TargetOf[Held("process").req]
             e == [kind |-> "rpc", req |-> Held("process").req]
  <2>5. inbox' = inbox \/ inbox' = [inbox EXCEPT ![i] = Append(inbox[i], e)]
    BY <1>4 DEF CallProcess
  <2>6. e \in InboxSet /\ e \notin Checks
    BY <2>3 DEF Held, InboxSet, Checks, CheckOf
  <2> HIDE DEF i, e
  <2>7. ChecksTyped' /\ \A j \in Interceptors : FewerAt(j)
    <3>1. CASE inbox' = inbox
      BY <1>0, <1>1, <3>1, SameMail
    <3>2. CASE i \notin Interceptors
      BY <1>0, <1>1, <2>5, <3>2, SameMail
    <3>3. CASE i \in Interceptors /\ inbox' = [inbox EXCEPT ![i] = Append(inbox[i], e)]
      <4>1. inbox[i] \in Seq(InboxSet)
        BY <1>0, <3>3
      <4>2. Append(inbox[i], e) \in Seq(InboxSet) /\ Within(Append(inbox[i], e), inbox[i], Checks)
        BY <2>6, <4>1, WithinAppend, AppendProperties
      <4> QED
        BY <1>0, <1>1, <3>3, <4>2, InboxSetTo
    <3> QED
      BY <2>5, <3>1, <3>2, <3>3
  <2> QED
    BY <1>1, <1>2, <2>4, <2>7, CalmKeeps
<1> QED
  BY <1>3, <1>4 DEF OtherWorker

(* A new request for another lane, accepted or refused.                    *)
LEMMA SubmitAside ==
  ASSUME LaneInv, NEW l \in Lanes, l # "device", NEW r \in Requests, NEW task,
         SubmitWithInflight(r, l, task) \/ (Reject(r) /\ UNCHANGED workers)
  PROVE  Onward /\ queue'["device"] = queue["device"] /\ hand'["device"] = hand["device"]
<1>1. PICK T, W : LaneTyped(T, W)
  BY DEF LaneInv, WorkersTyped
<1>2. queue'["device"] = queue["device"] /\ hand'["device"] = hand["device"]
  BY <1>1 DEF SubmitWithInflight, Accept, Reject, workers, LaneTyped, Lanes
<1>3. status \in [Requests -> Statuses] /\ Commands \subseteq Requests
  BY DEF LaneInv, WorkersTyped, Requests
<1>4. status' = [status EXCEPT ![r] = "held"] \/ status' = [status EXCEPT ![r] = "failed"]
  BY DEF SubmitWithInflight, Accept, Reject
<1>5. Onward
  BY <1>3, <1>4 DEF Onward, Begun
<1> QED
  BY <1>2, <1>5

(* The poll loop of the router.                                            *)
LEMMA RouterChecks == ASSUME LaneInv, CheckInv, Router PROVE CheckInv'
<1>0. UNCHANGED <<mail, inbox, chainOf, decided, sworn, executed>>
  BY DEF Router, HandleManagerPub, DispatchMirroredCommand, DispatchProcessRpc, DrainReplies, RouterRestart,
     device, ghosts
<1>1. ChecksTyped' /\ \A j \in Interceptors : FewerAt(j)
  BY <1>0, SameMail DEF CheckInv
<1>2. Onward /\ queue'["device"] = queue["device"] /\ hand'["device"] = hand["device"]
  <2>1. CASE HandleManagerPub \/ RouterRestart
    BY <2>1 DEF HandleManagerPub, RouterRestart, workers, Onward, Begun
  <2>2. ASSUME NEW m \in Mirrored, DispatchMirroredCommand(m)
        PROVE  Onward /\ queue'["device"] = queue["device"] /\ hand'["device"] = hand["device"]
    <3>1. m \in Requests /\ "mirror" \in Lanes /\ "mirror" # "device"
      BY DEF Requests, Lanes
    <3>2. \E task : SubmitWithInflight(m, "mirror", task) \/ (Reject(m) /\ UNCHANGED workers)
      BY <2>2 DEF DispatchMirroredCommand
    <3> QED
      BY <3>1, <3>2, SubmitAside
  <2>3. ASSUME NEW p \in ProcessRpcs, DispatchProcessRpc(p)
        PROVE  Onward /\ queue'["device"] = queue["device"] /\ hand'["device"] = hand["device"]
    <3>1. p \in Requests /\ {"process", "manager"} \subseteq Lanes /\ "device" \notin {"process", "manager"}
      BY DEF Requests, Lanes
    <3>2. \E l \in {"process", "manager"} : \E task : SubmitWithInflight(p, l, task)
      BY <2>3 DEF DispatchProcessRpc
    <3> QED
      BY <3>1, <3>2, SubmitAside
  <2>4. CASE DrainReplies
    <3>1. UNCHANGED <<queue, hand>>
      BY <2>4 DEF DrainReplies
    <3>2. Onward
      <4> SUFFICES ASSUME NEW c \in Commands, Begun(c) PROVE Begun(c)'
        BY DEF Onward
      <4>1. c \in Requests
        BY DEF Requests
      <4>2. status'[c] = IF \E x \in ToSet(replies) : x.req = c
                         THEN (CHOOSE x \in ToSet(replies) : x.req = c).code ELSE status[c]
        BY <2>4, <4>1 DEF DrainReplies
      <4>3. CASE \E x \in ToSet(replies) : x.req = c
        <5>1. (CHOOSE x \in ToSet(replies) : x.req = c) \in ToSet(replies)
          BY <4>3
        <5>2. (CHOOSE x \in ToSet(replies) : x.req = c).code \in Codes
          BY <5>1, ReplyRequests DEF ToSet
        <5>3. status'[c] \in Codes
          BY <4>2, <4>3, <5>2
        <5> QED
          BY <5>3 DEF Codes, Begun
      <4>4. CASE ~\E x \in ToSet(replies) : x.req = c
        BY <4>2, <4>4 DEF Begun
      <4> QED
        BY <4>3, <4>4
    <3> QED
      BY <3>1, <3>2
  <2> QED
    BY <2>1, <2>2, <2>3, <2>4 DEF Router
<1> QED
  BY <1>0, <1>1, <1>2, CalmKeeps

(* The sockets are gone with the worker or the router.                     *)
LEMMA EmptyMail ==
  ASSUME ChecksTyped, mail' = [i \in Interceptors |-> NoMail], UNCHANGED <<inbox, chainOf, decided, sworn>>
  PROVE  ChecksTyped' /\ \A i \in Interceptors : FewerAt(i)
<1>1. NoMail \in [box : Seq(Mails), stale : BOOLEAN] /\ NoMail.box = <<>>
  BY DEF NoMail
<1>2. mail' \in [Interceptors -> [box : Seq(Mails), stale : BOOLEAN]] /\ \A i \in Interceptors : mail'[i].box = <<>>
  BY <1>1
<1>3. ChecksTyped'
  BY <1>2 DEF ChecksTyped
<1>4. \A i \in Interceptors : FewerAt(i)
  BY <1>2, WithinSame, WithinNone DEF FewerAt
<1> QED
  BY <1>3, <1>4

(* The device worker dies, or the router does: what it had is over.        *)
LEMMA ClearedChecks ==
  ASSUME Configured, LaneInv, CheckInv, Onward, mail' = [i \in Interceptors |-> NoMail],
         queue'["device"] = <<>>, hand'["device"] = Idle,
         UNCHANGED <<inbox, executed, chainOf, decided, sworn>>
  PROVE  CheckInv'
<1>1. ChecksTyped' /\ \A i \in Interceptors : FewerAt(i)
  BY EmptyMail DEF CheckInv
<1>2. \A n \in DOMAIN queue'["device"] : FALSE
  OBVIOUS
<1>3. Follows' /\ Fresh(hand'["device"])
  BY <1>2 DEF Follows, Fresh
<1>4. ReqsOf("device")' = {}
  BY <1>2 DEF ReqsOf
<1> QED
  BY <1>1, <1>3, <1>4, LaneBegun, LeaveKeeps DEF Configured

(* A worker dies.                                                          *)
LEMMA DiesChecks == ASSUME Configured, LaneInv, CheckInv, NEW l \in Lanes, Dies(l) PROVE CheckInv'
<1>0. UNCHANGED <<inbox, executed, chainOf, decided, sworn>>
  BY DEF Dies, WorkerDies, device, ghosts
<1>1. PICK T, W : LaneTyped(T, W)
  BY DEF LaneInv, WorkersTyped
<1>2. /\ hand' = [hand EXCEPT ![l] = Idle] /\ queue' = [queue EXCEPT ![l] = <<>>]
      /\ mail' = IF l = "device" THEN [i \in Interceptors |-> NoMail] ELSE mail
      /\ status' = [r \in Requests |-> IF r \in ReqsOf(l) THEN "lost" ELSE status[r]]
      /\ "device" \in Lanes
  BY DEF Dies, WorkerDies, Lanes
<1>3. Onward
  <2>1. Commands \subseteq Requests
    BY DEF Requests
  <2> QED
    BY <1>2, <2>1 DEF Onward, Begun
<1>4. CASE l = "device"
  <2>1. queue'["device"] = <<>> /\ hand'["device"] = Idle /\ mail' = [i \in Interceptors |-> NoMail]
    BY <1>1, <1>2, <1>4 DEF LaneTyped
  <2> QED
    BY <1>0, <1>3, <2>1, ClearedChecks
<1>5. CASE l # "device"
  <2>1. queue'["device"] = queue["device"] /\ hand'["device"] = hand["device"] /\ mail' = mail
    BY <1>1, <1>2, <1>5 DEF LaneTyped
  <2>2. ChecksTyped' /\ \A j \in Interceptors : FewerAt(j)
    BY <1>0, <2>1, SameMail DEF CheckInv
  <2> QED
    BY <1>0, <1>3, <2>1, <2>2, CalmKeeps
<1> QED
  BY <1>4, <1>5

(* The router dies.                                                        *)
LEMMA CrashChecks == ASSUME Configured, LaneInv, CheckInv, Crash PROVE CheckInv'
<1>1. /\ queue' = [l \in Lanes |-> <<>>] /\ hand' = [l \in Lanes |-> Idle]
      /\ mail' = [i \in Interceptors |-> NoMail]
      /\ status' = [r \in Requests |-> IF status[r] = "held" THEN "lost" ELSE status[r]]
      /\ UNCHANGED <<inbox, executed, chainOf, decided, sworn>> /\ "device" \in Lanes
  BY DEF Crash, RouterCrash, device, Lanes
<1>2. Onward
  <2>1. Commands \subseteq Requests
    BY DEF Requests
  <2> QED
    BY <1>1, <2>1 DEF Onward, Begun
<1>3. queue'["device"] = <<>> /\ hand'["device"] = Idle
  BY <1>1
<1> QED
  BY <1>1, <1>2, <1>3, ClearedChecks

(* A step that touches nothing of the checks.                              *)
LEMMA AsideChecks ==
  ASSUME CheckInv, UNCHANGED <<workers, status, mail, inbox, executed, chainOf, decided, sworn>>
  PROVE  CheckInv'
<1>1. ChecksTyped' /\ \A j \in Interceptors : FewerAt(j)
  BY SameMail DEF CheckInv
<1>2. Onward /\ queue'["device"] = queue["device"] /\ hand'["device"] = hand["device"]
  BY DEF Onward, Begun, workers
<1> QED
  BY <1>1, <1>2, CalmKeeps

(* Nothing is under way at the start.                                      *)
LEMMA InitChecks == ASSUME Init PROVE CheckInv
<1>1. /\ queue = [lane \in Lanes |-> <<>>] /\ hand = [lane \in Lanes |-> Idle] /\ "device" \in Lanes
      /\ mail = [i \in Interceptors |-> NoMail] /\ inbox = [i \in Interceptors |-> <<>>]
      /\ executed = {} /\ chainOf = [c \in Commands |-> <<>>] /\ sworn = [c \in Commands |-> {}]
      /\ decided = [c \in Commands |-> [i \in Interceptors |-> None]]
  BY DEF Init, Lanes
<1>2. \A n \in DOMAIN <<>> : FALSE
  OBVIOUS
<1>3. queue["device"] = <<>> /\ hand["device"] = Idle
  BY <1>1
<1>4. NoMail \in [box : Seq(Mails), stale : BOOLEAN] /\ NoMail.box = <<>>
  BY DEF NoMail
<1>5. \A i \in Interceptors : inbox[i] = <<>> /\ mail[i].box = <<>>
  BY <1>1, <1>4
<1>6. \A c \in Commands : chainOf[c] = <<>> /\ sworn[c] = {}
  BY <1>1
<1>7. ChecksTyped
  <2>1. <<>> \in Seq(InboxSet) /\ <<>> \in Seq(Interceptors)
    OBVIOUS
  <2> QED
    BY <1>1, <1>4, <2>1 DEF ChecksTyped
<1>8. Quiet /\ Once
  BY <1>2, <1>3, <1>5 DEF Quiet, Once, Asked, Told, Asking
<1>9. ExecutedOver /\ CheckedByItsChain
  BY <1>1 DEF ExecutedOver, CheckedByItsChain
<1>10. Follows /\ Progress
  BY <1>2, <1>3 DEF Follows, Progress
<1>11. Distinct /\ SwornInChain
  BY <1>2, <1>6 DEF Distinct, SwornInChain
<1> QED
  BY <1>7, <1>8, <1>9, <1>10, <1>11 DEF CheckInv

(* Every step keeps the checks.                                            *)
LEMMA CheckStep == ASSUME Configured, LaneInv, RouteInv, CheckInv, [Next]_vars PROVE CheckInv'
<1>1. CASE RouterHandles
  <2>1. UNCHANGED <<workers, status, mail, inbox, executed, chainOf, decided, sworn>>
    BY <1>1 DEF RouterHandles, HandleCommandInterceptor, device
  <2> QED
    BY <2>1, AsideChecks
<1>2. CASE Driver
  <2>1. UNCHANGED <<workers, status, mail, inbox, executed, chainOf, decided, sworn>>
    BY <1>2 DEF Driver, DriverStops, DriverRegisters, ghosts
  <2> QED
    BY <2>1, AsideChecks
<1>3. CASE UNCHANGED vars
  <2>1. UNCHANGED <<workers, status, mail, inbox, executed, chainOf, decided, sworn>>
    BY <1>3 DEF vars, routerVars, device, ghosts
  <2> QED
    BY <2>1, AsideChecks
<1>4. CASE Router
  BY <1>4, RouterChecks
<1>5. CASE Crash
  BY <1>5, CrashChecks
<1>6. CASE \E c \in Commands : Dispatch(c)
  BY <1>6, DispatchChecks
<1>7. CASE DeviceWorker
  BY <1>7, DeviceWorkerChecks
<1>8. CASE \E l \in Lanes \ {"device"} : OtherWorker(l)
  BY <1>8, OtherWorkerChecks
<1>9. CASE \E l \in Lanes : Dies(l)
  BY <1>9, DiesChecks
<1>10. CASE \E i \in Interceptors :
              InterlockLoop(i) \/ GracefulStop(i) \/ StartInterlock(i) \/ InterlockCrash(i)
  BY <1>10, CheckChecks, InterlockChecks DEF InterlockLoop
<1> QED
  BY <1>1, <1>2, <1>3, <1>4, <1>5, <1>6, <1>7, <1>8, <1>9, <1>10 DEF Next

(* A sworn interlock is in the chain, so it decided on what the driver ran. *)
LEMMA ChecksEnforce == ASSUME CheckInv PROVE AcknowledgedRuleEnforced
<1> SUFFICES ASSUME NEW x \in executed, NEW i \in sworn[x.req] PROVE decided[x.req][i] # None
  BY DEF AcknowledgedRuleEnforced
<1>1. x.req \in Commands
  BY DEF CheckInv, ExecutedOver
<1>2. PICK n \in DOMAIN chainOf[x.req] : chainOf[x.req][n] = i
  BY <1>1 DEF CheckInv, SwornInChain
<1>3. decided[x.req][i] \in {"allow", "transform"}
  BY <1>2 DEF CheckInv, CheckedByItsChain
<1> QED
  BY <1>3 DEF None

(* A command reaches the driver only when every process of the chain it    *)
(* was dispatched with let it pass, by its own reply and not by a late or  *)
(* foreign one, and with the parameters those decisions made; a rule whose *)
(* routes the router had acknowledged decided on it; and the inflight      *)
(* count is that of the requests under way.  Whatever the timeouts, the    *)
(* crashes, the restarts and the changes of rules in between               *)
(* (_apply_command_interceptors, _call_process, _register_routes,          *)
(* _drain_replies).                                                        *)
THEOREM CommandPathIsSound == ASSUME Configured PROVE Spec => []CommandPathSound
<1> DEFINE Inv == LaneInv /\ RouteInv /\ CheckInv
<1>1. Init => Inv
  BY InitLanes, InitRoutes, InitChecks
<1>2. Inv /\ [Next]_vars => Inv'
  BY LaneStep, RouteStep, CheckStep
<1>3. Inv => CommandPathSound
  BY ChecksEnforce DEF LaneInv, CheckInv, CommandPathSound
<1> QED
  BY <1>1, <1>2, <1>3, PTL DEF Spec
=============================================================================
