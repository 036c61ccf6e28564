---------------------------- MODULE KernelProofs ----------------------------
(***************************************************************************)
(* The parts of the session's kernel that share no state: the event bus    *)
(* (Bus), the Guard and the fold (Fold), Slow's wakes (Wakes), the call    *)
(* gate (CallGate) and read-back (Readback), each for any number of what   *)
(* it counts and any delays.                                               *)
(***************************************************************************)
EXTENDS Integers, Sequences, FiniteSets, SequenceTheorems, FiniteSetTheorems,
        WellFoundedInduction, TLAPS

CONSTANTS Subscribers, Isolated, MaxEvents

VARIABLES log, busEnded, queue, current, turn, refused, raised, received, dropped, nested

B == INSTANCE Bus WITH N <- Subscribers, ended <- busEnded, rejected <- refused

CONSTANTS HEARTBEAT, Waits, MAX_STEPS, Horizon, MaxLines, NoTime

VARIABLES now, ended, call, fast, triggered, lines, gens, held, timer, slow, asked,
          steps, reasons, said, unseen, rested

W == INSTANCE Wakes

CONSTANTS Keys, Required, MaxAsks, None

VARIABLES intake, opened, deadline, soon, facts, needs, unvoiced, voicing, asks, hold,
          told

G == INSTANCE CallGate

CONSTANTS Lives, CARD_TTL, CAP_TTL, Speech, MaxRev, MaxEpoch, MaxAsked, FoldHorizon

VARIABLES bb, clock, todo, checked, rejected

K == INSTANCE Fold WITH now <- clock, Horizon <- FoldHorizon

CONSTANTS Refs, Cited, Saids, Forms, MaxRevs, MaxRequests, MaxRepLines

VARIABLES repLines, offers, requests, acting

Q == INSTANCE Readback WITH
        MaxAsks <- MaxRequests, MaxLines <- MaxRepLines, lines <- repLines,
        asks <- requests

-----------------------------------------------------------------------------
(* The event bus. *)

Events(q) == {q[i] : i \in DOMAIN q}
Sorted(q) == \A i, j \in DOMAIN q : i < j => q[i] < q[j]

LEMMA AppendSorted ==
    ASSUME NEW q \in Seq(Nat), NEW e \in Nat, Sorted(q), \A x \in Events(q) : x < e
    PROVE  /\ Append(q, e) \in Seq(Nat) /\ Events(Append(q, e)) = Events(q) \cup {e}
           /\ Sorted(Append(q, e)) /\ Append(q, e) # <<>>
           /\ Append(q, e)[Len(Append(q, e))] = e
<1> DEFINE a == Append(q, e)
           n == Len(q)
<1>1. /\ a \in Seq(Nat) /\ n \in Nat /\ Len(a) = n + 1 /\ a[n + 1] = e
      /\ DOMAIN a = 1..(n + 1) /\ DOMAIN q = 1..n
      /\ \A i \in 1..n : a[i] = q[i] /\ q[i] \in Nat
  OBVIOUS
<1> HIDE DEF a, n
<1>2. Events(a) = Events(q) \cup {e}
  BY <1>1 DEF Events
<1>3. \A i \in 1..n : a[i] < e
  BY <1>1 DEF Events
<1>4. Sorted(a)
  BY <1>1, <1>3 DEF Sorted
<1>5. a # <<>>
  BY <1>1
<1> QED
  BY <1>1, <1>2, <1>4, <1>5 DEF a

LEMMA TailSorted ==
    ASSUME NEW q \in Seq(Nat), Sorted(q), q # <<>>
    PROVE  /\ Tail(q) \in Seq(Nat) /\ Head(q) \in Events(q) /\ Events(Tail(q)) \subseteq Events(q)
           /\ Sorted(Tail(q)) /\ \A x \in Events(Tail(q)) : Head(q) < x
           /\ Tail(q) = <<>> => q[Len(q)] = Head(q)
           /\ Tail(q) # <<>> => Tail(q)[Len(Tail(q))] = q[Len(q)]
<1> DEFINE t == Tail(q)
           n == Len(q)
<1>1. /\ t \in Seq(Nat) /\ Len(t) = n - 1 /\ n \in Nat
      /\ DOMAIN t = 1..(n - 1) /\ DOMAIN q = 1..n
      /\ \A i \in 1..(n - 1) : t[i] = q[i + 1]
  BY HeadTailProperties, LenProperties
<1>2. n # 0 /\ Head(q) = q[1] /\ (t = <<>> => Len(t) = 0) /\ (t # <<>> => Len(t) # 0)
  <2>1. Head(q) = q[1] /\ n # 0
    OBVIOUS
  <2>2. t \in Seq(Nat)
    BY <1>1
  <2> HIDE DEF t
  <2>3. (t = <<>> => Len(t) = 0) /\ (t # <<>> => Len(t) # 0)
    BY <2>2
  <2> QED
    BY <2>1, <2>3
<1>3. \A i \in 1..n : q[i] \in Nat
  OBVIOUS
<1> HIDE DEF t, n
<1>4. Head(q) \in Events(q) /\ Events(t) \subseteq Events(q)
  <2>1. 1 \in 1..n /\ \A i \in 1..(n - 1) : i + 1 \in 1..n
    BY <1>1, <1>2
  <2> QED
    BY <1>1, <1>2, <2>1 DEF Events
<1>5. Sorted(t)
  <2> SUFFICES ASSUME NEW i \in 1..(n - 1), NEW j \in 1..(n - 1), i < j PROVE t[i] < t[j]
    BY <1>1 DEF Sorted
  <2>1. i + 1 \in DOMAIN q /\ j + 1 \in DOMAIN q /\ i + 1 < j + 1
    BY <1>1
  <2> QED
    BY <1>1, <2>1 DEF Sorted
<1>6. \A x \in Events(t) : Head(q) < x
  <2> SUFFICES ASSUME NEW i \in 1..(n - 1) PROVE q[1] < t[i]
    BY <1>1, <1>2 DEF Events
  <2>1. 1 \in DOMAIN q /\ i + 1 \in DOMAIN q /\ 1 < i + 1
    BY <1>1
  <2> QED
    BY <1>1, <2>1 DEF Sorted
<1>7. t = <<>> => n = 1
  BY <1>1, <1>2
<1>8. t # <<>> => t[n - 1] = q[n]
  BY <1>1, <1>2
<1> QED
  BY <1>1, <1>2, <1>4, <1>5, <1>6, <1>7, <1>8 DEF t, n

-----------------------------------------------------------------------------
(* What waits follows the event being delivered, in order, up to the end   *)
(* of the log.                                                             *)
QueueInv ==
    /\ log \in Nat /\ current \in 0..log /\ queue \in Seq(Nat) /\ Sorted(queue)
    /\ \A e \in Events(queue) : current < e /\ e <= log
    /\ turn \in IF B!Delivering THEN B!Subs ELSE {0}
    /\ ~B!Delivering => queue = <<>>
    /\ B!Delivering => log = IF queue = <<>> THEN current ELSE queue[Len(queue)]

(* Those whose turn has come have seen the event, the others none so late; *)
(* and none has seen what its predecessor did not.                         *)
Seen(s) == Events(received[s])

SeenInv ==
    /\ received \in [B!Subs -> Seq(Nat)]
    /\ \A s \in B!Subs :
         /\ Sorted(received[s])
         /\ \A e \in Seen(s) : e \in Nat /\ e <= log
         /\ s + 1 \in B!Subs => Seen(s + 1) \subseteq Seen(s)
         /\ B!Delivering =>
              /\ \A e \in Seen(s) : e <= current /\ (s > turn => e < current)
              /\ s <= turn => current \in Seen(s)
         /\ ~B!Delivering /\ ~raised => log = 0 \/ log \in Seen(s)

(* A rejected nested emit is kept until the delivery it befell has ended. *)
RejectionInv == nested => IF B!Delivering THEN refused ELSE raised

OrderInv == QueueInv /\ SeenInv /\ RejectionInv

-----------------------------------------------------------------------------
(* One more delivery: every earlier subscriber has the event, and the later *)
(* ones have nothing so late.                                              *)
Gets(s, e) ==
    /\ received' = [received EXCEPT ![s] = Append(@, e)]
    /\ current' = e /\ turn' = s

MayGet(s, e) ==
    /\ \A r \in B!Subs : \A x \in Seen(r) : x <= e /\ (r >= s => x < e)
    /\ \A r \in B!Subs : r < s => e \in Seen(r)

LEMMA GetsSeen ==
    ASSUME Subscribers \in Nat \ {0}, SeenInv, NEW s \in B!Subs, NEW e \in Nat \ {0},
           Gets(s, e), MayGet(s, e), e <= log', log <= log', log' \in Nat, log \in Nat
    PROVE  SeenInv'
<1> USE DEF Gets, MayGet
<1>1. /\ received[s] \in Seq(Nat) /\ received'[s] = Append(received[s], e)
      /\ \A r \in B!Subs \ {s} : received'[r] = received[r]
  BY DEF SeenInv
<1>2. Sorted(received[s]) /\ \A x \in Events(received[s]) : x < e
  BY DEF SeenInv, Seen, B!Subs
<1>3. /\ Append(received[s], e) \in Seq(Nat) /\ Sorted(Append(received[s], e))
      /\ Events(Append(received[s], e)) = Events(received[s]) \cup {e}
  BY <1>1, <1>2, AppendSorted
<1>4. /\ received' \in [B!Subs -> Seq(Nat)]
      /\ \A r \in B!Subs : Sorted(received'[r])
      /\ Events(received'[s]) = Events(received[s]) \cup {e}
      /\ \A r \in B!Subs \ {s} : Events(received'[r]) = Events(received[r])
  <2>1. received' \in [B!Subs -> Seq(Nat)]
    BY <1>1, <1>3 DEF SeenInv
  <2>2. \A r \in B!Subs : Sorted(received'[r])
    BY <1>1, <1>3 DEF SeenInv
  <2>3. Events(received'[s]) = Events(received[s]) \cup {e}
    BY <1>1, <1>3
  <2>4. \A r \in B!Subs \ {s} : Events(received'[r]) = Events(received[r])
    BY <1>1
  <2> QED
    BY <2>1, <2>2, <2>3, <2>4
<1> SUFFICES ASSUME NEW r \in B!Subs
             PROVE  /\ Sorted(received'[r])
                    /\ \A x \in Events(received'[r]) : x \in Nat /\ x <= log'
                    /\ r + 1 \in B!Subs => Events(received'[r + 1]) \subseteq Events(received'[r])
                    /\ \A x \in Events(received'[r]) : x <= e /\ (r > s => x < e)
                    /\ r <= s => e \in Events(received'[r])
  BY <1>4 DEF SeenInv, Seen, B!Delivering
<1>5. /\ r \in Nat /\ s \in Nat
      /\ \A x \in Events(received[r]) : x \in Nat /\ x <= log /\ x <= e /\ (r >= s => x < e)
      /\ r + 1 \in B!Subs => Events(received[r + 1]) \subseteq Events(received[r])
      /\ r < s => e \in Events(received[r])
  BY DEF SeenInv, Seen, B!Subs
<1>6. CASE r = s
  <2>1. /\ Events(received'[r]) = Events(received[r]) \cup {e}
        /\ r + 1 \in B!Subs => Events(received'[r + 1]) = Events(received[r + 1])
    BY <1>4, <1>5, <1>6
  <2> QED
    BY <1>4, <1>5, <1>6, <2>1
<1>7. CASE r # s
  <2>1. Events(received'[r]) = Events(received[r])
    BY <1>4, <1>7
  <2>2. r + 1 \in B!Subs => Events(received'[r + 1]) \subseteq Events(received'[r])
    <3>1. CASE r + 1 = s
      <4>1. Events(received'[r + 1]) = Events(received[r + 1]) \cup {e}
        BY <1>4, <3>1
      <4> QED
        BY <1>5, <2>1, <3>1, <4>1
    <3>2. CASE r + 1 \in B!Subs \ {s}
      <4>1. Events(received'[r + 1]) = Events(received[r + 1])
        BY <1>4, <3>2
      <4> QED
        BY <1>5, <2>1, <3>2, <4>1
    <3> QED
      BY <3>1, <3>2
  <2>3. \A x \in Events(received'[r]) : x \in Nat /\ x <= log' /\ x <= e /\ (r > s => x < e)
    BY <1>5, <2>1
  <2>4. r <= s => e \in Events(received'[r])
    BY <1>5, <1>7, <2>1
  <2> QED
    BY <1>4, <2>2, <2>3, <2>4
<1> QED
  BY <1>6, <1>7

(* Nothing is delivered, and no delivery goes on that did not. *)
LEMMA StillSeen ==
    ASSUME SeenInv, received' = received, log \in Nat, log' \in Nat, log <= log',
           ~B!Delivering' /\ ~raised' => \A s \in B!Subs : log' = 0 \/ log' \in Seen(s),
           B!Delivering' => B!Delivering /\ UNCHANGED <<current, turn>>
    PROVE  SeenInv'
<1>1. \A s \in B!Subs : \A e \in Seen(s) : e \in Nat /\ e <= log'
  BY DEF SeenInv
<1>2. \A s \in B!Subs : Events(received'[s]) = Seen(s)
  BY DEF Seen
<1>3. CASE B!Delivering'
  BY <1>1, <1>2, <1>3 DEF SeenInv, Seen, B!Delivering
<1>4. CASE ~B!Delivering'
  BY <1>1, <1>2, <1>4 DEF SeenInv, Seen, B!Delivering
<1> QED
  BY <1>3, <1>4

-----------------------------------------------------------------------------
(* The steps. *)

(* A task's emit. *)
LEMMA EmitOrder == ASSUME Subscribers \in Nat \ {0}, OrderInv, B!Emit PROVE OrderInv'
<1>1. /\ current = 0 /\ log' = log + 1 /\ current' = log + 1 /\ turn' = 1
      /\ nested' = FALSE /\ queue' = queue
      /\ Gets(1, log + 1)
  BY DEF B!Emit, B!Append1, B!Delivering, Gets
<1>2. log \in Nat /\ queue = <<>> /\ 1 \in B!Subs /\ log + 1 \in Nat \ {0}
  BY <1>1 DEF OrderInv, QueueInv, B!Delivering, B!Subs
<1>3. QueueInv'
  BY <1>1, <1>2 DEF OrderInv, QueueInv, B!Delivering, Events, Sorted, B!Subs
<1>4. MayGet(1, log + 1)
  BY <1>2 DEF OrderInv, SeenInv, B!Subs, MayGet
<1>5. SeenInv'
  BY <1>1, <1>2, <1>4, GetsSeen DEF OrderInv
<1> QED
  BY <1>1, <1>3, <1>5 DEF OrderInv, RejectionInv

(* A subscriber's emit: the log grows, and what waits with it. *)
LEMMA NestedOrder == ASSUME Subscribers \in Nat \ {0}, OrderInv, B!NestedEmit PROVE OrderInv'
<1>1. /\ B!Delivering /\ log' = log + 1 /\ queue' = Append(queue, log + 1)
      /\ UNCHANGED <<current, turn, refused, raised, received, nested>>
  BY DEF B!NestedEmit, B!Append1, B!Queue
<1>2. /\ log \in Nat /\ current \in 0..log /\ queue \in Seq(Nat) /\ Sorted(queue)
      /\ \A e \in Events(queue) : current < e /\ e <= log
  BY DEF OrderInv, QueueInv
<1>3. \A e \in Events(queue) : e \in Nat /\ e < log + 1
  <2>1. \A i \in DOMAIN queue : queue[i] \in Nat
    BY <1>2
  <2>2. \A e \in Events(queue) : e \in Nat
    BY <2>1 DEF Events
  <2> QED
    BY <1>2, <2>2
<1>4. /\ queue' \in Seq(Nat) /\ Events(queue') = Events(queue) \cup {log + 1}
      /\ Sorted(queue') /\ queue' # <<>> /\ queue'[Len(queue')] = log + 1
  BY <1>1, <1>2, <1>3, AppendSorted
<1>5. QueueInv'
  BY <1>1, <1>2, <1>3, <1>4 DEF OrderInv, QueueInv, B!Delivering
<1>6. SeenInv'
  BY <1>1, <1>2, StillSeen DEF OrderInv, B!Delivering
<1> QED
  BY <1>1, <1>5, <1>6 DEF OrderInv, RejectionInv, B!Delivering

(* A rejection leaves the events as they are. *)
LEMMA RejectedOrder ==
    ASSUME Subscribers \in Nat \ {0}, OrderInv, B!EmitRejected \/ B!NestedRejected PROVE OrderInv'
<1>1. /\ UNCHANGED <<log, queue, current, turn, received>>
      /\ IF B!Delivering THEN refused' = TRUE /\ raised' = raised
         ELSE raised' = TRUE /\ UNCHANGED nested
  BY DEF B!EmitRejected, B!NestedRejected, B!Delivering
<1>2. QueueInv'
  BY <1>1 DEF OrderInv, QueueInv, B!Delivering
<1>3. SeenInv'
  BY <1>1, StillSeen DEF OrderInv, QueueInv, B!Delivering
<1> QED
  BY <1>1, <1>2, <1>3 DEF OrderInv, RejectionInv, B!Delivering

(* The next subscriber, the next event, or neither. *)
LEMMA ProceedsOrder ==
    ASSUME Subscribers \in Nat \ {0}, OrderInv, B!Delivering, ~refused, B!Proceeds PROVE OrderInv'
<1>1. UNCHANGED <<log, refused, raised, nested>> /\ ~nested
  BY DEF B!Proceeds, OrderInv, RejectionInv
<1>2. /\ log \in Nat /\ current \in Nat \ {0} /\ current <= log /\ turn \in B!Subs
      /\ queue \in Seq(Nat) /\ Sorted(queue)
      /\ \A e \in Events(queue) : e \in Nat /\ current < e /\ e <= log
      /\ log = IF queue = <<>> THEN current ELSE queue[Len(queue)]
  BY DEF OrderInv, QueueInv, B!Delivering, Events
<1>3. SeenInv /\ \A s \in B!Subs :
        /\ s \in 1..Subscribers
        /\ \A e \in Seen(s) : e \in Nat /\ e <= current /\ (s > turn => e < current)
        /\ s <= turn => current \in Seen(s)
  BY DEF OrderInv, SeenInv, B!Subs
<1>4. RejectionInv'
  BY <1>1 DEF RejectionInv
<1>5. CASE turn < Subscribers
  <2> DEFINE s == turn + 1
  <2>1. /\ current' = current /\ turn' = s /\ queue' = queue
        /\ Gets(s, current) /\ s \in B!Subs
    BY <1>2, <1>5 DEF B!Proceeds, B!Deliver, B!Subs, Gets
  <2>2. QueueInv'
    BY <1>1, <1>2, <2>1 DEF OrderInv, QueueInv, B!Delivering
  <2>3. MayGet(s, current)
    BY <1>2, <1>3 DEF B!Subs, MayGet
  <2> HIDE DEF s
  <2>4. SeenInv'
    BY <1>1, <1>2, <1>3, <2>1, <2>3, GetsSeen
  <2> QED
    BY <1>4, <2>2, <2>4 DEF OrderInv
<1>6. CASE ~(turn < Subscribers) /\ queue # <<>>
  <2> DEFINE e == Head(queue)
  <2>1. /\ current' = e /\ turn' = 1 /\ queue' = Tail(queue) /\ 1 \in B!Subs
        /\ Gets(1, e)
    <3>1. e \in Events(queue)
      BY <1>2, <1>6, TailSorted
    <3>2. e # 0
      BY <1>2, <3>1
    <3> QED
      BY <1>6, <3>2 DEF B!Proceeds, B!Deliver, B!Subs, Gets
  <2>2. /\ Tail(queue) \in Seq(Nat) /\ e \in Events(queue)
        /\ Events(Tail(queue)) \subseteq Events(queue)
        /\ Sorted(Tail(queue)) /\ \A x \in Events(Tail(queue)) : e < x
        /\ log = IF Tail(queue) = <<>> THEN e ELSE Tail(queue)[Len(Tail(queue))]
    BY <1>2, <1>6, TailSorted
  <2>3. e \in Nat \ {0} /\ e <= log /\ current < e
    BY <1>2, <2>2
  <2> HIDE DEF e
  <2>4. QueueInv'
    BY <1>1, <1>2, <2>1, <2>2, <2>3 DEF QueueInv, B!Delivering
  <2>5. MayGet(1, e)
    BY <1>2, <1>3, <2>3 DEF B!Subs, MayGet
  <2>6. SeenInv'
    BY <1>1, <1>2, <1>3, <2>1, <2>3, <2>5, GetsSeen
  <2> QED
    BY <1>4, <2>4, <2>6 DEF OrderInv
<1>7. CASE ~(turn < Subscribers) /\ queue = <<>>
  <2>1. current' = 0 /\ turn' = 0 /\ queue' = queue /\ received' = received
    BY <1>7 DEF B!Proceeds, B!Deliver
  <2>2. QueueInv'
    BY <1>1, <1>2, <1>7, <2>1 DEF QueueInv, B!Delivering, Events
  <2>3. log = current /\ \A s \in B!Subs : s <= turn
    BY <1>2, <1>3, <1>7 DEF B!Subs
  <2>4. SeenInv'
    BY <1>1, <1>2, <1>3, <2>1, <2>3, StillSeen DEF B!Delivering
  <2> QED
    BY <1>4, <2>2, <2>4 DEF OrderInv
<1> QED
  BY <1>5, <1>6, <1>7

(* A delivery fails: its emitter is told. *)
LEMMA FailsOrder == ASSUME Subscribers \in Nat \ {0}, OrderInv, B!Fails PROVE OrderInv'
<1>1. /\ queue' = <<>> /\ current' = 0 /\ turn' = 0 /\ raised' = TRUE
      /\ UNCHANGED <<log, received>>
  BY DEF B!Fails
<1>2. QueueInv'
  BY <1>1 DEF OrderInv, QueueInv, B!Delivering, Events, Sorted
<1>3. SeenInv'
  BY <1>1, StillSeen DEF OrderInv, QueueInv, B!Delivering
<1> QED
  BY <1>1, <1>2, <1>3 DEF OrderInv, RejectionInv, B!Delivering

LEMMA OrderNext == ASSUME Subscribers \in Nat \ {0}, OrderInv, [B!Next]_B!vars PROVE OrderInv'
<1>1. CASE B!Returns \/ B!Raises
  <2>1. \/ B!Delivering /\ ~refused /\ B!Proceeds
        \/ B!Fails
    BY <1>1 DEF B!Returns, B!Raises, B!Rejection
  <2> QED
    BY <2>1, ProceedsOrder, FailsOrder
<1>2. CASE B!Unavailable \/ B!ReturnsRejected
  BY <1>2, FailsOrder DEF B!Unavailable, B!ReturnsRejected
<1>3. CASE UNCHANGED B!vars
  <2>1. UNCHANGED <<log, queue, current, turn, refused, raised, received, nested>>
    BY <1>3 DEF B!vars
  <2>2. SeenInv'
    BY <2>1 DEF OrderInv, SeenInv, Seen, B!Delivering
  <2> QED
    BY <2>1, <2>2 DEF OrderInv, QueueInv, RejectionInv, B!Delivering
<1> QED
  BY <1>1, <1>2, <1>3, EmitOrder, NestedOrder, RejectedOrder DEF B!Next

LEMMA OrderAlways == ASSUME Subscribers \in Nat \ {0} PROVE B!Spec => []OrderInv
<1>1. B!Init => OrderInv
  <2> SUFFICES ASSUME B!Init PROVE OrderInv
    OBVIOUS
  <2>1. QueueInv /\ RejectionInv
    BY DEF B!Init, QueueInv, RejectionInv, B!Delivering, Events, Sorted
  <2>2. /\ received = [s \in B!Subs |-> <<>>] /\ <<>> \in Seq(Nat) /\ log = 0 /\ current = 0
    BY DEF B!Init
  <2>3. \A s \in B!Subs : received[s] = <<>> /\ Seen(s) = {}
    BY <2>2 DEF Seen, Events
  <2>4. SeenInv
    BY <2>2, <2>3 DEF SeenInv, Sorted, B!Delivering
  <2> QED
    BY <2>1, <2>4 DEF OrderInv
<1> QED
  BY <1>1, OrderNext, PTL DEF B!Spec

-----------------------------------------------------------------------------
(* Whatever its subscribers emit, raise and swallow, the bus shows each    *)
(* the events in the order of the log (core/bus.py).                       *)
THEOREM EventsInOrder == ASSUME Subscribers \in Nat \ {0} PROVE B!Spec => []B!LogOrder
<1>1. ASSUME OrderInv PROVE B!LogOrder
  <2>1. \A s \in B!Subs : B!Received(s) = Seen(s) /\ (s < Subscribers => s + 1 \in B!Subs)
    BY DEF B!Received, Seen, Events, B!Subs
  <2> QED
    BY <1>1, <2>1 DEF OrderInv, SeenInv, B!LogOrder, Sorted
<1> QED
  BY <1>1, OrderAlways, PTL

(* A rejected nested emit reaches the task that emitted (core/bus.py,      *)
(* _rejected).                                                             *)
THEOREM RejectionsReach == ASSUME Subscribers \in Nat \ {0} PROVE B!Spec => []B!RejectionReachesEmitter
<1>1. OrderInv => B!RejectionReachesEmitter
  BY DEF OrderInv, RejectionInv, B!RejectionReachesEmitter
<1> QED
  BY <1>1, OrderAlways, PTL

-----------------------------------------------------------------------------
(* When Slow takes a step. *)

WakeConstants == NoTime \notin Int /\ HEARTBEAT \in Nat /\ Waits \subseteq Nat

Lines == [at : Int, gen : BOOLEAN, fast : Int \cup {NoTime}, free : Int \cup {NoTime}]
Timers == [due : Int \cup {NoTime}, why : {"none", "heartbeat", "timer"}]

WakeTypes ==
    /\ now \in Int /\ held \in Int \cup {NoTime} /\ asked \in Nat \cup {NoTime}
    /\ rested \in Int \cup {NoTime} /\ slow \in {"idle", "step", "finished"}
    /\ lines \in BOOLEAN /\ gens \in BOOLEAN
    /\ timer \in Timers /\ (timer # W!NoTimer => timer.due \in Int)
    /\ held # NoTime => held <= now
    /\ \A l \in unseen : l \in Lines /\ l.at <= now
    /\ call = "none" => unseen = {}

(* A line FastC has not answered waits in _lines or for the generation that *)
(* saw it; one it has answered has woken Slow.                             *)
Answer(l) ==
    IF l.fast = NoTime
    THEN call = "open" /\ IF l.gen THEN gens /\ fast = "asked" ELSE lines
    ELSE l.fast <= now /\ (slow # "finished" => reasons # {})

(* The running step frees every line said during it, and _held is no later *)
(* than the first of them.                                                 *)
Freed(l) ==
    /\ slow = "step" => l.free = NoTime /\ (call = "open" => held # NoTime /\ held <= l.at)
    /\ slow = "idle" => l.free # NoTime /\ l.free <= now

(* The timer, or a wake, ends every wait in time. *)
Due(t) == reasons # {} \/ (timer # W!NoTimer /\ timer.due <= t)

NeverLate ==
    slow = "idle" /\ ~ended =>
        /\ \A l \in unseen : Due(W!Later(l.at + HEARTBEAT, l.free))
        /\ call = "open" =>
             rested # NoTime /\ now <= rested + HEARTBEAT /\ Due(rested + HEARTBEAT)

WakeInv ==
    WakeTypes /\ (\A l \in unseen : Answer(l) /\ Freed(l)) /\ NeverLate /\ W!LagBound

LEMMA WakeStep ==
    ASSUME WakeConstants, WakeInv, [W!Next]_W!vars
    PROVE  WakeInv'
<1> USE DEF WakeInv, WakeConstants
<1>0. \A a, b \in Int : W!Later(a, b) \in Int /\ W!Later(a, b) >= a /\ W!Later(a, b) >= b
                        /\ (W!Later(a, b) = a \/ W!Later(a, b) = b)
  BY DEF W!Later
<1>1. CASE UNCHANGED W!vars
  BY <1>1 DEF W!vars, W!session, WakeTypes, Answer, Freed, NeverLate, Due, W!LagBound,
              W!NoTimer, W!Later
<1>2. CASE W!TimePasses
  <2> USE <1>2 DEF W!TimePasses
  <2>1. WakeTypes'
    BY DEF WakeTypes, Lines
  <2>2. \A l \in unseen : Answer(l)' /\ Freed(l)'
    BY DEF Answer, Freed, WakeTypes, Lines
  <2>3. slow = "idle" =>
          /\ \A l \in unseen : l.fast = NoTime
          /\ reasons = {} /\ (timer # W!NoTimer => now < timer.due)
    BY DEF W!Urgent, Answer, WakeTypes
  <2>4. NeverLate'
    BY <2>3 DEF NeverLate, Due, WakeTypes, Lines
  <2>5. W!LagBound'
    <3> SUFFICES ASSUME slow = "idle", NEW l \in unseen
                 PROVE  /\ l.fast # NoTime => now + 1 <= W!Later(l.free, l.fast)
                        /\ now + 1 <= W!Later(l.at + HEARTBEAT, l.free)
      BY DEF W!LagBound
    <3>1. timer # W!NoTimer /\ timer.due <= W!Later(l.at + HEARTBEAT, l.free)
          /\ now < timer.due /\ timer.due \in Int
      BY <2>3 DEF NeverLate, Due, WakeTypes
    <3>2. W!Later(l.at + HEARTBEAT, l.free) \in Int
      BY <1>0 DEF Freed, WakeTypes, Lines
    <3> QED
      BY <2>3, <3>1, <3>2 DEF WakeTypes
  <2> QED
    BY <2>1, <2>2, <2>4, <2>5
<1>3. CASE W!Opens
  <2> USE <1>3 DEF W!Opens, W!session, W!Woken
  <2>1. unseen = {} /\ reasons' # {}
    BY DEF WakeTypes
  <2>2. WakeTypes'
    BY <2>1 DEF WakeTypes
  <2>3. NeverLate' /\ W!LagBound'
    BY <2>1 DEF NeverLate, Due, W!LagBound, WakeTypes
  <2> QED
    BY <2>1, <2>2, <2>3
<1>4. CASE W!RepLine
  <2> USE <1>4 DEF W!RepLine, W!Hold
  <2>0. PICK new : new = [at |-> now, gen |-> FALSE, fast |-> NoTime,
                          free |-> IF slow = "step" THEN NoTime ELSE now]
    OBVIOUS
  <2>1. new \in Lines /\ new.at = now /\ ~new.gen /\ new.fast = NoTime
        /\ new.free = IF slow = "step" THEN NoTime ELSE now
    BY <2>0 DEF WakeTypes, Lines
  <2>2. unseen' = unseen \cup {new}
    BY <2>0
  <2>3. WakeTypes'
    <3>1. timer' \in Timers /\ (timer' # W!NoTimer => timer'.due \in Int)
      BY DEF WakeTypes, W!NoTimer, Timers
    <3> QED
      BY <2>1, <2>2, <3>1 DEF WakeTypes
  <2>10. /\ call' = "open" /\ lines' /\ held' = (IF held = NoTime THEN now ELSE held)
        /\ UNCHANGED <<now, ended, call, fast, gens, slow, asked, reasons, rested>>
        /\ \/ timer' = [due |-> now + HEARTBEAT, why |-> "heartbeat"]
              /\ (timer = W!NoTimer \/ timer.due > now + HEARTBEAT)
           \/ timer' = timer /\ (slow = "idle" =>
                timer # W!NoTimer /\ ~(timer.due > now + HEARTBEAT))
    OBVIOUS
  <2>4. ASSUME NEW l \in unseen PROVE Answer(l)' /\ Freed(l)'
    <3>1. Answer(l) /\ Freed(l)
      OBVIOUS
    <3> QED
      BY <2>10, <3>1 DEF Answer, Freed
  <2>5. Answer(new)' /\ Freed(new)'
    <3>1. PICK l : l = new
      OBVIOUS
    <3>2. Answer(l)'
      BY <2>10, <2>1, <3>1 DEF Answer
    <3>3. slow # "finished"
      BY DEF W!Stopped
    <3>4. Freed(l)'
      <4>1. CASE slow = "step"
        BY <2>10, <2>1, <3>1, <4>1 DEF Freed, WakeTypes
      <4>2. CASE slow = "idle"
        BY <2>10, <2>1, <3>1, <4>2 DEF Freed, WakeTypes
      <4> QED
        BY <3>3, <4>1, <4>2 DEF WakeTypes
    <3> QED
      BY <3>1, <3>2, <3>4
  <2>6. ASSUME NEW t \in Int, Due(t) PROVE Due(t)'
    <3>1. timer # W!NoTimer => timer.due \in Int
      BY DEF WakeTypes
    <3>2. CASE timer' = timer
      BY <2>10, <2>6, <3>2 DEF Due
    <3>3. CASE timer' = [due |-> now + HEARTBEAT, why |-> "heartbeat"]
               /\ (timer = W!NoTimer \/ timer.due > now + HEARTBEAT)
      BY <2>10, <2>6, <3>1, <3>3 DEF Due, W!NoTimer, WakeTypes
    <3> QED
      BY <2>10, <3>2, <3>3
  <2>7. slow = "idle" => Due(W!Later(new.at + HEARTBEAT, new.free))'
    <3>1. SUFFICES ASSUME slow = "idle"
                   PROVE  Due(W!Later(new.at + HEARTBEAT, new.free))'
      OBVIOUS
    <3>2. PICK t \in Int : t = W!Later(new.at + HEARTBEAT, new.free)
                           /\ now + HEARTBEAT <= t
      <4>1. now \in Int /\ now + HEARTBEAT \in Int
        BY DEF WakeTypes
      <4>2. new.at + HEARTBEAT = now + HEARTBEAT /\ new.free = now
        BY <2>1, <3>1
      <4>3. W!Later(now + HEARTBEAT, now) \in Int /\ W!Later(now + HEARTBEAT, now) >= now + HEARTBEAT
        BY <1>0, <4>1
      <4> QED
        BY <4>1, <4>2, <4>3
    <3>3. timer # W!NoTimer => timer.due \in Int
      BY DEF WakeTypes
    <3>4. timer' # W!NoTimer /\ timer'.due <= t
      <4>1. CASE timer' = [due |-> now + HEARTBEAT, why |-> "heartbeat"]
        <5>1. timer'.why = "heartbeat" /\ timer'.due = now + HEARTBEAT
          BY <4>1
        <5> QED
          BY <3>2, <5>1 DEF W!NoTimer
      <4>2. CASE timer' = timer /\ timer # W!NoTimer /\ ~(timer.due > now + HEARTBEAT)
        BY <3>2, <3>3, <4>2 DEF WakeTypes
      <4> QED
        BY <2>10, <3>1, <4>1, <4>2
    <3>5. Due(t)'
      BY <3>4 DEF Due
    <3> QED
      BY <3>2, <3>5
  <2>8. NeverLate'
    <3> SUFFICES ASSUME slow = "idle", ~ended PROVE NeverLate'
      BY DEF NeverLate
    <3>1. ASSUME NEW l \in unseen PROVE Due(W!Later(l.at + HEARTBEAT, l.free))'
      <4>1. PICK t : t = W!Later(l.at + HEARTBEAT, l.free)
        OBVIOUS
      <4>2. t \in Int
        BY <1>0, <4>1 DEF Freed, WakeTypes, Lines
      <4>3. Due(t)'
        BY <2>6, <4>1, <4>2 DEF NeverLate
      <4> QED
        BY <4>1, <4>3
    <3>2. call = "open" => rested \in Int /\ now <= rested + HEARTBEAT /\ Due(rested + HEARTBEAT)
      BY DEF NeverLate, WakeTypes
    <3>3. call = "open" => Due(rested + HEARTBEAT)'
      <4>1. SUFFICES ASSUME call = "open" PROVE Due(rested + HEARTBEAT)'
        OBVIOUS
      <4>2. PICK t \in Int : t = rested + HEARTBEAT
        BY <3>2, <4>1
      <4>3. Due(t)'
        BY <2>6, <3>2, <4>1, <4>2
      <4> QED
        BY <4>2, <4>3
    <3>4. \A m \in unseen' : Due(W!Later(m.at + HEARTBEAT, m.free))'
      BY <2>2, <2>7, <3>1
    <3> QED
      BY <3>2, <3>3, <3>4 DEF NeverLate
  <2>9. W!LagBound'
    <3>1. slow = "idle" => now <= W!Later(new.at + HEARTBEAT, new.free)
      BY <1>0, <2>1 DEF WakeTypes
    <3> QED
      BY <2>1, <2>2, <3>1 DEF W!LagBound
  <2> QED
    BY <2>2, <2>3, <2>4, <2>5, <2>8, <2>9
<1>5. CASE W!Closes
  <2> USE <1>5 DEF W!Closes, W!session, W!Woken
  <2>1. reasons' # {}
    OBVIOUS
  <2>2. \A m \in unseen' : \E l \in unseen :
          /\ m \in Lines /\ m.at = l.at /\ m.free = l.free /\ m.gen = l.gen
          /\ m.fast = IF l.fast = NoTime THEN now ELSE l.fast
    BY DEF W!Answered, WakeTypes, Lines
  <2>3. WakeTypes'
    BY <2>2 DEF WakeTypes
  <2>4. \A m \in unseen' : Answer(m)' /\ Freed(m)'
    BY <2>1, <2>2 DEF Answer, Freed, WakeTypes, Lines
  <2>5. NeverLate'
    BY <2>1 DEF NeverLate, Due
  <2>6. W!LagBound'
    <3> SUFFICES ASSUME slow = "idle", ~ended, NEW m \in unseen'
                 PROVE  /\ now <= W!Later(m.free, m.fast)
                        /\ now <= W!Later(m.at + HEARTBEAT, m.free)
      BY DEF W!LagBound
    <3>1. PICK l \in unseen : /\ m.at = l.at /\ m.free = l.free
                              /\ m.fast = IF l.fast = NoTime THEN now ELSE l.fast
      BY <2>2
    <3>2. now <= W!Later(l.free, now)
      BY <1>0 DEF Freed, WakeTypes, Lines
    <3> QED
      BY <3>1, <3>2 DEF W!LagBound
  <2> QED
    BY <2>3, <2>4, <2>5, <2>6
<1>6. CASE W!OtherWake \/ W!OtherTrigger \/ W!FastSpoke
  <2>1. /\ UNCHANGED <<now, ended, call, lines, gens, held, timer, slow, asked, unseen, rested>>
        /\ reasons \subseteq reasons' /\ (fast = "asked" => fast' = "asked")
    BY <1>6 DEF W!OtherWake, W!OtherTrigger, W!FastSpoke, W!session, W!Woken
  <2>2. WakeTypes'
    BY <2>1 DEF WakeTypes
  <2>3. (\A l \in unseen : Answer(l)' /\ Freed(l)') /\ NeverLate' /\ W!LagBound'
    BY <2>1 DEF Answer, Freed, NeverLate, Due, W!LagBound
  <2> QED
    BY <2>1, <2>2, <2>3
<1>7. CASE W!FastAsks
  <2> USE <1>7 DEF W!FastAsks, W!session
  <2>1. \A m \in unseen' : \E l \in unseen :
          /\ m \in Lines /\ m.at = l.at /\ m.free = l.free /\ m.gen
          /\ m.fast = l.fast
    BY DEF WakeTypes, Lines
  <2>2. WakeTypes'
    BY <2>1 DEF WakeTypes
  <2>3. \A m \in unseen' : Answer(m)' /\ Freed(m)'
    BY <2>1 DEF Answer, Freed, WakeTypes, Lines
  <2>4. NeverLate' /\ W!LagBound'
    BY <2>1 DEF NeverLate, Due, W!LagBound
  <2> QED
    BY <2>2, <2>3, <2>4
<1>8. CASE W!FastTurns
  <2> USE <1>8 DEF W!FastTurns, W!session, W!Woken
  <2>1. \A m \in unseen' : \E l \in unseen :
          /\ m \in Lines /\ m.at = l.at /\ m.free = l.free /\ m.gen = l.gen
          /\ m.fast = IF l.gen /\ l.fast = NoTime THEN now ELSE l.fast
    BY DEF W!Answered, WakeTypes, Lines
  <2>2. reasons \subseteq reasons' /\ (gens => reasons' # {})
    OBVIOUS
  <2>3. WakeTypes'
    BY <2>1 DEF WakeTypes
  <2>4. \A m \in unseen' : Answer(m)' /\ Freed(m)'
    BY <2>1, <2>2 DEF Answer, Freed, WakeTypes, Lines
  <2>5. NeverLate'
    BY <2>1, <2>2 DEF NeverLate, Due
  <2>6. W!LagBound'
    <3> SUFFICES ASSUME slow = "idle", ~ended, NEW m \in unseen'
                 PROVE  /\ m.fast # NoTime => now <= W!Later(m.free, m.fast)
                        /\ now <= W!Later(m.at + HEARTBEAT, m.free)
      BY DEF W!LagBound
    <3>1. PICK l \in unseen :
             /\ m.at = l.at /\ m.free = l.free
             /\ m.fast = IF l.gen /\ l.fast = NoTime THEN now ELSE l.fast
      BY <2>1
    <3>2. now <= W!Later(l.free, now)
      BY <1>0 DEF Freed, WakeTypes, Lines
    <3> QED
      BY <3>1, <3>2 DEF W!LagBound
  <2> QED
    BY <2>3, <2>4, <2>5, <2>6
<1>9. CASE W!TimerFires
  <2> USE <1>9 DEF W!TimerFires, W!session, W!Woken
  <2>1. reasons' # {} /\ reasons \subseteq reasons'
    OBVIOUS
  <2>2. WakeTypes'
    BY DEF WakeTypes, W!NoTimer, Timers
  <2>3. (\A l \in unseen : Answer(l)' /\ Freed(l)') /\ NeverLate' /\ W!LagBound'
    BY <2>1 DEF Answer, Freed, NeverLate, Due, W!LagBound
  <2> QED
    BY <2>2, <2>3
<1>10. CASE W!StepStarts
  <2> USE <1>10 DEF W!StepStarts
  <2>1. WakeTypes' /\ unseen' = {}
    BY DEF WakeTypes, W!NoTimer, Timers
  <2>2. NeverLate' /\ W!LagBound'
    BY DEF NeverLate, W!LagBound
  <2> QED
    BY <2>1, <2>2
<1>11. CASE W!StepCap
  <2> USE <1>11 DEF W!StepCap
  <2>1. WakeTypes' /\ NeverLate' /\ W!LagBound'
    BY DEF WakeTypes, NeverLate, W!LagBound
  <2>2. \A l \in unseen : Answer(l)' /\ Freed(l)'
    BY DEF Answer, Freed
  <2> QED
    BY <2>1, <2>2
<1>12. CASE W!Waited
  <2> USE <1>12 DEF W!Waited, W!session
  <2>1. WakeTypes' /\ NeverLate' /\ W!LagBound'
    BY DEF WakeTypes, NeverLate, W!LagBound
  <2>2. \A l \in unseen : Answer(l)' /\ Freed(l)'
    BY DEF Answer, Freed
  <2> QED
    BY <2>1, <2>2
<1>13. CASE W!StepCompletes
  <2> USE <1>13 DEF W!StepCompletes, W!session
  <2>1. \A m \in unseen' : \E l \in unseen :
          m \in Lines /\ m.at = l.at /\ m.free = now /\ m.gen = l.gen /\ m.fast = l.fast
    BY DEF WakeTypes, Lines, Freed
  <2>2. CASE slow' = "finished"
    <3>1. UNCHANGED <<timer, now, call, fast, held, lines, gens, asked, reasons>> /\ rested' = NoTime
      BY <2>2
    <3>2. WakeTypes'
      BY <2>1, <2>2, <3>1 DEF WakeTypes
    <3>3. \A m \in unseen' : Answer(m)' /\ Freed(m)'
      BY <2>1, <2>2, <3>1 DEF Answer, Freed
    <3>4. NeverLate' /\ W!LagBound'
      BY <2>2 DEF NeverLate, W!LagBound
    <3> QED
      BY <3>2, <3>3, <3>4
  <2>3. CASE slow' = "idle"
    <3>1. timer' = W!Completed /\ rested' = IF call = "open" THEN now ELSE NoTime
      BY <2>3
    <3>2. W!Completed \in Timers /\ (W!Completed # W!NoTimer => W!Completed.due \in Int)
      BY <1>0 DEF W!Completed, WakeTypes, Timers, W!NoTimer
    <3>3. call = "open" =>
            /\ W!Completed # W!NoTimer /\ W!Completed.due <= now + HEARTBEAT
            /\ held # NoTime => W!Completed.due <= W!Later(now, held + HEARTBEAT)
      BY <1>0 DEF W!Completed, WakeTypes, W!NoTimer, Timers
    <3>4. WakeTypes'
      BY <2>1, <2>3, <3>1, <3>2 DEF WakeTypes
    <3>5. \A m \in unseen' : Answer(m)' /\ Freed(m)'
      BY <2>1, <2>3 DEF Answer, Freed, WakeTypes
    <3>6. ASSUME reasons = {}, NEW m \in unseen'
          PROVE  timer' # W!NoTimer /\ timer'.due <= W!Later(m.at + HEARTBEAT, m.free)
      <4>1. PICK l \in unseen : m.at = l.at /\ m.free = now /\ m.fast = l.fast /\ l \in Lines
        BY <2>1 DEF WakeTypes
      <4>2. call = "open" /\ held # NoTime /\ held <= l.at
        BY <3>6 DEF Answer, Freed
      <4>3. W!Later(now, held + HEARTBEAT) <= W!Later(l.at + HEARTBEAT, now)
        BY <4>1, <4>2 DEF W!Later, WakeTypes, Lines
      <4>4. /\ W!Later(now, held + HEARTBEAT) \in Int
            /\ W!Later(l.at + HEARTBEAT, now) \in Int
        <5>1. now \in Int /\ held + HEARTBEAT \in Int /\ l.at + HEARTBEAT \in Int
          BY <4>1, <4>2 DEF WakeTypes, Lines
        <5> QED
          BY <1>0, <5>1
      <4> QED
        BY <3>1, <3>2, <3>3, <4>1, <4>2, <4>3, <4>4
    <3>7. NeverLate'
      <4>1. \A m \in unseen' : Due(W!Later(m.at + HEARTBEAT, m.free))'
        BY <3>6 DEF Due
      <4>2. call = "open" => rested' = now /\ timer' # W!NoTimer /\ timer'.due <= now + HEARTBEAT
        BY <3>1, <3>3
      <4>3. now \in Int /\ (call = "open" => rested' # NoTime /\ now <= rested' + HEARTBEAT)
        BY <4>2 DEF WakeTypes
      <4>4. call = "open" => Due(rested + HEARTBEAT)'
        BY <4>2 DEF Due
      <4> QED
        BY <4>1, <4>3, <4>4 DEF NeverLate
    <3>8. W!LagBound'
      <4> SUFFICES ASSUME NEW m \in unseen'
                   PROVE  /\ m.fast # NoTime => now <= W!Later(m.free, m.fast)
                          /\ now <= W!Later(m.at + HEARTBEAT, m.free)
        BY DEF W!LagBound
      <4>1. m \in Lines /\ m.free = now
        BY <2>1
      <4>2. now \in Int /\ m.at + HEARTBEAT \in Int /\ (m.fast # NoTime => m.fast \in Int)
        BY <4>1 DEF Lines, WakeTypes
      <4> QED
        BY <1>0, <4>1, <4>2
    <3> QED
      BY <3>4, <3>5, <3>7, <3>8
  <2> QED
    BY <2>2, <2>3
<1> QED
  BY <1>1, <1>2, <1>3, <1>4, <1>5, <1>6, <1>7, <1>8, <1>9, <1>10, <1>11, <1>12, <1>13
     DEF W!Next

(* However rep lines, generations, waits and timers interleave, no line     *)
(* waits for Slow longer than the bound, and Slow is never idle past the   *)
(* heartbeat in the call (kernel/wake.py, slow/loop.py).                   *)
THEOREM LagBounded ==
    ASSUME WakeConstants
    PROVE  W!Spec => [](W!LagBound /\ W!NeverIdle)
<1>1. W!Init => WakeInv
  <2> SUFFICES ASSUME W!Init PROVE WakeInv
    OBVIOUS
  <2>1. WakeTypes
    <3>1. W!NoTimer \in Timers
      BY DEF Timers, W!NoTimer
    <3>2. /\ now = 0 /\ held = NoTime /\ timer = W!NoTimer /\ asked = NoTime
          /\ rested = NoTime /\ unseen = {} /\ slow = "idle"
          /\ lines \in BOOLEAN /\ gens \in BOOLEAN
      BY DEF W!Init
    <3> QED
      BY <3>1, <3>2 DEF WakeTypes
  <2>2. NeverLate /\ W!LagBound /\ \A l \in unseen : Answer(l) /\ Freed(l)
    BY DEF W!Init, NeverLate, W!LagBound
  <2> QED
    BY <2>1, <2>2 DEF WakeInv
<1>2. WakeInv => W!LagBound /\ W!NeverIdle
  BY DEF WakeInv, NeverLate, W!NeverIdle
<1> QED
  BY <1>1, <1>2, WakeStep, PTL DEF W!Spec

-----------------------------------------------------------------------------
(* When the call opens. *)

GateConstants == Required \subseteq Keys

States == {"none", "pending", "replied", "answered"}
Asked == [state : States, ask : Int, voiced : BOOLEAN]

(* A need of k says what befell its ask. *)
Honest(n, k) ==
    /\ n \in Asked
    /\ n.state = "pending" /\ n.voiced => k \in told.asked
    /\ n.state = "replied" => k \in told.replied
    /\ n.state = "answered" => facts[k] # "none"

(* The needs an unvoiced ask would restore are as honest as those that     *)
(* stand, and wait for nothing.                                            *)
GateInv ==
    /\ asks \in Int /\ DOMAIN told = {"asked", "replied"} /\ facts = [k \in Keys |-> facts[k]]
    /\ needs = [k \in Keys |-> needs[k]] /\ \A k \in Keys : Honest(needs[k], k)
    /\ \A v \in voicing : /\ v.keys \subseteq Keys
                          /\ \A k \in v.keys : /\ Honest(v.before[k], k)
                                               /\ v.before[k].state # "pending"
    /\ G!NoKeyStuck

LEMMA GateStep ==
    ASSUME GateInv, [G!Next]_G!vars
    PROVE  GateInv'
(* What a need says stays true. *)
<1>1. ASSUME told.asked \subseteq told'.asked, told.replied \subseteq told'.replied,
             \A k \in Keys : facts[k] # "none" => facts'[k] # "none"
      PROVE  \A n, k : k \in Keys /\ Honest(n, k) => Honest(n, k)'
  <2> SUFFICES ASSUME NEW n, NEW k \in Keys, Honest(n, k) PROVE Honest(n, k)'
    OBVIOUS
  <2> QED
    BY <1>1 DEF Honest
(* Steps that leave the ledger of asks alone. *)
<1>2. ASSUME UNCHANGED <<asks, told, voicing, needs, facts>> PROVE GateInv'
  BY <1>2 DEF GateInv, G!NoKeyStuck, Honest
<1>3. CASE UNCHANGED G!vars
  BY <1>2, <1>3 DEF G!vars, G!ledger, G!gate
<1>4. ASSUME NEW ks \in SUBSET Keys, G!AskUser(ks) PROVE GateInv'
  <2> PICK v : v = [ask |-> asks + 1, keys |-> ks, before |-> [k \in ks |-> needs[k]]]
    OBVIOUS
  <2>1. v.ask = asks + 1 /\ v.keys = ks /\ \A k \in ks : v.before[k] = needs[k]
    OBVIOUS
  <2>2. /\ asks' = asks + 1 /\ voicing' = voicing \cup {v} /\ UNCHANGED <<facts, told>>
        /\ needs' = [k \in Keys |-> IF k \in ks
                       THEN [state |-> "pending", ask |-> asks + 1, voiced |-> FALSE]
                       ELSE needs[k]]
        /\ \A k \in ks : needs[k].state # "pending"
    BY <1>4 DEF G!AskUser, G!AskDenied, G!gate
  <2>3. \A n, k : k \in Keys /\ Honest(n, k) => Honest(n, k)'
    BY <1>1, <2>2
  <2>4. \A k \in Keys : Honest(needs[k], k) /\ (k \notin ks => needs'[k] = needs[k])
                        /\ (k \in ks => needs'[k].state = "pending" /\ ~needs'[k].voiced
                                        /\ needs'[k].ask = v.ask /\ needs'[k] \in Asked)
    BY <2>1, <2>2 DEF GateInv, Asked, States
  <2>5. \A k \in Keys : Honest(needs[k], k)'
    BY <2>3, <2>4 DEF Honest
  <2>6. \A w \in voicing' : /\ w.keys \subseteq Keys
                            /\ \A k \in w.keys : /\ Honest(w.before[k], k)'
                                                 /\ w.before[k].state # "pending"
    <3>1. \A w \in voicing : /\ w.keys \subseteq Keys
                             /\ \A k \in w.keys : /\ Honest(w.before[k], k)
                                                  /\ w.before[k].state # "pending"
      BY DEF GateInv
    <3>2. \A k \in ks : Honest(v.before[k], k)' /\ v.before[k].state # "pending"
      BY <2>1, <2>2, <2>3, <2>4
    <3>3. \A w \in voicing : \A k \in w.keys : Honest(w.before[k], k)'
      BY <2>3, <3>1
    <3> QED
      BY <2>1, <2>2, <3>1, <3>2, <3>3
  <2>7. G!NoKeyStuck'
    BY <2>1, <2>2, <2>4 DEF GateInv, G!NoKeyStuck
  <2>8. asks' \in Int /\ needs' = [k \in Keys |-> needs'[k]]
    BY <2>2 DEF GateInv
  <2> QED
    BY <2>2, <2>5, <2>6, <2>7, <2>8 DEF GateInv
<1>5. CASE G!Voice
  <2>1. PICK v \in voicing, spoke \in BOOLEAN :
          /\ G!Voiced(v, spoke) /\ voicing' = voicing \ {v}
          /\ told' = (IF spoke THEN [told EXCEPT !.asked = @ \cup v.keys] ELSE told)
          /\ UNCHANGED <<asks, facts>>
    BY <1>5 DEF G!Voice, G!gate
  <2>2. /\ v.keys \subseteq Keys
        /\ \A k \in v.keys : Honest(v.before[k], k) /\ v.before[k].state # "pending"
        /\ \A k \in Keys : Honest(needs[k], k)
    BY DEF GateInv
  <2>3. needs' = [k \in Keys |-> IF k \notin G!Mine(v) THEN needs[k]
                                 ELSE IF spoke THEN [needs[k] EXCEPT !.voiced = TRUE]
                                 ELSE v.before[k]]
    BY <2>1 DEF G!Voiced
  <2>4. /\ told.asked \subseteq told'.asked /\ told.replied \subseteq told'.replied
        /\ DOMAIN told' = {"asked", "replied"}
        /\ spoke => v.keys \subseteq told'.asked
    BY <2>1 DEF GateInv
  <2>5. \A n, k : k \in Keys /\ Honest(n, k) => Honest(n, k)'
    BY <1>1, <2>1, <2>4
  <2>6. ASSUME NEW k \in Keys
        PROVE  /\ Honest(needs[k], k)'
               /\ (needs[k].state = "pending" /\ ~needs[k].voiced)' =>
                    k \notin G!Mine(v) /\ needs'[k] = needs[k]
    <3>1. CASE k \notin G!Mine(v)
      <4>1. needs'[k] = needs[k]
        BY <2>3, <3>1
      <4> QED
        BY <2>2, <2>5, <3>1, <4>1
    <3>2. CASE k \in G!Mine(v) /\ spoke
      <4>1. needs'[k] = [needs[k] EXCEPT !.voiced = TRUE] /\ k \in v.keys
        BY <2>3, <3>2 DEF G!Mine
      <4>2. /\ needs'[k] \in Asked /\ needs'[k].state = needs[k].state /\ needs'[k].voiced
            /\ needs[k].state = "pending"
        BY <2>2, <3>2, <4>1 DEF Honest, Asked, G!Mine
      <4> QED
        BY <2>4, <3>2, <4>1, <4>2 DEF Honest
    <3>3. CASE k \in G!Mine(v) /\ ~spoke
      <4>1. needs'[k] = v.before[k] /\ k \in v.keys
        BY <2>3, <3>3 DEF G!Mine
      <4> QED
        BY <2>2, <2>5, <4>1
    <3> QED
      BY <3>1, <3>2, <3>3
  <2>7. G!NoKeyStuck'
    <3> SUFFICES ASSUME NEW k \in Keys, needs'[k].state = "pending", ~needs'[k].voiced
                 PROVE  \E w \in voicing' : w.ask = needs'[k].ask /\ k \in w.keys
      BY DEF G!NoKeyStuck
    <3>1. k \notin G!Mine(v) /\ needs'[k] = needs[k]
      BY <2>6
    <3>2. PICK w \in voicing : w.ask = needs[k].ask /\ k \in w.keys
      BY <3>1 DEF GateInv, G!NoKeyStuck
    <3>3. w # v
      BY <3>1, <3>2 DEF G!Mine
    <3> QED
      BY <2>1, <3>1, <3>2, <3>3
  <2>8. \A w \in voicing' : /\ w.keys \subseteq Keys
                            /\ \A k \in w.keys : /\ Honest(w.before[k], k)'
                                                 /\ w.before[k].state # "pending"
    BY <2>1, <2>5 DEF GateInv
  <2>9. asks' \in Int /\ facts' = [k \in Keys |-> facts'[k]] /\ needs' = [k \in Keys |-> needs'[k]]
    BY <2>1, <2>3 DEF GateInv
  <2> QED
    BY <2>4, <2>6, <2>7, <2>8, <2>9 DEF GateInv
<1>6. CASE G!UserMsg
  <2>1. /\ needs' = [k \in Keys |->
                       IF needs[k].state = "pending" /\ needs[k].voiced
                       THEN [needs[k] EXCEPT !.state = "replied"] ELSE needs[k]]
        /\ told' = [told EXCEPT !.replied = @ \cup told.asked]
        /\ UNCHANGED <<asks, facts, voicing>>
    BY <1>6 DEF G!UserMsg
  <2>2. /\ DOMAIN told' = {"asked", "replied"} /\ told'.asked = told.asked
        /\ told'.replied = told.replied \cup told.asked
    BY <2>1 DEF GateInv
  <2>3. \A n, k : k \in Keys /\ Honest(n, k) => Honest(n, k)'
    BY <1>1, <2>1, <2>2
  <2>4. ASSUME NEW k \in Keys
        PROVE  /\ Honest(needs[k], k)'
               /\ needs'[k].state = "pending" => needs'[k] = needs[k]
    <3>1. Honest(needs[k], k)
      BY DEF GateInv
    <3>2. CASE needs[k].state = "pending" /\ needs[k].voiced
      <4>1. needs'[k] = [needs[k] EXCEPT !.state = "replied"]
        BY <2>1, <3>2
      <4>2. needs'[k] \in Asked /\ needs'[k].state = "replied"
        BY <3>1, <4>1 DEF Honest, Asked, States
      <4> QED
        BY <2>2, <3>1, <3>2, <4>2 DEF Honest
    <3>3. CASE ~(needs[k].state = "pending" /\ needs[k].voiced)
      <4>1. needs'[k] = needs[k]
        BY <2>1, <3>3
      <4> QED
        BY <2>3, <3>1, <4>1
    <3> QED
      BY <3>2, <3>3
  <2>5. G!NoKeyStuck'
    BY <2>1, <2>4 DEF GateInv, G!NoKeyStuck
  <2>6. \A v \in voicing : \A k \in v.keys : Honest(v.before[k], k)'
    BY <2>3 DEF GateInv
  <2>7. needs' = [k \in Keys |-> needs'[k]]
    BY <2>1
  <2> QED
    BY <2>1, <2>2, <2>4, <2>5, <2>6, <2>7 DEF GateInv
<1>7. ASSUME NEW j \in Keys, G!FactRecorded(j) PROVE GateInv'
  <2>1. /\ needs' = [needs EXCEPT ![j].state = "answered"]
        /\ UNCHANGED <<asks, told, voicing>>
        /\ \E x \in {"public", "private", facts[j]} :
             (x = facts[j] => facts[j] # "none") /\ facts' = [facts EXCEPT ![j] = x]
    BY <1>7 DEF G!FactRecorded
  <2>2. /\ facts' = [k \in Keys |-> facts'[k]] /\ facts'[j] # "none"
        /\ \A k \in Keys : facts[k] # "none" => facts'[k] # "none"
    BY <2>1 DEF GateInv
  <2>3. \A n, k : k \in Keys /\ Honest(n, k) => Honest(n, k)'
    BY <1>1, <2>1, <2>2
  <2>4. /\ needs' = [k \in Keys |-> needs'[k]] /\ \A k \in Keys \ {j} : needs'[k] = needs[k]
        /\ needs'[j] \in Asked /\ needs'[j].state = "answered"
    BY <2>1 DEF GateInv, Honest, Asked, States
  <2>5. \A k \in Keys : Honest(needs[k], k)'
    <3>1. \A k \in Keys : Honest(needs[k], k)
      BY DEF GateInv
    <3>2. \A k \in Keys \ {j} : Honest(needs[k], k)'
      BY <2>3, <2>4, <3>1
    <3>3. Honest(needs[j], j)'
      BY <2>2, <2>4 DEF Honest
    <3> QED
      BY <3>2, <3>3
  <2>6. G!NoKeyStuck'
    BY <2>1, <2>4 DEF GateInv, G!NoKeyStuck
  <2>7. \A v \in voicing : \A k \in v.keys : Honest(v.before[k], k)'
    BY <2>3 DEF GateInv
  <2> QED
    BY <2>1, <2>2, <2>4, <2>5, <2>6, <2>7 DEF GateInv
<1>8. CASE G!StartCall \/ (\E r \in {"ready", "slow_start", "intake_deadline"} : G!Opens(r))
           \/ G!FastHolds \/ G!LineHeard
  BY <1>2, <1>8 DEF G!StartCall, G!Opens, G!FastHolds, G!LineHeard, G!ledger, G!gate
<1> QED
  BY <1>3, <1>4, <1>5, <1>6, <1>7, <1>8 DEF G!Next

LEMMA GateInit == ASSUME G!Init PROVE GateInv
<1>1. G!NoNeed \in Asked /\ G!NoNeed.state = "none"
  BY DEF G!NoNeed, Asked, States
<1>2. \A k \in Keys : needs[k] = G!NoNeed /\ Honest(needs[k], k)
  BY <1>1 DEF G!Init, Honest
<1>3. G!NoKeyStuck
  BY <1>1, <1>2 DEF G!NoKeyStuck
<1> QED
  BY <1>2, <1>3 DEF G!Init, GateInv

(* A key that waits for the user was asked, or will be: no order of asks,   *)
(* silent turns, replies and records leaves one waiting for nothing        *)
(* (guard/needs.py, slow/asks.py).                                         *)
THEOREM KeysUnstuck == G!Spec => []G!NoKeyStuck
<1>1. GateInv => G!NoKeyStuck
  BY DEF GateInv
<1> QED
  BY <1>1, GateInit, GateStep, PTL DEF G!Spec

(* start_call opens the call only for a user who heard each question still *)
(* open and wrote after it (guard/needs.py).                               *)
THEOREM StartsAnswered ==
    ASSUME GateConstants
    PROVE  G!Spec => [][G!StartCallStep]_G!vars
<1>1. GateInv => G!StartCallStep
  <2> SUFFICES ASSUME GateInv, G!StartCall, NEW k \in G!Missing
               PROVE  k \in told.replied \/ facts[k] # "none"
    BY DEF G!StartCallStep
  <2>1. k \in Keys /\ Honest(needs[k], k) /\ needs[k].state \notin {"none", "pending"}
    BY DEF G!Missing, GateConstants, GateInv, G!StartCall, G!StartDenied
  <2> QED
    BY <2>1 DEF Honest, Asked, States
<1> QED
  BY <1>1, GateInit, GateStep, PTL DEF G!Spec

-----------------------------------------------------------------------------
(* The Guard and the fold. *)

FoldConstants ==
    /\ Lives \subseteq Int /\ CARD_TTL \in Nat /\ CAP_TTL \in Nat \ {0} /\ Speech \in Nat
    /\ FoldHorizon \in Nat

BoardFields == {"status", "epoch", "rev", "open", "bound", "expires", "mandate", "card",
                "approvals", "caps", "fence", "ok"}
Cards == [rev : Int, epoch : Int, expires : Int]
Caps == [rev : Int, epoch : Int, expires : Int, used : BOOLEAN]

(* No two capabilities are of one revision: a second is authorized only     *)
(* when none waits and none of that revision is used.                      *)
BoardTypes ==
    /\ \A c, d \in bb.caps : c.rev = d.rev => c = d
    /\ clock \in Int /\ clock <= FoldHorizon /\ DOMAIN bb = BoardFields
    /\ bb.rev \in Int /\ bb.epoch \in Int /\ bb.expires \in Int
    /\ bb.card # None => bb.card \in Cards
    /\ \A a \in bb.approvals : a.card \in Cards
    /\ bb.caps \subseteq Caps

Timed == {"approval.decided", "action.authorized"}
Verified == {"VERIFIED_COMPLETE", "VERIFIED_NO_DEAL"}

Typed(e) ==
    /\ e.type = "offer.recorded" => e.rev \in Int /\ e.expires \in Int
    /\ e.type = "approval.requested" => e.card \in Cards
    /\ e.type = "approval.decided" => e.card \in Cards /\ e.ends \in Int
    /\ e.type = "authority.epoch" => e.new \in Int
    /\ e.type = "action.authorized" => e.cap \in Caps /\ e.ends \in Int
    /\ e.type = "speak.released" => e.cap \in Caps /\ e.ends \in Int

(* An effect checked at c: the fold takes it now, or time has overtaken it; *)
(* a release is checked for the end of its line.                           *)
Lasts(e, c) ==
    /\ e.type = "speak.released" => e.ends > c + Speech
    /\ e.type \in Timed => e.ends > c

Late(e) == e.type \in Timed /\ e.ends <= clock

Sound(e, c) == Typed(e) /\ Lasts(e, c) /\ (K!Takes(e) \/ Late(e))

(* A status.changed that the fold will take once completion.decided, if it *)
(* is of a verified case, has said so.                                     *)
MoveFits(e) ==
    /\ e.type = "status.changed" /\ e.previous = bb.status
    /\ \/ \E row \in K!TRANSITIONS : row[1] = e.previous /\ row[3] = e.status
       \/ e.status = "ABANDONED" /\ bb.status \notin K!TERMINAL
    /\ e.status = "VERIFIED_COMPLETE" => K!Cardinality(K!Used) = 1
    /\ e.status = "VERIFIED_NO_DEAL" => K!Used = {}

(* The effects of one check: each finds the board its predecessors leave. *)
Pair(e, f, c) ==
    /\ Sound(e, c) /\ Typed(f) /\ Lasts(f, c)
    /\ \/ e.type \in {"approval.post", "mandate.post"} /\ Sound(f, c)
       \/ /\ e.type = "authority.epoch" /\ f.type = "mandate.proposed"
          /\ f.epoch = e.new
       \/ /\ e.type = "mandate.decided" /\ f.type = "authority.epoch"
          /\ f.new > bb.epoch
       \/ /\ e.type = "action.authorized" /\ f.type = "accept line"
          /\ f.cap = e.cap /\ ~e.cap.used
       \/ /\ e.type \in {"approval.requested", "approval.decided", "accept line",
                         "speak.revoked", "completion.decided"}
          /\ MoveFits(f)
          /\ f.status \in Verified => e.type = "completion.decided" /\ e.ok

Triple(e, f, g, c) ==
    /\ Sound(e, c)
    /\ \/ e.type \in {"approval.post", "mandate.post"} /\ Pair(f, g, c)
       \/ /\ e.type = "action.authorized" /\ f.type = "accept line"
          /\ f.cap = e.cap /\ ~e.cap.used
          /\ MoveFits(g) /\ g.status \notin Verified

Plan(q, c) ==
    \/ q = <<>>
    \/ \E e : q = <<e>> /\ Sound(e, c)
    \/ \E e, f : q = <<e, f>> /\ Pair(e, f, c)
    \/ \E e, f, g : q = <<e, f, g>> /\ Triple(e, f, g, c)

FoldInv ==
    /\ BoardTypes /\ checked \in Int
    /\ todo # <<>> => checked <= clock /\ clock <= checked + Speech
    /\ IF rejected = None THEN Plan(todo, checked)
       ELSE todo = <<>> /\ K!FoldTakesTheChecked /\ rejected.ends \in Int

-----------------------------------------------------------------------------
(* Without a change of the board, only a passed end makes the fold refuse  *)
(* what it would have taken.                                               *)
LEMMA TakesStill ==
    ASSUME bb' = bb, NEW e, K!Takes(e),
           e.type \in Timed \cup {"speak.released"} => e.ends > clock'
    PROVE  K!Takes(e)'
<1> USE DEF K!Takes, Timed
<1>1. CASE e.type \in {"approval.requested", "approval.post", "approval.decided"}
  BY <1>1 DEF K!TakesCard, K!Current
<1>2. CASE e.type \in {"mandate.proposed", "mandate.post", "mandate.decided"}
  BY <1>2 DEF K!TakesMandate
<1>3. CASE e.type \in {"action.authorized", "accept line", "speak.released", "speak.revoked"}
  BY <1>3 DEF K!TakesCapability, K!Current, K!Used, K!Waiting
<1>4. CASE e.type = "status.changed"
  BY <1>4 DEF K!TakesStatus, K!Used
<1>5. CASE e.type \notin {"approval.requested", "approval.post", "approval.decided",
             "mandate.proposed", "mandate.post", "mandate.decided", "action.authorized",
             "accept line", "speak.released", "speak.revoked", "status.changed"}
  BY <1>5
<1> QED
  BY <1>1, <1>2, <1>3, <1>4, <1>5

LEMMA SoundStill ==
    ASSUME bb' = bb, clock \in Int, clock' \in Int, clock <= clock', NEW c \in Int,
           clock' <= c + Speech, Speech \in Nat, NEW e, Sound(e, c)
    PROVE  Sound(e, c)'
<1>1. CASE Late(e)
  BY <1>1 DEF Sound, Late, Typed, Lasts, Timed
<1>2. CASE K!Takes(e) /\ e.type \in Timed /\ e.ends <= clock'
  BY <1>2 DEF Sound, Late, Typed, Lasts
<1>3. CASE K!Takes(e) /\ ~(e.type \in Timed /\ e.ends <= clock')
  <2>1. e.type \in Timed \cup {"speak.released"} => e.ends > clock'
    BY <1>3 DEF Sound, Typed, Lasts, Timed
  <2>2. K!Takes(e)'
    BY <1>3, <2>1, TakesStill
  <2> QED
    BY <2>2 DEF Sound, Typed, Lasts
<1> QED
  BY <1>1, <1>2, <1>3 DEF Sound

LEMMA PlanStill ==
    ASSUME bb' = bb, clock \in Int, clock' \in Int, clock <= clock', NEW c \in Int,
           clock' <= c + Speech, Speech \in Nat, NEW q, Plan(q, c)
    PROVE  Plan(q, c)'
<1>1. \A e : Sound(e, c) => Sound(e, c)'
  BY SoundStill
<1>2. \A e : Typed(e)' <=> Typed(e)
  BY DEF Typed
<1>3. \A e : Lasts(e, c)' <=> Lasts(e, c)
  BY DEF Lasts
<1>4. \A e : MoveFits(e) => MoveFits(e)'
  BY DEF MoveFits, K!Used
<1>5. \A e, f : Pair(e, f, c) => Pair(e, f, c)'
  BY <1>1, <1>2, <1>3, <1>4 DEF Pair
<1>6. \A e, f, g : Triple(e, f, g, c) => Triple(e, f, g, c)'
  BY <1>1, <1>4, <1>5 DEF Triple
<1> QED
  BY <1>1, <1>5, <1>6 DEF Plan

-----------------------------------------------------------------------------
(* What a taken effect leaves on the board. *)
LEMMA Leaves ==
    ASSUME DOMAIN bb = BoardFields, NEW e, NEW a, a = K!Applied(e)
    PROVE  /\ DOMAIN a = BoardFields
           /\ a.status = IF e.type = "status.changed" THEN e.status ELSE bb.status
           /\ a.epoch = IF e.type = "authority.epoch" THEN e.new ELSE bb.epoch
           /\ a.rev = IF e.type = "offer.recorded" THEN e.rev ELSE bb.rev
           /\ a.expires = IF e.type = "offer.recorded" THEN e.expires ELSE bb.expires
           /\ a.card = IF e.type = "approval.requested" THEN e.card
                       ELSE IF e.type = "approval.decided" THEN None ELSE bb.card
           /\ a.approvals = IF e.type = "approval.decided"
                            THEN bb.approvals \cup {[card |-> e.card, granted |-> e.granted]}
                            ELSE bb.approvals
           /\ a.caps = IF e.type = "action.authorized" THEN bb.caps \cup {e.cap}
                       ELSE IF e.type = "speak.released"
                       THEN (bb.caps \ {e.cap}) \cup {[e.cap EXCEPT !.used = TRUE]}
                       ELSE IF e.type = "speak.revoked" THEN bb.caps \ {e.cap} ELSE bb.caps
           /\ e.type = "completion.decided" => a.ok = e.ok
           /\ e.type \in {"approval.post", "mandate.post", "accept line"} => a = bb
<1> USE DEF K!Applied, BoardFields
<1>1. CASE e.type = "offer.recorded"
  BY <1>1
<1>2. CASE e.type = "readback.updated"
  BY <1>2
<1>3. CASE e.type = "approval.requested"
  BY <1>3
<1>4. CASE e.type = "approval.decided"
  BY <1>4
<1>5. CASE e.type = "mandate.proposed"
  BY <1>5
<1>6. CASE e.type = "mandate.decided"
  BY <1>6
<1>7. CASE e.type = "authority.epoch"
  BY <1>7
<1>8. CASE e.type = "action.authorized"
  BY <1>8
<1>9. CASE e.type = "decline line"
  BY <1>9
<1>10. CASE e.type = "speak.released"
  BY <1>10
<1>11. CASE e.type = "speak.revoked"
  BY <1>11
<1>12. CASE e.type = "completion.decided"
  BY <1>12
<1>13. CASE e.type = "status.changed"
  BY <1>13
<1>14. CASE e.type = "authority.fence"
  BY <1>14
<1>15. CASE e.type \notin {"offer.recorded", "readback.updated", "approval.requested",
              "approval.decided", "mandate.proposed", "mandate.decided", "authority.epoch",
              "action.authorized", "decline line", "speak.released", "speak.revoked",
              "completion.decided", "status.changed", "authority.fence"}
  BY <1>15
<1> QED
  BY <1>1, <1>2, <1>3, <1>4, <1>5, <1>6, <1>7, <1>8, <1>9, <1>10, <1>11, <1>12, <1>13,
     <1>14, <1>15

(* e is taken, and a stale card's case is replanned with it. *)
Taken(e) ==
    /\ K!Takes(e) /\ clock' = clock
    /\ bb' = IF K!Stale(e) THEN K!Replanned(K!Applied(e)) ELSE K!Applied(e)

LEMMA TakenLeaves ==
    ASSUME BoardTypes, NEW e, Typed(e), Taken(e)
    PROVE  /\ BoardTypes'
           /\ bb'.epoch = IF e.type = "authority.epoch" THEN e.new ELSE bb.epoch
           /\ e.type \notin {"status.changed", "authority.epoch"} => bb'.status = bb.status
           /\ e.type = "action.authorized" => bb'.caps = bb.caps \cup {e.cap}
           /\ e.type = "completion.decided" => bb'.ok = e.ok /\ bb'.caps = bb.caps
           /\ e.type \in {"approval.post", "mandate.post", "accept line"} => bb' = bb
<1>1. PICK a : a = K!Applied(e)
  OBVIOUS
<1>2. /\ DOMAIN a = BoardFields
      /\ a.status = IF e.type = "status.changed" THEN e.status ELSE bb.status
      /\ a.epoch = IF e.type = "authority.epoch" THEN e.new ELSE bb.epoch
      /\ a.rev = IF e.type = "offer.recorded" THEN e.rev ELSE bb.rev
      /\ a.expires = IF e.type = "offer.recorded" THEN e.expires ELSE bb.expires
      /\ a.card = IF e.type = "approval.requested" THEN e.card
                  ELSE IF e.type = "approval.decided" THEN None ELSE bb.card
      /\ a.approvals = IF e.type = "approval.decided"
                       THEN bb.approvals \cup {[card |-> e.card, granted |-> e.granted]}
                       ELSE bb.approvals
      /\ a.caps = IF e.type = "action.authorized" THEN bb.caps \cup {e.cap}
                  ELSE IF e.type = "speak.released"
                  THEN (bb.caps \ {e.cap}) \cup {[e.cap EXCEPT !.used = TRUE]}
                  ELSE IF e.type = "speak.revoked" THEN bb.caps \ {e.cap} ELSE bb.caps
      /\ e.type = "completion.decided" => a.ok = e.ok
      /\ e.type \in {"approval.post", "mandate.post", "accept line"} => a = bb
  BY <1>1, Leaves DEF BoardTypes
<1>3. e.type # "authority.epoch" => bb' = a
  BY <1>1 DEF Taken, K!Stale
<1>4. /\ DOMAIN bb' = BoardFields
      /\ bb'.epoch = a.epoch /\ bb'.rev = a.rev /\ bb'.expires = a.expires
      /\ bb'.card = a.card /\ bb'.approvals = a.approvals /\ bb'.caps = a.caps
  <2>1. bb' = a \/ bb' = [a EXCEPT !.status = "NEEDS_REPLAN"]
    BY <1>1 DEF Taken, K!Replanned
  <2> QED
    BY <1>2, <2>1 DEF BoardFields
<1>5. a.caps \subseteq Caps
  <2>1. CASE e.type = "speak.released"
    <3>1. [e.cap EXCEPT !.used = TRUE] \in Caps
      BY <2>1 DEF Typed, Caps
    <3>2. a.caps = (bb.caps \ {e.cap}) \cup {[e.cap EXCEPT !.used = TRUE]}
      BY <1>2, <2>1
    <3> QED
      BY <3>1, <3>2 DEF BoardTypes
  <2>2. CASE e.type # "speak.released"
    BY <1>2, <2>2 DEF BoardTypes, Typed
  <2> QED
    BY <2>1, <2>2
<1>6. /\ a.rev \in Int /\ a.epoch \in Int /\ a.expires \in Int
      /\ a.card # None => a.card \in Cards
  BY <1>2 DEF BoardTypes, Typed
<1>7. \A x \in a.approvals : x.card \in Cards
  <2>1. CASE e.type = "approval.decided"
    BY <1>2, <2>1 DEF BoardTypes, Typed
  <2>2. CASE e.type # "approval.decided"
    BY <1>2, <2>2 DEF BoardTypes
  <2> QED
    BY <2>1, <2>2
<1>9. \A c, d \in a.caps : c.rev = d.rev => c = d
  <2>1. CASE e.type = "action.authorized"
    <3>1. K!Waiting = {} /\ \A c \in K!Used : c.rev # e.cap.rev
      BY <2>1 DEF Taken, K!Takes, K!TakesCapability
    <3>2. \A c \in bb.caps : c.rev # e.cap.rev
      BY <3>1 DEF K!Waiting, K!Used
    <3> QED
      BY <1>2, <2>1, <3>2 DEF BoardTypes
  <2>2. CASE e.type = "speak.released"
    <3>1. e.cap \in bb.caps /\ e.cap \in Caps
      BY <2>2 DEF Taken, K!Takes, K!TakesCapability, K!Waiting, BoardTypes
    <3>2. PICK u : u = [e.cap EXCEPT !.used = TRUE]
      OBVIOUS
    <3>3. u.rev = e.cap.rev /\ a.caps = (bb.caps \ {e.cap}) \cup {u}
      BY <1>2, <2>2, <3>1, <3>2 DEF Caps
    <3> QED
      BY <3>1, <3>3 DEF BoardTypes
  <2>3. CASE e.type \notin {"action.authorized", "speak.released"}
    BY <1>2, <2>3 DEF BoardTypes
  <2> QED
    BY <2>1, <2>2, <2>3
<1>8. BoardTypes'
  BY <1>4, <1>5, <1>6, <1>7, <1>9 DEF BoardTypes, Taken
<1> QED
  BY <1>2, <1>3, <1>4, <1>8

LEMMA MoveAfter ==
    ASSUME BoardTypes, NEW e, Typed(e), Taken(e), NEW f, MoveFits(f),
           e.type \notin {"status.changed", "authority.epoch"},
           f.status \in Verified => e.type = "completion.decided"
    PROVE  MoveFits(f)'
<1>1. bb'.status = bb.status /\ (e.type = "completion.decided" => bb'.caps = bb.caps)
  BY TakenLeaves
<1>2. e.type = "completion.decided" => K!Used' = K!Used
  BY <1>1 DEF K!Used
<1> QED
  BY <1>1, <1>2 DEF MoveFits, Verified

LEMMA SecondSound ==
    ASSUME BoardTypes, NEW c, NEW e, NEW f, Pair(e, f, c), Taken(e)
    PROVE  Sound(f, c)'
<1>1. /\ bb'.epoch = IF e.type = "authority.epoch" THEN e.new ELSE bb.epoch
      /\ e.type = "action.authorized" => bb'.caps = bb.caps \cup {e.cap}
      /\ e.type = "completion.decided" => bb'.ok = e.ok
      /\ e.type \in {"approval.post", "mandate.post", "accept line"} => bb' = bb
      /\ clock' = clock /\ Typed(e) /\ Typed(f) /\ Lasts(f, c)
  BY TakenLeaves DEF Pair, Sound, Taken
<1>2. Typed(f)' /\ Lasts(f, c)'
  BY <1>1 DEF Typed, Lasts
<1>3. CASE e.type \in {"approval.post", "mandate.post"} /\ Sound(f, c)
  <2>1. CASE Late(f)
    BY <1>1, <1>2, <2>1 DEF Sound, Late
  <2>2. CASE K!Takes(f) /\ ~Late(f)
    <3>1. bb' = bb
      BY <1>1, <1>3
    <3>2. f.type \in Timed \cup {"speak.released"} => K!Takes(f)'
      BY <1>1, <2>2, <3>1 DEF K!Takes, K!TakesCard, K!TakesCapability, K!Current, K!Used,
             K!Waiting, Timed
    <3>3. f.type \notin Timed \cup {"speak.released"} => K!Takes(f)'
      BY <2>2, <3>1, TakesStill
    <3> QED
      BY <1>2, <3>2, <3>3 DEF Sound
  <2> QED
    BY <1>3, <2>1, <2>2 DEF Sound
<1>4. CASE e.type = "authority.epoch" /\ f.type = "mandate.proposed" /\ f.epoch = e.new
  <2>1. K!Takes(f)'
    BY <1>1, <1>4 DEF K!Takes, K!TakesMandate
  <2> QED
    BY <1>2, <2>1 DEF Sound
<1>5. CASE e.type = "mandate.decided" /\ f.type = "authority.epoch" /\ f.new > bb.epoch
  <2>1. K!Takes(f)'
    BY <1>1, <1>5 DEF K!Takes
  <2> QED
    BY <1>2, <2>1 DEF Sound
<1>6. CASE /\ e.type = "action.authorized" /\ f.type = "accept line"
           /\ f.cap = e.cap /\ ~e.cap.used
  <2>1. K!Takes(f)'
    BY <1>1, <1>6 DEF K!Takes, K!TakesCapability, K!Waiting
  <2> QED
    BY <1>2, <2>1 DEF Sound
<1>7. CASE /\ e.type \in {"approval.requested", "approval.decided", "accept line",
                          "speak.revoked", "completion.decided"}
           /\ MoveFits(f)
           /\ f.status \in Verified => e.type = "completion.decided" /\ e.ok
  <2>1. MoveFits(f)'
    BY <1>1, <1>7, MoveAfter
  <2>2. f.status \in Verified => bb'.ok
    BY <1>1, <1>7
  <2>3. K!Takes(f)'
    BY <2>1, <2>2 DEF K!Takes, K!TakesStatus, MoveFits, Verified
  <2> QED
    BY <1>2, <2>3 DEF Sound
<1> QED
  BY <1>3, <1>4, <1>5, <1>6, <1>7 DEF Pair

LEMMA RestPaired ==
    ASSUME BoardTypes, NEW c, NEW e, NEW f, NEW g, Triple(e, f, g, c), Taken(e),
           clock \in Int, c \in Int, clock <= c + Speech, Speech \in Nat
    PROVE  Pair(f, g, c)'
<1>1. CASE e.type \in {"approval.post", "mandate.post"} /\ Pair(f, g, c)
  <2>1. bb' = bb /\ clock' = clock
    BY <1>1, TakenLeaves DEF Triple, Sound, Taken
  <2>2. Pair(f, g, c) => Pair(f, g, c)'
    <3>1. Sound(f, c) => Sound(f, c)'
      BY <2>1, SoundStill
    <3>2. Sound(g, c) => Sound(g, c)'
      BY <2>1, SoundStill
    <3>3. MoveFits(g) => MoveFits(g)'
      BY <2>1 DEF MoveFits, K!Used
    <3> QED
      BY <2>1, <3>1, <3>2, <3>3 DEF Pair, Typed, Lasts
  <2> QED
    BY <1>1, <2>2
<1>2. CASE /\ e.type = "action.authorized" /\ f.type = "accept line"
           /\ f.cap = e.cap /\ ~e.cap.used /\ MoveFits(g) /\ g.status \notin Verified
  <2>1. Sound(e, c) /\ Typed(e)
    BY DEF Triple, Sound
  <2>2. bb'.caps = bb.caps \cup {e.cap}
    BY <1>2, <2>1, TakenLeaves
  <2>3. MoveFits(g)'
    BY <1>2, <2>1, MoveAfter
  <2>4. K!Takes(f)'
    BY <1>2, <2>2 DEF K!Takes, K!TakesCapability, K!Waiting
  <2>5. Typed(f) /\ Lasts(f, c) /\ Typed(g) /\ Lasts(g, c)
    BY <1>2 DEF Typed, Lasts, Timed, MoveFits
  <2>6. Sound(f, c)'
    BY <2>4, <2>5 DEF Sound, Typed, Lasts
  <2> QED
    BY <1>2, <2>3, <2>5, <2>6 DEF Pair, Typed, Lasts
<1> QED
  BY <1>1, <1>2 DEF Triple

LEMMA EmitStep ==
    ASSUME FoldConstants, FoldInv, K!Emit
    PROVE  FoldInv'
<1> USE DEF FoldConstants
<1>1. /\ todo # <<>> /\ rejected = None /\ Plan(todo, checked) /\ BoardTypes /\ clock' = clock
      /\ checked \in Int /\ clock \in Int /\ checked <= clock /\ clock <= checked + Speech
  BY DEF K!Emit, FoldInv, BoardTypes
<1>2. PICK c \in Int : c = checked
  BY <1>1
<1>3. PICK e : e = Head(todo)
  OBVIOUS
<1>0. PICK q : q = Tail(todo)
  OBVIOUS
<1>4. Sound(e, c) /\ (Taken(e) => Plan(q, c)')
  <2>1. CASE \E x : todo = <<x>> /\ Sound(x, c)
    <3>1. PICK x : todo = <<x>> /\ Sound(x, c)
      BY <2>1
    <3>2. x = e /\ q = <<>>
      BY <1>0, <1>3, <3>1
    <3> QED
      BY <3>1, <3>2, <1>1 DEF Plan
  <2>2. CASE \E x, f : todo = <<x, f>> /\ Pair(x, f, c)
    <3>1. PICK x, f : todo = <<x, f>> /\ Pair(x, f, c)
      BY <2>2
    <3>2. x = e /\ q = <<f>>
      BY <1>0, <1>3, <3>1
    <3>3. Taken(e) => Sound(f, c)'
      BY <1>1, <3>1, <3>2, SecondSound
    <3> QED
      BY <3>1, <3>2, <3>3 DEF Plan, Pair
  <2>3. CASE \E x, f, g : todo = <<x, f, g>> /\ Triple(x, f, g, c)
    <3>1. PICK x, f, g : todo = <<x, f, g>> /\ Triple(x, f, g, c)
      BY <2>3
    <3>2. x = e /\ q = <<f, g>>
      BY <1>0, <1>3, <3>1
    <3>3. Taken(e) => Pair(f, g, c)'
      BY <1>1, <1>2, <3>1, <3>2, RestPaired
    <3> QED
      BY <3>1, <3>2, <3>3 DEF Plan, Triple
  <2> QED
    BY <1>1, <1>2, <2>1, <2>2, <2>3 DEF Plan
<1>5. CASE K!Takes(e)
  <2>1. /\ Taken(e) /\ todo' = q /\ rejected' = None
        /\ checked' = IF todo' = <<>> THEN 0 ELSE checked
    BY <1>0, <1>1, <1>3, <1>5 DEF K!Emit, Taken
  <2>2. BoardTypes'
    BY <1>1, <1>4, <2>1, TakenLeaves DEF Sound
  <2>4. todo' # <<>> => checked' = c
    BY <1>2, <2>1
  <2>5. Plan(todo, checked)'
    BY <1>4, <2>1, <2>4 DEF Plan
  <2> QED
    BY <1>1, <1>2, <2>1, <2>2, <2>4, <2>5 DEF FoldInv
<1>6. CASE ~K!Takes(e)
  <2>1. bb' = bb /\ todo' = <<>> /\ rejected' = e /\ checked' = checked
    BY <1>3, <1>6 DEF K!Emit
  <2>2. Late(e) /\ Typed(e) /\ Lasts(e, c)
    BY <1>4, <1>6 DEF Sound
  <2>3. e.type \in Timed /\ c < e.ends /\ e.ends <= clock /\ e.ends \in Int
    BY <2>2 DEF Late, Typed, Lasts, Timed
  <2>4. BoardTypes'
    BY <1>1, <2>1 DEF BoardTypes
  <2>5. K!FoldTakesTheChecked'
    BY <1>1, <1>2, <2>1, <2>3 DEF K!FoldTakesTheChecked, Timed
  <2> QED
    BY <1>1, <2>1, <2>3, <2>4, <2>5 DEF FoldInv, Plan
<1> QED
  BY <1>5, <1>6

LEMMA TickStep ==
    ASSUME FoldConstants, FoldInv, K!Tick
    PROVE  FoldInv'
<1>1. /\ clock' = clock + 1 /\ clock < FoldHorizon /\ bb' = bb /\ UNCHANGED <<todo, checked, rejected>>
      /\ todo # <<>> => clock < checked + Speech
  BY DEF K!Tick
<1>2. clock \in Int /\ checked \in Int /\ FoldHorizon \in Int /\ Speech \in Nat
  BY DEF FoldConstants, FoldInv, BoardTypes
<1>3. BoardTypes'
  BY <1>1, <1>2 DEF FoldInv, BoardTypes
<1>4. CASE rejected = None
  <2>1. Plan(todo, checked)
    BY <1>4 DEF FoldInv
  <2>2. CASE todo = <<>>
    BY <1>1, <1>2, <1>3, <1>4, <2>2 DEF FoldInv, Plan
  <2>3. CASE todo # <<>>
    <3>1. clock' <= checked + Speech /\ checked <= clock'
      BY <1>1, <1>2, <2>3 DEF FoldInv
    <3>2. PICK q, c : q = todo /\ c = checked
      OBVIOUS
    <3>3. Plan(q, c)'
      BY <1>1, <1>2, <2>1, <3>1, <3>2, PlanStill
    <3> QED
      BY <1>1, <1>2, <1>3, <1>4, <3>1, <3>2, <3>3 DEF FoldInv
  <2> QED
    BY <2>2, <2>3
<1>5. CASE rejected # None
  BY <1>1, <1>2, <1>3, <1>5 DEF FoldInv, K!FoldTakesTheChecked
<1> QED
  BY <1>4, <1>5

-----------------------------------------------------------------------------
(* The checks. *)

LEMMA ChecksFit ==
    ASSUME FoldConstants, FoldInv, NEW q, K!Checks(q), Plan(q, clock)
    PROVE  FoldInv'
<1>1. /\ rejected = None /\ todo' = q /\ bb' = bb /\ clock' = clock /\ rejected' = None
      /\ checked' = IF q = <<>> THEN 0 ELSE clock
  BY DEF K!Checks
<1>2. clock \in Int /\ Speech \in Nat /\ BoardTypes'
  BY <1>1 DEF FoldConstants, FoldInv, BoardTypes
<1>3. PICK c \in Int : c = clock
  BY <1>2
<1>4. Plan(q, c)'
  BY <1>1, <1>2, <1>3, PlanStill
<1>5. Plan(todo, checked)'
  BY <1>1, <1>3, <1>4 DEF Plan
<1> QED
  BY <1>1, <1>2, <1>5 DEF FoldInv

LEMMA Joined ==
    /\ \A a : <<a>> \o <<>> = <<a>>
    /\ \A a, b : <<a>> \o <<b>> = <<a, b>> /\ <<a, b>> \o <<>> = <<a, b>>
    /\ \A a, b, c : <<a, b>> \o <<c>> = <<a, b, c>>
<1>1. ASSUME NEW a PROVE <<a>> \o <<>> = <<a>>
  BY ConcatEmptySeq, <<a>> \in Seq({a})
<1>2. ASSUME NEW a, NEW b PROVE <<a, b>> \o <<>> = <<a, b>>
  BY ConcatEmptySeq, <<a, b>> \in Seq({a, b})
<1>3. ASSUME NEW a, NEW b PROVE <<a>> \o <<b>> = <<a, b>>
  <2>1. PICK S : S = {a, b}
    OBVIOUS
  <2>2. PICK s, t : s = <<a>> /\ t = <<b>>
    OBVIOUS
  <2>8. s \in Seq(S) /\ t \in Seq(S)
    <3>1. <<a>> \in Seq({a, b}) /\ <<b>> \in Seq({a, b})
      OBVIOUS
    <3> QED
      BY <2>1, <2>2, <3>1
  <2>3. Len(s) = 1 /\ Len(t) = 1 /\ s[1] = a /\ t[1] = b
    BY <2>2
  <2>4. /\ s \o t \in Seq(S) /\ Len(s \o t) = 2
        /\ \A i \in 1..2 : (s \o t)[i] = IF i <= 1 THEN s[i] ELSE t[i - 1]
    BY <2>3, <2>8, ConcatProperties
  <2>5. PICK u : u = <<a, b>>
    OBVIOUS
  <2>10. Len(u) = 2 /\ u[1] = a /\ u[2] = b
    BY <2>5
  <2>9. u \in Seq(S) /\ Len(u) = Len(s \o t)
    <3>1. <<a, b>> \in Seq({a, b})
      OBVIOUS
    <3> QED
      BY <2>1, <2>4, <2>5, <2>10, <3>1
  <2>6. \A i \in 1..2 : (s \o t)[i] = u[i]
    BY <2>3, <2>4, <2>10
  <2>7. s \o t = u
    BY <2>4, <2>6, <2>9, SeqEqual
  <2> QED
    BY <2>2, <2>5, <2>7
<1>4. ASSUME NEW a, NEW b, NEW c PROVE <<a, b>> \o <<c>> = <<a, b, c>>
  <2>1. PICK S : S = {a, b, c}
    OBVIOUS
  <2>2. PICK s, t : s = <<a, b>> /\ t = <<c>>
    OBVIOUS
  <2>8. s \in Seq(S) /\ t \in Seq(S)
    <3>1. <<a, b>> \in Seq({a, b, c}) /\ <<c>> \in Seq({a, b, c})
      OBVIOUS
    <3> QED
      BY <2>1, <2>2, <3>1
  <2>3. Len(s) = 2 /\ Len(t) = 1 /\ s[1] = a /\ s[2] = b /\ t[1] = c
    BY <2>2
  <2>4. /\ s \o t \in Seq(S) /\ Len(s \o t) = 3
        /\ \A i \in 1..3 : (s \o t)[i] = IF i <= 2 THEN s[i] ELSE t[i - 2]
    BY <2>3, <2>8, ConcatProperties
  <2>5. PICK u : u = <<a, b, c>>
    OBVIOUS
  <2>10. Len(u) = 3 /\ u[1] = a /\ u[2] = b /\ u[3] = c
    BY <2>5
  <2>9. u \in Seq(S) /\ Len(u) = Len(s \o t)
    <3>1. <<a, b, c>> \in Seq({a, b, c})
      OBVIOUS
    <3> QED
      BY <2>1, <2>4, <2>5, <2>10, <3>1
  <2>6. \A i \in 1..3 : (s \o t)[i] = u[i]
    BY <2>3, <2>4, <2>10
  <2>7. s \o t = u
    BY <2>4, <2>6, <2>9, SeqEqual
  <2> QED
    BY <2>2, <2>5, <2>7
<1> QED
  BY <1>1, <1>2, <1>3, <1>4

LEMMA RowIs ==
    ASSUME NEW s, NEW t, K!MayMove(s, t)
    PROVE  /\ \/ \E row \in K!TRANSITIONS : row[1] = s /\ row[3] = K!NextStatus(s, t)
              \/ K!NextStatus(s, t) = "ABANDONED" /\ s \notin K!TERMINAL
           /\ K!NextStatus(s, t) = "VERIFIED_COMPLETE" => t = "completion_ok"
           /\ K!NextStatus(s, t) = "VERIFIED_NO_DEAL" => t = "no_deal_verified"
<1>1. \A row \in K!TRANSITIONS : /\ row[3] = "VERIFIED_COMPLETE" => row[2] = "completion_ok"
                                 /\ row[3] = "VERIFIED_NO_DEAL" => row[2] = "no_deal_verified"
                                 /\ row[2] # "hang_up"
  BY DEF K!TRANSITIONS
<1>2. CASE t = "hang_up"
  <2>1. s \notin K!TERMINAL
    BY <1>1, <1>2 DEF K!MayMove
  <2> QED
    BY <1>2, <2>1 DEF K!NextStatus
<1>3. CASE t # "hang_up"
  <2>1. \E row \in K!TRANSITIONS : row[1] = s /\ row[2] = t
    BY <1>3 DEF K!MayMove
  <2>2. PICK row \in K!TRANSITIONS : row[1] = s /\ row[2] = t /\ row[3] = K!NextStatus(s, t)
    <3>1. PICK row : row = CHOOSE r \in K!TRANSITIONS : r[1] = s /\ r[2] = t
      OBVIOUS
    <3>2. row \in K!TRANSITIONS /\ row[1] = s /\ row[2] = t
      BY <2>1, <3>1
    <3>3. K!NextStatus(s, t) = row[3]
      BY <1>3, <3>1 DEF K!NextStatus
    <3> QED
      BY <3>2, <3>3
  <2> QED
    BY <1>1, <2>2
<1> QED
  BY <1>2, <1>3

(* A move alone, or after one or two effects. *)
LEMMA MoveIs ==
    ASSUME NEW t,
           t = "completion_ok" => K!Cardinality(K!Used) = 1,
           t = "no_deal_verified" => K!Used = {}
    PROVE  \/ K!Moved(bb.status, t) = <<>>
           \/ \E m : /\ K!Moved(bb.status, t) = <<m>> /\ MoveFits(m)
                     /\ m.status \in Verified => t \in {"completion_ok", "no_deal_verified"}
<1>1. CASE ~K!MayMove(bb.status, t)
  BY <1>1 DEF K!Moved
<1>2. CASE K!MayMove(bb.status, t)
  <2>1. PICK n : n = K!NextStatus(bb.status, t)
    OBVIOUS
  <2>2. PICK m : m = [type |-> "status.changed", previous |-> bb.status, status |-> n]
    OBVIOUS
  <2>3. m.type = "status.changed" /\ m.previous = bb.status /\ m.status = n
    BY <2>2
  <2>4. MoveFits(m) /\ (m.status \in Verified => t \in {"completion_ok", "no_deal_verified"})
    BY <1>2, <2>1, <2>3, RowIs DEF MoveFits, Verified
  <2>5. K!Moved(bb.status, t) = <<m>>
    BY <1>2, <2>1, <2>2 DEF K!Moved
  <2> QED
    BY <2>4, <2>5
<1> QED
  BY <1>1, <1>2

LEMMA MoveAlone ==
    ASSUME NEW t, t \notin {"completion_ok", "no_deal_verified"}, NEW c
    PROVE  Plan(K!Moved(bb.status, t), c)
<1>1. CASE K!Moved(bb.status, t) = <<>>
  BY <1>1 DEF Plan
<1>2. ASSUME NEW m, K!Moved(bb.status, t) = <<m>>, MoveFits(m), m.status \notin Verified
      PROVE  Plan(K!Moved(bb.status, t), c)
  <2>1. K!Takes(m)
    BY <1>2 DEF MoveFits, K!Takes, K!TakesStatus, Verified
  <2>2. Sound(m, c)
    BY <1>2, <2>1 DEF Sound, MoveFits, Typed, Lasts, Timed
  <2> QED
    BY <1>2, <2>2 DEF Plan
<1> QED
  BY <1>1, <1>2, MoveIs

LEMMA MoveSecond ==
    ASSUME NEW t, NEW c, NEW e, Sound(e, c),
           e.type \in {"approval.requested", "approval.decided", "accept line",
                       "speak.revoked", "completion.decided"},
           t = "completion_ok" => K!Cardinality(K!Used) = 1,
           t = "no_deal_verified" => K!Used = {},
           t \in {"completion_ok", "no_deal_verified"} => e.type = "completion.decided" /\ e.ok
    PROVE  Plan(<<e>> \o K!Moved(bb.status, t), c)
<1>1. CASE K!Moved(bb.status, t) = <<>>
  BY <1>1, Joined DEF Plan
<1>2. ASSUME NEW m, K!Moved(bb.status, t) = <<m>>, MoveFits(m),
             m.status \in Verified => t \in {"completion_ok", "no_deal_verified"}
      PROVE  Plan(<<e>> \o K!Moved(bb.status, t), c)
  <2>1. Pair(e, m, c)
    BY <1>2 DEF Pair, MoveFits, Typed, Lasts, Timed
  <2>2. <<e>> \o K!Moved(bb.status, t) = <<e, m>>
    BY <1>2, Joined
  <2> QED
    BY <2>1, <2>2 DEF Plan
<1> QED
  BY <1>1, <1>2, MoveIs

LEMMA MoveThird ==
    ASSUME NEW t \in {"approval_decided", "accept_authorized"}, NEW c, NEW e, NEW f,
           Sound(e, c), Pair(e, f, c),
           \/ e.type = "approval.post" /\ f.type = "approval.decided"
           \/ /\ e.type = "action.authorized" /\ f.type = "accept line"
              /\ f.cap = e.cap /\ ~e.cap.used
    PROVE  Plan(<<e, f>> \o K!Moved(bb.status, t), c)
<1>1. CASE K!Moved(bb.status, t) = <<>>
  BY <1>1, Joined DEF Plan
<1>2. ASSUME NEW m, K!Moved(bb.status, t) = <<m>>, MoveFits(m), m.status \notin Verified
      PROVE  Plan(<<e, f>> \o K!Moved(bb.status, t), c)
  <2> SUFFICES Triple(e, f, m, c)
    <3>1. <<e, f>> \o K!Moved(bb.status, t) = <<e, f, m>>
      BY <1>2, Joined
    <3> QED
      BY <3>1 DEF Plan
  <2>1. CASE e.type = "approval.post"
    <3>1. Sound(f, c)
      BY <2>1 DEF Pair
    <3>2. Pair(f, m, c)
      BY <1>2, <2>1, <3>1 DEF Pair, MoveFits, Typed, Lasts, Timed
    <3> QED
      BY <2>1, <3>2 DEF Triple
  <2>2. CASE e.type # "approval.post"
    BY <1>2, <2>2 DEF Triple
  <2> QED
    BY <2>1, <2>2
<1> QED
  BY <1>1, <1>2, MoveIs

LEMMA PlainSound ==
    ASSUME NEW e, NEW c, K!Takes(e), e.type \notin Timed \cup {"speak.released"}, Typed(e)
    PROVE  Sound(e, c) /\ Plan(<<e>>, c)
  BY DEF Sound, Plan, Lasts, Timed

LEMMA Bounds ==
    ASSUME FoldConstants
    PROVE  /\ K!Never \in Int /\ K!Never > FoldHorizon
           /\ \A a, b \in Int : K!Min2(a, b) \in Int /\ K!Min2(a, b) <= a /\ K!Min2(a, b) <= b
                                /\ (K!Min2(a, b) = a \/ K!Min2(a, b) = b)
  BY DEF FoldConstants, K!Never, K!Min2

LEMMA CheckStep ==
    ASSUME FoldConstants, FoldInv,
           \/ K!RecordOffer \/ K!Readback \/ K!RequestApproval \/ K!ProposeMandate
           \/ K!TightenMandate \/ K!Revoke \/ K!DecideApproval \/ K!DecideMandate
           \/ K!AcceptOffer \/ K!DeclineOffer \/ K!Speak \/ K!Heard
           \/ K!CheckAccount \/ K!FinishCompleted \/ K!FinishNoDeal \/ K!Moves \/ K!Fences
    PROVE  FoldInv'
<1>0. BoardTypes /\ clock \in Int /\ clock <= FoldHorizon /\ clock < K!Never /\ K!Never \in Int
  <2>1. K!Never \in Int /\ K!Never > FoldHorizon
    BY Bounds
  <2>2. BoardTypes /\ clock \in Int /\ clock <= FoldHorizon /\ FoldHorizon \in Int
    BY DEF FoldInv, BoardTypes, FoldConstants
  <2> QED
    BY <2>1, <2>2
<1>1. CASE K!RecordOffer
  <2>1. PICK life \in Lives \cup {K!Never} :
          K!Checks(<<[type |-> "offer.recorded", rev |-> bb.rev + 1,
                      expires |-> K!Min2(clock + life, K!Never)]>>)
    BY <1>1 DEF K!RecordOffer
  <2>2. K!Min2(clock + life, K!Never) \in Int
    BY <1>0, Bounds DEF FoldConstants
  <2>3. PICK e : e = [type |-> "offer.recorded", rev |-> bb.rev + 1,
                      expires |-> K!Min2(clock + life, K!Never)]
    OBVIOUS
  <2>4. e.type = "offer.recorded" /\ e.rev = bb.rev + 1 /\ e.expires \in Int
    BY <2>2, <2>3
  <2>5. K!Takes(e) /\ Typed(e)
    BY <1>0, <2>4 DEF K!Takes, Typed, BoardTypes
  <2> QED
    BY <2>1, <2>3, <2>4, <2>5, PlainSound, ChecksFit DEF Timed
<1>2. CASE K!Readback
  <2>1. PICK e : e = [type |-> "readback.updated", rev |-> bb.rev]
    OBVIOUS
  <2>2. K!Takes(e) /\ Typed(e) /\ e.type = "readback.updated"
    BY <2>1 DEF K!Takes, Typed
  <2> QED
    BY <1>2, <2>1, <2>2, PlainSound, ChecksFit DEF K!Readback, Timed
<1>3. CASE K!RequestApproval
  <2>1. PICK e : e = [type |-> "approval.requested",
                      card |-> [rev |-> bb.rev, epoch |-> bb.epoch,
                                expires |-> K!Min2(bb.expires, clock + CARD_TTL)]]
    OBVIOUS
  <2>2. K!Min2(bb.expires, clock + CARD_TTL) \in Int
    <3>1. bb.expires \in Int /\ clock + CARD_TTL \in Int
      BY <1>0 DEF BoardTypes, FoldConstants
    <3> QED
      BY <3>1, Bounds
  <2>3. /\ e.type = "approval.requested" /\ e.card \in Cards
        /\ e.card.rev = bb.rev /\ e.card.epoch = bb.epoch
    BY <1>0, <2>1, <2>2 DEF Cards, BoardTypes
  <2>4. K!Takes(e) /\ Typed(e)
    BY <1>3, <2>3 DEF K!RequestApproval, K!OpenOffer, K!Takes, K!TakesCard, K!Current, Typed
  <2>5. Sound(e, clock)
    BY <2>3, <2>4, PlainSound DEF Timed
  <2>6. PICK t : t = "approval_requested" /\ t \notin {"completion_ok", "no_deal_verified"}
    OBVIOUS
  <2>7. Plan(<<e>> \o K!Moved(bb.status, t), clock)
    BY <2>3, <2>5, <2>6, MoveSecond
  <2> QED
    BY <1>3, <2>1, <2>6, <2>7, ChecksFit DEF K!RequestApproval
<1>4. CASE K!ProposeMandate
  <2>1. PICK e : e = [type |-> "mandate.proposed", epoch |-> bb.epoch]
    OBVIOUS
  <2>2. K!Takes(e) /\ Typed(e) /\ e.type = "mandate.proposed"
    BY <2>1 DEF K!Takes, K!TakesMandate, Typed
  <2> QED
    BY <1>4, <2>1, <2>2, PlainSound, ChecksFit DEF K!ProposeMandate, Timed
<1>5. ASSUME NEW decided PROVE
        LET e == [type |-> "authority.epoch", new |-> bb.epoch + 1, decided |-> decided]
        IN  e.type = "authority.epoch" /\ e.new = bb.epoch + 1 /\ K!Takes(e) /\ Typed(e)
  BY <1>0 DEF BoardTypes, K!Takes, Typed
<1>6. CASE K!TightenMandate
  <2>1. PICK e : e = [type |-> "authority.epoch", new |-> bb.epoch + 1, decided |-> FALSE]
    OBVIOUS
  <2>2. PICK f : f = [type |-> "mandate.proposed", epoch |-> bb.epoch + 1]
    OBVIOUS
  <2>3. e.type = "authority.epoch" /\ e.new = bb.epoch + 1 /\ K!Takes(e) /\ Typed(e)
    BY <1>5, <2>1
  <2>4. f.type = "mandate.proposed" /\ f.epoch = bb.epoch + 1
    BY <2>2
  <2>5. Sound(e, clock)
    BY <2>3, PlainSound DEF Timed
  <2>6. Pair(e, f, clock)
    BY <2>3, <2>4, <2>5 DEF Pair, Typed, Lasts, Timed
  <2>7. Plan(<<e, f>>, clock)
    BY <2>6 DEF Plan
  <2> QED
    BY <1>6, <2>1, <2>2, <2>7, ChecksFit DEF K!TightenMandate
<1>7. CASE K!Revoke
  <2>1. PICK e : e = [type |-> "authority.epoch", new |-> bb.epoch + 1, decided |-> FALSE]
    OBVIOUS
  <2>2. e.type = "authority.epoch" /\ K!Takes(e) /\ Typed(e)
    BY <1>5, <2>1
  <2> QED
    BY <1>7, <2>1, <2>2, PlainSound, ChecksFit DEF K!Revoke, Timed
<1>8. CASE K!DecideApproval
  <2>1. PICK granted \in BOOLEAN :
          K!Checks(<<[type |-> "approval.post", card |-> bb.card],
                     [type |-> "approval.decided", card |-> bb.card,
                      granted |-> granted, ends |-> bb.card.expires]>>
                   \o K!Moved(bb.status, "approval_decided"))
    BY <1>8 DEF K!DecideApproval
  <2>2. PICK e, f : /\ e = [type |-> "approval.post", card |-> bb.card]
                    /\ f = [type |-> "approval.decided", card |-> bb.card,
                            granted |-> granted, ends |-> bb.card.expires]
    OBVIOUS
  <2>3. /\ e.type = "approval.post" /\ e.card = bb.card
        /\ f.type = "approval.decided" /\ f.card = bb.card /\ f.ends = bb.card.expires
    BY <2>2
  <2>4. /\ bb.card # None /\ bb.card \in Cards /\ K!Current(bb.card)
        /\ bb.card.epoch = bb.epoch /\ bb.card.expires > clock
    BY <1>0, <1>8 DEF K!DecideApproval, BoardTypes
  <2>5. K!Takes(e) /\ K!Takes(f)
    BY <2>3, <2>4 DEF K!Takes, K!TakesCard
  <2>6. Sound(e, clock) /\ Sound(f, clock)
    BY <2>3, <2>4, <2>5 DEF Sound, Typed, Lasts, Timed, Cards
  <2>7. Pair(e, f, clock)
    BY <2>3, <2>6 DEF Pair, Sound
  <2>8. Plan(<<e, f>> \o K!Moved(bb.status, "approval_decided"), clock)
    BY <2>3, <2>6, <2>7, MoveThird
  <2> QED
    BY <2>1, <2>2, <2>8, ChecksFit
<1>9. CASE K!DecideMandate
  <2>1. PICK state \in {"granted", "denied"} :
          K!Checks(<<[type |-> "mandate.post"],
                     [type |-> "mandate.decided", state |-> state],
                     [type |-> "authority.epoch", new |-> bb.epoch + 1, decided |-> TRUE]>>)
    BY <1>9 DEF K!DecideMandate
  <2>2. PICK e, f, g :
          /\ e = [type |-> "mandate.post"] /\ f = [type |-> "mandate.decided", state |-> state]
          /\ g = [type |-> "authority.epoch", new |-> bb.epoch + 1, decided |-> TRUE]
    OBVIOUS
  <2>3. /\ e.type = "mandate.post" /\ f.type = "mandate.decided"
        /\ g.type = "authority.epoch" /\ g.new = bb.epoch + 1 /\ Typed(g)
    BY <1>5, <2>2
  <2>4. K!Takes(e) /\ K!Takes(f)
    BY <1>9, <2>3 DEF K!DecideMandate, K!Takes, K!TakesMandate
  <2>5. Sound(e, clock) /\ Sound(f, clock)
    BY <2>3, <2>4 DEF Sound, Typed, Lasts, Timed
  <2>6. Pair(f, g, clock)
    BY <1>0, <2>3, <2>5 DEF Pair, Lasts, Timed, BoardTypes
  <2>7. Triple(e, f, g, clock)
    BY <2>3, <2>5, <2>6 DEF Triple
  <2>8. Plan(<<e, f, g>>, clock)
    BY <2>7 DEF Plan
  <2> QED
    BY <2>1, <2>2, <2>8, ChecksFit
<1>10. CASE K!AcceptOffer
  <2>1. PICK until \in K!GrantEnds :
          LET ends == K!Min2(K!Min2(until, bb.expires), clock + CAP_TTL)
              cap == [rev |-> bb.rev, epoch |-> bb.epoch, expires |-> ends, used |-> FALSE]
          IN  K!Checks(<<[type |-> "action.authorized", cap |-> cap, ends |-> ends],
                         [type |-> "accept line", cap |-> cap]>>
                       \o K!Moved(bb.status, "accept_authorized"))
    BY <1>10 DEF K!AcceptOffer
  <2>2. until \in Int /\ until > clock
    BY <1>0 DEF K!GrantEnds, BoardTypes, Cards
  <2>3. /\ bb.expires > clock /\ bb.bound /\ K!Waiting = {}
        /\ \A c \in K!Used : c.rev # bb.rev
    BY <1>10 DEF K!AcceptOffer, K!MayAccept, K!OpenOffer
  <2>4. PICK ends : ends = K!Min2(K!Min2(until, bb.expires), clock + CAP_TTL)
    OBVIOUS
  <2>5. ends \in Int /\ ends > clock
    <3>1. K!Min2(until, bb.expires) \in Int /\ K!Min2(until, bb.expires) > clock
      BY <1>0, <2>2, <2>3, Bounds DEF BoardTypes
    <3>2. clock + CAP_TTL \in Int /\ clock + CAP_TTL > clock
      BY <1>0 DEF FoldConstants
    <3> QED
      BY <2>4, <3>1, <3>2, Bounds
  <2>6. PICK cap : cap = [rev |-> bb.rev, epoch |-> bb.epoch, expires |-> ends, used |-> FALSE]
    OBVIOUS
  <2>7. cap \in Caps /\ cap.rev = bb.rev /\ cap.epoch = bb.epoch /\ ~cap.used
    BY <1>0, <2>5, <2>6 DEF Caps, BoardTypes
  <2>8. PICK e, f : /\ e = [type |-> "action.authorized", cap |-> cap, ends |-> ends]
                    /\ f = [type |-> "accept line", cap |-> cap]
    OBVIOUS
  <2>9. /\ e.type = "action.authorized" /\ e.cap = cap /\ e.ends = ends
        /\ f.type = "accept line" /\ f.cap = cap
    BY <2>8
  <2>10. cap \notin bb.caps
    BY <2>3, <2>7 DEF K!Waiting
  <2>11. K!Takes(e)
    BY <2>3, <2>5, <2>7, <2>9, <2>10 DEF K!Takes, K!TakesCapability, K!Current
  <2>12. Sound(e, clock)
    BY <2>5, <2>7, <2>9, <2>11 DEF Sound, Typed, Lasts, Timed
  <2>13. Pair(e, f, clock)
    BY <2>7, <2>9, <2>12 DEF Pair, Typed, Lasts, Timed
  <2>14. Plan(<<e, f>> \o K!Moved(bb.status, "accept_authorized"), clock)
    BY <2>7, <2>9, <2>12, <2>13, MoveThird
  <2>15. K!Checks(<<e, f>> \o K!Moved(bb.status, "accept_authorized"))
    BY <2>1, <2>4, <2>6, <2>8
  <2> QED
    BY <2>14, <2>15, ChecksFit
<1>11. CASE K!DeclineOffer
  <2>1. PICK e : e = [type |-> "decline line"]
    OBVIOUS
  <2>2. K!Takes(e) /\ Typed(e) /\ e.type = "decline line"
    BY <1>11, <2>1 DEF K!DeclineOffer, K!Takes, Typed
  <2> QED
    BY <1>11, <2>1, <2>2, PlainSound, ChecksFit DEF K!DeclineOffer, Timed
<1>12. CASE K!Speak
  <2>1. PICK c \in K!Waiting :
          IF K!Revalidate(c)
          THEN K!Checks(<<[type |-> "speak.released", cap |-> c, ends |-> c.expires]>>)
          ELSE K!Checks(<<[type |-> "speak.revoked", cap |-> c]>>
                        \o K!Moved(bb.status, "accept_revoked"))
    BY <1>12 DEF K!Speak
  <2>2. c \in Caps /\ c.expires \in Int
    BY <1>0, <2>1 DEF K!Waiting, BoardTypes, Caps
  <2>3. CASE K!Revalidate(c)
    <3>1. PICK e : e = [type |-> "speak.released", cap |-> c, ends |-> c.expires]
      OBVIOUS
    <3>2. e.type = "speak.released" /\ e.cap = c /\ e.ends = c.expires
      BY <3>1
    <3>3. c.expires > clock + Speech /\ c.expires > clock
      BY <1>0, <2>2, <2>3, Bounds DEF K!Revalidate, BoardTypes, FoldConstants
    <3>4. \A d \in K!Used : d.rev # c.rev
      BY <1>0, <2>1 DEF K!Used, K!Waiting, BoardTypes
    <3>5. K!Takes(e)
      BY <2>1, <2>3, <3>2, <3>3, <3>4 DEF K!Revalidate, K!Takes, K!TakesCapability
    <3>6. Sound(e, clock)
      BY <2>2, <3>2, <3>3, <3>5 DEF Sound, Typed, Lasts, Timed
    <3>7. Plan(<<e>>, clock)
      BY <3>6 DEF Plan
    <3> QED
      BY <2>1, <2>3, <3>1, <3>7, ChecksFit
  <2>4. CASE ~K!Revalidate(c)
    <3>1. PICK e : e = [type |-> "speak.revoked", cap |-> c]
      OBVIOUS
    <3>2. e.type = "speak.revoked" /\ e.cap = c
      BY <3>1
    <3>3. K!Takes(e) /\ Typed(e)
      BY <2>1, <3>2 DEF K!Takes, K!TakesCapability, Typed
    <3>4. PICK t : t = "accept_revoked" /\ t \notin {"completion_ok", "no_deal_verified"}
      OBVIOUS
    <3>5. Plan(<<e>> \o K!Moved(bb.status, t), clock)
      BY <3>2, <3>3, <3>4, PlainSound, MoveSecond DEF Timed
    <3> QED
      BY <2>1, <2>4, <3>1, <3>4, <3>5, ChecksFit
  <2> QED
    BY <2>3, <2>4
<1>13. CASE K!Heard \/ K!CheckAccount \/ K!Moves
  <2>1. PICK t : /\ t \notin {"completion_ok", "no_deal_verified"}
                 /\ K!Checks(K!Moved(bb.status, t))
    BY <1>13 DEF K!Heard, K!CheckAccount, K!Moves
  <2> QED
    BY <2>1, MoveAlone, ChecksFit
<1>14. CASE K!FinishCompleted
  <2>1. PICK ok \in {FALSE} \cup {K!Cardinality(K!Used) = 1} :
          K!Checks(<<[type |-> "completion.decided", ok |-> ok]>>
                   \o K!Moved(bb.status, IF ok THEN "completion_ok" ELSE "completion_fail"))
    BY <1>14 DEF K!FinishCompleted
  <2>2. PICK e : e = [type |-> "completion.decided", ok |-> ok]
    OBVIOUS
  <2>3. e.type = "completion.decided" /\ e.ok = ok /\ K!Takes(e) /\ Typed(e)
    BY <2>2 DEF K!Takes, Typed
  <2>4. PICK t : t = IF ok THEN "completion_ok" ELSE "completion_fail"
    OBVIOUS
  <2>5. t = "completion_ok" => ok /\ K!Cardinality(K!Used) = 1
    BY <2>1, <2>4
  <2>6. t # "no_deal_verified"
    BY <2>4
  <2>7. Plan(<<e>> \o K!Moved(bb.status, t), clock)
    BY <2>3, <2>5, <2>6, PlainSound, MoveSecond DEF Timed
  <2> QED
    BY <2>1, <2>2, <2>4, <2>7, ChecksFit
<1>15. CASE K!FinishNoDeal
  <2>1. PICK e : e = [type |-> "completion.decided", ok |-> TRUE]
    OBVIOUS
  <2>2. e.type = "completion.decided" /\ e.ok /\ K!Takes(e) /\ Typed(e) /\ K!Used = {}
    BY <1>15, <2>1 DEF K!Takes, Typed, K!FinishNoDeal
  <2>3. PICK t : t = "no_deal_verified" /\ t # "completion_ok"
    OBVIOUS
  <2>4. Plan(<<e>> \o K!Moved(bb.status, t), clock)
    BY <2>2, <2>3, PlainSound, MoveSecond DEF Timed
  <2> QED
    BY <1>15, <2>1, <2>3, <2>4, ChecksFit DEF K!FinishNoDeal
<1>16. CASE K!Fences
  <2>1. PICK e : e = [type |-> "authority.fence", up |-> ~bb.fence]
    OBVIOUS
  <2>2. K!Takes(e) /\ Typed(e) /\ e.type = "authority.fence"
    BY <2>1 DEF K!Takes, Typed
  <2> QED
    BY <1>16, <2>1, <2>2, PlainSound, ChecksFit DEF K!Fences, Timed
<1> QED
  BY <1>1, <1>2, <1>3, <1>4, <1>6, <1>7, <1>8, <1>9, <1>10, <1>11, <1>12, <1>13, <1>14,
     <1>15, <1>16

(* Whatever the Guard lets through, the fold takes: a rejection, which     *)
(* would end the session, can only be of a decision or an authorization    *)
(* whose card or capability expired while it was being emitted             *)
(* (guard/*.py, core/fold.py).                                             *)
THEOREM TakesTheChecked ==
    ASSUME FoldConstants
    PROVE  K!Spec => []K!FoldTakesTheChecked
<1>1. K!Init => FoldInv
  <2> SUFFICES ASSUME K!Init PROVE FoldInv
    OBVIOUS
  <2>1. BoardTypes
    BY Bounds DEF K!Init, BoardTypes, BoardFields, FoldConstants
  <2> QED
    BY <2>1 DEF K!Init, FoldInv, Plan
<1>2. FoldInv /\ [K!Next]_K!vars => FoldInv'
  <2>1. CASE UNCHANGED K!vars
    <3> SUFFICES ASSUME FoldInv, UNCHANGED K!vars PROVE FoldInv'
      BY <2>1
    <3>1. UNCHANGED <<bb, clock, todo, checked, rejected>> /\ BoardTypes'
      BY DEF K!vars, FoldInv, BoardTypes
    <3>2. PICK q, c : q = todo /\ c = checked
      OBVIOUS
    <3>3. rejected = None => Plan(q, c)'
      <4>1. CASE q = <<>>
        BY <4>1 DEF Plan
      <4>2. CASE q # <<>> /\ rejected = None
        <5>1. clock \in Int /\ clock' = clock /\ c \in Int /\ clock <= c + Speech /\ Plan(q, c)
          BY <3>1, <3>2, <4>2 DEF FoldInv, BoardTypes
        <5> QED
          BY <3>1, <5>1, PlanStill DEF FoldConstants
      <4> QED
        BY <4>1, <4>2
    <3> QED
      BY <3>1, <3>2, <3>3 DEF FoldInv, K!FoldTakesTheChecked
  <2> QED
    BY <2>1, EmitStep, TickStep, CheckStep DEF K!Next
<1>3. FoldInv => K!FoldTakesTheChecked
  BY DEF FoldInv, K!FoldTakesTheChecked
<1> QED
  BY <1>1, <1>2, <1>3, PTL DEF K!Spec

-----------------------------------------------------------------------------
(* Read-back. *)

(* A bounded set of numbers has a least and a greatest member: its initial *)
(* parts are finite sets, one of which has no smaller one in it.           *)
LEMMA Least ==
    ASSUME NEW n \in Nat, NEW S \in SUBSET (0..n), S # {}
    PROVE  \E x \in S : \A y \in S : x <= y
<1> DEFINE U == 0..n
           R == StrictSubsetOrdering(U)
           T == {S \cap (0..x) : x \in S}
<1>1. IsWellFoundedOn(R, FiniteSubsetsOf(U))
  BY FS_StrictSubsetOrderingWellFounded
<1>2. T \subseteq FiniteSubsetsOf(U) /\ T # {}
  <2>1. IsFiniteSet(U)
    BY FS_Interval
  <2>2. \A t \in T : t \subseteq U
    OBVIOUS
  <2>3. \A t \in T : t \in SUBSET U /\ IsFiniteSet(t)
    BY <2>1, <2>2, FS_Subset
  <2> QED
    BY <2>3 DEF FiniteSubsetsOf
<1> HIDE DEF R, T
<1>3. PICK t \in T : \A s \in T : <<s, t>> \notin R
  BY <1>1, <1>2, WFMin
<1>4. PICK x \in S : t = S \cap (0..x)
  BY DEF T
<1>5. ASSUME NEW y \in S, y < x
      PROVE  FALSE
  <2> DEFINE s == S \cap (0..y)
  <2>1. x \in Nat /\ y \in Nat
    OBVIOUS
  <2>2. x \in t /\ x \notin s
    BY <1>4, <1>5, <2>1
  <2>3. s \subseteq t /\ s # t
    BY <1>4, <1>5, <2>1, <2>2
  <2>4. s \in SUBSET U /\ t \in SUBSET U
    BY <1>4
  <2>5. s \in T
    BY DEF T
  <2> HIDE DEF s, U
  <2>6. <<s, t>> \in R
    BY <2>3, <2>4 DEF R, StrictSubsetOrdering
  <2> QED
    BY <1>3, <2>5, <2>6
<1>6. \A y \in S : x <= y
  <2>1. TAKE y \in S
  <2>2. ~(y < x) /\ x \in Int /\ y \in Int
    BY <1>5
  <2> QED
    BY <2>2
<1> QED
  BY <1>6

LEMMA Greatest ==
    ASSUME NEW n \in Nat, NEW S \in SUBSET (0..n), S # {}
    PROVE  \E x \in S : \A y \in S : x >= y
<1> DEFINE T == {n - x : x \in S}
<1>1. T \in SUBSET (0..n)
  OBVIOUS
<1>2. T # {}
  OBVIOUS
<1> HIDE DEF T
<1>3. PICK t \in T : \A y \in T : t <= y
  BY <1>1, <1>2, Least
<1>4. PICK x \in S : t = n - x
  BY DEF T
<1>5. \A y \in S : n - y \in T
  BY DEF T
<1>6. \A y \in S : n - x <= n - y
  BY <1>3, <1>4, <1>5
<1>7. \A y \in S : x >= y
  <2>1. TAKE y \in S
  <2>2. x \in Int /\ y \in Int /\ n - x <= n - y
    BY <1>6
  <2> QED
    BY <2>2
<1> QED
  BY <1>7

LEMMA MinIn ==
    ASSUME NEW n \in Nat, NEW S \in SUBSET (0..n), S # {}
    PROVE  Q!Min(S) \in S /\ \A y \in S : Q!Min(S) <= y
<1>1. \E x \in S : \A y \in S : x <= y
  BY Least
<1> QED
  BY <1>1 DEF Q!Min

LEMMA MaxIn ==
    ASSUME NEW n \in Nat, NEW S \in SUBSET (0..n), S # {}
    PROVE  Q!Max(S) \in S /\ \A y \in S : Q!Max(S) >= y
<1>1. \E x \in S : \A y \in S : x >= y
  BY Greatest
<1> QED
  BY <1>1 DEF Q!Max

(* What the constants are: requests cite offers, Slow records fields of a  *)
(* terms sheet, and a line says values of them.                            *)
RbConstants ==
    /\ Cited \subseteq Refs /\ Forms \subseteq SUBSET Q!Fields
    /\ \A words \in Saids : DOMAIN words = Q!Fields

Stated == UNION {UNION {words[f] : f \in Q!Fields} : words \in Saids}
Amounts == Stated \cup {"true"}
Sheets == {Q!Empty} \cup UNION {[form -> Amounts] : form \in Forms}
Offers == [rev : Nat, terms : Sheets, open : BOOLEAN, confirmed : SUBSET Q!Fields]
Cites == UNION {[c -> [rev : Nat, terms : Sheets, open : BOOLEAN]] : c \in SUBSET Refs}
Requests == [at : Int, cited : Cites]

RbTypes ==
    /\ repLines \in Seq(Saids) /\ offers \in [Refs -> Offers]
    /\ requests \in Seq(Requests) /\ acting \in BOOLEAN

(* A request was heard after some lines, and cites a revision that was: as *)
(* long as it is the offer's last, with the offer's terms.                 *)
RequestInv ==
    \A k \in DOMAIN requests :
        /\ requests[k].at = Q!Unheard \/ requests[k].at \in 0..Len(repLines)
        /\ \A ref \in DOMAIN requests[k].cited :
              LET cited == requests[k].cited[ref]
              IN  /\ ref \in Refs /\ cited.rev <= offers[ref].rev
                  /\ cited.rev = offers[ref].rev => cited.terms = offers[ref].terms

RbInv == RbTypes /\ RequestInv /\ Q!LastWord

LEMMA RbInit ==
    ASSUME RbConstants, Q!Init
    PROVE  RbInv
<1>1. repLines = <<>> /\ requests = <<>> /\ acting = FALSE
  BY DEF Q!Init
<1>2. offers = [r \in Refs |-> [rev |-> 0, terms |-> Q!Empty, open |-> FALSE, confirmed |-> {}]]
  BY DEF Q!Init
<1>3. [rev |-> 0, terms |-> Q!Empty, open |-> FALSE, confirmed |-> {}] \in Offers
  <2>1. Q!Empty \in Sheets
    BY DEF Sheets
  <2> QED
    BY <2>1 DEF Offers
<1>4. RbTypes
  <2>1. offers \in [Refs -> Offers]
    BY <1>2, <1>3
  <2>2. repLines \in Seq(Saids)
    BY <1>1
  <2>3. requests \in Seq(Requests)
    BY <1>1
  <2>4. acting \in BOOLEAN
    BY <1>1
  <2> QED
    BY <2>1, <2>2, <2>3, <2>4 DEF RbTypes
<1>5. RequestInv
  BY <1>1 DEF RequestInv
<1>6. Q!LastWord
  BY <1>1 DEF Q!LastWord, Q!MayBind
<1> QED
  BY <1>4, <1>5, <1>6 DEF RbInv

-----------------------------------------------------------------------------
(* What makes a revision one to bind: a request heard, after which every   *)
(* field's last value is the offer's, and which no answer changed.         *)
Borne(ref, k) ==
    \A f \in DOMAIN offers[ref].terms :
        LET v == offers[ref].terms[f]
            since == Q!Since(f, requests[k].at)
        IN  /\ since # {} /\ repLines[Q!Max(since)][f] = {v}
            /\ \E i \in since : repLines[i][f] = {v}
            /\ \/ f \in DOMAIN requests[k].cited[ref].terms
                  /\ requests[k].cited[ref].terms[f] = v
               \/ LET mine == Q!Mine(v, f, requests[k].at, ref)
                  IN  mine = {} \/ repLines[Q!Max(mine)][f] = {v}

LEMMA SinceBounded ==
    ASSUME NEW f, NEW n \in Nat, RbTypes
    PROVE  Len(repLines) \in Nat /\ Q!Since(f, n) \in SUBSET (0..Len(repLines))
<1>1. Len(repLines) \in Nat
  BY DEF RbTypes
<1> QED
  BY <1>1 DEF Q!Since

LEMMA StrictMeans ==
    ASSUME RbTypes, NEW want, NEW f, NEW at \in Nat, Q!Strict(want, f, at)
    PROVE  LET since == Q!Since(f, at)
           IN  /\ since # {} /\ repLines[Q!Max(since)][f] = {want}
               /\ \E i \in since : repLines[i][f] = {want}
<1> DEFINE since == Q!Since(f, at)
           exact == {i \in since : repLines[i][f] = {want}}
<1>1. exact # {} /\ \A i \in since : i >= Q!Min(exact) => i \in exact
  BY DEF Q!Strict
<1>2. Len(repLines) \in Nat /\ since \in SUBSET (0..Len(repLines))
  BY SinceBounded
<1>3. exact \in SUBSET (0..Len(repLines)) /\ exact \subseteq since /\ since # {}
  BY <1>1, <1>2
<1>4. \A i \in exact : i \in since /\ repLines[i][f] = {want}
  OBVIOUS
<1> HIDE DEF since, exact
<1>5. Q!Min(exact) \in exact
  BY <1>1, <1>2, <1>3, MinIn
<1>6. Q!Max(since) \in since /\ \A y \in since : Q!Max(since) >= y
  BY <1>2, <1>3, MaxIn
<1>7. Q!Max(since) \in exact
  BY <1>1, <1>3, <1>5, <1>6
<1>8. since # {} /\ repLines[Q!Max(since)][f] = {want} /\ \E i \in since : repLines[i][f] = {want}
  BY <1>3, <1>4, <1>7, <1>6
<1> QED
  BY <1>8 DEF since

LEMMA AnchoredMeans ==
    ASSUME RbTypes, NEW ref \in Refs, NEW terms, NEW at \in Nat, Q!Anchors(terms, at, ref),
           NEW f \in DOMAIN terms
    PROVE  LET since == Q!Since(f, at)
               mine == Q!Mine(terms[f], f, at, ref)
           IN  /\ since # {} /\ repLines[Q!Max(since)][f] = {terms[f]}
               /\ \E i \in since : repLines[i][f] = {terms[f]}
               /\ mine = {} \/ repLines[Q!Max(mine)][f] = {terms[f]}
<1> DEFINE since == Q!Since(f, at)
<1>1. since # {}
  BY DEF Q!Anchors, Q!Together
<1>2. \A i \in since : repLines[i][f] = {terms[f]}
  BY DEF Q!Anchors, Q!Stable
<1>3. Q!Mine(terms[f], f, at, ref) # {}
        => repLines[Q!Max(Q!Mine(terms[f], f, at, ref))][f] = {terms[f]}
  BY DEF Q!Anchors, Q!NoChangeAcross
<1>4. Len(repLines) \in Nat /\ since \in SUBSET (0..Len(repLines))
  BY SinceBounded
<1> HIDE DEF since
<1>5. Q!Max(since) \in since
  BY <1>1, <1>4, MaxIn
<1> QED
  BY <1>1, <1>2, <1>3, <1>5 DEF since

LEMMA ConfirmedMeans ==
    ASSUME RbTypes, RequestInv, NEW ref \in Refs, Q!Confirmed(ref) = DOMAIN offers[ref].terms,
           Q!Complete(offers[ref].terms)
    PROVE  \E k \in Q!HeardAsks(ref) : Borne(ref, k)
<1> DEFINE terms == offers[ref].terms
           windows == {k \in Q!HeardAsks(ref) :
                          /\ requests[k].cited[ref].open
                          /\ Q!Unchanged(requests[k].cited[ref].terms, terms)
                          /\ Q!Anchors(terms, requests[k].at, ref)}
           ats == {requests[k].at : k \in Q!Own(ref)}
           first == Q!Min(ats)
<1>1. \A k \in Q!HeardAsks(ref) : /\ k \in DOMAIN requests /\ ref \in DOMAIN requests[k].cited
                                  /\ requests[k].at \in 0..Len(repLines)
  BY DEF Q!HeardAsks, RequestInv
<1>2. Len(repLines) \in Nat
  BY DEF RbTypes
<1>3. CASE windows # {}
  <2>1. PICK k \in windows : TRUE
    BY <1>3
  <2>2. k \in Q!HeardAsks(ref) /\ Q!Anchors(terms, requests[k].at, ref) /\ requests[k].at \in Nat
    BY <1>1, <1>2, <2>1
  <2>3. Borne(ref, k)
    <3> SUFFICES ASSUME NEW f \in DOMAIN terms
                 PROVE  LET v == terms[f]
                            since == Q!Since(f, requests[k].at)
                        IN  /\ since # {} /\ repLines[Q!Max(since)][f] = {v}
                            /\ \E i \in since : repLines[i][f] = {v}
                            /\ \/ f \in DOMAIN requests[k].cited[ref].terms
                                  /\ requests[k].cited[ref].terms[f] = v
                               \/ LET mine == Q!Mine(v, f, requests[k].at, ref)
                                  IN  mine = {} \/ repLines[Q!Max(mine)][f] = {v}
      BY DEF Borne
    <3> DEFINE at == requests[k].at
    <3>1. Q!Anchors(terms, at, ref) /\ at \in Nat
      BY <2>2
    <3> HIDE DEF terms, windows, at
    <3>2. LET since == Q!Since(f, at)
              mine == Q!Mine(terms[f], f, at, ref)
          IN  /\ since # {} /\ repLines[Q!Max(since)][f] = {terms[f]}
              /\ \E i \in since : repLines[i][f] = {terms[f]}
              /\ mine = {} \/ repLines[Q!Max(mine)][f] = {terms[f]}
      BY <3>1, AnchoredMeans
    <3> QED
      BY <3>2 DEF at
  <2> QED
    BY <2>2, <2>3
<1>4. CASE windows = {}
  <2>1. Q!Confirmed(ref) = IF Q!Own(ref) = {} THEN {}
                           ELSE {f \in DOMAIN terms : Q!Strict(terms[f], f, first)}
    BY <1>4 DEF Q!Confirmed
  <2>2. DOMAIN terms # {}
    BY DEF Q!Complete
  <2>3. Q!Own(ref) # {} /\ \A f \in DOMAIN terms : Q!Strict(terms[f], f, first)
    BY <2>1, <2>2
  <2>4. ats \in SUBSET (0..Len(repLines)) /\ ats # {}
    BY <1>1, <2>3 DEF Q!Own
  <2>5. first \in ats
    <3> HIDE DEF ats
    <3> QED
      BY <1>2, <2>4, MinIn
  <2>6. PICK k \in Q!Own(ref) : first = requests[k].at
    BY <2>5
  <2>7. /\ k \in Q!HeardAsks(ref) /\ first \in Nat
        /\ requests[k].cited[ref].terms = terms
    BY <1>1, <1>2, <2>6 DEF Q!Own, RequestInv
  <2> HIDE DEF first, ats, windows
  <2>8. Borne(ref, k)
    <3> SUFFICES ASSUME NEW f \in DOMAIN terms
                 PROVE  LET v == terms[f]
                            since == Q!Since(f, requests[k].at)
                        IN  /\ since # {} /\ repLines[Q!Max(since)][f] = {v}
                            /\ \E i \in since : repLines[i][f] = {v}
                            /\ \/ f \in DOMAIN requests[k].cited[ref].terms
                                  /\ requests[k].cited[ref].terms[f] = v
                               \/ LET mine == Q!Mine(v, f, requests[k].at, ref)
                                  IN  mine = {} \/ repLines[Q!Max(mine)][f] = {v}
      BY DEF Borne
    <3>1. Q!Strict(terms[f], f, first)
      BY <2>3
    <3> HIDE DEF terms
    <3> QED
      BY <2>6, <2>7, <3>1, StrictMeans
  <2> QED
    BY <2>7, <2>8
<1> QED
  BY <1>3, <1>4

LEMMA SheetFields ==
    ASSUME RbConstants, NEW t \in Sheets
    PROVE  DOMAIN t \in SUBSET Q!Fields
BY DEF RbConstants, Sheets, Q!Empty

LEMMA ConfirmedFields ==
    ASSUME NEW ref \in Refs
    PROVE  Q!Confirmed(ref) \subseteq DOMAIN offers[ref].terms
BY DEF Q!Confirmed

(* Nothing an offer's last word rests on is undone while Slow acts.        *)
LastWordOf(ref) ==
    \E k \in Q!HeardAsks(ref) : \A f \in DOMAIN offers[ref].terms :
        LET since == Q!Since(f, requests[k].at)
        IN  since # {} /\ repLines[Q!Max(since)][f] = {offers[ref].terms[f]}

LEMMA LastWordKept ==
    ASSUME NEW ref \in Refs, LastWordOf(ref), repLines' = repLines,
           offers'[ref].terms = offers[ref].terms,
           \A k \in DOMAIN requests : k \in DOMAIN requests' /\ requests'[k] = requests[k]
    PROVE  LastWordOf(ref)'
<1>1. PICK k \in Q!HeardAsks(ref) : \A f \in DOMAIN offers[ref].terms :
            LET since == Q!Since(f, requests[k].at)
            IN  since # {} /\ repLines[Q!Max(since)][f] = {offers[ref].terms[f]}
  BY DEF LastWordOf
<1>2. k \in Q!HeardAsks(ref)' /\ requests'[k] = requests[k]
  BY DEF Q!HeardAsks
<1>3. \A f, n : Q!Since(f, n)' = Q!Since(f, n)
  BY DEF Q!Since
<1> QED
  BY <1>1, <1>2, <1>3 DEF LastWordOf

LEMMA BorneKept ==
    ASSUME NEW ref \in Refs, NEW k \in DOMAIN requests, Borne(ref, k),
           repLines' = repLines, requests' = requests,
           \A r \in Refs : offers'[r].terms = offers[r].terms
    PROVE  Borne(ref, k)'
<1>1. \A f, n : Q!Since(f, n)' = Q!Since(f, n)
  BY DEF Q!Since
<1>2. \A words, f : Q!Theirs(words, f, ref)' <=> Q!Theirs(words, f, ref)
  BY DEF Q!Theirs
<1>3. \A f, n : Q!Before(f, n)' = Q!Before(f, n)
  BY DEF Q!Before
<1>4. \A want, f, n : Q!Mine(want, f, n, ref)' = Q!Mine(want, f, n, ref)
  BY <1>2, <1>3 DEF Q!Mine
<1> QED
  BY <1>1, <1>4 DEF Borne

LEMMA LastWordIs ==
    Q!LastWord <=> \A ref \in Refs : Q!MayBind(ref) => LastWordOf(ref)
BY DEF Q!LastWord, LastWordOf

LEMMA RbActBegins ==
    ASSUME RbConstants, RbInv, Q!ActBegins
    PROVE  RbInv' /\ Q!ChangeAskedAgain
<1>1. /\ repLines' = repLines /\ requests' = requests /\ acting' \in BOOLEAN
      /\ \A r \in Refs :
            offers'[r] = IF ~offers[r].open THEN offers[r]
                         ELSE [offers[r] EXCEPT !.confirmed = Q!Confirmed(r)]
  BY DEF Q!ActBegins
<1>2. RbTypes /\ RequestInv /\ \A r \in Refs : offers[r] \in Offers
  BY DEF RbInv, RbTypes
<1>3. \A r \in Refs : Q!Confirmed(r) \in SUBSET Q!Fields
  <2> SUFFICES ASSUME NEW r \in Refs PROVE Q!Confirmed(r) \in SUBSET Q!Fields
    OBVIOUS
  <2>1. offers[r].terms \in Sheets
    BY <1>2 DEF Offers
  <2> QED
    BY <2>1, SheetFields, ConfirmedFields
<1>4. \A r \in Refs : /\ offers'[r] \in Offers /\ offers'[r].rev = offers[r].rev
                      /\ offers'[r].terms = offers[r].terms
                      /\ offers'[r].open = offers[r].open
                      /\ offers[r].open => offers'[r].confirmed = Q!Confirmed(r)
  <2> SUFFICES ASSUME NEW r \in Refs
               PROVE  /\ offers'[r] \in Offers /\ offers'[r].rev = offers[r].rev
                      /\ offers'[r].terms = offers[r].terms
                      /\ offers'[r].open = offers[r].open
                      /\ offers[r].open => offers'[r].confirmed = Q!Confirmed(r)
    OBVIOUS
  <2> DEFINE c == Q!Confirmed(r)
  <2>1. /\ c \in SUBSET Q!Fields /\ offers[r] \in Offers
        /\ offers'[r] = IF ~offers[r].open THEN offers[r] ELSE [offers[r] EXCEPT !.confirmed = c]
    BY <1>1, <1>2, <1>3
  <2> HIDE DEF c
  <2>2. CASE ~offers[r].open
    BY <2>1, <2>2
  <2>3. CASE offers[r].open
    <3>1. offers'[r] = [offers[r] EXCEPT !.confirmed = c]
      BY <2>1, <2>3
    <3>2. offers'[r] \in Offers /\ offers'[r].rev = offers[r].rev
          /\ offers'[r].terms = offers[r].terms /\ offers'[r].confirmed = c
          /\ offers'[r].open = offers[r].open
      BY <2>1, <3>1 DEF Offers
    <3> QED
      BY <3>2 DEF c
  <2> QED
    BY <2>2, <2>3
<1>5. RbTypes'
  <2>1. offers' \in [Refs -> Offers]
    <3>1. offers' = [r \in Refs |-> offers'[r]]
      BY DEF Q!ActBegins
    <3> QED
      BY <1>4, <3>1
  <2> QED
    BY <1>1, <1>2, <2>1 DEF RbTypes
<1>6. RequestInv'
  BY <1>1, <1>2, <1>4 DEF RequestInv
<1>7. \A ref \in Refs : Q!MayBind(ref)' => LastWordOf(ref)' /\ Q!AskedAgain(ref)'
  <2> SUFFICES ASSUME NEW ref \in Refs, Q!MayBind(ref)'
               PROVE  LastWordOf(ref)' /\ Q!AskedAgain(ref)'
    OBVIOUS
  <2>1. Q!Confirmed(ref) = DOMAIN offers[ref].terms /\ Q!Complete(offers[ref].terms)
    BY <1>4 DEF Q!MayBind
  <2>2. PICK k \in Q!HeardAsks(ref) : Borne(ref, k)
    BY <1>2, <2>1, ConfirmedMeans
  <2>3. k \in DOMAIN requests /\ k \in Q!HeardAsks(ref)'
    BY <1>1 DEF Q!HeardAsks
  <2>4. Borne(ref, k)'
    BY <1>1, <1>4, <2>2, <2>3, BorneKept
  <2>5. LastWordOf(ref)'
    BY <2>3, <2>4 DEF Borne, LastWordOf
  <2>6. Q!AskedAgain(ref)'
    BY <2>3, <2>4 DEF Borne, Q!AskedAgain
  <2> QED
    BY <2>5, <2>6
<1>8. Q!LastWord'
  BY <1>7 DEF Q!LastWord, LastWordOf
<1>9. Q!ChangeAskedAgain
  BY <1>7 DEF Q!ChangeAskedAgain
<1> QED
  BY <1>5, <1>6, <1>8, <1>9 DEF RbInv

(* The other steps make no offer one to bind.                              *)
LEMMA RbNoMore ==
    ASSUME RbInv,
           \A ref \in Refs : Q!MayBind(ref)' =>
               /\ Q!MayBind(ref) /\ offers'[ref].terms = offers[ref].terms
               /\ repLines' = repLines
               /\ \A k \in DOMAIN requests : k \in DOMAIN requests' /\ requests'[k] = requests[k]
    PROVE  Q!LastWord' /\ Q!ChangeAskedAgain
<1>1. \A ref \in Refs : Q!MayBind(ref)' => LastWordOf(ref)'
  <2> SUFFICES ASSUME NEW ref \in Refs, Q!MayBind(ref)' PROVE LastWordOf(ref)'
    OBVIOUS
  <2>1. LastWordOf(ref)
    BY DEF RbInv, Q!LastWord, LastWordOf
  <2> QED
    BY <2>1, LastWordKept
<1>2. Q!LastWord'
  BY <1>1 DEF Q!LastWord, LastWordOf
<1>3. Q!ChangeAskedAgain
  BY DEF Q!ChangeAskedAgain
<1> QED
  BY <1>2, <1>3

LEMMA RbActEnds ==
    ASSUME RbInv, Q!ActEnds
    PROVE  RbInv' /\ Q!ChangeAskedAgain
<1>1. acting' = FALSE /\ repLines' = repLines /\ offers' = offers /\ requests' = requests
  BY DEF Q!ActEnds
<1>2. \A ref \in Refs : ~Q!MayBind(ref)'
  BY <1>1 DEF Q!MayBind
<1>3. Q!LastWord' /\ Q!ChangeAskedAgain
  BY <1>2, RbNoMore
<1>4. RbTypes'
  BY <1>1 DEF RbInv, RbTypes
<1>5. RequestInv'
  BY <1>1 DEF RbInv, RequestInv
<1> QED
  BY <1>3, <1>4, <1>5 DEF RbInv

LEMMA RbRepLine ==
    ASSUME RbInv, Q!RepLine
    PROVE  RbInv' /\ Q!ChangeAskedAgain
<1>1. /\ ~acting /\ acting' = acting /\ offers' = offers /\ requests' = requests
      /\ \E words \in Saids : repLines' = Append(repLines, words)
  BY DEF Q!RepLine
<1>2. repLines \in Seq(Saids)
  BY DEF RbInv, RbTypes
<1>3. repLines' \in Seq(Saids) /\ Len(repLines') = Len(repLines) + 1 /\ Len(repLines) \in Nat
  BY <1>1, <1>2
<1>4. \A ref \in Refs : ~Q!MayBind(ref)'
  BY <1>1 DEF Q!MayBind
<1>5. Q!LastWord' /\ Q!ChangeAskedAgain
  BY <1>4, RbNoMore
<1>6. RbTypes'
  BY <1>1, <1>3 DEF RbInv, RbTypes
<1>7. RequestInv'
  <2>1. \A n : n \in 0..Len(repLines) => n \in 0..Len(repLines')
    BY <1>3
  <2> QED
    BY <1>1, <2>1 DEF RbInv, RequestInv
<1> QED
  BY <1>5, <1>6, <1>7 DEF RbInv

LEMMA RbAskHeard ==
    ASSUME RbInv, Q!AskHeard
    PROVE  RbInv' /\ Q!ChangeAskedAgain
<1>1. PICK k \in DOMAIN requests : requests' = [requests EXCEPT ![k].at = Len(repLines)]
  BY DEF Q!AskHeard
<1>2. ~acting /\ acting' = acting /\ offers' = offers /\ repLines' = repLines
  BY DEF Q!AskHeard
<1>3. requests \in Seq(Requests) /\ repLines \in Seq(Saids)
  BY DEF RbInv, RbTypes
<1>4. Len(repLines) \in Nat /\ \A i \in DOMAIN requests : requests[i] \in Requests
  BY <1>3
<1>5. /\ DOMAIN requests' = DOMAIN requests
      /\ requests'[k] = [requests[k] EXCEPT !.at = Len(repLines)]
      /\ \A i \in DOMAIN requests \ {k} : requests'[i] = requests[i]
  BY <1>1
<1>6. requests'[k] \in Requests /\ requests'[k].at = Len(repLines)
      /\ requests'[k].cited = requests[k].cited
  BY <1>4, <1>5 DEF Requests
<1>7. requests' \in Seq(Requests)
  <2>1. Len(requests) \in Nat /\ DOMAIN requests = 1..Len(requests)
    BY <1>3
  <2>2. requests' = [i \in 1..Len(requests) |-> requests'[i]]
    BY <1>1, <2>1
  <2>3. \A i \in 1..Len(requests) : requests'[i] \in Requests
    BY <1>4, <1>5, <1>6, <2>1
  <2> QED
    BY <2>1, <2>2, <2>3, IsASeq
<1>8. RbTypes'
  BY <1>2, <1>7 DEF RbInv, RbTypes
<1>9. RequestInv'
  <2> SUFFICES ASSUME NEW i \in DOMAIN requests
               PROVE  /\ requests'[i].at = Q!Unheard \/ requests'[i].at \in 0..Len(repLines)
                      /\ requests'[i].cited = requests[i].cited
    BY <1>2, <1>5 DEF RbInv, RequestInv
  <2>1. CASE i = k
    BY <1>4, <1>6, <2>1
  <2>2. CASE i # k
    BY <1>5, <2>2 DEF RbInv, RequestInv
  <2> QED
    BY <2>1, <2>2
<1>10. \A ref \in Refs : ~Q!MayBind(ref)'
  BY <1>2 DEF Q!MayBind
<1>11. Q!LastWord' /\ Q!ChangeAskedAgain
  BY <1>10, RbNoMore
<1> QED
  BY <1>8, <1>9, <1>11 DEF RbInv

LEMMA RbAskReadback ==
    ASSUME RbConstants, RbInv, Q!AskReadback
    PROVE  RbInv' /\ Q!ChangeAskedAgain
<1>1. repLines' = repLines /\ offers' = offers /\ acting' = acting
  BY DEF Q!AskReadback
<1>2. PICK cited \in SUBSET {r \in Cited : offers[r].rev > 0} :
         requests' = Append(requests, [at |-> Q!Unheard,
            cited |-> [r \in cited |-> [rev |-> offers[r].rev, terms |-> offers[r].terms,
                                        open |-> offers[r].open]]])
  BY DEF Q!AskReadback
<1> DEFINE shown == [r \in cited |-> [rev |-> offers[r].rev, terms |-> offers[r].terms,
                                      open |-> offers[r].open]]
           request == [at |-> Q!Unheard, cited |-> shown]
<1>3. requests \in Seq(Requests) /\ \A r \in Refs : offers[r] \in Offers
  BY DEF RbInv, RbTypes
<1>4. cited \in SUBSET Refs
  BY DEF RbConstants
<1>5. shown \in Cites
  <2>1. shown \in [cited -> [rev : Nat, terms : Sheets, open : BOOLEAN]]
    BY <1>3, <1>4 DEF Offers
  <2> QED
    BY <1>4, <2>1 DEF Cites
<1>6. /\ DOMAIN shown = cited
      /\ \A ref \in cited : /\ shown[ref].rev = offers[ref].rev
                            /\ shown[ref].terms = offers[ref].terms
  OBVIOUS
<1> HIDE DEF shown
<1>7. request \in Requests /\ request.at = Q!Unheard /\ request.cited = shown
  BY <1>5 DEF Requests, Q!Unheard
<1>8. requests' = Append(requests, request)
  BY <1>2 DEF shown
<1> HIDE DEF request
<1> DEFINE n == Len(requests)
<1>9. /\ requests' \in Seq(Requests) /\ n \in Nat /\ DOMAIN requests = 1..n
      /\ DOMAIN requests' = 1..(n + 1) /\ requests'[n + 1] = request
      /\ \A k \in 1..n : requests'[k] = requests[k]
  BY <1>3, <1>7, <1>8
<1> HIDE DEF n
<1>10. RbTypes'
  BY <1>1, <1>9 DEF RbInv, RbTypes
<1>11. RequestInv'
  <2> SUFFICES ASSUME NEW k \in 1..(n + 1)
               PROVE  /\ requests'[k].at = Q!Unheard \/ requests'[k].at \in 0..Len(repLines)
                      /\ \A ref \in DOMAIN requests'[k].cited :
                            LET c == requests'[k].cited[ref]
                            IN  /\ ref \in Refs /\ c.rev <= offers[ref].rev
                                /\ c.rev = offers[ref].rev => c.terms = offers[ref].terms
    BY <1>1, <1>9 DEF RequestInv
  <2>1. CASE k \in 1..n
    BY <1>9, <2>1 DEF RbInv, RequestInv
  <2>2. CASE k = n + 1
    <3>1. \A ref \in cited : ref \in Refs /\ offers[ref].rev \in Nat
      BY <1>3, <1>4 DEF Offers
    <3>2. requests'[k].at = Q!Unheard /\ requests'[k].cited = shown
      BY <1>7, <1>9, <2>2
    <3> QED
      BY <1>6, <3>1, <3>2
  <2> QED
    BY <1>9, <2>1, <2>2
<1>12. \A ref \in Refs : Q!MayBind(ref)' => Q!MayBind(ref)
  BY <1>1 DEF Q!MayBind
<1>13. \A k \in DOMAIN requests : k \in DOMAIN requests' /\ requests'[k] = requests[k]
  BY <1>9
<1>14. Q!LastWord' /\ Q!ChangeAskedAgain
  BY <1>1, <1>12, <1>13, RbNoMore
<1> QED
  BY <1>10, <1>11, <1>14 DEF RbInv

LEMMA RbDecline ==
    ASSUME RbInv, NEW r \in Refs, Q!DeclineOffer(r)
    PROVE  RbInv' /\ Q!ChangeAskedAgain
<1>1. /\ repLines' = repLines /\ requests' = requests /\ acting' = acting
      /\ offers' = [offers EXCEPT ![r].open = FALSE]
  BY DEF Q!DeclineOffer
<1>2. offers \in [Refs -> Offers]
  BY DEF RbInv, RbTypes
<1>3. /\ offers'[r] = [offers[r] EXCEPT !.open = FALSE]
      /\ \A ref \in Refs \ {r} : offers'[ref] = offers[ref]
  BY <1>1, <1>2
<1>4. /\ offers'[r] \in Offers /\ offers'[r].rev = offers[r].rev
      /\ offers'[r].terms = offers[r].terms /\ offers'[r].open = FALSE
  BY <1>2, <1>3 DEF Offers
<1>5. offers' \in [Refs -> Offers]
  BY <1>1, <1>2, <1>3, <1>4
<1>6. \A ref \in Refs : offers'[ref].rev = offers[ref].rev /\ offers'[ref].terms = offers[ref].terms
  BY <1>3, <1>4
<1>7. RbTypes'
  BY <1>1, <1>5 DEF RbInv, RbTypes
<1>8. RequestInv'
  BY <1>1, <1>6 DEF RbInv, RequestInv
<1>9. \A ref \in Refs : Q!MayBind(ref)' => Q!MayBind(ref)
  BY <1>1, <1>3, <1>4 DEF Q!MayBind
<1>10. Q!LastWord' /\ Q!ChangeAskedAgain
  BY <1>1, <1>6, <1>9, RbNoMore
<1> QED
  BY <1>7, <1>8, <1>10 DEF RbInv

(* What the rep said is an amount, so what is recorded is a terms sheet.   *)
LEMMA RecordedSheet ==
    ASSUME RbConstants, RbTypes, NEW form \in Forms, NEW t \in Q!Recordable(form)
    PROVE  t \in Sheets
<1>1. \A f \in form : Q!Values(f) \subseteq Amounts
  <2> SUFFICES ASSUME NEW f \in form, NEW v \in Q!Values(f) PROVE v \in Amounts
    OBVIOUS
  <2>1. f \in Q!Fields
    BY DEF RbConstants
  <2>2. CASE v = "true"
    BY <2>2 DEF Amounts
  <2>3. CASE v # "true"
    <3>1. PICK i \in DOMAIN repLines : v \in repLines[i][f]
      BY <2>3 DEF Q!Values
    <3>2. repLines[i] \in Saids
      BY <3>1 DEF RbTypes
    <3> DEFINE words == repLines[i]
    <3>3. words \in Saids /\ v \in words[f]
      BY <3>1, <3>2
    <3> HIDE DEF words
    <3>4. v \in UNION {words[g] : g \in Q!Fields}
      BY <2>1, <3>3
    <3>5. v \in Stated
      BY <3>3, <3>4 DEF Stated
    <3> QED
      BY <3>5 DEF Amounts
  <2> QED
    BY <2>2, <2>3
<1>2. t \in [form -> UNION {Q!Values(f) : f \in form}] /\ \A f \in form : t[f] \in Q!Values(f)
  BY DEF Q!Recordable
<1>3. t \in [form -> Amounts]
  BY <1>1, <1>2
<1> QED
  BY <1>3 DEF Sheets

LEMMA RbRecord ==
    ASSUME RbConstants, RbInv, NEW r \in Refs, Q!RecordOffer(r)
    PROVE  RbInv' /\ Q!ChangeAskedAgain
<1>1. repLines' = repLines /\ requests' = requests /\ acting' = acting
  BY DEF Q!RecordOffer
<1>2. PICK form \in Forms : \E t \in Q!Recordable(form) :
         offers' = [offers EXCEPT ![r] = [rev |-> @.rev + 1, terms |-> t,
                                          open |-> TRUE, confirmed |-> {}]]
  BY DEF Q!RecordOffer
<1>3. PICK t \in Q!Recordable(form) :
         offers' = [offers EXCEPT ![r] = [rev |-> @.rev + 1, terms |-> t,
                                          open |-> TRUE, confirmed |-> {}]]
  BY <1>2
<1>4. RbTypes /\ RequestInv /\ offers \in [Refs -> Offers]
  BY DEF RbInv, RbTypes
<1>5. t \in Sheets
  BY <1>4, RecordedSheet
<1>6. offers[r].rev \in Nat /\ \A ref \in Refs : offers[ref].rev \in Nat
  BY <1>4 DEF Offers
<1>7. /\ offers'[r] = [rev |-> offers[r].rev + 1, terms |-> t, open |-> TRUE, confirmed |-> {}]
      /\ \A ref \in Refs \ {r} : offers'[ref] = offers[ref]
  BY <1>3, <1>4
<1>8. /\ offers'[r] \in Offers /\ offers'[r].rev = offers[r].rev + 1
      /\ offers'[r].confirmed = {}
  BY <1>5, <1>6, <1>7 DEF Offers
<1>9. offers' \in [Refs -> Offers]
  BY <1>3, <1>4, <1>7, <1>8
<1>10. RbTypes'
  BY <1>1, <1>4, <1>9 DEF RbTypes
<1>11. RequestInv'
  <2> SUFFICES ASSUME NEW k \in DOMAIN requests, NEW ref \in DOMAIN requests[k].cited
               PROVE  LET cited == requests[k].cited[ref]
                      IN  /\ ref \in Refs /\ cited.rev <= offers'[ref].rev
                          /\ cited.rev = offers'[ref].rev => cited.terms = offers'[ref].terms
    BY <1>1, <1>4 DEF RequestInv
  <2>1. /\ ref \in Refs /\ requests[k].cited[ref].rev <= offers[ref].rev
        /\ requests[k].cited[ref].rev = offers[ref].rev
             => requests[k].cited[ref].terms = offers[ref].terms
    BY <1>4 DEF RequestInv
  <2>2. requests[k].cited[ref].rev \in Nat
    <3>1. requests[k] \in Requests
      BY <1>4 DEF RbTypes
    <3>2. PICK c \in SUBSET Refs :
             requests[k].cited \in [c -> [rev : Nat, terms : Sheets, open : BOOLEAN]]
      BY <3>1 DEF Requests, Cites
    <3>3. requests[k].cited[ref] \in [rev : Nat, terms : Sheets, open : BOOLEAN]
      BY <3>2
    <3> QED
      BY <3>3
  <2>3. CASE ref = r
    BY <1>6, <1>8, <2>1, <2>2, <2>3
  <2>4. CASE ref # r
    BY <1>7, <2>1, <2>4
  <2> QED
    BY <2>3, <2>4
<1>12. ~Q!MayBind(r)'
  BY <1>8 DEF Q!MayBind, Q!Complete
<1>13. \A ref \in Refs : Q!MayBind(ref)' =>
            Q!MayBind(ref) /\ offers'[ref].terms = offers[ref].terms
  <2> SUFFICES ASSUME NEW ref \in Refs, Q!MayBind(ref)'
               PROVE  Q!MayBind(ref) /\ offers'[ref].terms = offers[ref].terms
    OBVIOUS
  <2>1. ref # r /\ offers'[ref] = offers[ref]
    BY <1>7, <1>12
  <2> QED
    BY <1>1, <2>1 DEF Q!MayBind
<1>14. Q!LastWord' /\ Q!ChangeAskedAgain
  BY <1>1, <1>13, RbNoMore
<1> QED
  BY <1>10, <1>11, <1>14 DEF RbInv

LEMMA RbStep ==
    ASSUME RbConstants, RbInv, Q!Next
    PROVE  RbInv' /\ Q!ChangeAskedAgain
<1>1. CASE Q!ActBegins
  BY <1>1, RbActBegins
<1>2. CASE Q!ActEnds
  BY <1>2, RbActEnds
<1>3. CASE Q!AskReadback
  BY <1>3, RbAskReadback
<1>4. CASE Q!AskHeard
  BY <1>4, RbAskHeard
<1>5. CASE Q!RepLine
  BY <1>5, RbRepLine
<1>6. ASSUME NEW ref \in Refs, Q!RecordOffer(ref)
      PROVE  RbInv' /\ Q!ChangeAskedAgain
  BY <1>6, RbRecord
<1>7. ASSUME NEW ref \in Refs, Q!DeclineOffer(ref)
      PROVE  RbInv' /\ Q!ChangeAskedAgain
  BY <1>7, RbDecline
<1> QED
  BY <1>1, <1>2, <1>3, <1>4, <1>5, <1>6, <1>7 DEF Q!Next

LEMMA RbStutter ==
    ASSUME RbInv, UNCHANGED Q!vars
    PROVE  RbInv' /\ Q!ChangeAskedAgain
<1>1. repLines' = repLines /\ offers' = offers /\ requests' = requests /\ acting' = acting
  BY DEF Q!vars
<1>2. RbTypes'
  BY <1>1 DEF RbInv, RbTypes
<1>3. RequestInv'
  BY <1>1 DEF RbInv, RequestInv
<1>4. \A ref \in Refs : Q!MayBind(ref)' => Q!MayBind(ref)
  BY <1>1 DEF Q!MayBind
<1>5. Q!LastWord' /\ Q!ChangeAskedAgain
  BY <1>1, <1>4, RbNoMore
<1> QED
  BY <1>2, <1>3, <1>5 DEF RbInv

(* An offer that may be bound is the rep's last word, given after a request *)
(* for it was heard, and it became one with no term on the strength of the *)
(* very answer that changed it, however many lines, requests and revisions *)
(* there are (guard/readback.py slot_statuses, slow/tools.py).             *)
THEOREM BindsLastWord ==
    ASSUME RbConstants
    PROVE  Q!Spec => []Q!LastWord /\ [][Q!ChangeAskedAgain]_(Q!vars)
<1>1. Q!Init => RbInv
  BY RbInit
<1>2. RbInv /\ [Q!Next]_(Q!vars) => RbInv' /\ Q!ChangeAskedAgain
  BY RbStep, RbStutter
<1>3. RbInv => Q!LastWord
  BY DEF RbInv
<1>4. Q!Spec => []RbInv
  BY <1>1, <1>2, PTL DEF Q!Spec
<1> QED
  BY <1>2, <1>3, <1>4, PTL DEF Q!Spec
=============================================================================
