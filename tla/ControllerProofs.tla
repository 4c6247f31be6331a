-------------------------- MODULE ControllerProofs --------------------------
(***************************************************************************)
(* The controller's way to an authenticated connection and its display, for *)
(* any number of connections, addresses and chunks.                         *)
(*                                                                          *)
(* CallsLeaveNothing: a dial is tracked exactly while it is in flight, is   *)
(* started within the dial window only, and its timeout ends before the     *)
(* drain window does, so a drain that runs out of time waits for a          *)
(* connection and not for a dial.                                           *)
(*                                                                          *)
(* RouteOfAttempt: the candidates of an attempt are on its paths, so the    *)
(* winner is, whatever the ranking prefers.  That the winner is a candidate *)
(* is a fact about FoldLeft: the recursion behind it has a solution, and    *)
(* what solves it stays among the elements.  Both are inductions over the   *)
(* length of the slice, stated for sets of numbers.                         *)
(*                                                                          *)
(* DisplayKeepsOrder: the parts of the way of the remote output are one     *)
(* rising sequence.                                                         *)
(***************************************************************************)
EXTENDS Connect, TransferUi, SequenceTheorems, WellFoundedInduction, TLAPS

(* Folds *)

\* A set of numbers has a least one.
LEMMA LeastOf ==
    ASSUME NEW T \in SUBSET Nat, T # {}
    PROVE  \E x \in T: \A y \in T: x <= y
<1>1. PICK x \in T: \A y \in T: ~(<<y, x>> \in OpToRel(<, Nat))
  BY WFMin, NatLessThanWellFounded, Zenon
<1>2. ASSUME NEW y \in T PROVE ~(y < x)
  <2>1. x \in Nat /\ y \in Nat
    OBVIOUS
  <2>2. y < x => <<y, x>> \in OpToRel(<, Nat)
    BY <2>1 DEF OpToRel
  <2> QED BY <2>2, <1>1
<1>3. \A y \in T: x <= y
  BY <1>2
<1> QED BY <1>3

\* Induction up to a number, as a fact about sets.
LEMMA UpTo ==
    ASSUME NEW n \in Nat, NEW P, 0 \in P, \A k \in Nat: k < n /\ k \in P => k + 1 \in P
    PROVE  n \in P
<1> SUFFICES ASSUME n \notin P PROVE FALSE
  OBVIOUS
<1> DEFINE T == {k \in Nat: k <= n /\ k \notin P}
<1>1. n \in T /\ T \in SUBSET Nat
  OBVIOUS
<1>2. PICK x \in T: \A y \in T: x <= y
  <2> HIDE DEF T
  <2> QED BY <1>1, LeastOf
<1>3. x \in Nat /\ x # 0 /\ x <= n /\ x \notin P
  OBVIOUS
<1>4. x - 1 \in Nat /\ x - 1 < n /\ (x - 1) + 1 = x
  BY <1>3
<1>5. x - 1 \in P
  BY <1>2, <1>3, <1>4
<1> QED BY <1>3, <1>4, <1>5

\* The largest of a set that holds a bound of it.
LEMMA MaxOf ==
    ASSUME NEW k \in Nat, NEW t \in SUBSET (1..(k + 1)), k + 1 \in t
    PROVE  Max(t) = k + 1
<1>1. \A y \in t: k + 1 >= y /\ y \in Int
  OBVIOUS
<1>2. \E x \in t: \A y \in t: x >= y
  BY <1>1
<1>3. Max(t) \in t /\ \A y \in t: Max(t) >= y
  BY <1>2 DEF Max
<1>4. PICK m: m = Max(t)
  OBVIOUS
<1>5. m \in 1..(k + 1) /\ m >= k + 1
  BY <1>3, <1>4
<1>6. m = k + 1
  BY <1>5
<1> QED BY <1>4, <1>6

\* The largest of a set of indices is one of them.
LEMMA MaxIn ==
    ASSUME NEW n \in Nat, NEW t \in SUBSET (1..n), t # {}
    PROVE  Max(t) \in t
<1> DEFINE T == {n - x : x \in t}
<1>0. \A x \in t: n - x \in Nat
  OBVIOUS
<1>1. T \in SUBSET Nat /\ T # {}
  <2>1. \A y \in T: y \in Nat
    BY <1>0
  <2>2. T # {}
    OBVIOUS
  <2> HIDE DEF T
  <2> QED BY <2>1, <2>2
<1>2. PICK y \in T: \A z \in T: y <= z
  <2> HIDE DEF T
  <2> QED BY <1>1, LeastOf
<1>3. PICK x \in t: y = n - x
  OBVIOUS
<1>4. ASSUME NEW z \in t PROVE x >= z
  <2>1. n - z \in T /\ z \in 1..n /\ x \in 1..n
    OBVIOUS
  <2>2. n - x <= n - z
    BY <1>2, <1>3, <2>1
  <2> QED BY <2>1, <2>2
<1> QED BY <1>4 DEF Max

\* The recursion behind FoldLeft has a solution: `b' is the base and g[i] the
\* operation with the i-th element.
FoldsTo(f, n, b, g) ==
    \A t \in SUBSET (1..n): f[t] = IF t = {} THEN b ELSE g[Max(t)][f[t \ {Max(t)}]]

\* By induction on n: a solution for the subsets of 1..k gives one for 1..(k+1).
LEMMA FoldExists ==
    ASSUME NEW n \in Nat, NEW S, NEW b \in S, NEW g \in [1..n -> [S -> S]]
    PROVE  \E f \in [SUBSET (1..n) -> S]: FoldsTo(f, n, b, g)
<1> DEFINE Solved(k) == \E f \in [SUBSET (1..k) -> S]: FoldsTo(f, k, b, g)
           P == {k \in Nat: k <= n => Solved(k)}
<1>1. 0 \in P
  <2> DEFINE f == [t \in SUBSET (1..0) |-> b]
  <2>0. 1..0 = {}
    OBVIOUS
  <2>1. f \in [SUBSET (1..0) -> S] /\ \A t \in SUBSET (1..0): t = {} /\ f[t] = b
    BY <2>0
  <2> HIDE DEF f
  <2>2. FoldsTo(f, 0, b, g)
    BY <2>1 DEF FoldsTo
  <2>3. Solved(0)
    BY <2>1, <2>2
  <2> HIDE DEF Solved
  <2> QED BY <2>3
<1>2. ASSUME NEW k \in Nat, k < n, k \in P PROVE k + 1 \in P
  <2>0. Solved(k)
    <3> HIDE DEF Solved
    <3> QED BY <1>2
  <2>1. PICK f \in [SUBSET (1..k) -> S]: FoldsTo(f, k, b, g)
    BY <2>0
  <2> DEFINE h == [t \in SUBSET (1..(k + 1)) |->
                     IF k + 1 \in t THEN g[k + 1][f[t \ {k + 1}]] ELSE f[t]]
  <2>2. ASSUME NEW t \in SUBSET (1..(k + 1)) PROVE t \ {k + 1} \in SUBSET (1..k)
    OBVIOUS
  <2>3. ASSUME NEW t \in SUBSET (1..(k + 1)), k + 1 \notin t PROVE t \in SUBSET (1..k)
    BY <2>3
  <2>4. ASSUME NEW t \in SUBSET (1..k) PROVE t \in SUBSET (1..(k + 1)) /\ k + 1 \notin t
    OBVIOUS
  <2>5. k + 1 \in 1..n /\ g[k + 1] \in [S -> S]
    BY <1>2
  <2>6. h \in [SUBSET (1..(k + 1)) -> S]
    <3> SUFFICES ASSUME NEW t \in SUBSET (1..(k + 1))
                PROVE  (IF k + 1 \in t THEN g[k + 1][f[t \ {k + 1}]] ELSE f[t]) \in S
      OBVIOUS
    <3>1. CASE k + 1 \in t
      <4>1. f[t \ {k + 1}] \in S
        BY <2>1, <2>2
      <4> QED BY <3>1, <4>1, <2>5
    <3>2. CASE k + 1 \notin t
      BY <2>1, <2>3, <3>2
    <3> QED BY <3>1, <3>2
  <2>7. FoldsTo(h, k + 1, b, g)
    <3> SUFFICES ASSUME NEW t \in SUBSET (1..(k + 1))
                PROVE  h[t] = IF t = {} THEN b ELSE g[Max(t)][h[t \ {Max(t)}]]
      BY DEF FoldsTo
    <3>1. CASE k + 1 \in t
      <4>1. Max(t) = k + 1
        BY <3>1, MaxOf
      <4>2. t \ {k + 1} \in SUBSET (1..(k + 1)) /\ k + 1 \notin t \ {k + 1}
        OBVIOUS
      <4>3. h[t \ {k + 1}] = f[t \ {k + 1}]
        BY <4>2
      <4>4. h[t] = g[k + 1][f[t \ {k + 1}]] /\ t # {}
        BY <3>1
      <4> HIDE DEF h
      <4> QED BY <4>1, <4>3, <4>4
    <3>2. CASE k + 1 \notin t
      <4>1. t \in SUBSET (1..k) /\ t \ {Max(t)} \in SUBSET (1..k)
        BY <2>3, <3>2
      <4>2. h[t] = f[t]
        BY <3>2
      <4>3. h[t \ {Max(t)}] = f[t \ {Max(t)}]
        <5>1. PICK u: u = t \ {Max(t)}
          OBVIOUS
        <5>2. u \in SUBSET (1..(k + 1)) /\ k + 1 \notin u
          BY <2>4, <4>1, <5>1
        <5>3. h[u] = f[u]
          BY <5>2
        <5> QED BY <5>1, <5>3
      <4>4. f[t] = IF t = {} THEN b ELSE g[Max(t)][f[t \ {Max(t)}]]
        BY <2>1, <4>1 DEF FoldsTo
      <4> HIDE DEF h
      <4> QED BY <4>2, <4>3, <4>4
    <3> QED BY <3>1, <3>2
  <2> HIDE DEF h
  <2>8. Solved(k + 1)
    BY <2>6, <2>7
  <2> HIDE DEF Solved
  <2> QED BY <2>8
<1> HIDE DEF P
<1>3. n \in P
  BY <1>1, <1>2, UpTo
<1>4. Solved(n)
  <2> HIDE DEF Solved
  <2> QED BY <1>3 DEF P
<1> QED BY <1>4

\* What solves the recursion stays where the operations stay.
LEMMA FoldStays ==
    ASSUME NEW n \in Nat, NEW S, NEW f, f[{}] \in S,
           \A t \in SUBSET (1..n):
               t # {} /\ Max(t) \in 1..n /\ f[t \ {Max(t)}] \in S => f[t] \in S
    PROVE  f[1..n] \in S
<1> DEFINE P == {k \in Nat: k <= n => \A t \in SUBSET (1..k): f[t] \in S}
<1>1. 0 \in P
  <2>1. \A t \in SUBSET (1..0): t = {}
    OBVIOUS
  <2> QED BY <2>1
<1>2. ASSUME NEW k \in Nat, k < n, k \in P PROVE k + 1 \in P
  <2> SUFFICES ASSUME NEW t \in SUBSET (1..(k + 1)) PROVE f[t] \in S
    OBVIOUS
  <2>1. \A u \in SUBSET (1..k): f[u] \in S
    BY <1>2
  <2>2. CASE k + 1 \notin t
    <3>1. t \in SUBSET (1..k)
      BY <2>2
    <3> QED BY <2>1, <3>1
  <2>3. CASE k + 1 \in t
    <3>1. t \in SUBSET (1..n) /\ t # {} /\ k + 1 \in 1..n
      BY <1>2, <2>3
    <3>2. Max(t) = k + 1
      BY <2>3, MaxOf
    <3>3. t \ {k + 1} \in SUBSET (1..k)
      OBVIOUS
    <3>4. f[t \ {k + 1}] \in S
      BY <2>1, <3>3
    <3> QED BY <3>1, <3>2, <3>4
  <2> QED BY <2>2, <2>3
<1> HIDE DEF P
<1>3. n \in P
  BY <1>1, <1>2, UpTo
<1>4. \A t \in SUBSET (1..n): f[t] \in S
  BY <1>3 DEF P
<1> QED BY <1>4

\* min_by returns an element of the slice (path.rs): with no assumption on the
\* order that ranks the candidates.
LEMMA MinByFacts ==
    ASSUME NEW S, NEW s \in Seq(S), s # <<>>
    PROVE  MinBy(s) \in S
<1> DEFINE r == Tail(s)  b == Head(s)  n == Len(r)
           D == SUBSET DOMAIN r
           step(t, v) == IF Before(r[Max(t)], v) THEN r[Max(t)] ELSE v
           Eq(f) == f = [t \in D |-> IF t = {} THEN b ELSE step(t, f[t \ {Max(t)}])]
           iter == CHOOSE f: Eq(f)
<1>1. r \in Seq(S) /\ b \in S /\ n \in Nat /\ DOMAIN r = 1..n
  OBVIOUS
<1>2. MinBy(s) = iter[DOMAIN r]
  BY DEF MinBy, FoldLeft, MapThenFoldSet
<1>3. \E f: Eq(f)
  <2> DEFINE g == [i \in 1..n |-> [v \in S |-> IF Before(r[i], v) THEN r[i] ELSE v]]
  <2>1. \A i \in 1..n: r[i] \in S
    BY <1>1
  <2> HIDE DEF r, b, n
  <2>2. g \in [1..n -> [S -> S]]
    BY <2>1
  <2>3. PICK f \in [SUBSET (1..n) -> S]: FoldsTo(f, n, b, g)
    <3> HIDE DEF g
    <3> QED BY <1>1, <2>2, FoldExists
  <2>4. f = [t \in D |-> f[t]]
    BY <1>1, <2>3
  <2>5. ASSUME NEW t \in D PROVE f[t] = IF t = {} THEN b ELSE step(t, f[t \ {Max(t)}])
    <3>1. f[t] = IF t = {} THEN b ELSE g[Max(t)][f[t \ {Max(t)}]]
      BY <1>1, <2>3 DEF FoldsTo
    <3>2. CASE t # {}
      <4>1. Max(t) \in 1..n
        BY <1>1, <3>2, MaxIn
      <4>2. PICK m, v: m = Max(t) /\ v = f[t \ {Max(t)}]
        OBVIOUS
      <4>3. v \in S
        BY <1>1, <2>3, <4>2
      <4>4. g[m][v] = IF Before(r[m], v) THEN r[m] ELSE v
        BY <4>1, <4>2, <4>3
      <4> QED BY <3>1, <3>2, <4>2, <4>4
    <3> QED BY <3>1, <3>2
  <2>6. [t \in D |-> f[t]] = [t \in D |-> IF t = {} THEN b ELSE step(t, f[t \ {Max(t)}])]
    BY <2>5, Zenon
  <2> QED BY <2>4, <2>6, Zenon
<1>4. Eq(iter)
  BY <1>3, Zenon
<1> HIDE DEF iter, r, b, n
<1>5. \A t \in D: iter[t] = IF t = {} THEN b ELSE step(t, iter[t \ {Max(t)}])
  BY <1>4
<1>6. iter[{}] \in S
  BY <1>1, <1>5
<1>7. ASSUME NEW t \in SUBSET (1..n), t # {}, Max(t) \in 1..n, iter[t \ {Max(t)}] \in S
      PROVE  iter[t] \in S
  <2>1. iter[t] = step(t, iter[t \ {Max(t)}])
    BY <1>1, <1>5, <1>7
  <2>2. r[Max(t)] \in S
    BY <1>1, <1>7
  <2> QED BY <1>7, <2>1, <2>2
<1>8. iter[1..n] \in S
  BY <1>1, <1>6, <1>7, FoldStays
<1> QED BY <1>1, <1>2, <1>8

\* The direct candidates of a slice are direct, and candidates of the slice.
LEMMA DirectFacts ==
    ASSUME NEW S, NEW sel, sel.candidates \in Seq(S)
    PROVE  Direct(sel) \in Seq({c \in S: c.path = "Direct"})
<1> DEFINE r == sel.candidates  b == <<>>  n == Len(r)
           Ds == Seq({c \in S: c.path = "Direct"})
           D == SUBSET DOMAIN r
           step(t, v) == IF r[Max(t)].path = "Direct" THEN Append(v, r[Max(t)]) ELSE v
           Eq(f) == f = [t \in D |-> IF t = {} THEN b ELSE step(t, f[t \ {Max(t)}])]
           iter == CHOOSE f: Eq(f)
<1>1. r \in Seq(S) /\ b \in Ds /\ n \in Nat /\ DOMAIN r = 1..n
  OBVIOUS
<1>2. Direct(sel) = iter[DOMAIN r]
  BY DEF Direct, FoldLeft, MapThenFoldSet
<1>10. ASSUME NEW i \in 1..n, NEW v \in Ds
       PROVE  (IF r[i].path = "Direct" THEN Append(v, r[i]) ELSE v) \in Ds
  <2>1. r[i] \in S
    BY <1>1
  <2> QED BY <2>1
<1>3. \E f: Eq(f)
  <2> DEFINE g == [i \in 1..n |-> [v \in Ds |-> IF r[i].path = "Direct" THEN Append(v, r[i]) ELSE v]]
  <2> HIDE DEF r, b, n, Ds
  <2>2. g \in [1..n -> [Ds -> Ds]]
    BY <1>10
  <2>3. PICK f \in [SUBSET (1..n) -> Ds]: FoldsTo(f, n, b, g)
    <3> HIDE DEF g
    <3> QED BY <1>1, <2>2, FoldExists
  <2>4. f = [t \in D |-> f[t]]
    BY <1>1, <2>3
  <2>5. ASSUME NEW t \in D PROVE f[t] = IF t = {} THEN b ELSE step(t, f[t \ {Max(t)}])
    <3>1. f[t] = IF t = {} THEN b ELSE g[Max(t)][f[t \ {Max(t)}]]
      BY <1>1, <2>3 DEF FoldsTo
    <3>2. CASE t # {}
      <4>1. Max(t) \in 1..n
        BY <1>1, <3>2, MaxIn
      <4>2. PICK m, v: m = Max(t) /\ v = f[t \ {Max(t)}]
        OBVIOUS
      <4>3. v \in Ds
        BY <1>1, <2>3, <4>2
      <4>4. g[m][v] = IF r[m].path = "Direct" THEN Append(v, r[m]) ELSE v
        BY <4>1, <4>2, <4>3
      <4> QED BY <3>1, <3>2, <4>2, <4>4
    <3> QED BY <3>1, <3>2
  <2>6. [t \in D |-> f[t]] = [t \in D |-> IF t = {} THEN b ELSE step(t, f[t \ {Max(t)}])]
    BY <2>5, Zenon
  <2> QED BY <2>4, <2>6, Zenon
<1>4. Eq(iter)
  BY <1>3, Zenon
<1> HIDE DEF iter, r, b, n, Ds
<1>5. \A t \in D: iter[t] = IF t = {} THEN b ELSE step(t, iter[t \ {Max(t)}])
  BY <1>4
<1>6. iter[{}] \in Ds
  BY <1>1, <1>5
<1>7. ASSUME NEW t \in SUBSET (1..n), t # {}, Max(t) \in 1..n, iter[t \ {Max(t)}] \in Ds
      PROVE  iter[t] \in Ds
  <2>1. iter[t] = step(t, iter[t \ {Max(t)}])
    BY <1>1, <1>5, <1>7
  <2>2. PICK m, v: m = Max(t) /\ v = iter[t \ {Max(t)}]
    OBVIOUS
  <2>3. (IF r[m].path = "Direct" THEN Append(v, r[m]) ELSE v) \in Ds
    BY <1>7, <1>10, <2>2
  <2> QED BY <2>1, <2>2, <2>3
<1>8. iter[1..n] \in Ds
  BY <1>1, <1>6, <1>7, FoldStays
<1> QED BY <1>1, <1>2, <1>8 DEF Ds

-----------------------------------------------------------------------------
(* RelayDial *)

Stages == {"idle", "before", "attempt", "after", "done"}

\* A dial is tracked by its address, and its timeout ends by the deadline of the
\* attempt.
DialTypes ==
    /\ call \in Stages /\ clock \in Nat /\ windowAt \in Int /\ nextDial \in Int
    /\ dials \subseteq [id: Addresses, until: Int]

DialIds ==
    /\ tracked = {d.id : d \in dials}
    /\ \A d, e \in dials: d.id = e.id => d = e

DialTimes == \A d \in dials: clock <= d.until /\ d.until <= DialWindow + TransportTimeout

\* A set is to be redialled only while none is in flight, within the dial
\* window, and before a selection window has opened.
RedialDue ==
    call = "attempt" /\ nextDial # None
        => tracked = {} /\ clock <= nextDial /\ nextDial <= DialWindow /\ windowAt = None

\* A call that has not returned has no success to report yet.
NotYetOk == call \in {"before", "attempt", "after"} => result # "Ok"

\* A call that returned without losing its connection left nothing behind.
LeftNothing ==
    call = "done"
        => /\ result # "SelectedConnectionLost" => dials = {}
           /\ result = "Ok" => relays = {keep}

\* The selection window of a call opens in its attempt.
BeforeFresh == call = "before" => windowAt = None

DialInv ==
    /\ DialTypes /\ DialIds /\ DialTimes
    /\ RedialDue /\ BeforeFresh /\ NotYetOk /\ LeftNothing

\* The windows of network.rs are durations, and the drain window is not empty.
LEMMA DialBounds ==
    /\ DialWindow \in Nat /\ TransportTimeout \in Nat /\ DrainWindow \in Nat
    /\ SelectionWindow \in Nat /\ \A d \in Delays: d \in Nat /\ d # 0
    /\ DrainWindow # 0
    /\ Dial!AttemptDeadline = DialWindow + TransportTimeout
    /\ Dial!ConnectDeadline = DialWindow + TransportTimeout + DrainWindow
    /\ Dial!None = None /\ None = -1
BY DialAssumption DEF Dial!AttemptDeadline, Dial!ConnectDeadline, Dial!None, None

\* The earlier of two deadlines.
LEMMA MinFacts ==
    ASSUME NEW a \in Int, NEW b \in Int
    PROVE  Dial!Min({a, b}) \in Int /\ Dial!Min({a, b}) <= a /\ Dial!Min({a, b}) <= b
           /\ Dial!Min({a, b}) \in {a, b}
<1>1. \E x \in {a, b}: \A y \in {a, b}: x <= y
  <2>1. CASE a <= b
    BY <2>1
  <2>2. CASE ~(a <= b)
    BY <2>2
  <2> QED BY <2>1, <2>2
<1>2. Dial!Min({a, b}) \in {a, b} /\ \A y \in {a, b}: Dial!Min({a, b}) <= y
  BY <1>1 DEF Dial!Min
<1> QED BY <1>2

\* An address is tracked exactly while it is dialled, so none tracked is none in
\* flight.
LEMMA NoneTracked ==
    ASSUME DialIds
    PROVE  tracked = {} <=> dials = {}
BY DEF DialIds

\* The end of a dial: record_established and record_relay_dial_failed.
LEMMA DialEndsFacts ==
    ASSUME DialInv, NEW d \in dials, Dial!DialEnds(d)
    PROVE  /\ dials' \subseteq dials /\ DialIds' /\ tracked # {}
<1>1. dials' = dials \ {d} /\ tracked' = tracked \ {d.id}
  BY DEF Dial!DialEnds
<1>2. tracked = {e.id : e \in dials} /\ \A e, f \in dials: e.id = f.id => e = f
  BY DEF DialInv, DialIds
<1>3. tracked \ {d.id} = {e.id : e \in dials \ {d}}
  BY <1>2
<1> QED BY <1>1, <1>2, <1>3 DEF DialIds

\* A set of dials is started.
LEMMA DialSetFacts ==
    ASSUME DialInv, NEW accepted \in SUBSET Addresses, Dial!DialSet(accepted), clock <= DialWindow,
           clock' = clock
    PROVE  /\ dials' \subseteq [id: Addresses, until: Int] /\ DialIds' /\ DialTimes'
           /\ tracked' = accepted
<1> DEFINE New == {[id |-> a, until |-> clock + TransportTimeout] : a \in accepted}
<1>1. dials' = New /\ tracked' = accepted
  BY DEF Dial!DialSet
<1>2. clock \in Nat /\ TransportTimeout \in Nat /\ DialWindow \in Nat
  BY DialBounds DEF DialInv, DialTypes
<1>3. New \subseteq [id: Addresses, until: Int]
  BY <1>2
<1>4. \A d \in New: d.id \in accepted /\ d.until = clock + TransportTimeout
                    /\ d = [id |-> d.id, until |-> clock + TransportTimeout]
  OBVIOUS
<1>5. accepted = {d.id : d \in New}
  <2>1. \A a \in accepted: [id |-> a, until |-> clock + TransportTimeout] \in New
                           /\ [id |-> a, until |-> clock + TransportTimeout].id = a
    OBVIOUS
  <2> QED BY <1>4, <2>1
<1> HIDE DEF New
<1>6. DialIds'
  BY <1>1, <1>4, <1>5 DEF DialIds
<1>7. DialTimes'
  BY <1>1, <1>2, <1>4 DEF DialTimes
<1> QED BY <1>1, <1>3, <1>6, <1>7

\* next_relay_dial stays within the dial window.
LEMMA NextRelayDialFacts ==
    ASSUME clock \in Nat, NEW t \in Dial!NextRelayDial
    PROVE  t \in Int /\ (t # None => clock <= t /\ t <= DialWindow)
<1>1. CASE t = None
  BY <1>1, DialBounds
<1>2. CASE t # None
  <2>1. PICK d \in Delays: t = clock + d /\ clock + d <= DialWindow
    BY <1>2, DialBounds DEF Dial!NextRelayDial
  <2> QED BY <2>1, DialBounds
<1> QED BY <1>1, <1>2

\* The tail of the loop of connect_relay_attempt.
LEMMA AfterDialEvent ==
    ASSUME DialInv, call = "attempt", NEW sel, NEW opens \in BOOLEAN, Dial!AfterEvent(sel, opens),
           opens => tracked # {}, dials' \subseteq dials, DialIds'
    PROVE  DialInv'
<1>1. /\ call' = call /\ clock' = clock /\ keep' = keep /\ result' = result
      /\ windowAt' = IF opens /\ windowAt = None
                     THEN Dial!Min({clock + SelectionWindow, Dial!AttemptDeadline}) ELSE windowAt
      /\ nextDial' \in IF windowAt' = None /\ nextDial = None /\ tracked' = {}
                       THEN Dial!NextRelayDial ELSE {nextDial}
  BY DialBounds DEF Dial!AfterEvent
<1>2. clock \in Nat /\ windowAt \in Int /\ nextDial \in Int
  BY DEF DialInv, DialTypes
<1>3. windowAt' \in Int
  <2>1. PICK a, b: a = clock + SelectionWindow /\ b = Dial!AttemptDeadline
    OBVIOUS
  <2>2. a \in Int /\ b \in Int
    BY <1>2, <2>1, DialBounds
  <2>3. Dial!Min({a, b}) \in Int
    BY <2>2, MinFacts
  <2> QED BY <1>1, <1>2, <2>1, <2>3
<1>4. CASE windowAt' = None /\ nextDial = None /\ tracked' = {}
  <2>1. nextDial' \in Dial!NextRelayDial
    BY <1>1, <1>4
  <2>2. nextDial' \in Int /\ (nextDial' # None => clock <= nextDial' /\ nextDial' <= DialWindow)
    BY <1>2, <2>1, NextRelayDialFacts
  <2>3. RedialDue'
    BY <1>1, <1>4, <2>2 DEF RedialDue
  <2>4. DialTypes' /\ DialTimes'
    BY <1>1, <1>3, <2>2 DEF DialInv, DialTypes, DialTimes
  <2> QED BY <1>1, <2>3, <2>4 DEF DialInv, NotYetOk, LeftNothing, BeforeFresh
<1>5. CASE ~(windowAt' = None /\ nextDial = None /\ tracked' = {})
  <2>1. nextDial' = nextDial
    BY <1>1, <1>5
  <2>2. tracked = {} => tracked' = {}
    BY DEF DialInv, DialIds
  <2>3. nextDial # None => tracked = {} /\ windowAt = None /\ clock <= nextDial /\ nextDial <= DialWindow
    BY DEF DialInv, RedialDue
  <2>4. nextDial # None => windowAt' = None
    BY <1>1, <2>3
  <2>5. RedialDue'
    BY <1>1, <2>1, <2>2, <2>3, <2>4 DEF RedialDue
  <2>6. DialTypes' /\ DialTimes'
    BY <1>1, <1>3, <2>1 DEF DialInv, DialTypes, DialTimes
  <2> QED BY <1>1, <2>5, <2>6 DEF DialInv, NotYetOk, LeftNothing, BeforeFresh
<1> QED BY <1>4, <1>5

\* AttemptFails: the second drain begins.
LEMMA AttemptFailsFacts ==
    ASSUME DialInv, Dial!AttemptFails("RelayUnavailable")
    PROVE  DialInv'
BY DEF Dial!AttemptFails, Dial!attemptVars, DialInv, DialTypes, DialIds, DialTimes, RedialDue,
       NotYetOk, LeftNothing, BeforeFresh, Stages

\* A call finds what the last one left, its dials in flight included.
LEMMA BeginsKeeps ==
    ASSUME DialInv, Dial!Begins
    PROVE  DialInv'
<1>1. /\ call' = "before" /\ clock' = 0 /\ windowAt' = None /\ nextDial' = None
      /\ result' = "none" /\ tracked' = tracked
      /\ dials' = {[d EXCEPT !.until = @ - clock] : d \in dials}
  BY DialBounds DEF Dial!Begins
<1>2. clock \in Nat /\ dials \subseteq [id: Addresses, until: Int]
  BY DEF DialInv, DialTypes
<1>3. \A d \in dials: /\ [d EXCEPT !.until = @ - clock] = [id |-> d.id, until |-> d.until - clock]
                      /\ d.id \in Addresses /\ d.until \in Int
                      /\ d = [id |-> d.id, until |-> d.until]
  BY <1>2
<1>4. dials' = {[id |-> d.id, until |-> d.until - clock] : d \in dials}
  <2>1. PICK was, time: was = dials /\ time = clock
    OBVIOUS
  <2>2. \A d \in was: [d EXCEPT !.until = @ - time] = [id |-> d.id, until |-> d.until - time]
    BY <1>3, <2>1, Zenon
  <2>3. {[d EXCEPT !.until = @ - time] : d \in was}
        = {[id |-> d.id, until |-> d.until - time] : d \in was}
    BY <2>2, Zenon
  <2> QED BY <1>1, <2>1, <2>3, Zenon
<1>5. \A e \in dials': \E d \in dials: e = [id |-> d.id, until |-> d.until - clock]
                                       /\ e.id = d.id /\ e.until = d.until - clock
  <2> SUFFICES ASSUME NEW e \in {[id |-> d.id, until |-> d.until - clock] : d \in dials}
              PROVE  \E d \in dials: e = [id |-> d.id, until |-> d.until - clock]
                                     /\ e.id = d.id /\ e.until = d.until - clock
    BY <1>4, Zenon
  <2> QED OBVIOUS
<1>6. \A d \in dials: \E e \in dials': e.id = d.id
  <2> TAKE d \in dials
  <2>1. [id |-> d.id, until |-> d.until - clock] \in dials'
    BY <1>4, Zenon
  <2>2. [id |-> d.id, until |-> d.until - clock].id = d.id
    OBVIOUS
  <2> QED BY <2>1, <2>2, Zenon
<1>7. DialTypes'
  <2>1. dials' \subseteq [id: Addresses, until: Int]
    BY <1>2, <1>3, <1>5
  <2> QED BY <1>1, <2>1, DialBounds DEF DialTypes, Stages
<1>8. DialIds'
  <2>1. tracked = {d.id : d \in dials} /\ \A d, e \in dials: d.id = e.id => d = e
    BY DEF DialInv, DialIds
  <2>2. tracked' = {e.id : e \in dials'}
    <3>1. tracked' = {d.id : d \in dials}
      BY <1>1, <2>1, Zenon
    <3>2. ASSUME NEW d \in dials PROVE d.id \in {e.id : e \in dials'}
      BY <1>6, Zenon
    <3>3. ASSUME NEW e \in dials' PROVE e.id \in {d.id : d \in dials}
      BY <1>5, Zenon
    <3>4. {d.id : d \in dials} = {e.id : e \in dials'}
      BY <3>2, <3>3, Zenon
    <3> QED BY <3>1, <3>4, Zenon
  <2>3. ASSUME NEW e \in dials', NEW f \in dials', e.id = f.id PROVE e = f
    <3>1. PICK d \in dials: e = [id |-> d.id, until |-> d.until - clock] /\ e.id = d.id
      BY <1>5
    <3>2. PICK g \in dials: f = [id |-> g.id, until |-> g.until - clock] /\ f.id = g.id
      BY <1>5
    <3>3. d = g
      BY <2>1, <2>3, <3>1, <3>2
    <3> QED BY <3>1, <3>2, <3>3
  <2> QED BY <2>2, <2>3 DEF DialIds
<1>9. DialTimes'
  <2> SUFFICES ASSUME NEW e \in dials'
              PROVE  0 <= e.until /\ e.until <= DialWindow + TransportTimeout
    BY <1>1 DEF DialTimes
  <2>1. PICK d \in dials: e.until = d.until - clock
    BY <1>5
  <2>2. d.until \in Int /\ clock <= d.until /\ d.until <= DialWindow + TransportTimeout
    BY <1>3 DEF DialInv, DialTimes
  <2> QED BY <1>2, <2>1, <2>2, DialBounds
<1> QED BY <1>1, <1>7, <1>8, <1>9 DEF DialInv, RedialDue, NotYetOk, LeftNothing, BeforeFresh

\* The first drain is over, or a failed set is dialled again.
LEMMA StartsKeeps ==
    ASSUME DialInv, Dial!Starts \/ Dial!Redials
    PROVE  DialInv'
<1>1. clock \in Nat
  BY DEF DialInv, DialTypes
<1>2. CASE Dial!AttemptFails("RelayUnavailable")
  BY <1>2, AttemptFailsFacts
<1>3. CASE Dial!Starts /\ ~Dial!AttemptFails("RelayUnavailable")
  <2>1. PICK accepted \in SUBSET Addresses:
          /\ Dial!DialSet(accepted)
          /\ nextDial' \in IF accepted = {} THEN Dial!NextRelayDial ELSE {None}
    BY <1>3, DialBounds DEF Dial!Starts
  <2>2. /\ clock <= DialWindow /\ call' = "attempt" /\ clock' = clock /\ windowAt' = windowAt
        /\ result' = result /\ call = "before"
    BY <1>3 DEF Dial!Starts
  <2>3. /\ dials' \subseteq [id: Addresses, until: Int] /\ DialIds' /\ DialTimes'
        /\ tracked' = accepted
    BY <2>1, <2>2, DialSetFacts
  <2>4. nextDial' \in Int /\ (nextDial' # None => accepted = {} /\ clock <= nextDial' /\ nextDial' <= DialWindow)
    BY <1>1, <2>1, NextRelayDialFacts, DialBounds
  <2>5. windowAt = None
    BY <2>2 DEF DialInv, BeforeFresh
  <2>6. RedialDue'
    BY <2>2, <2>3, <2>4, <2>5 DEF RedialDue
  <2>7. DialTypes'
    BY <2>2, <2>3, <2>4 DEF DialInv, DialTypes, Stages
  <2> QED BY <2>2, <2>3, <2>6, <2>7 DEF DialInv, NotYetOk, LeftNothing, BeforeFresh
<1>4. CASE Dial!Redials
  <2>1. PICK accepted \in SUBSET Addresses: Dial!DialSet(accepted)
    BY <1>4 DEF Dial!Redials
  <2>2. /\ call = "attempt" /\ call' = call /\ clock' = clock /\ windowAt' = windowAt
        /\ nextDial' = None /\ result' = result /\ windowAt = None /\ nextDial # None
        /\ clock >= Dial!Deadline
    BY <1>4, DialBounds DEF Dial!Redials, Dial!Exhausted
  <2>3. clock <= nextDial /\ nextDial <= DialWindow /\ nextDial \in Int
    BY <2>2 DEF DialInv, RedialDue, DialTypes
  <2>4. clock <= DialWindow
    BY <1>1, <2>3, DialBounds
  <2>5. /\ dials' \subseteq [id: Addresses, until: Int] /\ DialIds' /\ DialTimes'
    BY <2>1, <2>2, <2>4, DialSetFacts
  <2>6. DialTypes' /\ RedialDue'
    BY <2>2, <2>5, DialBounds DEF DialInv, DialTypes, RedialDue
  <2> QED BY <2>2, <2>5, <2>6 DEF DialInv, NotYetOk, LeftNothing, BeforeFresh
<1> QED BY <1>2, <1>3, <1>4

\* The events of connect_relay_attempt.
LEMMA AttemptKeeps ==
    ASSUME DialInv,
           \/ Dial!GivesUp \/ Dial!DialSucceeds \/ Dial!DialFails \/ Dial!Pings
           \/ Dial!ConnectionCloses \/ Dial!AttemptTimeout
    PROVE  DialInv'
<1>1. CASE Dial!GivesUp \/ Dial!AttemptTimeout
  BY <1>1, AttemptFailsFacts DEF Dial!GivesUp, Dial!AttemptTimeout
<1>2. CASE Dial!DialSucceeds
  <2> DEFINE c(d) == [id |-> d.id, transport |-> TransportOf[d.id], path |-> "Direct"]
  <2>1. PICK d \in dials: /\ Dial!DialEnds(d)
                          /\ Dial!AfterEvent(Dial!Established(choice, c(d)), Dial!Accepts(choice, c(d)))
    BY <1>2 DEF Dial!DialSucceeds
  <2>2. PICK sel, opens: sel = Dial!Established(choice, c(d)) /\ opens = Dial!Accepts(choice, c(d))
    OBVIOUS
  <2>3. opens \in BOOLEAN
    BY <2>2 DEF Dial!Accepts, Dial!Tracked
  <2>4. Dial!AfterEvent(sel, opens)
    BY <2>1, <2>2
  <2>5. dials' \subseteq dials /\ DialIds' /\ tracked # {}
    BY <2>1, DialEndsFacts
  <2>6. call = "attempt"
    BY <1>2 DEF Dial!DialSucceeds
  <2> QED BY <2>3, <2>4, <2>5, <2>6, AfterDialEvent
<1>3. CASE Dial!DialFails
  <2>1. PICK d \in dials: Dial!DialEnds(d)
    BY <1>3 DEF Dial!DialFails
  <2>2. dials' \subseteq dials /\ DialIds' /\ tracked # {}
    BY <2>1, DialEndsFacts
  <2>3. call = "attempt" /\ Dial!AfterEvent(choice, FALSE)
    BY <1>3 DEF Dial!DialFails
  <2> QED BY <2>2, <2>3, AfterDialEvent
<1>4. CASE Dial!Pings \/ Dial!ConnectionCloses
  <2>1. PICK sel: Dial!AfterEvent(sel, FALSE)
    BY <1>4 DEF Dial!Pings, Dial!ConnectionCloses
  <2>2. call = "attempt" /\ dials' = dials /\ tracked' = tracked
    BY <1>4 DEF Dial!Pings, Dial!ConnectionCloses, Dial!netVars
  <2>3. DialIds'
    BY <2>2 DEF DialInv, DialIds
  <2> QED BY <2>1, <2>2, <2>3, AfterDialEvent
<1> QED BY <1>1, <1>2, <1>3, <1>4

\* The selection window is over.
LEMMA SelectsKeeps ==
    ASSUME DialInv, Dial!Selects
    PROVE  DialInv'
<1>1. CASE Dial!AttemptFails("RelayUnavailable")
  BY <1>1, AttemptFailsFacts
<1>2. CASE ~Dial!AttemptFails("RelayUnavailable")
  <2>1. /\ call = "attempt" /\ call' = "after" /\ clock' = clock /\ dials' = dials
        /\ tracked' = tracked /\ windowAt' = windowAt /\ nextDial' = nextDial /\ result' = result
    BY <1>2 DEF Dial!Selects, Dial!attemptVars
  <2> QED BY <2>1 DEF DialInv, DialTypes, DialIds, DialTimes, RedialDue, BeforeFresh, NotYetOk,
                      LeftNothing, Stages
<1> QED BY <1>1, <1>2

\* drain_relay_state: a dial still in flight ends before the drain window does.
LEMMA DrainKeeps ==
    ASSUME DialInv,
           \/ Dial!DrainDial \/ Dial!DrainCloses \/ Dial!DrainLoses \/ Dial!Drained
           \/ Dial!DrainTimeout
    PROVE  DialInv'
<1>1. CASE Dial!DrainDial \/ Dial!DrainCloses
  <2>1. /\ call' = call /\ call \in {"before", "after"} /\ clock' = clock /\ windowAt' = windowAt
        /\ nextDial' = nextDial /\ result' = result
    BY <1>1 DEF Dial!DrainDial, Dial!DrainCloses, Dial!DrainsOn, Dial!attemptVars, Dial!Draining
  <2>2. dials' \subseteq dials /\ DialIds'
    <3>1. CASE Dial!DrainDial
      BY <3>1, DialEndsFacts DEF Dial!DrainDial
    <3>2. CASE Dial!DrainCloses
      <4>1. dials' = dials /\ tracked' = tracked
        BY <3>2 DEF Dial!DrainCloses
      <4> QED BY <4>1 DEF DialInv, DialIds
    <3> QED BY <1>1, <3>1, <3>2
  <2>3. DialTypes' /\ DialTimes'
    BY <2>1, <2>2 DEF DialInv, DialTypes, DialTimes
  <2> QED BY <2>1, <2>2, <2>3 DEF DialInv, RedialDue, BeforeFresh, NotYetOk, LeftNothing
<1>2. CASE Dial!DrainLoses \/ Dial!Drained \/ Dial!DrainTimeout
  <2>1. /\ call' = "done" /\ call \in {"before", "after"} /\ clock' = clock /\ dials' = dials
        /\ tracked' = tracked /\ windowAt' = windowAt /\ nextDial' = nextDial
    BY <1>2 DEF Dial!DrainLoses, Dial!Drained, Dial!DrainTimeout, Dial!Returns, Dial!netVars,
                Dial!attemptVars, Dial!Draining
  <2>2. DialTypes' /\ DialIds' /\ DialTimes'
    BY <2>1 DEF DialInv, DialTypes, DialIds, DialTimes, Stages
  <2>3. LeftNothing'
    <3>1. CASE Dial!DrainLoses
      BY <3>1 DEF Dial!DrainLoses, Dial!Returns, LeftNothing
    <3>2. CASE Dial!Drained
      <4>1. /\ dials = {} /\ result # "Ok" /\ Dial!RosterReady /\ relays' = relays /\ keep' = keep
            /\ result' = IF keep = None THEN result ELSE "Ok"
        BY <2>1, <3>2, NoneTracked, DialBounds
           DEF Dial!Drained, Dial!Returns, Dial!netVars, DialInv, NotYetOk
      <4>2. result' = "Ok" => relays = {keep}
        BY <4>1, DialBounds DEF Dial!RosterReady
      <4> QED BY <2>1, <4>1, <4>2 DEF LeftNothing
    <3>3. CASE Dial!DrainTimeout
      <4>1. clock >= DialWindow + TransportTimeout + DrainWindow /\ clock \in Nat
            /\ result' = "RelayDidNotConverge"
        BY <3>3, DialBounds DEF Dial!DrainTimeout, Dial!Returns, DialInv, DialTypes
      <4>2. ASSUME NEW d \in dials PROVE FALSE
        <5>1. d.until \in Int /\ clock <= d.until /\ d.until <= DialWindow + TransportTimeout
          BY DEF DialInv, DialTypes, DialTimes
        <5> QED BY <4>1, <5>1, DialBounds
      <4> QED BY <2>1, <4>1, <4>2 DEF LeftNothing
    <3> QED BY <1>2, <3>1, <3>2, <3>3
  <2> QED BY <2>1, <2>2, <2>3 DEF DialInv, RedialDue, BeforeFresh, NotYetOk
<1> QED BY <1>1, <1>2

\* Time passes up to the deadline the loop waits for, and a dial ends by its
\* own timeout.
LEMMA TickKeeps ==
    ASSUME DialInv, Dial!Tick
    PROVE  DialInv'
<1>1. /\ call' = call /\ clock' = clock + 1 /\ dials' = dials /\ tracked' = tracked
      /\ windowAt' = windowAt /\ nextDial' = nextDial /\ result' = result /\ keep' = keep
      /\ relays' = relays
      /\ \A d \in dials: clock < d.until
      /\ call = "attempt" => clock < Dial!Deadline
  BY DEF Dial!Tick, Dial!netVars, Dial!attemptVars, Dial!Draining
<1>2. clock \in Nat /\ nextDial \in Int
  BY DEF DialInv, DialTypes
<1>3. DialTypes' /\ DialIds'
  BY <1>1, <1>2 DEF DialInv, DialTypes, DialIds
<1>4. DialTimes'
  <2> SUFFICES ASSUME NEW d \in dials
              PROVE  clock + 1 <= d.until /\ d.until <= DialWindow + TransportTimeout
    BY <1>1 DEF DialTimes
  <2>1. d.until \in Int /\ d.until <= DialWindow + TransportTimeout
    BY DEF DialInv, DialTypes, DialTimes
  <2> QED BY <1>1, <1>2, <2>1
<1>5. RedialDue'
  <2> SUFFICES ASSUME call = "attempt", nextDial # None
              PROVE  /\ tracked = {} /\ clock + 1 <= nextDial
                     /\ nextDial <= DialWindow /\ windowAt = None
    BY <1>1 DEF RedialDue
  <2>1. tracked = {} /\ nextDial <= DialWindow /\ windowAt = None
    BY DEF DialInv, RedialDue
  <2>2. Dial!Deadline = Dial!Min({nextDial, Dial!AttemptDeadline})
    BY <2>1, DialBounds DEF Dial!Deadline
  <2>3. PICK a, b: a = nextDial /\ b = Dial!AttemptDeadline
    OBVIOUS
  <2>4. a \in Int /\ b \in Int
    BY <1>2, <2>3, DialBounds
  <2>5. Dial!Min({a, b}) <= a /\ Dial!Min({a, b}) \in Int
    BY <2>4, MinFacts
  <2>6. clock < Dial!Min({a, b})
    BY <1>1, <2>2, <2>3
  <2> QED BY <1>2, <2>1, <2>3, <2>4, <2>5, <2>6
<1> QED BY <1>1, <1>3, <1>4, <1>5 DEF DialInv, BeforeFresh, NotYetOk, LeftNothing

\* The driver of a call is dropped, or nothing happens to it.
LEMMA DialIdleKeeps ==
    ASSUME DialInv, DialForgotten \/ UNCHANGED dialVars
    PROVE  DialInv'
<1>1. CASE DialForgotten
  BY <1>1 DEF DialForgotten, DialInv, DialTypes, DialIds, DialTimes, RedialDue, BeforeFresh,
              NotYetOk, LeftNothing, Stages, None
<1>2. CASE UNCHANGED dialVars
  BY <1>2 DEF dialVars, DialInv, DialTypes, DialIds, DialTimes, RedialDue, BeforeFresh,
              NotYetOk, LeftNothing
<1> QED BY <1>1, <1>2

\* Every call of connect_configured_relay, by a controller or again and again
\* by a host, leaves no dial in flight and one connection (network.rs).
THEOREM CallsLeaveNothing == Spec => []CallLeavesNothing
<1>1. Init => DialInv
  <2> SUFFICES ASSUME Dial!DialInit PROVE DialInv
    BY DEF Init
  <2> QED BY DialBounds DEF Dial!DialInit, DialInv, DialTypes, DialIds, DialTimes, RedialDue,
             BeforeFresh, NotYetOk, LeftNothing, Stages, None, Dial!None
<1>2. DialInv /\ [Next]_<<caller, callVars>> => DialInv'
  <2> SUFFICES ASSUME DialInv, [Next]_<<caller, callVars>> PROVE DialInv'
    OBVIOUS
  <2>1. CASE Dial!DialNext
    BY <2>1, BeginsKeeps, StartsKeeps, AttemptKeeps, SelectsKeeps, DrainKeeps, TickKeeps
       DEF Dial!DialNext
  <2>2. CASE DialForgotten \/ UNCHANGED dialVars
    BY <2>2, DialIdleKeeps
  <2> QED BY <2>1, <2>2 DEF Next, Dials, ControllerConnects, Targets, callVars
<1>3. DialInv => CallLeavesNothing
  BY NoneTracked, DialBounds
     DEF DialInv, RedialDue, LeftNothing, CallLeavesNothing, Dial!CallLeavesNothing
<1> QED BY <1>1, <1>2, <1>3, PTL DEF Spec

-----------------------------------------------------------------------------
(* TargetConnect *)

\* Candidates over the given paths, and selections of them.
CandidatesOver(paths) ==
    [id: Nat, path: paths, transport: Transports, samples: Seq(RoundTrips), order: Nat]

SelectionsOver(paths) == [candidates: Seq(CandidatesOver(paths)), next: Nat]

\* established, ping and closed keep a selection's candidates on its paths.
LEMMA EstablishedFacts ==
    ASSUME NEW paths, NEW sel \in SelectionsOver(paths),
           NEW c \in [id: Nat, path: paths, transport: Transports]
    PROVE  Established(sel, c) \in SelectionsOver(paths)
<1>1. CASE Tracked(sel, c.id) \/ ~Accepts(sel, c)
  BY <1>1 DEF Established
<1>2. CASE ~(Tracked(sel, c.id) \/ ~Accepts(sel, c))
  <2> DEFINE k == [id |-> c.id, path |-> c.path, transport |-> c.transport,
                   samples |-> <<>>, order |-> sel.next]
  <2>1. k \in CandidatesOver(paths) /\ sel.candidates \in Seq(CandidatesOver(paths)) /\ sel.next + 1 \in Nat
    BY DEF CandidatesOver, SelectionsOver
  <2> HIDE DEF k
  <2>2. Append(sel.candidates, k) \in Seq(CandidatesOver(paths))
    BY <2>1
  <2>3. Established(sel, c) = [candidates |-> Append(sel.candidates, k), next |-> sel.next + 1]
    BY <1>2 DEF Established, k
  <2> QED BY <2>1, <2>2, <2>3 DEF SelectionsOver
<1> QED BY <1>1, <1>2

\* ping adds a sample to the candidates of its connection.
LEMMA PingedFacts ==
    ASSUME NEW paths, NEW sel \in SelectionsOver(paths), NEW id, NEW rtt \in RoundTrips
    PROVE  Pinged(sel, id, rtt) \in SelectionsOver(paths)
<1> DEFINE cs == sel.candidates
           C == CandidatesOver(paths)
           ping(c) == IF c.id = id THEN [c EXCEPT !.samples = Push(@, rtt)] ELSE c
           ps == [i \in DOMAIN cs |-> ping(cs[i])]
<1>1. cs \in Seq(C)
  BY DEF SelectionsOver
<1>2. ASSUME NEW c \in C PROVE ping(c) \in C
  <2>1. PICK v: v = Push(c.samples, rtt)
    OBVIOUS
  <2>2. v \in Seq(RoundTrips)
    BY <2>1 DEF Push, CandidatesOver
  <2>3. [c EXCEPT !.samples = v] \in C
    BY <2>2 DEF CandidatesOver
  <2> QED BY <2>1, <2>3
<1> HIDE DEF C, ping
<1>3. \A i \in 1..Len(cs): ping(cs[i]) \in C
  BY <1>1, <1>2
<1>4. ps \in Seq(C)
  <2>1. PICK n, q: n = Len(cs) /\ q = ps
    OBVIOUS
  <2>2. n \in Nat /\ DOMAIN cs = 1..n
    BY <1>1, <2>1
  <2>3. q \in [1..n -> C]
    BY <1>3, <2>1, <2>2
  <2> QED BY <2>1, <2>2, <2>3, SeqDef
<1>5. Pinged(sel, id, rtt) = [sel EXCEPT !.candidates = ps]
  BY DEF Pinged, ping
<1> HIDE DEF ps
<1> QED BY <1>4, <1>5 DEF SelectionsOver, C

\* closed moves the last candidate to the place of the one it removes.
LEMMA ClosedFacts ==
    ASSUME NEW paths, NEW sel \in SelectionsOver(paths), NEW id
    PROVE  Closed(sel, id) \in SelectionsOver(paths)
<1> DEFINE cs == sel.candidates
           C == CandidatesOver(paths)
           at == CHOOSE i \in DOMAIN cs: cs[i].id = id
           moved == [cs EXCEPT ![at] = Last(cs)]
<1>1. cs \in Seq(C)
  BY DEF SelectionsOver
<1>2. CASE ~Tracked(sel, id)
  BY <1>2 DEF Closed
<1>3. CASE Tracked(sel, id)
  <2> HIDE DEF C
  <2>1. Len(cs) \in Nat /\ Len(cs) > 0 /\ at \in 1..Len(cs)
    BY <1>1, <1>3 DEF Tracked
  <2>2. Last(cs) \in C
    BY <1>1, <2>1 DEF Last
  <2> HIDE DEF cs, at
  <2>3. moved \in Seq(C) /\ Len(moved) = Len(cs)
    BY <1>1, <2>1, <2>2
  <2> HIDE DEF moved
  <2>4. SubSeq(moved, 1, Len(moved) - 1) \in Seq(C)
    BY <2>1, <2>3
  <2>5. Front(moved) \in Seq(C)
    BY <2>4 DEF Front
  <2>6. Closed(sel, id) = [sel EXCEPT !.candidates = Front(moved)]
    BY <1>3 DEF Closed, moved, at, cs
  <2> QED BY <2>5, <2>6 DEF SelectionsOver, C
<1> QED BY <1>2, <1>3

\* The winner of a full attempt is direct, the winner of any other one of the
\* candidates.
LEMMA WinnerFacts ==
    ASSUME selection \in SelectionsOver(Paths), NEW sel \in SelectionsOver(Paths),
           sel.candidates # <<>>, Enabled => HasDirect(sel)
    PROVE  finish_target_selection(sel).path = IF Enabled THEN "Direct" ELSE "Relayed"
<1> DEFINE C == CandidatesOver(Paths)
<1>1. sel.candidates \in Seq(C)
  BY DEF SelectionsOver
<1>2. CASE Enabled
  <2> HIDE DEF C
  <2>1. Direct(sel) \in Seq({c \in C: c.path = "Direct"}) /\ Direct(sel) # <<>>
    BY <1>1, <1>2, DirectFacts DEF HasDirect
  <2>2. PICK S, s: S = {c \in C: c.path = "Direct"} /\ s = Direct(sel)
    OBVIOUS
  <2>3. MinBy(s) \in S
    BY <2>1, <2>2, MinByFacts
  <2> QED BY <1>2, <2>2, <2>3 DEF finish_target_selection, FinishDirect
<1>3. CASE ~Enabled
  <2>1. MinBy(sel.candidates) \in C
    <3> HIDE DEF C
    <3> QED BY <1>1, MinByFacts
  <2>2. MinBy(sel.candidates).path = "Relayed"
    BY <1>3, <2>1 DEF CandidatesOver, Paths
  <2> QED BY <1>3, <2>2 DEF finish_target_selection, Finish
<1> QED BY <1>2, <1>3

-----------------------------------------------------------------------------

\* The winner is chosen on the path the attempt is for.
WinnerOnPath ==
    stage \in {"converge", "authenticate", "streams", "ready"}
        => winner.path = IF Enabled THEN "Direct" ELSE "Relayed"

\* From authentication on, the winner is the only connection to the host.
OnlyWinner == stage \in {"authenticate", "streams", "ready"} => Known = {winner.id}

\* The enterprise relay is asked for admission in the full attempt, once, and
\* the fallback begins only after that.
AdmittedOnce ==
    Access = "enterprise"
        => /\ stage \in {"relay", "resolve"} => resolves = IF Enabled THEN 0 ELSE 1
           /\ stage \in {"select", "closing", "converge", "authenticate", "streams", "ready"}
                => resolves = 1

\* No answer of connect_configured_relay asks for the fallback.
RelayAnswers ==
    result \in {"none", "Ok", "RelayUnavailable", "SelectedConnectionLost", "RelayDidNotConverge"}

RouteInv ==
    /\ selection \in SelectionsOver(Paths) /\ made \in Nat
    /\ WinnerOnPath /\ OnlyWinner /\ AdmittedOnce

\* An attempt ends; the fallback starts over with a fresh endpoint.
LEMMA FailsWithKeeps ==
    ASSUME RouteInv, NEW error, FailsWith(error),
           FallsBack(error) /\ Access = "enterprise" => resolves = 1
    PROVE  RouteInv'
<1>1. CASE FallsBack(error)
  <2>1. /\ stage' = "relay" /\ attempt' = "relayOnly" /\ selection' = NewSelection /\ made' = 0
        /\ resolves' = resolves
    BY <1>1 DEF FailsWith
  <2>2. (selection \in SelectionsOver(Paths))'
    BY <2>1 DEF SelectionsOver, NewSelection
  <2> QED BY <1>1, <2>1, <2>2 DEF RouteInv, WinnerOnPath, OnlyWinner, AdmittedOnce, Enabled
<1>2. CASE ~FallsBack(error)
  <2>1. stage' = "failed" /\ attempt' = attempt /\ selection' = selection /\ made' = made
    BY <1>2 DEF FailsWith, netVars, selVars
  <2>2. (selection \in SelectionsOver(Paths))'
    BY <2>1 DEF RouteInv, Paths, Enabled
  <2> QED BY <2>1, <2>2 DEF RouteInv, WinnerOnPath, OnlyWinner, AdmittedOnce
<1> QED BY <1>1, <1>2

\* The selection ends: with a winner on the path of the attempt, or without one.
LEMMA LeavesKeeps ==
    ASSUME RouteInv, stage = "select", NEW sel \in SelectionsOver(Paths), NEW kept, NEW ask,
           Leaves(sel, kept, ask), selection' \in SelectionsOver(Paths), made' \in Nat
    PROVE  RouteInv'
<1>1. attempt' = attempt /\ resolves' = resolves
  BY DEF Leaves, Goes
<1>2. (selection \in SelectionsOver(Paths))'
  BY <1>1 DEF Paths, Enabled
<1>3. Access = "enterprise" => resolves = 1
  BY DEF RouteInv, AdmittedOnce
<1>4. CASE Enabled /\ ~HasDirect(sel)
  <2>1. stage' = "closing"
    BY <1>4 DEF Leaves
  <2> QED BY <1>1, <1>2, <1>3, <2>1 DEF RouteInv, WinnerOnPath, OnlyWinner, AdmittedOnce
<1>5. CASE ~(Enabled /\ ~HasDirect(sel)) /\ sel.candidates = <<>>
  <2>1. stage' = "failed"
    BY <1>5 DEF Leaves
  <2> QED BY <1>1, <1>2, <2>1 DEF RouteInv, WinnerOnPath, OnlyWinner, AdmittedOnce
<1>6. CASE ~(Enabled /\ ~HasDirect(sel)) /\ sel.candidates # <<>>
  <2> DEFINE w == finish_target_selection(sel)
  <2>1. stage' = "converge" /\ winner' = [id |-> w.id, path |-> w.path]
    BY <1>6 DEF Leaves, Goes
  <2>2. w.path = IF Enabled THEN "Direct" ELSE "Relayed"
    BY <1>6, WinnerFacts DEF RouteInv
  <2> HIDE DEF w
  <2>3. WinnerOnPath'
    BY <1>1, <2>1, <2>2 DEF WinnerOnPath, Enabled
  <2> QED BY <1>1, <1>2, <1>3, <2>1, <2>3 DEF RouteInv, OnlyWinner, AdmittedOnce
<1> QED BY <1>4, <1>5, <1>6

\* An event of the selection.
LEMMA AfterEventKeeps ==
    ASSUME RouteInv, stage = "select", NEW sel \in SelectionsOver(Paths), NEW known, NEW has,
           NEW kept, NEW ask, AfterEvent(sel, known, has, kept, ask), made' \in Nat
    PROVE  RouteInv'
<1>1. selection' = sel
  BY DEF AfterEvent
<1>2. CASE target_selection_is_settled(sel, known, elapsed, lateElapsed)
  <2>1. Leaves(sel, kept, ask)
    BY <1>2 DEF AfterEvent
  <2> QED BY <1>1, <2>1, LeavesKeeps
<1>3. CASE ~target_selection_is_settled(sel, known, elapsed, lateElapsed)
  <2>1. attempt' = attempt /\ stage' = stage /\ resolves' = resolves /\ winner' = winner
    BY <1>3 DEF AfterEvent, attemptVars
  <2>2. (selection \in SelectionsOver(Paths))'
    BY <1>1, <2>1 DEF Paths, Enabled
  <2> QED BY <2>1, <2>2 DEF RouteInv, WinnerOnPath, OnlyWinner, AdmittedOnce
<1> QED BY <1>2, <1>3

\* The events of connect_target_until, its time and its deadlines.
LEMMA SelectKeeps ==
    ASSUME RouteInv, Select
    PROVE  RouteInv'
<1>0. stage = "select" /\ made \in Nat /\ selection \in SelectionsOver(Paths)
  BY DEF RouteInv, Select, SelectEstablished, SelectPing, SelectClosed, SelectUpgrade, Tick,
         SelectTimeout
<1>1. CASE SelectEstablished
  <2>1. PICK path \in Paths, t \in Transports:
          LET c == [id |-> made + 1, path |-> path, transport |-> t]
              ok == Accepts(selection, c)
          IN /\ made' = made + 1
             /\ AfterEvent(Established(selection, c), outcome, candidate \/ ok,
                           book \cup {c}, IF ok THEN asked ELSE asked \cup {c.id})
    BY <1>1 DEF SelectEstablished
  <2> DEFINE c == [id |-> made + 1, path |-> path, transport |-> t]
  <2>2. c \in [id: Nat, path: Paths, transport: Transports] /\ made + 1 \in Nat
    BY <1>0
  <2> HIDE DEF c
  <2>3. Established(selection, c) \in SelectionsOver(Paths)
    BY <1>0, <2>2, EstablishedFacts
  <2>4. PICK sel, has, kept, ask: sel = Established(selection, c)
                                  /\ AfterEvent(sel, outcome, has, kept, ask) /\ made' = made + 1
    BY <2>1 DEF c
  <2> QED BY <1>0, <2>2, <2>3, <2>4, AfterEventKeeps
<1>2. CASE SelectPing
  <2>1. PICK c \in book, rtt \in RoundTrips:
          AfterEvent(Pinged(selection, c.id, rtt), outcome, candidate, book, asked)
    BY <1>2 DEF SelectPing
  <2>2. made' = made
    BY <1>2 DEF SelectPing
  <2>3. Pinged(selection, c.id, rtt) \in SelectionsOver(Paths)
    BY <1>0, PingedFacts
  <2> QED BY <1>0, <2>1, <2>2, <2>3, AfterEventKeeps
<1>3. CASE SelectClosed
  <2>1. PICK c \in book:
          AfterEvent(Closed(selection, c.id), outcome, candidate, book \ {c}, asked \ {c.id})
    BY <1>3 DEF SelectClosed
  <2>2. made' = made
    BY <1>3 DEF SelectClosed
  <2>3. Closed(selection, c.id) \in SelectionsOver(Paths)
    BY <1>0, ClosedFacts
  <2> QED BY <1>0, <2>1, <2>2, <2>3, AfterEventKeeps
<1>4. CASE SelectUpgrade
  <2>1. PICK known: AfterEvent(selection, known, candidate, book, asked)
    BY <1>4 DEF SelectUpgrade
  <2>2. made' = made
    BY <1>4 DEF SelectUpgrade
  <2> QED BY <1>0, <2>1, <2>2, AfterEventKeeps
<1>5. CASE Tick
  <2>1. /\ attempt' = attempt /\ stage' = stage /\ resolves' = resolves /\ made' = made
        /\ selection' = selection
    BY <1>5 DEF Tick, attemptVars, netVars
  <2>2. (selection \in SelectionsOver(Paths))'
    BY <1>0, <2>1 DEF Paths, Enabled
  <2> QED BY <1>0, <2>1, <2>2 DEF RouteInv, WinnerOnPath, OnlyWinner, AdmittedOnce
<1>6. CASE SelectTimeout
  <2>1. made' = made /\ selection' = selection
    BY <1>6 DEF SelectTimeout
  <2>2. CASE Leaves(selection, book, asked)
    BY <1>0, <2>1, <2>2, LeavesKeeps
  <2>3. CASE ~Leaves(selection, book, asked)
    <3>1. attempt' = attempt /\ resolves' = resolves /\ stage' \in {"select", "closing"}
      BY <1>0, <1>6, <2>3 DEF SelectTimeout, attemptVars
    <3>2. (selection \in SelectionsOver(Paths))'
      BY <1>0, <2>1, <3>1 DEF Paths, Enabled
    <3> QED BY <1>0, <2>1, <3>1, <3>2 DEF RouteInv, WinnerOnPath, OnlyWinner, AdmittedOnce
  <2> QED BY <2>2, <2>3
<1> QED BY <1>1, <1>2, <1>3, <1>4, <1>5, <1>6 DEF Select

\* A step that stays in the attempt and leaves the selection alone.
LEMMA GoesOn ==
    ASSUME RouteInv, attempt' = attempt, selection' = selection, made' \in Nat
    PROVE  (selection \in SelectionsOver(Paths))' /\ (Enabled <=> Enabled')
BY DEF RouteInv, Paths, Enabled

\* What happens between the relay connection and the terminal.
LEMMA TargetKeeps ==
    ASSUME RouteInv, TargetNext
    PROVE  RouteInv'
<1>0. made \in Nat /\ selection \in SelectionsOver(Paths)
  BY DEF RouteInv
<1>1. CASE Select
  BY <1>1, SelectKeeps
<1>2. CASE Resolve
  <2> DEFINE sends == Enabled \/ fallback_target = "Resolve"
  <2>1. CASE FailsWith(IF sends THEN "Resolve" ELSE "RelayAccessChanged")
    <3>1. PICK error \in {"Resolve", "RelayAccessChanged"}: FailsWith(error)
      BY <2>1
    <3>2. ~FallsBack(error)
      BY DEF FallsBack, direct_fallback_required
    <3> QED BY <3>1, <3>2, FailsWithKeeps
  <2>2. CASE ~FailsWith(IF sends THEN "Resolve" ELSE "RelayAccessChanged")
    <3>1. /\ stage = "resolve" /\ stage' = "select" /\ attempt' = attempt /\ selection' = selection
          /\ made' = made /\ resolves' = resolves + (IF sends THEN 1 ELSE 0)
      BY <1>2, <2>2 DEF Resolve, netVars, selVars
    <3>2. Access = "enterprise" => resolves' = 1
      <4> SUFFICES ASSUME Access = "enterprise" PROVE resolves' = 1
        OBVIOUS
      <4>1. resolves = (IF Enabled THEN 0 ELSE 1) /\ fallback_target # "Resolve"
        BY <3>1 DEF RouteInv, AdmittedOnce, fallback_target
      <4> QED BY <3>1, <4>1
    <3>3. (selection \in SelectionsOver(Paths))'
      BY <1>0, <3>1, GoesOn
    <3> QED BY <1>0, <3>1, <3>2, <3>3 DEF RouteInv, WinnerOnPath, OnlyWinner, AdmittedOnce
  <2> QED BY <2>1, <2>2
<1>3. CASE BookChanges
  <2>1. /\ attempt' = attempt /\ selection' = selection /\ stage' = stage /\ resolves' = resolves
        /\ winner' = winner /\ stage \in {"closing", "converge"}
    BY <1>3 DEF BookChanges, attemptVars, selVars
  <2>2. made' \in Nat
    BY <1>0, <1>3 DEF BookChanges
  <2>3. (selection \in SelectionsOver(Paths))' /\ (Enabled <=> Enabled')
    BY <2>1, <2>2, GoesOn
  <2>4. WinnerOnPath' /\ OnlyWinner' /\ AdmittedOnce'
    BY <2>1, <2>3 DEF RouteInv, WinnerOnPath, OnlyWinner, AdmittedOnce
  <2> QED BY <2>2, <2>3, <2>4 DEF RouteInv
<1>4. CASE CloseDone \/ CloseTimeout \/ ConvergeFails \/ Additional \/ BindingLost
  <2>1. PICK error: FailsWith(error)
    BY <1>4 DEF CloseDone, CloseTimeout, ConvergeFails, Additional, BindingLost
  <2>2. stage \in {"closing", "converge", "authenticate", "streams"}
    BY <1>4 DEF CloseDone, CloseTimeout, ConvergeFails, Additional, BindingLost
  <2>3. Access = "enterprise" => resolves = 1
    BY <2>2 DEF RouteInv, AdmittedOnce
  <2> QED BY <2>1, <2>3, FailsWithKeeps
<1>5. CASE Converged \/ Authenticates \/ OpensStreams
  <2>0. stage \in {"converge", "authenticate", "streams"}
    BY <1>5 DEF Converged, Authenticates, OpensStreams
  <2>1. CASE \E error: FailsWith(error)
    <3>1. Access = "enterprise" => resolves = 1
      BY <2>0 DEF RouteInv, AdmittedOnce
    <3> QED BY <2>1, <3>1, FailsWithKeeps
  <2>2. CASE ~\E error: FailsWith(error)
    <3>1. /\ attempt' = attempt /\ selection' = selection /\ made' = made /\ book' = book
          /\ resolves' = resolves /\ winner' = winner
          /\ stage' \in {"authenticate", "streams", "ready"}
          /\ stage = "converge" => Known = {winner.id}
      BY <1>5, <2>2 DEF Converged, Authenticates, OpensStreams, Goes, attemptVars, netVars, selVars
    <3>2. (selection \in SelectionsOver(Paths))' /\ (Enabled <=> Enabled')
      BY <1>0, <3>1, GoesOn
    <3>3. Known = {winner.id} /\ winner.path = (IF Enabled THEN "Direct" ELSE "Relayed")
          /\ (Access = "enterprise" => resolves = 1)
      BY <2>0, <3>1 DEF RouteInv, WinnerOnPath, OnlyWinner, AdmittedOnce
    <3>4. (Known = {winner.id})'
      BY <3>1, <3>3 DEF Known
    <3> QED BY <1>0, <3>1, <3>2, <3>3, <3>4 DEF RouteInv, WinnerOnPath, OnlyWinner, AdmittedOnce
  <2> QED BY <2>1, <2>2
<1> QED BY <1>1, <1>2, <1>3, <1>4, <1>5 DEF TargetNext

\* The answers of the calls.
LEMMA AnswersKept ==
    ASSUME RelayAnswers, Dial!DialNext
    PROVE  RelayAnswers'
<1> USE DEF RelayAnswers
<1>1. CASE result' = result
  BY <1>1
<1>2. CASE Dial!AttemptFails("RelayUnavailable")
  BY <1>2 DEF Dial!AttemptFails
<1>3. CASE Dial!Begins \/ Dial!Drained \/ Dial!DrainLoses \/ Dial!DrainTimeout
  BY <1>3 DEF Dial!Begins, Dial!Drained, Dial!DrainLoses, Dial!DrainTimeout, Dial!Returns
<1> QED BY <1>1, <1>2, <1>3
  DEF Dial!DialNext, Dial!Starts, Dial!GivesUp, Dial!DialSucceeds, Dial!DialFails, Dial!Pings,
      Dial!ConnectionCloses, Dial!Selects, Dial!AttemptTimeout, Dial!Redials, Dial!DrainDial,
      Dial!DrainCloses, Dial!Tick, Dial!AfterEvent, Dial!DrainsOn

\* Whatever the relay, the host and the network do, authentication runs over
\* the one connection left, direct on the full endpoint and relayed on the
\* fallback, after one admission by an enterprise relay (controller.rs,
\* network.rs).
THEOREM RouteOfAttempt == Spec => []RouteMatchesAttempt
<1> DEFINE Inv == RouteInv /\ RelayAnswers
<1>1. Init => Inv
  <2> SUFFICES ASSUME TargetInit, Dial!DialInit PROVE Inv
    BY DEF Init
  <2>1. selection = [candidates |-> <<>>, next |-> 0] /\ made = 0 /\ stage = "relay" /\ resolves = 0
        /\ attempt = "full"
    BY DEF TargetInit, Fresh, NewSelection
  <2>2. selection \in SelectionsOver(Paths)
    BY <2>1 DEF SelectionsOver
  <2> QED BY <2>1, <2>2 DEF RouteInv, WinnerOnPath, OnlyWinner, AdmittedOnce, Enabled, RelayAnswers,
             Dial!DialInit
<1>2. Inv /\ [Next]_<<caller, callVars>> => Inv'
  <2> SUFFICES ASSUME Inv, [Next]_<<caller, callVars>> PROVE Inv'
    OBVIOUS
  <2>1. ASSUME UNCHANGED vars PROVE RouteInv'
    <3>1. /\ attempt' = attempt /\ selection' = selection /\ made' = made /\ book' = book
          /\ resolves' = resolves /\ winner' = winner /\ stage' = stage
      BY <2>1 DEF vars, attemptVars, netVars, selVars
    <3>2. (selection \in SelectionsOver(Paths))' /\ (Enabled <=> Enabled')
      BY <3>1, GoesOn DEF RouteInv
    <3> QED BY <3>1, <3>2 DEF RouteInv, WinnerOnPath, OnlyWinner, AdmittedOnce, Known
  <2>2. CASE Dials
    BY <2>1, <2>2, AnswersKept DEF Dials
  <2>3. CASE ControllerConnects
    <3>1. ConnectRelay(result) /\ result' = "none"
      BY <2>3 DEF ControllerConnects, DialForgotten
    <3>2. CASE result = "Ok"
      <4>1. /\ attempt' = attempt /\ selection' = selection /\ made' = made /\ stage = "relay"
            /\ resolves' = resolves /\ stage' = "resolve"
        BY <3>1, <3>2 DEF ConnectRelay, Goes, netVars, selVars
      <4>2. (selection \in SelectionsOver(Paths))' /\ (Enabled <=> Enabled')
        BY <4>1, GoesOn DEF RouteInv
      <4> QED BY <3>1, <4>1, <4>2 DEF RouteInv, WinnerOnPath, OnlyWinner, AdmittedOnce, RelayAnswers
    <3>3. CASE result # "Ok"
      <4>1. FailsWith(result) /\ ~FallsBack(result)
        BY <3>1, <3>3 DEF ConnectRelay, FallsBack, direct_fallback_required, RelayAnswers
      <4>2. RouteInv'
        BY <4>1, FailsWithKeeps
      <4> QED BY <3>1, <4>2 DEF RelayAnswers
    <3> QED BY <3>2, <3>3
  <2>4. CASE Targets
    <3>1. result' = result
      BY <2>4 DEF Targets, dialVars
    <3> QED BY <2>4, <3>1, TargetKeeps DEF Targets, RelayAnswers
  <2>5. CASE UNCHANGED <<caller, callVars>>
    BY <2>1, <2>5 DEF callVars, dialVars, RelayAnswers
  <2> QED BY <2>2, <2>3, <2>4, <2>5 DEF Next
<1>3. Inv => RouteMatchesAttempt
  BY DEF RouteInv, WinnerOnPath, OnlyWinner, AdmittedOnce, RouteMatchesAttempt
<1> QED BY <1>1, <1>2, <1>3, PTL DEF Spec

-----------------------------------------------------------------------------
(* TransferUi *)

\* The way of the remote output, oldest first.
Way(o) == o.shown \o o.writing \o o.delayed \o o.recording

Rising(s) == \A i, j \in 1..Len(s): i < j => s[i] < s[j]

\* The display state is a record of numbered chunks.
OutputSet == [next: Nat \ {0}, recording: Seq(Nat), writing: Seq(Nat), delayed: Seq(Nat),
              overflow: BOOLEAN, lost: SUBSET Nat, shown: Seq(Nat)]

OutputType == output \in OutputSet

FlowType ==
    /\ flow = [open |-> flow.open, field |-> flow.field, line |-> flow.line]
    /\ flow.open \in BOOLEAN

\* The numbered chunks are on their way in order, and the ones on no part of it
\* were refused.
Ordered(o) ==
    /\ Rising(Way(o))
    /\ ToSet(Way(o)) \cup o.lost = 1..(o.next - 1)
    /\ ToSet(Way(o)) \cap o.lost = {}

\* One chunk at a time is recorded or written, and never one of each.
OneInFlight(o) ==
    /\ Len(o.recording) <= 1 /\ Len(o.writing) <= 1
    /\ o.recording # <<>> => o.writing = <<>>

\* Only an open prompt holds chunks back, and a transfer has no prompt.
HeldByPrompt ==
    /\ output.delayed # <<>> => flow.open
    /\ transfer \/ finished => ~flow.open

UiInv == OutputType /\ FlowType /\ Ordered(output) /\ OneInFlight(output) /\ HeldByPrompt

\* Putting the next number at the end of a rising sequence keeps it rising.
LEMMA RisingAppend ==
    ASSUME NEW s \in Seq(Nat), NEW n \in Nat, Rising(s), \A x \in ToSet(s): x < n
    PROVE  /\ Append(s, n) \in Seq(Nat)
           /\ Rising(Append(s, n))
           /\ ToSet(Append(s, n)) = ToSet(s) \cup {n}
<1>1. Append(s, n) \in Seq(Nat) /\ Len(Append(s, n)) = Len(s) + 1
      /\ DOMAIN s = 1..Len(s) /\ DOMAIN Append(s, n) = 1..(Len(s) + 1) /\ Len(s) \in Nat
  OBVIOUS
<1>2. \A i \in 1..Len(s): Append(s, n)[i] = s[i] /\ s[i] \in ToSet(s) /\ s[i] \in Nat
  BY <1>1 DEF ToSet
<1>3. Append(s, n)[Len(s) + 1] = n
  OBVIOUS
<1>4. Rising(Append(s, n))
  <2> SUFFICES ASSUME NEW i \in 1..(Len(s) + 1), NEW j \in 1..(Len(s) + 1), i < j
              PROVE  Append(s, n)[i] < Append(s, n)[j]
    BY <1>1 DEF Rising
  <2>1. CASE j = Len(s) + 1
    BY <2>1, <1>1, <1>2, <1>3
  <2>2. CASE j # Len(s) + 1
    <3>1. i \in 1..Len(s) /\ j \in 1..Len(s)
      BY <2>2, <1>1
    <3> QED BY <3>1, <1>2 DEF Rising
  <2> QED BY <2>1, <2>2
<1>5. ToSet(Append(s, n)) = ToSet(s) \cup {n}
  <2>1. ASSUME NEW x \in ToSet(Append(s, n)) PROVE x \in ToSet(s) \cup {n}
    <3>1. PICK i \in 1..(Len(s) + 1): x = Append(s, n)[i]
      BY <1>1, <2>1 DEF ToSet
    <3>2. CASE i = Len(s) + 1
      BY <3>1, <3>2, <1>3
    <3>3. CASE i # Len(s) + 1
      BY <3>1, <3>3, <1>1, <1>2
    <3> QED BY <3>2, <3>3
  <2>2. ASSUME NEW x \in ToSet(s) PROVE x \in ToSet(Append(s, n))
    <3>1. PICK i \in 1..Len(s): x = s[i]
      BY <1>1 DEF ToSet
    <3>2. i \in DOMAIN Append(s, n) /\ Append(s, n)[i] = x
      BY <3>1, <1>1, <1>2
    <3> QED BY <3>2 DEF ToSet
  <2>3. n \in ToSet(Append(s, n))
    <3>1. Len(s) + 1 \in DOMAIN Append(s, n)
      BY <1>1
    <3> QED BY <3>1, <1>3 DEF ToSet
  <2> QED BY <2>1, <2>2, <2>3
<1> QED BY <1>1, <1>4, <1>5

\* Taking the last number of a rising sequence away leaves a rising sequence
\* without it.
LEMMA RisingFront ==
    ASSUME NEW s \in Seq(Nat), NEW n \in Nat, Rising(Append(s, n))
    PROVE  Rising(s) /\ ToSet(Append(s, n)) = ToSet(s) \cup {n} /\ n \notin ToSet(s)
<1>1. Len(Append(s, n)) = Len(s) + 1 /\ DOMAIN s = 1..Len(s) /\ Len(s) \in Nat
      /\ Append(s, n)[Len(s) + 1] = n
  OBVIOUS
<1>2. \A i \in 1..Len(s): Append(s, n)[i] = s[i] /\ s[i] \in Nat
  BY <1>1
<1>3. \A i \in 1..Len(s): s[i] < n
  <2> TAKE i \in 1..Len(s)
  <2>1. i \in 1..(Len(s) + 1) /\ Len(s) + 1 \in 1..(Len(s) + 1) /\ i < Len(s) + 1
    BY <1>1
  <2> QED BY <2>1, <1>1, <1>2 DEF Rising
<1>4. Rising(s)
  <2> SUFFICES ASSUME NEW i \in 1..Len(s), NEW j \in 1..Len(s), i < j PROVE s[i] < s[j]
    BY DEF Rising
  <2>1. i \in 1..(Len(s) + 1) /\ j \in 1..(Len(s) + 1)
    BY <1>1
  <2> QED BY <2>1, <1>1, <1>2 DEF Rising
<1>5. \A x \in ToSet(s): x < n /\ x \in Nat
  BY <1>1, <1>2, <1>3 DEF ToSet
<1>6. n \notin ToSet(s)
  BY <1>5
<1> QED BY <1>4, <1>5, <1>6, RisingAppend

\* An element appended to the second of two sequences ends their concatenation.
LEMMA ConcatAppend ==
    ASSUME NEW a \in Seq(Nat), NEW d \in Seq(Nat), NEW n \in Nat
    PROVE  a \o Append(d, n) = Append(a \o d, n)
OBVIOUS

USE DEF OutputSet

\* The parts of the way put together in two other groupings.
LEMMA WayFacts ==
    ASSUME NEW o \in OutputSet
    PROVE  /\ Way(o) \in Seq(Nat)
           /\ o.recording = <<>> => Way(o) = o.shown \o o.writing \o o.delayed
           /\ o.recording = <<>> /\ o.writing = <<>> => Way(o) = o.shown \o o.delayed
           /\ o.recording = <<>> /\ o.writing = <<>> /\ o.delayed = <<>> => Way(o) = o.shown
<1> DEFINE s == o.shown  w == o.writing  d == o.delayed  r == o.recording
<1>1. s \in Seq(Nat) /\ w \in Seq(Nat) /\ d \in Seq(Nat) /\ r \in Seq(Nat)
  OBVIOUS
<1> HIDE DEF s, w, d, r
<1>2. s \o w \in Seq(Nat) /\ s \o w \o d \in Seq(Nat) /\ s \o w \o d \o r \in Seq(Nat)
  BY <1>1, ConcatProperties
<1>3. /\ s \o w \o d \o <<>> = s \o w \o d
      /\ s \o <<>> = s /\ d \o <<>> = d
  BY <1>1, <1>2, ConcatEmptySeq
<1> QED BY <1>2, <1>3 DEF Way, s, w, d, r

\* ShowOrDelay puts a chunk at the end of the way, or refuses it.
LEMMA ShowOrDelayFacts ==
    ASSUME NEW o \in OutputSet, NEW n \in Nat, o.recording = <<>>, o.writing = <<>>,
           o.delayed # <<>> => flow.open
    PROVE  LET p == ShowOrDelay(o, n) IN
           /\ p \in OutputSet /\ OneInFlight(p) /\ p.next = o.next
           /\ p.delayed # <<>> => flow.open
           /\ \/ Way(p) = Append(Way(o), n) /\ p.lost = o.lost
              \/ Way(p) = Way(o) /\ p.lost = o.lost \cup {n}
<1> DEFINE p == ShowOrDelay(o, n)
<1>1. /\ o.shown \in Seq(Nat) /\ o.delayed \in Seq(Nat)
      /\ <<n>> \in Seq(Nat) /\ Append(o.delayed, n) \in Seq(Nat)
  OBVIOUS
<1>2. Way(o) = o.shown \o o.delayed
  BY WayFacts
<1>3. CASE ~flow.open
  <2>1. p = [o EXCEPT !.writing = <<n>>] /\ o.delayed = <<>>
    BY <1>3 DEF ShowOrDelay
  <2>2. p \in OutputSet /\ p.shown = o.shown /\ p.writing = <<n>> /\ p.delayed = <<>>
        /\ p.recording = <<>> /\ p.next = o.next /\ p.lost = o.lost
    BY <1>1, <2>1
  <2>3. Way(p) = o.shown \o <<n>> \o <<>>
    BY <2>2, WayFacts
  <2>4. o.shown \o <<n>> = Append(o.shown, n) /\ Way(o) = o.shown
    BY <1>1, <1>2, <2>1, WayFacts
  <2>5. o.shown \o <<n>> \o <<>> = o.shown \o <<n>>
    BY <1>1, <2>4, ConcatEmptySeq
  <2>6. Len(<<n>>) = 1 /\ Len(<<>>) = 0
    OBVIOUS
  <2> QED BY <2>2, <2>3, <2>4, <2>5, <2>6 DEF OneInFlight
<1>4. CASE flow.open /\ Len(o.delayed) < DelayedCap
  <2>1. p = [o EXCEPT !.delayed = Append(o.delayed, n)]
    BY <1>4 DEF ShowOrDelay, Delay
  <2>2. p \in OutputSet /\ p.shown = o.shown /\ p.writing = <<>>
        /\ p.delayed = Append(o.delayed, n) /\ p.recording = <<>> /\ p.next = o.next /\ p.lost = o.lost
    BY <2>1, <1>1
  <2>3. Way(p) = o.shown \o Append(o.delayed, n)
    BY <2>2, WayFacts
  <2>4. o.shown \o Append(o.delayed, n) = Append(o.shown \o o.delayed, n)
    BY <1>1, ConcatAppend
  <2>6. Len(<<>>) = 0
    OBVIOUS
  <2> QED BY <1>2, <1>4, <2>2, <2>3, <2>4, <2>6 DEF OneInFlight
<1>5. CASE flow.open /\ ~(Len(o.delayed) < DelayedCap)
  <2>1. p = [o EXCEPT !.overflow = TRUE, !.lost = o.lost \cup {n}]
    BY <1>5 DEF ShowOrDelay, Delay
  <2>2. p \in OutputSet /\ p.shown = o.shown /\ p.writing = <<>>
        /\ p.delayed = o.delayed /\ p.recording = <<>> /\ p.next = o.next /\ p.lost = o.lost \cup {n}
    <3>1. PICK l: l = o.lost \cup {n}
      OBVIOUS
    <3>2. l \in SUBSET Nat /\ p = [o EXCEPT !.overflow = TRUE, !.lost = l]
      BY <2>1, <3>1
    <3> HIDE DEF p
    <3>3. p \in OutputSet
      BY <3>2
    <3>4. /\ p.shown = o.shown /\ p.writing = o.writing /\ p.delayed = o.delayed
          /\ p.recording = o.recording /\ p.next = o.next /\ p.lost = l
      BY <3>2
    <3> QED BY <3>1, <3>3, <3>4
  <2>3. Way(p) = Way(o)
    BY <2>2 DEF Way
  <2>6. Len(<<>>) = 0
    OBVIOUS
  <2> HIDE DEF p
  <2>7. OneInFlight(p)
    BY <2>2, <2>6 DEF OneInFlight
  <2> QED BY <1>5, <2>2, <2>3, <2>7 DEF p
<1> QED BY <1>3, <1>4, <1>5

\* flush_delayed_output leaves the order alone when nothing is being written.
LEMMA FlushFacts ==
    ASSUME NEW o \in OutputSet, o.recording = <<>>, o.writing = <<>>
    PROVE  LET p == flush_delayed_output(o) IN
           /\ p \in OutputSet /\ Way(p) = Way(o)
           /\ p.next = o.next /\ p.lost = o.lost /\ p.delayed = <<>>
           /\ p.recording = <<>> /\ p.writing = <<>>
<1> DEFINE p == flush_delayed_output(o)
<1>1. o.shown \in Seq(Nat) /\ o.delayed \in Seq(Nat) /\ o.shown \o o.delayed \in Seq(Nat)
  BY ConcatProperties
<1>2. p = [o EXCEPT !.shown = o.shown \o o.delayed, !.delayed = <<>>]
  BY DEF flush_delayed_output
<1>3. p \in OutputSet /\ p.shown = o.shown \o o.delayed /\ p.delayed = <<>>
      /\ p.recording = <<>> /\ p.writing = <<>> /\ p.next = o.next /\ p.lost = o.lost
  BY <1>1, <1>2
<1> QED BY <1>3, WayFacts

\* A state with the same way, numbers and losses is ordered as before.
LEMMA OrderedSame ==
    ASSUME NEW o, NEW p, Ordered(o), Way(p) = Way(o), p.next = o.next, p.lost = o.lost
    PROVE  Ordered(p)
BY DEF Ordered

\* Clearing the overflow flag leaves the display alone.
LEMMA OverflowClear ==
    ASSUME NEW o \in OutputSet
    PROVE  LET p == [o EXCEPT !.overflow = FALSE] IN
           /\ p \in OutputSet /\ Way(p) = Way(o) /\ p.next = o.next /\ p.lost = o.lost
           /\ p.delayed = o.delayed /\ p.recording = o.recording /\ p.writing = o.writing
BY DEF Way

-----------------------------------------------------------------------------

\* The next chunk goes to the end of the way, or is refused.
LEMMA OrderedNext ==
    ASSUME NEW o \in OutputSet, NEW p \in OutputSet, Ordered(o), p.next = o.next + 1,
           \/ Way(p) = Append(Way(o), o.next) /\ p.lost = o.lost
           \/ Way(p) = Way(o) /\ p.lost = o.lost \cup {o.next}
    PROVE  Ordered(p)
<1>1. Way(o) \in Seq(Nat) /\ o.next \in Nat /\ o.next # 0
  BY WayFacts
<1>2. /\ Rising(Way(o)) /\ ToSet(Way(o)) \cup o.lost = 1..(o.next - 1)
      /\ ToSet(Way(o)) \cap o.lost = {}
  BY DEF Ordered
<1> HIDE DEF OutputSet
<1>3. (1..(o.next - 1)) \cup {o.next} = 1..(p.next - 1)
  <2>1. \A n \in Nat \ {0}: (1..(n - 1)) \cup {n} = 1..((n + 1) - 1)
    OBVIOUS
  <2> QED BY <1>1, <2>1
<1>4. o.next \notin ToSet(Way(o)) /\ o.next \notin o.lost /\ \A x \in ToSet(Way(o)): x < o.next
  <2>1. PICK n, t, l: n = o.next /\ t = ToSet(Way(o)) /\ l = o.lost
    OBVIOUS
  <2>2. n \in Nat /\ \A x \in t \cup l: x \in 1..(n - 1)
    BY <1>1, <1>2, <2>1
  <2>3. n \notin t \cup l /\ \A x \in t: x < n
    BY <2>2
  <2> QED BY <2>1, <2>3
<1>5. CASE Way(p) = Append(Way(o), o.next) /\ p.lost = o.lost
  <2>0. PICK w, n: w = Way(o) /\ n = o.next
    OBVIOUS
  <2>1. Rising(Append(w, n)) /\ ToSet(Append(w, n)) = ToSet(w) \cup {n}
    BY <1>1, <1>2, <1>4, <2>0, RisingAppend
  <2>2. Rising(Way(p)) /\ ToSet(Way(p)) = ToSet(Way(o)) \cup {o.next}
    BY <1>5, <2>0, <2>1
  <2> QED BY <1>2, <1>3, <1>4, <1>5, <2>2, Zenon DEF Ordered
<1>6. CASE Way(p) = Way(o) /\ p.lost = o.lost \cup {o.next}
  <2>1. PICK t, l, n: t = ToSet(Way(o)) /\ l = o.lost /\ n = o.next
    OBVIOUS
  <2>2. t \cup (l \cup {n}) = (t \cup l) \cup {n}
    BY Zenon
  <2>3. t \cap (l \cup {n}) = {}
    BY <1>2, <1>4, <2>1
  <2>4. ToSet(Way(p)) \cup p.lost = 1..(p.next - 1) /\ ToSet(Way(p)) \cap p.lost = {}
    BY <1>2, <1>3, <1>6, <2>1, <2>2, <2>3, Zenon
  <2> QED BY <1>2, <1>6, <2>4 DEF Ordered
<1> QED BY <1>5, <1>6

\* The last chunk of the way, taken off it, goes to its end again or is refused.
LEMMA OrderedAgain ==
    ASSUME NEW o \in OutputSet, NEW b \in OutputSet, NEW p \in OutputSet, NEW n \in Nat,
           Ordered(o), Way(o) = Append(Way(b), n), b.lost = o.lost, p.next = o.next,
           \/ Way(p) = Append(Way(b), n) /\ p.lost = b.lost
           \/ Way(p) = Way(b) /\ p.lost = b.lost \cup {n}
    PROVE  Ordered(p)
<1>1. Way(b) \in Seq(Nat)
  BY WayFacts
<1>2. /\ Rising(Way(o)) /\ ToSet(Way(o)) \cup o.lost = 1..(o.next - 1)
      /\ ToSet(Way(o)) \cap o.lost = {}
  BY DEF Ordered
<1>3. CASE Way(p) = Append(Way(b), n) /\ p.lost = b.lost
  BY <1>3, OrderedSame
<1>4. CASE Way(p) = Way(b) /\ p.lost = b.lost \cup {n}
  <2> HIDE DEF OutputSet
  <2>1. PICK w: w = Way(b)
    OBVIOUS
  <2>2. Rising(w) /\ ToSet(Append(w, n)) = ToSet(w) \cup {n} /\ n \notin ToSet(w)
    BY <1>1, <1>2, <2>1, RisingFront
  <2>3. PICK t, l: t = ToSet(w) /\ l = b.lost
    OBVIOUS
  <2>4. ToSet(Way(o)) = t \cup {n} /\ o.lost = l /\ n \notin t
    BY <2>1, <2>2, <2>3
  <2>5. t \cup (l \cup {n}) = (t \cup {n}) \cup l
    BY Zenon
  <2>6. t \cap (l \cup {n}) = {}
    BY <1>2, <2>4, Zenon
  <2>7. ToSet(Way(p)) = t /\ p.lost = l \cup {n} /\ Rising(Way(p))
    BY <1>4, <2>1, <2>2, <2>3
  <2> QED BY <1>2, <2>4, <2>5, <2>6, <2>7, Zenon DEF Ordered
<1> QED BY <1>3, <1>4

\* PathPromptFlow::advance keeps the prompt open until it is complete.
LEMMA FedFacts ==
    ASSUME FlowType
    PROVE  /\ Fed = [open |-> Fed.open, field |-> Fed.field, line |-> Fed.line]
           /\ Fed.open \in BOOLEAN
           /\ Fed.open <=> flow.open /\ ~Completed
<1>1. CASE ~flow.open
  BY <1>1 DEF Fed, NoFlow
<1>2. CASE flow.open /\ Completed
  BY <1>2 DEF Fed, Advanced, Completed, NoFlow
<1>3. CASE flow.open /\ ~Completed
  <2> DEFINE fed == feed(flow, pending.path)
  <2>1. Fed = [flow EXCEPT !.field = IF fed.result = "Submitted" THEN 1 ELSE @, !.line = fed.line]
    BY <1>3 DEF Fed, Advanced, Completed
  <2>2. PICK x: x = IF fed.result = "Submitted" THEN 1 ELSE flow.field
    OBVIOUS
  <2>3. PICK y: y = fed.line
    OBVIOUS
  <2>4. Fed = [flow EXCEPT !.field = x, !.line = y]
    BY <2>1, <2>2, <2>3
  <2>5. flow = [open |-> flow.open, field |-> flow.field, line |-> flow.line]
    BY DEF FlowType
  <2>6. Fed = [open |-> flow.open, field |-> x, line |-> y]
    BY <2>4, <2>5
  <2> QED BY <1>3, <2>6 DEF FlowType
<1> QED BY <1>1, <1>2, <1>3 DEF FlowType

\* Flushed keeps the way.
LEMMA FlushedFacts ==
    ASSUME output \in OutputSet, Idle
    PROVE  /\ Flushed \in OutputSet /\ Way(Flushed) = Way(output)
           /\ Flushed.next = output.next /\ Flushed.lost = output.lost
           /\ Flushed.recording = <<>> /\ Flushed.writing = <<>>
           /\ Flushed.delayed = IF Completed THEN <<>> ELSE output.delayed
BY FlushFacts DEF Flushed, Idle

\* An open prompt, or none, with a display that is as ordered as before.
LEMMA UiKept ==
    ASSUME UiInv, NEW p \in OutputSet, output' = p, Way(p) = Way(output), p.next = output.next,
           p.lost = output.lost, OneInFlight(p), FlowType', HeldByPrompt'
    PROVE  UiInv'
<1>1. Ordered(p)
  BY OrderedSame DEF UiInv
<1>2. Ordered(output)' /\ OneInFlight(output)'
  BY <1>1
<1> QED BY <1>2 DEF UiInv, OutputType

\* The steps that leave the display and the prompt alone: reads of the local
\* input, the ends of a transfer and of other steps.
LEMMA UiQuiet ==
    ASSUME UiInv, output' = output, flow' = flow, transfer' \/ finished' => transfer \/ finished
    PROVE  UiInv'
<1>1. Ordered(output)' /\ OneInFlight(output)'
  BY DEF UiInv
<1> QED BY <1>1 DEF UiInv, OutputType, FlowType, HeldByPrompt

\* Remote output is read, recorded, shown or delayed, and written.
LEMMA UiOutput ==
    ASSUME UiInv, RemoteOutputRead \/ RemoteOutputProcessed \/ RemoteOutputWritten
    PROVE  UiInv'
<1>1. output \in OutputSet /\ Ordered(output) /\ OneInFlight(output)
  BY DEF UiInv, OutputType
<1>2. flow' = flow /\ transfer' = transfer /\ finished' = finished
  BY DEF RemoteOutputRead, RemoteOutputProcessed, RemoteOutputWritten, uiVars, pumpVars
<1>3. FlowType' /\ (output'.delayed # <<>> => flow.open) => FlowType' /\ HeldByPrompt'
  BY <1>2 DEF UiInv, HeldByPrompt
<1>4. FlowType'
  BY <1>2 DEF UiInv, FlowType
<1>5. (output.delayed # <<>> => flow.open)
  BY DEF UiInv, HeldByPrompt
<1>6. ASSUME output' \in OutputSet, Ordered(output'), OneInFlight(output'),
             output'.delayed # <<>> => flow.open
      PROVE  UiInv'
  <2>1. Ordered(output)' /\ OneInFlight(output)'
    BY <1>6
  <2> QED BY <2>1, <1>3, <1>4, <1>6 DEF UiInv, OutputType
<1>7. CASE RemoteOutputRead
  <2> DEFINE n == output.next
             b == [output EXCEPT !.next = n + 1]
             a == [b EXCEPT !.recording = <<n>>]
  <2>1. output.recording = <<>> /\ output.writing = <<>>
        /\ output' = IF Audited THEN a ELSE ShowOrDelay(b, n)
    BY <1>7 DEF RemoteOutputRead
  <2>2. n \in Nat /\ <<n>> \in Seq(Nat) /\ n + 1 \in Nat \ {0}
    BY <1>1
  <2>3. b \in OutputSet /\ b.next = n + 1 /\ b.lost = output.lost /\ b.recording = <<>>
        /\ b.writing = <<>> /\ b.delayed = output.delayed /\ Way(b) = Way(output)
    BY <1>1, <2>1, <2>2 DEF Way
  <2>4. CASE Audited
    <3>1. /\ a \in OutputSet /\ a.next = n + 1 /\ a.lost = output.lost /\ a.recording = <<n>>
          /\ a.writing = <<>> /\ a.delayed = output.delayed /\ a.shown = output.shown
      BY <1>1, <2>1, <2>2
    <3>2. PICK s: s = output.shown \o output.writing \o output.delayed
      OBVIOUS
    <3>3. Way(output) = s /\ Way(a) = s \o <<n>> /\ s \in Seq(Nat)
      BY <1>1, <2>1, <3>1, <3>2, WayFacts DEF Way
    <3>4. Way(a) = Append(Way(output), n)
      BY <2>2, <3>3, AppendIsConcat
    <3> HIDE DEF a
    <3>5. Ordered(a)
      BY <1>1, <3>1, <3>4, OrderedNext
    <3>6. Len(<<n>>) = 1 /\ Len(<<>>) = 0
      OBVIOUS
    <3>7. OneInFlight(a)
      BY <3>1, <3>6 DEF OneInFlight
    <3> QED BY <1>5, <1>6, <2>1, <2>4, <3>1, <3>5, <3>7
  <2>5. CASE ~Audited
    <3> DEFINE p == ShowOrDelay(b, n)
    <3> HIDE DEF b
    <3>1. /\ p \in OutputSet /\ OneInFlight(p) /\ p.next = b.next
          /\ p.delayed # <<>> => flow.open
          /\ \/ Way(p) = Append(Way(b), n) /\ p.lost = b.lost
             \/ Way(p) = Way(b) /\ p.lost = b.lost \cup {n}
      BY <1>5, <2>2, <2>3, ShowOrDelayFacts
    <3> HIDE DEF p
    <3>2. Ordered(p)
      BY <1>1, <2>3, <3>1, OrderedNext
    <3> QED BY <1>6, <2>1, <2>5, <3>1, <3>2 DEF p
  <2> QED BY <2>4, <2>5
<1>8. CASE RemoteOutputProcessed
  <2> DEFINE n == output.recording[1]
             b == [output EXCEPT !.recording = <<>>]
             p == ShowOrDelay(b, n)
  <2>1. output.recording # <<>> /\ output' = p
    BY <1>8 DEF RemoteOutputProcessed
  <2>2. output.writing = <<>> /\ output.recording \in Seq(Nat) /\ Len(output.recording) <= 1
    BY <1>1, <2>1 DEF OneInFlight
  <2>3. n \in Nat /\ output.recording = <<n>>
    BY <2>1, <2>2
  <2>4. b \in OutputSet /\ b.next = output.next /\ b.lost = output.lost /\ b.recording = <<>>
        /\ b.writing = <<>> /\ b.delayed = output.delayed /\ b.shown = output.shown
    BY <1>1, <2>2
  <2> HIDE DEF b, n
  <2>5. PICK s: s = output.shown \o output.writing \o output.delayed
    OBVIOUS
  <2>6. Way(b) = s /\ Way(output) = s \o <<n>> /\ s \in Seq(Nat)
    BY <2>2, <2>3, <2>4, <2>5, WayFacts DEF Way
  <2>7. Way(output) = Append(Way(b), n)
    BY <2>3, <2>6, AppendIsConcat
  <2>8. /\ p \in OutputSet /\ OneInFlight(p) /\ p.next = b.next
        /\ p.delayed # <<>> => flow.open
        /\ \/ Way(p) = Append(Way(b), n) /\ p.lost = b.lost
           \/ Way(p) = Way(b) /\ p.lost = b.lost \cup {n}
    BY <1>5, <2>3, <2>4, ShowOrDelayFacts
  <2> HIDE DEF p
  <2>9. Ordered(p)
    BY <1>1, <2>3, <2>4, <2>7, <2>8, OrderedAgain
  <2> QED BY <1>6, <2>1, <2>8, <2>9
<1>9. CASE RemoteOutputWritten
  <2> DEFINE p == [output EXCEPT !.shown = output.shown \o output.writing, !.writing = <<>>]
  <2>1. output' = p /\ output.writing # <<>>
    BY <1>9 DEF RemoteOutputWritten
  <2>2. output.shown \in Seq(Nat) /\ output.writing \in Seq(Nat)
        /\ output.shown \o output.writing \in Seq(Nat)
    BY <1>1, ConcatProperties
  <2>3. p \in OutputSet /\ p.next = output.next /\ p.lost = output.lost
        /\ p.recording = output.recording /\ p.writing = <<>> /\ p.delayed = output.delayed
        /\ p.shown = output.shown \o output.writing
    <3>1. PICK u: u = output.shown \o output.writing
      OBVIOUS
    <3>2. p = [output EXCEPT !.shown = u, !.writing = <<>>] /\ u \in Seq(Nat)
      BY <2>2, <3>1
    <3> HIDE DEF p
    <3>3. p \in OutputSet
      <4>1. PICK o, e: o = output /\ e = <<>>
        OBVIOUS
      <4>2. o \in OutputSet /\ u \in Seq(Nat) /\ e \in Seq(Nat)
        BY <1>1, <3>2, <4>1
      <4>3. [o EXCEPT !.shown = u, !.writing = e] \in OutputSet
        BY <4>2
      <4> QED BY <3>2, <4>1, <4>3, Zenon
    <3>4. p.next = output.next /\ p.lost = output.lost /\ p.recording = output.recording
          /\ p.writing = <<>> /\ p.delayed = output.delayed /\ p.shown = u
      BY <1>1, <3>2
    <3> QED BY <3>1, <3>3, <3>4
  <2>4. p.shown \o p.writing = output.shown \o output.writing
    BY <2>2, <2>3, ConcatEmptySeq
  <2>5. Way(p) = Way(output)
    BY <2>3, <2>4 DEF Way
  <2> HIDE DEF p
  <2>6. Ordered(p)
    BY <1>1, <2>3, <2>5, OrderedSame
  <2>7. OneInFlight(p)
    <3>1. Len(<<>>) = 0
      OBVIOUS
    <3> QED BY <1>1, <2>3, <3>1 DEF OneInFlight
  <2> QED BY <1>5, <1>6, <2>1, <2>3, <2>6, <2>7
<1> QED BY <1>7, <1>8, <1>9

\* What the top of the loop does to the prompt and the display: a transfer
\* found no prompt, and a prompt that ends flushes what it held back.
LEMMA UiHandled ==
    ASSUME UiInv,
           \/ HandleTransfer \/ HandleEof \/ HandleDetach \/ HandleCancel
           \/ HandleStart \/ HandleRun \/ HandleRest \/ HandleOverflow
    PROVE  UiInv'
<1>1. output \in OutputSet /\ FlowType /\ HeldByPrompt
  BY DEF UiInv, OutputType
<1>2. Idle /\ output.recording = <<>> /\ output.writing = <<>>
  BY DEF HandleTransfer, HandleEof, HandleDetach, HandleCancel, HandleStart, HandleRun,
         HandleRest, HandleOverflow, HandleInputDue, Idle
<1>3. NoFlow = [open |-> FALSE, field |-> 0, line |-> 0]
  BY DEF NoFlow
<1>4. ASSUME NEW p \in OutputSet, p.recording = <<>>, p.writing = <<>> PROVE OneInFlight(p)
  <2>1. Len(<<>>) = 0
    OBVIOUS
  <2> QED BY <2>1, <1>4 DEF OneInFlight
<1> DEFINE Plain(p) ==
      /\ p \in OutputSet /\ Way(p) = Way(output) /\ p.next = output.next /\ p.lost = output.lost
      /\ p.recording = <<>> /\ p.writing = <<>>
<1>5. ASSUME NEW p, Plain(p), output' = p, FlowType', HeldByPrompt' PROVE UiInv'
  BY <1>4, <1>5, UiKept
<1>6. Plain(output)
  BY <1>1, <1>2
<1>7. ASSUME NEW p, Plain(p)
      PROVE  /\ Plain([p EXCEPT !.overflow = FALSE])
             /\ [p EXCEPT !.overflow = FALSE].delayed = p.delayed
             /\ Plain(flush_delayed_output(p)) /\ flush_delayed_output(p).delayed = <<>>
  BY <1>7, OverflowClear, FlushFacts
<1>8. Plain(Flushed) /\ Flushed.delayed = IF Completed THEN <<>> ELSE output.delayed
  BY <1>1, <1>2, FlushedFacts
<1>9. /\ Fed = [open |-> Fed.open, field |-> Fed.field, line |-> Fed.line]
      /\ Fed.open \in BOOLEAN
      /\ Fed.open <=> flow.open /\ ~Completed
  BY <1>1, FedFacts
<1>10. ASSUME NEW f, flow' = f, f = [open |-> f.open, field |-> f.field, line |-> f.line],
              f.open \in BOOLEAN
       PROVE  FlowType'
  BY <1>10 DEF FlowType
<1> HIDE DEF Plain
<1>11. CASE HandleTransfer
  <2>1. finished /\ flow' = NoFlow /\ output' = [output EXCEPT !.overflow = FALSE]
    BY <1>11 DEF HandleTransfer
  <2>2. output.delayed = <<>>
    BY <1>1, <2>1 DEF HeldByPrompt
  <2>3. HeldByPrompt'
    <3>1. output'.delayed = <<>> /\ ~flow'.open
      BY <1>3, <1>6, <1>7, <2>1, <2>2
    <3> QED BY <3>1 DEF HeldByPrompt
  <2>4. FlowType'
    BY <1>3, <2>1 DEF FlowType
  <2> QED BY <1>5, <1>6, <1>7, <2>1, <2>3, <2>4
<1>12. CASE HandleEof
  <2> DEFINE p == IF flow.open THEN flush_delayed_output([output EXCEPT !.overflow = FALSE])
                  ELSE output
  <2>1. flow' = NoFlow /\ output' = p
    BY <1>12 DEF HandleEof
  <2>2. Plain(p) /\ p.delayed = <<>>
    BY <1>1, <1>6, <1>7 DEF HeldByPrompt
  <2> HIDE DEF p
  <2>3. HeldByPrompt'
    BY <1>3, <2>1, <2>2 DEF HeldByPrompt
  <2>4. FlowType'
    BY <1>3, <2>1 DEF FlowType
  <2> QED BY <1>5, <2>1, <2>2, <2>3, <2>4
<1>13. CASE HandleDetach
  <2>1. flow' = Fed /\ output' = Flushed /\ ~transfer /\ ~finished /\ transfer' = transfer
        /\ finished' = finished
    BY <1>13 DEF HandleDetach, HandleInputDue, Idle
  <2>2. HeldByPrompt'
    BY <1>1, <1>8, <1>9, <2>1 DEF HeldByPrompt
  <2>3. FlowType'
    BY <1>9, <1>10, <2>1
  <2> QED BY <1>5, <1>8, <2>1, <2>2, <2>3
<1>14. CASE HandleCancel
  <2>1. ~transfer /\ ~finished /\ transfer' = transfer /\ finished' = finished /\ Cancelled
    BY <1>14 DEF HandleCancel, HandleInputDue, Idle
  <2>2. CASE Fed.open
    <3>1. flow' = NoFlow
          /\ output' = flush_delayed_output([output EXCEPT !.overflow = FALSE])
      BY <2>1, <2>2 DEF Cancelled
    <3>2. HeldByPrompt'
      BY <1>3, <1>6, <1>7, <2>1, <3>1 DEF HeldByPrompt
    <3>3. FlowType'
      BY <1>3, <3>1 DEF FlowType
    <3> QED BY <1>5, <1>6, <1>7, <3>1, <3>2, <3>3
  <2>3. CASE ~Fed.open
    <3>1. flow' = Fed /\ output' = Flushed
      BY <2>1, <2>3 DEF Cancelled
    <3>2. HeldByPrompt'
      BY <1>1, <1>8, <1>9, <2>1, <3>1 DEF HeldByPrompt
    <3>3. FlowType'
      BY <1>9, <1>10, <3>1
    <3> QED BY <1>5, <1>8, <3>1, <3>2, <3>3
  <2> QED BY <2>2, <2>3
<1>15. CASE HandleStart
  <2>1. /\ ~transfer /\ ~finished /\ transfer' = transfer /\ finished' = finished
        /\ output' = output
        /\ flow' = flow \/ flow' = [NoFlow EXCEPT !.open = TRUE]
    BY <1>15 DEF HandleStart, HandleInputDue, Idle
  <2>2. CASE flow' = flow
    BY <2>1, <2>2, UiQuiet
  <2>3. CASE flow' = [NoFlow EXCEPT !.open = TRUE]
    <3>1. flow' = [open |-> TRUE, field |-> 0, line |-> 0]
      BY <1>3, <2>3
    <3>2. HeldByPrompt'
      BY <2>1, <3>1 DEF HeldByPrompt
    <3>3. FlowType'
      BY <3>1 DEF FlowType
    <3> QED BY <1>5, <1>6, <2>1, <3>2, <3>3
  <2> QED BY <2>1, <2>2, <2>3
<1>16. CASE HandleRun
  <2>1. /\ Completed /\ flow' = NoFlow
        /\ output' = Flushed \/ output' = [Flushed EXCEPT !.overflow = FALSE]
    BY <1>16 DEF HandleRun
  <2>2. PICK p: output' = p /\ Plain(p) /\ p.delayed = <<>>
    BY <1>7, <1>8, <2>1
  <2>3. HeldByPrompt'
    BY <1>3, <2>1, <2>2 DEF HeldByPrompt
  <2>4. FlowType'
    BY <1>3, <2>1 DEF FlowType
  <2> QED BY <1>5, <2>2, <2>3, <2>4
<1>17. CASE HandleRest
  <2>1. /\ ~transfer /\ ~finished /\ transfer' = transfer /\ finished' = finished
        /\ output' = output /\ flow' = Fed /\ ~Completed
    BY <1>17 DEF HandleRest, HandleInputDue, Idle
  <2>2. HeldByPrompt'
    BY <1>1, <1>9, <2>1 DEF HeldByPrompt
  <2>3. FlowType'
    BY <1>9, <1>10, <2>1
  <2> QED BY <1>5, <1>6, <2>1, <2>2, <2>3
<1>18. CASE HandleOverflow
  <2>1. flow' = NoFlow /\ output' = flush_delayed_output([output EXCEPT !.overflow = FALSE])
    BY <1>18 DEF HandleOverflow
  <2>2. HeldByPrompt'
    BY <1>3, <1>6, <1>7, <2>1 DEF HeldByPrompt
  <2>3. FlowType'
    BY <1>3, <2>1 DEF FlowType
  <2> QED BY <1>5, <1>6, <1>7, <2>1, <2>2, <2>3
<1> QED BY <1>11, <1>12, <1>13, <1>14, <1>15, <1>16, <1>17, <1>18

\* No keystroke, prompt, transfer or overflow disorders the display of the
\* remote output (controller.rs, transfer_prompt.rs).
THEOREM DisplayKeepsOrder == UiSpec => []DisplayInOrder
<1>1. UiInit => UiInv
  <2> SUFFICES ASSUME UiInit PROVE UiInv
    OBVIOUS
  <2>1. PICK o: o = output
    OBVIOUS
  <2>2. o = [next |-> 1, recording |-> <<>>, writing |-> <<>>,
             delayed |-> <<>>, overflow |-> FALSE, lost |-> {}, shown |-> <<>>]
    BY <2>1 DEF UiInit
  <2>3. o \in OutputSet /\ o.recording = <<>> /\ o.writing = <<>> /\ o.delayed = <<>>
        /\ o.shown = <<>> /\ o.next = 1 /\ o.lost = {}
    BY <2>2
  <2>4. Way(o) = <<>>
    BY <2>3, WayFacts
  <2>5. Len(<<>>) = 0 /\ DOMAIN <<>> = {} /\ 1..0 = {}
    OBVIOUS
  <2>6. Rising(<<>>) /\ ToSet(<<>>) = {}
    BY <2>5 DEF Rising, ToSet
  <2>7. Ordered(o) /\ OneInFlight(o)
    BY <2>3, <2>4, <2>5, <2>6 DEF Ordered, OneInFlight
  <2>8. FlowType /\ HeldByPrompt
    BY <2>1, <2>3 DEF UiInit, FlowType, NoFlow, HeldByPrompt
  <2> QED BY <2>1, <2>3, <2>7, <2>8 DEF UiInv, OutputType
<1>2. UiInv /\ [UiNext]_allVars => UiInv'
  <2> SUFFICES ASSUME UiInv, [UiNext]_allVars PROVE UiInv'
    OBVIOUS
  <2>1. CASE LocalInputRead \/ LocalInputEof \/ LocalInputProcessed \/ TransferCancelAudited
             \/ TransferEnds \/ OtherStep
    BY <2>1, UiQuiet DEF LocalInputRead, LocalInputEof, LocalInputProcessed,
       TransferCancelAudited, TransferEnds, OtherStep, uiVars
  <2>2. CASE RemoteOutputRead \/ RemoteOutputProcessed \/ RemoteOutputWritten
    BY <2>2, UiOutput
  <2>3. CASE \/ HandleTransfer \/ HandleEof \/ HandleDetach \/ HandleCancel
             \/ HandleStart \/ HandleRun \/ HandleRest \/ HandleOverflow
    BY <2>3, UiHandled
  <2>4. CASE UNCHANGED allVars
    BY <2>4, UiQuiet DEF allVars, uiVars, pumpVars
  <2> QED BY <2>1, <2>2, <2>3, <2>4 DEF UiNext
<1>3. UiInv => DisplayInOrder
  <2> SUFFICES ASSUME UiInv PROVE DisplayInOrder
    OBVIOUS
  <2>1. PICK w: w = Way(output)
    OBVIOUS
  <2>2. w \in Seq(Nat) /\ Rising(w)
    BY <2>1, WayFacts DEF UiInv, OutputType, Ordered
  <2>3. Increasing(w)
    <3> SUFFICES ASSUME NEW i \in 1..(Len(w) - 1) PROVE w[i] < w[i + 1]
      BY DEF Increasing
    <3>1. i \in 1..Len(w) /\ i + 1 \in 1..Len(w) /\ i < i + 1
      BY <2>2
    <3> QED BY <2>2, <3>1 DEF Rising
  <2> QED BY <2>1, <2>3 DEF UiInv, Ordered, HeldByPrompt, DisplayInOrder, Way
<1> QED BY <1>1, <1>2, <1>3, PTL DEF UiSpec
=============================================================================
