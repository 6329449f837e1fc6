---------------------------- MODULE OsTimerProofs ----------------------------
(***************************************************************************)
(* Theorems about OsTimer, for any set of timers, any width of CARD32 and  *)
(* any delays.                                                             *)
(*                                                                         *)
(* That the list has no timer twice and none that is freed rests on        *)
(* CallsOK: TimerSet gives the lock up between taking its timer out and    *)
(* sorting it in, and a callback may run between the two.  What is said of *)
(* real time needs a clock that is never set back and delays well within   *)
(* half of the range of CARD32; then expires is the clock plus what is     *)
(* left (DeadlineInv), and a signed difference of two times is the real    *)
(* one (SignedDifference).                                                 *)
(***************************************************************************)
EXTENDS OsTimer, SetLemmas, SequenceTheorems

(* A clock that is never set back, as CLOCK_MONOTONIC.                     *)
Monotonic == MaxRewinds = 0

(* A delay after which a timer, however late it is called, is still within *)
(* half of the range of CARD32, and with the slack within all of it.       *)
Short(m) == m \in Nat /\ 2 * (m + MaxLate) < CARD32_SIZE /\ m + SLACK < CARD32_SIZE

ShortDelays == \A m \in Delays \cup Offsets : Short(m)

---------------------------------------------------------------------------
(* The invariants                                                          *)

Once(ts) == \A i, j \in DOMAIN ts : ts[i] = ts[j] => i = j

(* The list is in the order of the times w.                                *)
InOrder(ts, w) ==
  \A i, j \in DOMAIN ts : i < j => w[ts[i]] <= w[ts[j]]

IsSetOf(c, t) == c.call = "set" /\ c.timer = t

(* A timer that a TimerSet is about to sort in is not in the list, and     *)
(* nothing that the main thread does before puts it there.                 *)
StackOK(stack, ts, all) ==
  /\ \A i \in DOMAIN stack :
       /\ stack[i].timer \in all
       /\ stack[i].call = "set" =>
            stack[i].timer \notin InputTimers \cup Range(ts)
  /\ \A i, j \in DOMAIN stack :
       i < j /\ IsSetOf(stack[j], stack[i].timer) =>
         stack[i].call = "callback" /\ ~stack[i].rearm

CallsOK ==
  /\ timers \in Seq(allocated) /\ Once(timers)
  /\ calls \in Seq(Calling) /\ StackOK(calls, timers, allocated)
  /\ InputTimers \subseteq allocated
  /\ calls # << >> => mpc \in {"dispatch", "DoTimers", "CheckAllTimers"}

(* What TypeOK says besides.                                               *)
FieldsOK ==
  /\ allocated \subseteq Timer
  /\ expires \in [Timer -> CARD32]
  /\ delta \in [Timer -> CARD32]
  /\ clock \in CARD32
  /\ mpc \in {"dispatch", "check", "sane", "DoTimers", "CheckAllTimers",
              "poll"}
  /\ seen \in Timer \cup {NoTimer}
  /\ timeout \in -CARD32_SIZE..CARD32_SIZE
  /\ now \in CARD32
  /\ kicked \in BOOLEAN
  /\ left \in [Timer -> -MaxLate..CARD32_SIZE]
  /\ spent \in 0..MaxLate
  /\ rewinds \in 0..MaxRewinds

TypeInv == CallsOK /\ FieldsOK

(* The timer that check_timers has looked at is still the first one.       *)
SaneInv ==
  /\ PollIsSane
  /\ mpc = "sane" /\ ~kicked => timers # << >> /\ seen = Head(timers)

(* What is left of the time of a timer that will expire at e, d after it   *)
(* was set.                                                                *)
Expires(t, e, d) ==
  /\ Short(d)
  /\ -MaxLate <= left[t] /\ left[t] <= d
  /\ e = Unsigned(clock + left[t])

(* expires and real time agree, in the list and in the calls of TimerSet,  *)
(* and the now of DoTimers is not much older than the clock.               *)
ListDue == \A t \in Range(timers) : Expires(t, expires[t], delta[t])

SetsDue ==
  \A i \in DOMAIN calls : calls[i].call = "set" =>
    /\ Expires(calls[i].timer, calls[i].expires, calls[i].delta)
    /\ calls[i].expires = Unsigned(calls[i].now + calls[i].delta)

DeadlineInv ==
  /\ ListDue
  /\ SetsDue
  /\ InOrder(timers, left)
  /\ mpc = "DoTimers" => Unsigned(clock - now) <= MaxLate

(* No timer that is in the list is due before the poll ends.               *)
InTime == \A t \in Range(timers) : timeout <= left[t] + spent

WakeInv ==
  /\ mpc \in {"dispatch", "check"} => spent = 0
  /\ mpc = "sane" => timeout > 0
  /\ mpc = "sane" /\ ~kicked => InTime
  /\ mpc = "poll" => timeout >= -1
  /\ PollWakesInTime

---------------------------------------------------------------------------
(* Arithmetic modulo CARD32_SIZE                                           *)

LEMMA Sizes ==
  /\ CARD32_SIZE \in Nat \ {0} /\ CARD32_SIZE % 2 = 0
  /\ SLACK \in Nat /\ MaxLate \in Nat /\ MaxRewinds \in Nat
  /\ Delays \subseteq CARD32 \ {0} /\ Offsets \subseteq CARD32
  /\ InputTimers \subseteq Timer /\ NoTimer \notin Timer
BY TimerAssumption

LEMMA ModShift ==
  ASSUME NEW n \in Nat \ {0}, NEW x \in Int, -n <= x, x < n
  PROVE  (x + n) % n = x % n
<1>1. CASE x < 0
  <2>1. x + n \in 0..(n - 1)
    BY <1>1
  <2>2. (x + n) % n = x + n
    BY <2>1
  <2>3. x % n = x + n
    BY <1>1, <2>1
  <2> QED  BY <2>2, <2>3
<1>2. CASE x >= 0
  <2>1. x % n = x
    BY <1>2
  <2>2. (x + n) % n = x
    BY <1>2
  <2> QED  BY <2>1, <2>2
<1> QED  BY <1>1, <1>2

LEMMA ModSmall ==
  ASSUME NEW n \in Nat \ {0}, NEW x \in 0..(n - 1)
  PROVE  x % n = x
OBVIOUS

(* Unsigned takes off, or adds, the size at most once.                     *)
LEMMA UnsignedCases ==
  ASSUME NEW x \in Int, -CARD32_SIZE <= x, x < 2 * CARD32_SIZE
  PROVE  /\ Unsigned(x) = IF x < 0 THEN x + CARD32_SIZE
                          ELSE IF x < CARD32_SIZE THEN x ELSE x - CARD32_SIZE
         /\ Unsigned(x) \in CARD32
<1> DEFINE n == CARD32_SIZE
<1>1. n \in Nat \ {0}
  BY Sizes
<1>2. CASE x < 0
  <2>1. x + n \in 0..(n - 1)
    BY <1>1, <1>2
  <2>2. (x + n) % n = x % n
    <3>1. -n <= x /\ x < n
      BY <1>1, <1>2
    <3> HIDE DEF n
    <3> QED  BY <1>1, <3>1, ModShift
  <2>3. (x + n) % n = x + n
    <3> DEFINE y == x + n
    <3> HIDE DEF y, n
    <3> QED  BY <1>1, <2>1, ModSmall DEF y
  <2> QED  BY <1>2, <2>1, <2>2, <2>3 DEF Unsigned, CARD32
<1>3. CASE 0 <= x /\ x < n
  <2>1. x \in 0..(n - 1)
    BY <1>1, <1>3
  <2>2. x % n = x
    BY <1>1, <2>1, ModSmall
  <2> QED  BY <1>1, <1>3, <2>1, <2>2 DEF Unsigned, CARD32
<1>4. CASE n <= x
  <2>1. x - n \in 0..(n - 1) /\ (x - n) + n = x
    BY <1>1, <1>4
  <2>2. x % n = (x - n) % n /\ (x - n) % n = x - n
    <3> DEFINE y == x - n
    <3>1. y \in Int /\ y \in 0..(n - 1) /\ y + n = x /\ -n <= y /\ y < n
      BY <1>1, <2>1
    <3> HIDE DEF y, n
    <3>2. (y + n) % n = y % n
      BY <1>1, <3>1, ModShift
    <3>3. y % n = y
      BY <1>1, <3>1, ModSmall
    <3> QED  BY <3>1, <3>2, <3>3 DEF y
  <2> QED  BY <1>1, <1>4, <2>1, <2>2 DEF Unsigned, CARD32
<1> QED  BY <1>1, <1>2, <1>3, <1>4

LEMMA UnsignedType ==
  ASSUME NEW x \in Int
  PROVE  Unsigned(x) \in CARD32
BY Sizes DEF Unsigned, CARD32

LEMMA SignedCases ==
  ASSUME NEW x \in Int, -CARD32_SIZE <= x, x < 2 * CARD32_SIZE
  PROVE  /\ Signed(x) = IF 2 * Unsigned(x) >= CARD32_SIZE
                        THEN Unsigned(x) - CARD32_SIZE ELSE Unsigned(x)
         /\ Signed(x) \in Int /\ -CARD32_SIZE <= Signed(x) /\ Signed(x) < CARD32_SIZE
<1>1. Unsigned(x) \in CARD32 /\ CARD32_SIZE \in Nat \ {0}
  BY UnsignedCases, Sizes
<1> QED  BY <1>1 DEF Signed, Unsigned, CARD32

LEMMA SignedType ==
  ASSUME NEW x \in Int
  PROVE  Signed(x) \in Int /\ -CARD32_SIZE <= Signed(x) /\ Signed(x) < CARD32_SIZE
<1>1. x % CARD32_SIZE \in 0..(CARD32_SIZE - 1) /\ CARD32_SIZE \in Nat \ {0}
  BY Sizes
<1> QED  BY <1>1 DEF Signed

(* Times a and b away from the clock, each by less than half of the range: *)
(* the signed difference of what they are as CARD32s is their difference.  *)
LEMMA SignedDifference ==
  ASSUME NEW c \in CARD32, NEW a \in Int, NEW b \in Int,
         -CARD32_SIZE <= 2 * a, 2 * a < CARD32_SIZE,
         -CARD32_SIZE <= 2 * b, 2 * b < CARD32_SIZE,
         -CARD32_SIZE <= 2 * (a - b), 2 * (a - b) < CARD32_SIZE
  PROVE  Signed(Unsigned(c + a) - Unsigned(c + b)) = a - b
<1> DEFINE n == CARD32_SIZE
           u == Unsigned(c + a)
           v == Unsigned(c + b)
<1>1. n \in Nat \ {0} /\ c \in Int /\ 0 <= c /\ c < n
  BY Sizes DEF CARD32
<1>2. /\ u = IF c + a < 0 THEN c + a + n ELSE IF c + a < n THEN c + a ELSE c + a - n
      /\ u \in CARD32
  BY <1>1, UnsignedCases
<1>3. /\ v = IF c + b < 0 THEN c + b + n ELSE IF c + b < n THEN c + b ELSE c + b - n
      /\ v \in CARD32
  BY <1>1, UnsignedCases
<1>4. u \in Int /\ v \in Int /\ -n <= u - v /\ u - v < 2 * n
  BY <1>1, <1>2, <1>3 DEF CARD32
<1> HIDE DEF u, v
<1>5. /\ Unsigned(u - v) = IF u - v < 0 THEN u - v + n
                           ELSE IF u - v < n THEN u - v ELSE u - v - n
      /\ Signed(u - v) = IF 2 * Unsigned(u - v) >= n THEN Unsigned(u - v) - n
                         ELSE Unsigned(u - v)
  BY <1>4, UnsignedCases, SignedCases
<1>6. Signed(u - v) = a - b
  BY <1>1, <1>2, <1>3, <1>4, <1>5
<1> QED  BY <1>6 DEF u, v

(* A time after or before a time.                                          *)
LEMMA UnsignedSum ==
  ASSUME NEW c \in CARD32, NEW a \in Int, NEW b \in Int,
         -CARD32_SIZE <= a, a <= CARD32_SIZE,
         -CARD32_SIZE <= a + b, c + a + b < 2 * CARD32_SIZE,
         -CARD32_SIZE <= b, b <= CARD32_SIZE
  PROVE  Unsigned(Unsigned(c + a) + b) = Unsigned(c + (a + b))
<1>1. CARD32_SIZE \in Nat \ {0}
  BY Sizes
<1> DEFINE n == CARD32_SIZE
           x == c + a
<1>2. c \in Int /\ 0 <= c /\ c < n
  BY <1>1 DEF CARD32
<1>3. /\ Unsigned(x) = IF x < 0 THEN x + n ELSE IF x < n THEN x ELSE x - n
      /\ Unsigned(x) \in CARD32
  BY <1>1, <1>2, UnsignedCases
<1>4. /\ Unsigned(x + b) = IF x + b < 0 THEN x + b + n
                           ELSE IF x + b < n THEN x + b ELSE x + b - n
  BY <1>1, <1>2, UnsignedCases
<1> DEFINE y == Unsigned(x) + b
<1>5. Unsigned(y) = IF y < 0 THEN y + n ELSE IF y < n THEN y ELSE y - n
  <2>1. Unsigned(x) \in Int /\ 0 <= Unsigned(x) /\ Unsigned(x) < n
    BY <1>1, <1>3 DEF CARD32
  <2> HIDE DEF x
  <2>2. y \in Int /\ -n <= y /\ y < 2 * n
    BY <1>1, <2>1
  <2> HIDE DEF y
  <2> QED  BY <2>2, UnsignedCases
<1>6. c + (a + b) = x + b
  BY <1>2
<1> QED  BY <1>1, <1>2, <1>3, <1>4, <1>5, <1>6 DEF CARD32

---------------------------------------------------------------------------
(* The list                                                                *)

LEMMA UnlinkedList ==
  ASSUME NEW S, timers \in Seq(S), NEW t, Once(timers)
  PROVE  /\ Unlinked(t) \in Seq(S)
         /\ Range(Unlinked(t)) = Range(timers) \ {t}
         /\ Once(Unlinked(t))
         /\ \A w : InOrder(timers, w) => InOrder(Unlinked(t), w)
<1> DEFINE K == {i \in DOMAIN timers : timers[i] # t}
           n == Cardinality(K)
           kept == Keep(timers, K)
<1>1. /\ kept \in Seq(S) /\ n \in Nat /\ DOMAIN kept = 1..n
      /\ \A j \in 1..n : Nth(K, j) \in K /\ kept[j] = timers[Nth(K, j)]
      /\ \A i \in K : Rank(K, i) \in 1..n /\ kept[Rank(K, i)] = timers[i]
      /\ \A j, l \in 1..n : j < l => Nth(K, j) < Nth(K, l)
  <2>1. K \in SUBSET (DOMAIN timers)
    OBVIOUS
  <2> HIDE DEF K
  <2> QED  BY <2>1, KeepProperties
<1>2. kept = Unlinked(t)
  BY DEF Unlinked
<1>3. \A i \in K : i \in DOMAIN timers /\ timers[i] # t
  OBVIOUS
<1>4. \A i \in DOMAIN timers : timers[i] # t => i \in K
  OBVIOUS
<1>5. DOMAIN timers \subseteq Nat
  OBVIOUS
<1> HIDE DEF K, n, kept
<1>6. Range(kept) = Range(timers) \ {t}
  <2>1. ASSUME NEW x \in Range(kept) PROVE x \in Range(timers) \ {t}
    BY <1>1, <1>3, <2>1 DEF Range
  <2>2. ASSUME NEW x \in Range(timers) \ {t} PROVE x \in Range(kept)
    <3>1. PICK i \in DOMAIN timers : timers[i] = x
      BY <2>2 DEF Range
    <3>2. i \in K
      BY <1>4, <2>2, <3>1
    <3> QED  BY <1>1, <3>1, <3>2 DEF Range
  <2> QED  BY <2>1, <2>2
<1>7. Once(kept)
  <2> SUFFICES ASSUME NEW j \in 1..n, NEW l \in 1..n, kept[j] = kept[l] PROVE j = l
    BY <1>1 DEF Once
  <2>1. Nth(K, j) = Nth(K, l) /\ Nth(K, j) \in Nat
    BY <1>1, <1>3, <1>5 DEF Once
  <2>2. ~(j < l) /\ ~(l < j)
    BY <1>1, <2>1
  <2> QED  BY <1>1, <2>2
<1>8. ASSUME NEW w, InOrder(timers, w) PROVE InOrder(kept, w)
  <2> SUFFICES ASSUME NEW j \in 1..n, NEW l \in 1..n, j < l
               PROVE  w[kept[j]] <= w[kept[l]]
    BY <1>1 DEF InOrder
  <2>1. Nth(K, j) < Nth(K, l) /\ Nth(K, j) \in DOMAIN timers /\ Nth(K, l) \in DOMAIN timers
    BY <1>1, <1>3
  <2> QED  BY <1>1, <1>8, <2>1 DEF InOrder
<1> QED  BY <1>1, <1>2, <1>6, <1>7, <1>8

(* The list r is ts with t at the place at.                                *)
PutAt(ts, at, t, r) ==
  /\ Len(r) = Len(ts) + 1
  /\ \A j \in 1..(Len(ts) + 1) :
       r[j] = IF j < at THEN ts[j] ELSE IF j = at THEN t ELSE ts[j - 1]

LEMMA InsertedAt ==
  ASSUME NEW S, NEW ts \in Seq(S), NEW t \in S, NEW at \in 1..(Len(ts) + 1)
  PROVE  InsertAt(ts, at, t) \in Seq(S) /\ PutAt(ts, at, t, InsertAt(ts, at, t))
<1> DEFINE n == Len(ts)
           front == SubSeq(ts, 1, at - 1)
           back == SubSeq(ts, at, n)
           start == front \o <<t>>
           all == start \o back
<1>1. n \in Nat /\ at \in Nat /\ 1 <= at /\ at <= n + 1
  OBVIOUS
<1>2. /\ front \in Seq(S) /\ Len(front) = at - 1
      /\ \A j \in 1..(at - 1) : front[j] = ts[j]
  OBVIOUS
<1>3. /\ back \in Seq(S) /\ Len(back) = n + 1 - at
      /\ \A j \in 1..(n + 1 - at) : back[j] = ts[at + j - 1]
  OBVIOUS
<1>4. <<t>> \in Seq(S) /\ Len(<<t>>) = 1 /\ <<t>>[1] = t
  OBVIOUS
<1>5. all = InsertAt(ts, at, t)
  BY DEF InsertAt
<1> HIDE DEF front, back, all
<1>6. /\ start \in Seq(S) /\ Len(start) = at
      /\ \A j \in 1..at : start[j] = IF j < at THEN front[j] ELSE t
  <2>1. start \in Seq(S) /\ Len(start) = Len(front) + Len(<<t>>)
    BY <1>2, <1>4, ConcatProperties
  <2>2. \A j \in 1..(Len(front) + Len(<<t>>)) :
          start[j] = IF j <= Len(front) THEN front[j] ELSE <<t>>[j - Len(front)]
    BY <1>2, <1>4, ConcatProperties
  <2>3. Len(front) + Len(<<t>>) = at
    BY <1>1, <1>2, <1>4
  <2> HIDE DEF start
  <2>4. ASSUME NEW j \in 1..at PROVE start[j] = IF j < at THEN front[j] ELSE t
    <3>1. start[j] = IF j <= Len(front) THEN front[j] ELSE <<t>>[j - Len(front)]
      BY <2>2, <2>3
    <3>2. j \in Nat /\ j <= at
      BY <1>1
    <3>3. CASE j < at
      BY <1>2, <3>1, <3>2, <3>3
    <3>4. CASE j = at
      <4>1. ~(j <= Len(front)) /\ j - Len(front) = 1
        BY <1>1, <1>2, <3>4
      <4>2. start[j] = <<t>>[1]
        BY <3>1, <4>1
      <4> QED  BY <1>4, <3>4, <4>2
    <3> QED  BY <1>1, <3>2, <3>3, <3>4
  <2> QED  BY <2>1, <2>3, <2>4
<1>7. /\ all \in Seq(S) /\ Len(all) = n + 1
      /\ \A j \in 1..(n + 1) : all[j] = IF j <= at THEN start[j] ELSE back[j - at]
  <2> HIDE DEF start
  <2>1. /\ all \in Seq(S) /\ Len(all) = Len(start) + Len(back)
        /\ \A j \in 1..(Len(start) + Len(back)) :
             all[j] = IF j <= Len(start) THEN start[j] ELSE back[j - Len(start)]
    BY <1>3, <1>6, ConcatProperties DEF all
  <2>2. Len(start) + Len(back) = n + 1
    BY <1>1, <1>3, <1>6
  <2> QED  BY <1>6, <2>1, <2>2
<1> HIDE DEF start
<1>8. ASSUME NEW j \in 1..(n + 1)
      PROVE  all[j] = IF j < at THEN ts[j] ELSE IF j = at THEN t ELSE ts[j - 1]
  <2>1. j \in Nat /\ 1 <= j /\ j <= n + 1
    BY <1>1
  <2>2. all[j] = IF j <= at THEN start[j] ELSE back[j - at]
    BY <1>7
  <2>3. CASE j <= at
    <3>1. j \in 1..at
      BY <2>1, <2>3
    <3>2. all[j] = IF j < at THEN front[j] ELSE t
      BY <1>6, <2>2, <2>3, <3>1
    <3>3. j < at => j \in 1..(at - 1)
      BY <1>1, <2>1
    <3> QED  BY <1>1, <1>2, <2>1, <2>3, <3>2, <3>3
  <2>4. CASE ~(j <= at)
    <3>1. j - at \in 1..(n + 1 - at) /\ at + (j - at) - 1 = j - 1
      BY <1>1, <2>1, <2>4
    <3>2. all[j] = ts[at + (j - at) - 1]
      BY <1>3, <2>2, <2>4, <3>1
    <3> QED  BY <1>1, <2>1, <2>4, <3>1, <3>2
  <2> QED  BY <2>3, <2>4
<1> QED  BY <1>5, <1>7, <1>8 DEF PutAt

(* Where the loop of TimerSet stops.                                       *)
LEMMA SortedInAt ==
  ASSUME NEW S, NEW ts \in Seq(S), NEW t \in S, NEW e
  PROVE  \E at \in 1..(Len(ts) + 1) :
           /\ SortedIn(ts, t, e) \in Seq(S)
           /\ PutAt(ts, at, t, SortedIn(ts, t, e))
           /\ \A i \in 1..Len(ts) : i < at => ~(Signed(expires[ts[i]] - e) > 0)
           /\ at <= Len(ts) => Signed(expires[ts[at]] - e) > 0
<1> DEFINE later == {i \in 1..Len(ts) : Signed(expires[ts[i]] - e) > 0}
           at == IF later = {} THEN Len(ts) + 1
                 ELSE CHOOSE i \in later : \A j \in later : i <= j
<1>1. Len(ts) \in Nat
  OBVIOUS
<1>2. /\ at \in 1..(Len(ts) + 1)
      /\ at <= Len(ts) => at \in later
      /\ \A i \in 1..Len(ts) : i < at => i \notin later
  <2>1. CASE later = {}
    <3>1. at = Len(ts) + 1
      BY <2>1
    <3> HIDE DEF at, later
    <3> QED  BY <1>1, <2>1, <3>1
  <2>2. CASE later # {}
    <3>1. later \in SUBSET Nat /\ later \subseteq 1..Len(ts)
      OBVIOUS
    <3>2. \E i \in later : \A j \in later : i <= j
      <4> HIDE DEF later
      <4> QED  BY <2>2, <3>1, LeastExists
    <3>3. at \in later /\ \A j \in later : at <= j
      <4>1. at = CHOOSE i \in later : \A j \in later : i <= j
        BY <2>2
      <4> HIDE DEF later, at
      <4> QED  BY <3>2, <4>1
    <3> HIDE DEF later, at
    <3>4. \A i \in 1..Len(ts) : i < at => i \notin later
      BY <1>1, <3>1, <3>3
    <3> QED  BY <1>1, <3>1, <3>3, <3>4
  <2> QED  BY <2>1, <2>2
<1>3. SortedIn(ts, t, e) = InsertAt(ts, at, t)
  BY DEF SortedIn
<1>4. InsertAt(ts, at, t) \in Seq(S) /\ PutAt(ts, at, t, InsertAt(ts, at, t))
  <2> HIDE DEF at
  <2> QED  BY <1>2, InsertedAt
<1>5. \A i \in 1..Len(ts) : i \in later <=> Signed(expires[ts[i]] - e) > 0
  OBVIOUS
<1> HIDE DEF at, later
<1>6. /\ \A i \in 1..Len(ts) : i < at => ~(Signed(expires[ts[i]] - e) > 0)
      /\ at <= Len(ts) => Signed(expires[ts[at]] - e) > 0
  BY <1>1, <1>2, <1>5
<1> QED  BY <1>2, <1>3, <1>4, <1>6

(* Sorting in adds the timer, and keeps the order of the times w if that   *)
(* is what the comparison of expires says.                                 *)
LEMMA SortedInList ==
  ASSUME NEW S, NEW ts \in Seq(S), NEW t \in S, NEW e
  PROVE  LET r == SortedIn(ts, t, e)
         IN  /\ r \in Seq(S)
             /\ Range(r) = Range(ts) \cup {t}
             /\ Once(ts) /\ t \notin Range(ts) => Once(r)
             /\ \A w : /\ InOrder(ts, w)
                       /\ w[t] \in Int /\ \A i \in DOMAIN ts : w[ts[i]] \in Int
                       /\ \A i \in DOMAIN ts :
                            Signed(expires[ts[i]] - e) > 0 <=> w[ts[i]] > w[t]
                       => InOrder(r, w)
<1> DEFINE r == SortedIn(ts, t, e)
           n == Len(ts)
<1>1. PICK at \in 1..(n + 1) :
         /\ r \in Seq(S)
         /\ PutAt(ts, at, t, r)
         /\ \A i \in 1..n : i < at => ~(Signed(expires[ts[i]] - e) > 0)
         /\ at <= n => Signed(expires[ts[at]] - e) > 0
  BY SortedInAt
<1>2. n \in Nat /\ DOMAIN ts = 1..n /\ DOMAIN r = 1..(n + 1)
  <2>1. Len(r) = n + 1 /\ r \in Seq(S)
    BY <1>1 DEF PutAt
  <2> HIDE DEF r
  <2> QED  BY <2>1
<1>3. at \in Nat /\ 1 <= at /\ at <= n + 1
  BY <1>1, <1>2
<1>4. \A j \in 1..(n + 1) :
        r[j] = IF j < at THEN ts[j] ELSE IF j = at THEN t ELSE ts[j - 1]
  BY <1>1 DEF PutAt
<1> HIDE DEF r, n
(* The place in ts of an entry other than t.                               *)
<1> DEFINE Old(j) == IF j < at THEN j ELSE j - 1
<1>5. \A j \in 1..(n + 1) : j # at => Old(j) \in 1..n /\ r[j] = ts[Old(j)]
  BY <1>2, <1>3, <1>4
<1>6. r[at] = t
  BY <1>2, <1>3, <1>4
<1>7. Range(r) = Range(ts) \cup {t}
  <2>1. ASSUME NEW x \in Range(r) PROVE x \in Range(ts) \cup {t}
    <3>1. PICK j \in 1..(n + 1) : r[j] = x
      BY <1>2, <2>1 DEF Range
    <3>2. j # at => x = ts[Old(j)] /\ Old(j) \in 1..n
      BY <1>5, <3>1
    <3> HIDE DEF Old
    <3> QED  BY <1>2, <1>6, <3>1, <3>2 DEF Range
  <2>2. ASSUME NEW x \in Range(ts) \cup {t} PROVE x \in Range(r)
    <3>1. CASE x = t
      BY <1>2, <1>3, <1>6, <3>1 DEF Range
    <3>2. CASE x \in Range(ts)
      <4>1. PICK i \in 1..n : ts[i] = x
        BY <1>2, <3>2 DEF Range
      <4>2. CASE i < at
        <5>1. i \in 1..(n + 1) /\ r[i] = x
          BY <1>2, <1>4, <4>1, <4>2
        <5> QED  BY <1>2, <5>1 DEF Range
      <4>3. CASE ~(i < at)
        <5>1. i + 1 \in 1..(n + 1) /\ ~(i + 1 < at) /\ i + 1 # at /\ (i + 1) - 1 = i
          BY <1>2, <1>3, <4>3
        <5>2. r[i + 1] = x
          BY <1>4, <4>1, <5>1
        <5> QED  BY <1>2, <5>1, <5>2 DEF Range
      <4> QED  BY <4>2, <4>3
    <3> QED  BY <2>2, <3>1, <3>2
  <2> QED  BY <2>1, <2>2
<1>8. \A j, l \in 1..(n + 1) : j < l /\ j # at /\ l # at => Old(j) < Old(l)
  BY <1>2, <1>3
<1>9. ASSUME Once(ts), t \notin Range(ts) PROVE Once(r)
  <2> SUFFICES ASSUME NEW j \in 1..(n + 1), NEW l \in 1..(n + 1), j < l PROVE r[j] # r[l]
    BY <1>2 DEF Once
  <2>1. \A i \in 1..n : ts[i] # t
    BY <1>2, <1>9 DEF Range
  <2>2. CASE j # at /\ l # at
    <3>1. Old(j) < Old(l) /\ Old(j) \in 1..n /\ Old(l) \in 1..n
      BY <1>5, <1>8, <2>2
    <3>2. r[j] = ts[Old(j)] /\ r[l] = ts[Old(l)]
      BY <1>5, <2>2
    <3> HIDE DEF Old
    <3>3. Old(j) # Old(l)
      BY <1>2, <3>1
    <3> QED  BY <1>2, <1>9, <3>1, <3>2, <3>3 DEF Once
  <2>3. CASE j = at
    <3>1. r[l] = ts[Old(l)] /\ Old(l) \in 1..n
      BY <1>2, <1>3, <1>5, <2>3
    <3> HIDE DEF Old
    <3> QED  BY <1>6, <2>1, <2>3, <3>1
  <2>4. CASE l = at
    <3>1. r[j] = ts[Old(j)] /\ Old(j) \in 1..n
      BY <1>2, <1>3, <1>5, <2>4
    <3> HIDE DEF Old
    <3> QED  BY <1>6, <2>1, <2>4, <3>1
  <2> QED  BY <2>2, <2>3, <2>4
<1>10. ASSUME NEW w, InOrder(ts, w), w[t] \in Int,
              \A i \in DOMAIN ts : w[ts[i]] \in Int,
              \A i \in DOMAIN ts : Signed(expires[ts[i]] - e) > 0 <=> w[ts[i]] > w[t]
       PROVE  InOrder(r, w)
  <2> SUFFICES ASSUME NEW j \in 1..(n + 1), NEW l \in 1..(n + 1), j < l
               PROVE  w[r[j]] <= w[r[l]]
    BY <1>2 DEF InOrder
  <2>1. \A i, h \in 1..n : i < h => w[ts[i]] <= w[ts[h]]
    BY <1>2, <1>10 DEF InOrder
  <2>2. \A i \in 1..n : w[ts[i]] \in Int /\ (Signed(expires[ts[i]] - e) > 0 <=> w[ts[i]] > w[t])
    BY <1>2, <1>10
  <2>3. \A i \in 1..n : i < at => w[ts[i]] <= w[t]
    BY <1>1, <1>10, <2>2 DEF n
  <2>4. \A i \in 1..n : at <= i => w[t] <= w[ts[i]]
    <3> SUFFICES ASSUME NEW i \in 1..n, at <= i PROVE w[t] <= w[ts[i]]
      OBVIOUS
    <3>1. at \in 1..n /\ at <= n
      BY <1>2, <1>3
    <3>2. w[ts[at]] > w[t]
      BY <1>1, <2>2, <3>1 DEF n
    <3>3. w[ts[at]] <= w[ts[i]]
      BY <1>3, <2>1, <2>2, <3>1
    <3> QED  BY <1>10, <2>2, <3>1, <3>2, <3>3
  <2>5. CASE j # at /\ l # at
    <3>1. Old(j) < Old(l) /\ Old(j) \in 1..n /\ Old(l) \in 1..n
      BY <1>5, <1>8, <2>5
    <3>2. r[j] = ts[Old(j)] /\ r[l] = ts[Old(l)]
      BY <1>5, <2>5
    <3> HIDE DEF Old
    <3> QED  BY <2>1, <3>1, <3>2
  <2>6. CASE j = at
    <3>1. r[l] = ts[Old(l)] /\ Old(l) \in 1..n /\ at <= Old(l)
      BY <1>2, <1>3, <1>5, <2>6
    <3> HIDE DEF Old
    <3> QED  BY <1>6, <2>4, <2>6, <3>1
  <2>7. CASE l = at
    <3>1. r[j] = ts[Old(j)] /\ Old(j) \in 1..n /\ Old(j) < at
      BY <1>2, <1>3, <1>5, <2>7
    <3> HIDE DEF Old
    <3> QED  BY <1>6, <2>3, <2>7, <3>1
  <2> QED  BY <2>5, <2>6, <2>7
<1> QED  BY <1>1, <1>7, <1>9, <1>10 DEF r

---------------------------------------------------------------------------
(* Type correctness                                                        *)

LEMMA OnceSize ==
  ASSUME NEW S, NEW ts \in Seq(S), Once(ts)
  PROVE  Cardinality(Range(ts)) = Len(ts)
<1> DEFINE n == Len(ts)
<1>1. n \in Nat /\ DOMAIN ts = 1..n
  OBVIOUS
<1>2. IsFiniteSet(1..n) /\ Cardinality(1..n) = n
  BY <1>1, FS_Interval
<1> HIDE DEF n
<1>3. ts \in [1..n -> Range(ts)]
  BY <1>1 DEF Range
<1>4. \A x \in Range(ts) : \E i \in 1..n : ts[i] = x
  BY <1>1 DEF Range
<1>5. ts \in Surjection(1..n, Range(ts))
  BY <1>3, <1>4 DEF Surjection
<1>6. ts \in Injection(1..n, Range(ts))
  BY <1>1, <1>3 DEF Injection, IsInjective, Once
<1>7. Cardinality(Range(ts)) = Cardinality(1..n)
  BY <1>2, <1>5, <1>6, FS_Surjection
<1> QED  BY <1>2, <1>7 DEF n

LEMMA TypeInvType == TypeInv => TypeOK
<1> SUFFICES ASSUME TypeInv PROVE TypeOK
  OBVIOUS
<1>1. timers \in Seq(allocated) /\ Once(timers) /\ calls \in Seq(Calling)
  BY DEF TypeInv, CallsOK
<1>2. Cardinality(Range(timers)) = Len(timers)
  BY <1>1, OnceSize
<1> QED  BY <1>1, <1>2 DEF TypeInv, FieldsOK, TypeOK

(* A call is made, and returns.                                            *)
LEMMA Pushed ==
  ASSUME NEW stack \in Seq(Calling), NEW c \in Calling
  PROVE  LET more == <<c>> \o stack
         IN  /\ more \in Seq(Calling) /\ more # << >>
             /\ DOMAIN more = 1..(Len(stack) + 1) /\ Len(more) = Len(stack) + 1
             /\ more[1] = c /\ Head(more) = c
             /\ \A i \in DOMAIN stack : more[i + 1] = stack[i]
             /\ \A i \in DOMAIN more : i # 1 => i - 1 \in DOMAIN stack /\ more[i] = stack[i - 1]
<1> DEFINE more == <<c>> \o stack
<1>1. <<c>> \in Seq(Calling) /\ Len(<<c>>) = 1 /\ <<c>>[1] = c
  OBVIOUS
<1>2. Len(stack) \in Nat /\ DOMAIN stack = 1..Len(stack)
  OBVIOUS
<1>3. /\ more \in Seq(Calling) /\ Len(more) = 1 + Len(stack)
      /\ \A i \in 1..(1 + Len(stack)) : more[i] = IF i <= 1 THEN <<c>>[i] ELSE stack[i - 1]
  BY <1>1, ConcatProperties
<1> HIDE DEF more
<1>4. DOMAIN more = 1..(Len(stack) + 1)
  BY <1>2, <1>3
<1>5. more[1] = c /\ Head(more) = c /\ more # << >>
  <2>1. more[1] = <<c>>[1]
    BY <1>2, <1>3
  <2> QED  BY <1>1, <1>2, <1>3, <2>1
<1>6. ASSUME NEW i \in DOMAIN stack PROVE more[i + 1] = stack[i]
  <2>1. i + 1 \in 1..(1 + Len(stack)) /\ ~(i + 1 <= 1) /\ (i + 1) - 1 = i
    BY <1>2
  <2> QED  BY <1>3, <2>1
<1>7. \A i \in DOMAIN more : i # 1 => i - 1 \in DOMAIN stack /\ more[i] = stack[i - 1]
  BY <1>2, <1>3, <1>4
<1> QED  BY <1>2, <1>3, <1>4, <1>5, <1>6, <1>7 DEF more

LEMMA Popped ==
  ASSUME NEW stack \in Seq(Calling), stack # << >>
  PROVE  /\ Tail(stack) \in Seq(Calling) /\ Len(Tail(stack)) = Len(stack) - 1
         /\ Head(stack) = stack[1] /\ 1 \in DOMAIN stack /\ Head(stack) \in Calling
         /\ \A i \in DOMAIN Tail(stack) : i + 1 \in DOMAIN stack /\ Tail(stack)[i] = stack[i + 1]
OBVIOUS

(* What stays true of the calls in progress.                               *)
LEMMA StackPushed ==
  ASSUME NEW stack \in Seq(Calling), NEW ts, NEW all, StackOK(stack, ts, all),
         NEW c \in Calling, c.timer \in all,
         c.call = "set" => c.timer \notin InputTimers \cup Range(ts),
         \A i \in DOMAIN stack :
           IsSetOf(stack[i], c.timer) => c.call = "callback" /\ ~c.rearm
  PROVE  StackOK(<<c>> \o stack, ts, all)
<1> DEFINE more == <<c>> \o stack
<1>1. /\ more[1] = c /\ DOMAIN more = 1..(Len(stack) + 1) /\ Len(stack) \in Nat
      /\ \A i \in DOMAIN more : i # 1 => i - 1 \in DOMAIN stack /\ more[i] = stack[i - 1]
  BY Pushed
<1> HIDE DEF more
<1>2. ASSUME NEW i \in DOMAIN more
      PROVE  /\ more[i].timer \in all
             /\ more[i].call = "set" => more[i].timer \notin InputTimers \cup Range(ts)
  <2>1. CASE i = 1
    BY <1>1, <2>1
  <2>2. CASE i # 1
    BY <1>1, <2>2 DEF StackOK
  <2> QED  BY <2>1, <2>2
<1>3. ASSUME NEW i \in DOMAIN more, NEW j \in DOMAIN more,
             i < j, IsSetOf(more[j], more[i].timer)
      PROVE  more[i].call = "callback" /\ ~more[i].rearm
  <2>1. j # 1 /\ j - 1 \in DOMAIN stack /\ more[j] = stack[j - 1]
    BY <1>1, <1>3
  <2>2. CASE i = 1
    BY <1>1, <1>3, <2>1, <2>2
  <2>3. CASE i # 1
    <3>1. i - 1 \in DOMAIN stack /\ more[i] = stack[i - 1] /\ i - 1 < j - 1
      BY <1>1, <1>3, <2>3
    <3> QED  BY <1>3, <2>1, <3>1 DEF StackOK
  <2> QED  BY <2>2, <2>3
<1> QED  BY <1>2, <1>3 DEF StackOK, more

LEMMA StackPopped ==
  ASSUME NEW stack \in Seq(Calling), stack # << >>, NEW ts, NEW all,
         StackOK(stack, ts, all)
  PROVE  /\ StackOK(Tail(stack), ts, all)
         /\ Head(stack).timer \in all
         /\ Head(stack).call = "set" => Head(stack).timer \notin InputTimers \cup Range(ts)
         /\ ~(Head(stack).call = "callback" /\ ~Head(stack).rearm) =>
              \A i \in DOMAIN Tail(stack) : ~IsSetOf(Tail(stack)[i], Head(stack).timer)
<1> DEFINE rest == Tail(stack)
<1>1. /\ Head(stack) = stack[1] /\ 1 \in DOMAIN stack
      /\ \A i \in DOMAIN rest : i + 1 \in DOMAIN stack /\ rest[i] = stack[i + 1]
      /\ DOMAIN rest \subseteq Nat \ {0}
  BY Popped
<1> HIDE DEF rest
<1>2. \A i \in DOMAIN rest : i \in Nat /\ 1 < i + 1
  BY <1>1
<1>3. \A i, j \in DOMAIN rest : i < j => i + 1 < j + 1
  BY <1>1
<1>4. StackOK(rest, ts, all)
  BY <1>1, <1>3 DEF StackOK
<1>5. ASSUME ~(Head(stack).call = "callback" /\ ~Head(stack).rearm),
             NEW i \in DOMAIN rest, IsSetOf(rest[i], Head(stack).timer)
      PROVE  FALSE
  BY <1>1, <1>2, <1>5 DEF StackOK
<1> QED  BY <1>1, <1>4, <1>5 DEF StackOK, rest

LEMMA StackListed ==
  ASSUME NEW stack, NEW ts, NEW all, StackOK(stack, ts, all), NEW us, NEW some,
         \A i \in DOMAIN stack : stack[i].timer \in some,
         \A i \in DOMAIN stack : stack[i].call = "set" => stack[i].timer \notin Range(us)
  PROVE  StackOK(stack, us, some)
BY DEF StackOK

LEMMA CallingTypes ==
  ASSUME NEW t \in Timer
  PROVE  /\ \A e, d, n \in CARD32 : SetCall(t, e, d, n) \in Calling
         /\ \A rearm, forced \in BOOLEAN : Callback(t, rearm, forced) \in Calling
BY DEF SetCall, Callback, Calling

LEMMA CallingFields ==
  ASSUME NEW c \in Calling
  PROVE  /\ c.timer \in Timer /\ c.call \in {"set", "callback"}
         /\ c.call = "set" => c.expires \in CARD32 /\ c.delta \in CARD32 /\ c.now \in CARD32
         /\ c.call = "callback" => c.rearm \in BOOLEAN /\ c.forced \in BOOLEAN
BY DEF Calling

---------------------------------------------------------------------------
(* What the actions do to the list and the calls.                          *)

LEMMA UnlinkedOK ==
  ASSUME TypeInv, NEW t
  PROVE  /\ Unlinked(t) \in Seq(allocated) /\ Once(Unlinked(t))
         /\ Range(Unlinked(t)) = Range(timers) \ {t}
BY UnlinkedList DEF TypeInv, CallsOK

LEMMA RangeOfTimers ==
  ASSUME TypeInv
  PROVE  /\ Range(timers) \subseteq allocated /\ allocated \subseteq Timer
         /\ \A i \in DOMAIN timers : timers[i] \in Range(timers)
         /\ timers # << >> => Head(timers) = timers[1] /\ 1 \in DOMAIN timers
BY DEF TypeInv, CallsOK, FieldsOK, Range

(* A timer is sorted in, and is called back at once if its time has come.  *)
LEMMA InsertKeeps ==
  ASSUME TypeInv, calls # << >>, NEW t \in allocated,
         NEW e \in CARD32, NEW d \in CARD32, NEW n,
         NEW until \in -MaxLate..CARD32_SIZE,
         NEW us \in Seq(allocated), Once(us), Range(us) = Range(timers) \ {t},
         NEW rest \in Seq(Calling), StackOK(rest, timers, allocated),
         \A i \in DOMAIN rest : ~IsSetOf(rest[i], t),
         Insert(t, e, d, n, until, us, rest),
         UNCHANGED <<allocated, mpc>>
  PROVE  /\ CallsOK'
         /\ expires' \in [Timer -> CARD32] /\ delta' \in [Timer -> CARD32]
         /\ left' \in [Timer -> -MaxLate..CARD32_SIZE]
<1>1. /\ expires' = [expires EXCEPT ![t] = e] /\ delta' = [delta EXCEPT ![t] = d]
      /\ \/ /\ timers' = SortedIn(us, t, e)
            /\ left' = [left EXCEPT ![t] = until]
            /\ calls' = rest
         \/ /\ timers' = us
            /\ left' = [left EXCEPT ![t] = 0]
            /\ calls' = <<Callback(t, TRUE, FALSE)>> \o rest
  BY DEF Insert
<1>2. t \in Timer /\ allocated' = allocated /\ mpc' = mpc
      /\ 0 \in -MaxLate..CARD32_SIZE
  BY Sizes DEF TypeInv, FieldsOK
<1>3. /\ expires' \in [Timer -> CARD32] /\ delta' \in [Timer -> CARD32]
      /\ left' \in [Timer -> -MaxLate..CARD32_SIZE]
  BY <1>1, <1>2 DEF TypeInv, FieldsOK
<1>4. /\ InputTimers \subseteq allocated
      /\ mpc \in {"dispatch", "DoTimers", "CheckAllTimers"}
  BY DEF TypeInv, CallsOK
<1>5. CASE timers' = SortedIn(us, t, e) /\ calls' = rest
  <2>1. /\ timers' \in Seq(allocated) /\ Range(timers') = Range(us) \cup {t}
        /\ Once(timers')
    BY <1>5, SortedInList
  <2>2. Range(timers') \subseteq Range(timers) \cup {t}
    BY <2>1
  <2>3. StackOK(rest, timers', allocated)
    <3>1. \A i \in DOMAIN rest : rest[i].timer \in allocated
      BY DEF StackOK
    <3>2. \A i \in DOMAIN rest : rest[i].call = "set" => rest[i].timer \notin Range(timers')
      BY <2>2 DEF StackOK, IsSetOf
    <3> QED  BY <3>1, <3>2, StackListed
  <2> QED  BY <1>2, <1>3, <1>4, <1>5, <2>1, <2>3 DEF CallsOK
<1>6. CASE timers' = us /\ calls' = <<Callback(t, TRUE, FALSE)>> \o rest
  <2> DEFINE c == Callback(t, TRUE, FALSE)
  <2>1. c \in Calling /\ c.timer = t /\ c.call = "callback"
    BY <1>2, CallingTypes DEF Callback
  <2>2. StackOK(rest, us, allocated)
    <3>1. \A i \in DOMAIN rest : rest[i].timer \in allocated
      BY DEF StackOK
    <3>2. \A i \in DOMAIN rest : rest[i].call = "set" => rest[i].timer \notin Range(us)
      BY DEF StackOK
    <3> QED  BY <3>1, <3>2, StackListed
  <2> HIDE DEF c
  <2>3. StackOK(<<c>> \o rest, us, allocated)
    BY <2>1, <2>2, StackPushed
  <2>4. <<c>> \o rest \in Seq(Calling)
    BY <2>1, Pushed
  <2> QED  BY <1>2, <1>3, <1>4, <1>6, <2>3, <2>4 DEF CallsOK, c
<1> QED  BY <1>1, <1>3, <1>5, <1>6

LEMMA TimerSetKeeps ==
  ASSUME TypeInv, NEW t \in Timer, NEW e \in CARD32, NEW d \in CARD32,
         NEW until \in 0..CARD32_SIZE, NEW force \in BOOLEAN,
         TimerSet(t, e, d, until, force)
  PROVE  CallsOK' /\ FieldsOK'
<1> DEFINE s == SetCall(t, e, d, clock)
           f == Callback(t, FALSE, TRUE)
<1>1. /\ MayCall /\ t \notin InputTimers /\ ~InSet(t)
      /\ allocated' = allocated \cup {t} /\ timers' = Unlinked(t)
      /\ left' = [left EXCEPT ![t] = until]
      /\ calls' = <<s>> \o calls \/ calls' = <<f>> \o (<<s>> \o calls)
      /\ UNCHANGED <<expires, delta, clock, mpc, locals, kicked, spent, rewinds>>
  BY DEF TimerSet
<1>2. FieldsOK'
  <2>1. until \in -MaxLate..CARD32_SIZE
    BY Sizes
  <2> QED  BY <1>1, <2>1 DEF TypeInv, FieldsOK, locals
<1>3. /\ timers' \in Seq(allocated') /\ Once(timers') /\ Range(timers') = Range(timers) \ {t}
  <2>1. Unlinked(t) \in Seq(allocated) /\ Seq(allocated) \subseteq Seq(allocated')
    BY <1>1, UnlinkedOK
  <2> QED  BY <1>1, <2>1, UnlinkedOK
<1>4. /\ s \in Calling /\ s.timer = t /\ s.call = "set"
      /\ f \in Calling /\ f.timer = t /\ f.call = "callback" /\ ~f.rearm
  <2>1. clock \in CARD32
    BY DEF TypeInv, FieldsOK
  <2> QED  BY <2>1, CallingTypes DEF SetCall, Callback
<1> HIDE DEF s, f
<1>5. calls \in Seq(Calling) /\ StackOK(calls, timers, allocated)
      /\ \A i \in DOMAIN calls : ~IsSetOf(calls[i], t)
  <2>1. calls \in Seq(Calling) /\ StackOK(calls, timers, allocated)
    BY DEF TypeInv, CallsOK
  <2>2. DOMAIN calls = 1..Len(calls)
    BY <2>1
  <2> QED  BY <1>1, <2>1, <2>2 DEF InSet, IsSetOf
<1>6. StackOK(calls, timers', allocated')
  <2>1. /\ \A i \in DOMAIN calls : calls[i].timer \in allocated'
        /\ \A i \in DOMAIN calls : calls[i].call = "set" => calls[i].timer \notin Range(timers')
    BY <1>1, <1>3, <1>5 DEF StackOK
  <2> QED  BY <1>5, <2>1, StackListed
<1>7. <<s>> \o calls \in Seq(Calling) /\ StackOK(<<s>> \o calls, timers', allocated')
  <2>1. s.timer \in allocated' /\ s.timer \notin InputTimers \cup Range(timers')
    BY <1>1, <1>3, <1>4
  <2> QED  BY <1>4, <1>5, <1>6, <2>1, StackPushed, Pushed
<1>8. /\ <<f>> \o (<<s>> \o calls) \in Seq(Calling)
      /\ StackOK(<<f>> \o (<<s>> \o calls), timers', allocated')
  <2> DEFINE more == <<s>> \o calls
  <2> HIDE DEF more
  <2>1. f.timer \in allocated'
    BY <1>1, <1>4
  <2>2. more \in Seq(Calling) /\ StackOK(more, timers', allocated')
    BY <1>7 DEF more
  <2>3. <<f>> \o more \in Seq(Calling) /\ StackOK(<<f>> \o more, timers', allocated')
    BY <1>4, <2>1, <2>2, StackPushed, Pushed
  <2> QED  BY <2>3 DEF more
<1>9. InputTimers \subseteq allocated' /\ mpc' \in {"dispatch", "DoTimers", "CheckAllTimers"}
  BY <1>1 DEF TypeInv, CallsOK, MayCall, MainRuns
<1> QED  BY <1>1, <1>2, <1>3, <1>7, <1>8, <1>9 DEF CallsOK

(* A timer is taken out of the list, and called back or not.               *)
LEMMA OutOfList ==
  ASSUME TypeInv, NEW t, timers' = Unlinked(t),
         \A i \in DOMAIN calls : calls[i].timer \in allocated',
         Range(timers) \ {t} \subseteq allocated'
  PROVE  /\ timers' \in Seq(allocated') /\ Once(timers')
         /\ calls \in Seq(Calling) /\ StackOK(calls, timers', allocated')
<1>1. /\ timers' \in Seq(allocated) /\ Once(timers') /\ Range(timers') = Range(timers) \ {t}
  BY UnlinkedOK
<1>2. timers' \in Seq(allocated')
  <2>1. \A i \in DOMAIN timers' : timers'[i] \in allocated'
    BY <1>1 DEF Range
  <2>2. Len(timers') \in Nat /\ timers' = [i \in 1..Len(timers') |-> timers'[i]]
        /\ DOMAIN timers' = 1..Len(timers')
    BY <1>1
  <2> QED  BY <2>1, <2>2, IsASeq
<1>3. calls \in Seq(Calling) /\ StackOK(calls, timers, allocated)
  BY DEF TypeInv, CallsOK
<1>4. \A i \in DOMAIN calls : calls[i].call = "set" => calls[i].timer \notin Range(timers')
  BY <1>1, <1>3 DEF StackOK
<1>5. StackOK(calls, timers', allocated')
  BY <1>3, <1>4, StackListed
<1> QED  BY <1>1, <1>2, <1>3, <1>5

LEMMA CalledBack ==
  ASSUME TypeInv, NEW t \in Range(timers), NEW forced \in BOOLEAN,
         timers' = Unlinked(t), allocated' = allocated,
         calls' = <<Callback(t, TRUE, forced)>> \o calls,
         mpc' \in {"dispatch", "DoTimers", "CheckAllTimers"}
  PROVE  CallsOK'
<1> DEFINE c == Callback(t, TRUE, forced)
<1>1. t \in allocated /\ t \in Timer /\ Range(timers) \subseteq allocated
  BY RangeOfTimers
<1>2. c \in Calling /\ c.timer = t /\ c.call = "callback"
  BY <1>1, CallingTypes DEF Callback
<1>3. StackOK(calls, timers, allocated) /\ InputTimers \subseteq allocated
  BY DEF TypeInv, CallsOK
<1>4. /\ timers' \in Seq(allocated) /\ Once(timers')
      /\ calls \in Seq(Calling) /\ StackOK(calls, timers', allocated)
  <2>1. \A i \in DOMAIN calls : calls[i].timer \in allocated
    BY <1>3 DEF StackOK
  <2> QED  BY <1>1, <2>1, OutOfList
<1>5. \A i \in DOMAIN calls : ~IsSetOf(calls[i], t)
  BY <1>3 DEF StackOK, IsSetOf
<1> HIDE DEF c
<1>6. <<c>> \o calls \in Seq(Calling) /\ StackOK(<<c>> \o calls, timers', allocated)
  BY <1>1, <1>2, <1>4, <1>5, StackPushed, Pushed
<1> QED  BY <1>3, <1>4, <1>6 DEF CallsOK, c

LEMMA TimeTypes ==
  ASSUME TypeInv
  PROVE  /\ \A m \in Delays : m \in CARD32 /\ m \in 0..CARD32_SIZE /\ Unsigned(clock + m) \in CARD32
         /\ \A o \in Offsets : /\ Unsigned(o) \in CARD32 /\ o \in 0..CARD32_SIZE
                               /\ Unsigned(clock + o) \in CARD32
         /\ Unsigned(clock + 1) \in CARD32
         /\ \A r \in Rewinds : Unsigned(clock - r) \in CARD32
<1>1. clock \in Int /\ CARD32_SIZE \in Nat \ {0} /\ Rewinds \subseteq Nat
  BY Sizes, TimerAssumption DEF TypeInv, FieldsOK, CARD32
<1>2. Delays \subseteq CARD32 /\ Offsets \subseteq CARD32
  BY Sizes
<1>3. \A x \in CARD32 : x \in 0..CARD32_SIZE /\ x \in Int
  BY <1>1 DEF CARD32
<1>4. \A x \in Int : Unsigned(x) \in CARD32
  BY UnsignedType
<1> QED  BY <1>1, <1>2, <1>3, <1>4

LEMMA CallbackReturnsKeeps ==
  ASSUME TypeInv, NEW m \in Delays \cup {0}, CallbackReturns(m)
  PROVE  CallsOK' /\ FieldsOK'
<1> DEFINE c == Head(calls)
           t == c.timer
           rest == Tail(calls)
<1>1. /\ calls # << >> /\ c.call = "callback"
      /\ UNCHANGED <<clock, mpc, locals, kicked, spent, rewinds>>
      /\ \/ /\ c.rearm /\ m # 0
            /\ Insert(t, Unsigned(clock + m), m, clock, m, Unlinked(t), rest)
            /\ UNCHANGED allocated
         \/ calls' = rest /\ UNCHANGED <<list, left>>
  BY DEF CallbackReturns
<1>2. calls \in Seq(Calling) /\ StackOK(calls, timers, allocated)
  BY DEF TypeInv, CallsOK
<1>3. /\ rest \in Seq(Calling) /\ StackOK(rest, timers, allocated) /\ t \in allocated
      /\ c.rearm => \A i \in DOMAIN rest : ~IsSetOf(rest[i], t)
  BY <1>1, <1>2, Popped, StackPopped
<1> HIDE DEF c, rest
<1>4. CASE /\ c.rearm /\ m # 0
           /\ Insert(t, Unsigned(clock + m), m, clock, m, Unlinked(t), rest)
           /\ UNCHANGED allocated
  <2>1. m \in CARD32 /\ m \in -MaxLate..CARD32_SIZE /\ Unsigned(clock + m) \in CARD32
    <3>1. m \in Delays
      BY <1>4
    <3>2. m \in CARD32 /\ m \in 0..CARD32_SIZE /\ Unsigned(clock + m) \in CARD32
      BY <3>1, TimeTypes
    <3> QED  BY <3>2, Sizes
  <2>2. /\ Unlinked(t) \in Seq(allocated) /\ Once(Unlinked(t))
        /\ Range(Unlinked(t)) = Range(timers) \ {t}
    BY UnlinkedOK
  <2>3. UNCHANGED <<allocated, mpc>>
    BY <1>1, <1>4
  <2> HIDE DEF t
  <2>4. /\ CallsOK'
        /\ expires' \in [Timer -> CARD32] /\ delta' \in [Timer -> CARD32]
        /\ left' \in [Timer -> -MaxLate..CARD32_SIZE]
    BY <1>1, <1>3, <1>4, <2>1, <2>2, <2>3, InsertKeeps
  <2> QED  BY <1>1, <1>4, <2>4 DEF TypeInv, FieldsOK, locals
<1>5. CASE calls' = rest /\ UNCHANGED <<list, left>>
  <2>1. FieldsOK'
    BY <1>1, <1>5 DEF TypeInv, FieldsOK, locals, list
  <2>2. CallsOK'
    BY <1>1, <1>3, <1>5 DEF TypeInv, CallsOK, list
  <2> QED  BY <2>1, <2>2
<1> QED  BY <1>1, <1>4, <1>5

LEMMA TimerSetInsertsKeeps ==
  ASSUME TypeInv, TimerSetInserts
  PROVE  CallsOK' /\ FieldsOK'
<1> DEFINE c == Head(calls)
           t == c.timer
           rest == Tail(calls)
<1>1. /\ calls # << >> /\ c.call = "set"
      /\ UNCHANGED <<allocated, clock, mpc, locals, kicked, spent, rewinds>>
      /\ Insert(t, c.expires, c.delta, c.now, left[t], timers, rest)
  BY DEF TimerSetInserts
<1>2. /\ calls \in Seq(Calling) /\ StackOK(calls, timers, allocated)
      /\ timers \in Seq(allocated) /\ Once(timers)
  BY DEF TypeInv, CallsOK
<1>3. /\ rest \in Seq(Calling) /\ StackOK(rest, timers, allocated) /\ t \in allocated
      /\ t \notin Range(timers) /\ c \in Calling
      /\ \A i \in DOMAIN rest : ~IsSetOf(rest[i], t)
  BY <1>1, <1>2, Popped, StackPopped
<1> HIDE DEF c, rest
<1>4. c.expires \in CARD32 /\ c.delta \in CARD32
  BY <1>1, <1>3, CallingFields
<1>5. t \in Timer /\ left[t] \in -MaxLate..CARD32_SIZE
  BY <1>3 DEF TypeInv, FieldsOK
<1>6. Range(timers) = Range(timers) \ {t}
  BY <1>3
<1> HIDE DEF t
<1> DEFINE until == left[t]
           n == c.now
           e == c.expires
           d == c.delta
<1>7. Insert(t, e, d, n, until, timers, rest) /\ until \in -MaxLate..CARD32_SIZE
      /\ e \in CARD32 /\ d \in CARD32 /\ UNCHANGED <<allocated, mpc>>
  BY <1>1, <1>4, <1>5
<1> HIDE DEF until, n, e, d
<1>8. /\ CallsOK'
      /\ expires' \in [Timer -> CARD32] /\ delta' \in [Timer -> CARD32]
      /\ left' \in [Timer -> -MaxLate..CARD32_SIZE]
  BY <1>1, <1>2, <1>3, <1>6, <1>7, InsertKeeps
<1> QED  BY <1>1, <1>8 DEF TypeInv, FieldsOK, locals

(* The calls that only take a timer out of the list.                       *)
LEMMA StopsKeep ==
  ASSUME TypeInv, NEW t \in Timer, TimerSetZero(t) \/ TimerCancel(t) \/ TimerFree(t)
  PROVE  CallsOK' /\ FieldsOK'
<1>1. /\ timers' = Unlinked(t) /\ left' = [left EXCEPT ![t] = 0] /\ MayCall
      /\ \/ allocated' = allocated \cup {t}
         \/ allocated' = allocated
         \/ allocated' = allocated \ {t} /\ ~InCall(t) /\ t \notin InputTimers
      /\ UNCHANGED <<expires, delta, clock, mpc, calls, locals, kicked, spent, rewinds>>
  BY DEF TimerSetZero, TimerCancel, TimerFree
<1>2. FieldsOK'
  <2>1. 0 \in -MaxLate..CARD32_SIZE
    BY Sizes
  <2>2. allocated' \subseteq Timer
    BY <1>1 DEF TypeInv, FieldsOK
  <2>3. left' \in [Timer -> -MaxLate..CARD32_SIZE]
    BY <1>1, <2>1 DEF TypeInv, FieldsOK
  <2> QED  BY <1>1, <2>2, <2>3 DEF TypeInv, FieldsOK, locals
<1>3. InputTimers \subseteq allocated'
  BY <1>1 DEF TypeInv, CallsOK
<1>4. \A i \in DOMAIN calls : calls[i].timer \in allocated'
  <2>1. \A i \in DOMAIN calls : calls[i].timer \in allocated
    BY DEF TypeInv, CallsOK, StackOK
  <2>2. DOMAIN calls = 1..Len(calls)
    BY DEF TypeInv, CallsOK
  <2> QED  BY <1>1, <2>1, <2>2 DEF InCall
<1>5. Range(timers) \ {t} \subseteq allocated'
  BY <1>1, RangeOfTimers
<1>6. /\ timers' \in Seq(allocated') /\ Once(timers')
      /\ calls \in Seq(Calling) /\ StackOK(calls, timers', allocated')
  BY <1>1, <1>4, <1>5, OutOfList
<1>7. mpc' = mpc /\ calls' = calls
  BY <1>1
<1> QED  BY <1>2, <1>3, <1>6, <1>7 DEF TypeInv, CallsOK

LEMMA TimerForceKeeps ==
  ASSUME TypeInv, NEW t \in Timer, TimerForce(t)
  PROVE  CallsOK' /\ FieldsOK'
<1>1. /\ timers' = Unlinked(t) /\ left' = [left EXCEPT ![t] = 0] /\ MayCall
      /\ t \in Range(timers)
      /\ calls' = <<Callback(t, TRUE, TRUE)>> \o calls
      /\ UNCHANGED <<allocated, expires, delta, clock, mpc, locals, kicked, spent, rewinds>>
  BY DEF TimerForce, Pending
<1>2. FieldsOK'
  <2>1. 0 \in -MaxLate..CARD32_SIZE
    BY Sizes
  <2>2. left' \in [Timer -> -MaxLate..CARD32_SIZE]
    BY <1>1, <2>1 DEF TypeInv, FieldsOK
  <2> QED  BY <1>1, <2>2 DEF TypeInv, FieldsOK, locals
<1>3. mpc' \in {"dispatch", "DoTimers", "CheckAllTimers"}
  BY <1>1 DEF TypeInv, CallsOK, MayCall, MainRuns
<1> QED  BY <1>1, <1>2, <1>3, CalledBack

(* DoTimers and CheckAllTimers.                                            *)
LEMMA LoopsOfTimers ==
  ASSUME TypeInv, DoTimers \/ CheckAllTimers
  PROVE  (\E t \in Range(timers) : DoTimer(t)) \/ LoopEnds
<1>1. CASE DoTimers
  BY <1>1, RangeOfTimers DEF DoTimers, FirstIsDue
<1>2. CASE CheckAllTimers
  <2> DEFINE hits == {i \in 1..Len(timers) : Rewound(timers[i])}
  <2>1. CASE hits # {} /\ DoTimer(timers[CHOOSE i \in hits : \A j \in hits : i <= j])
    <3>1. hits \in SUBSET Nat /\ hits \subseteq DOMAIN timers
      BY DEF TypeInv, CallsOK
    <3> DEFINE i == CHOOSE k \in hits : \A j \in hits : k <= j
    <3>2. i \in hits
      <4> HIDE DEF hits
      <4>1. \E k \in hits : \A j \in hits : k <= j
        BY <2>1, <3>1, LeastExists
      <4> QED  BY <4>1
    <3> HIDE DEF i
    <3>3. timers[i] \in Range(timers)
      BY <3>1, <3>2, RangeOfTimers
    <3> QED  BY <1>2, <2>1, <3>3 DEF CheckAllTimers, i
  <2>2. CASE hits = {} /\ LoopEnds
    BY <1>2, <2>2 DEF CheckAllTimers
  <2> QED  BY <1>2, <2>1, <2>2 DEF CheckAllTimers
<1> QED  BY <1>1, <1>2

LEMMA LoopsKeep ==
  ASSUME TypeInv, DoTimers \/ CheckAllTimers
  PROVE  CallsOK' /\ FieldsOK'
<1>1. /\ calls = << >> /\ mpc \in {"DoTimers", "CheckAllTimers"}
      /\ (\E t \in Range(timers) : DoTimer(t)) \/ LoopEnds
      /\ UNCHANGED <<allocated, expires, delta, clock, seen, kicked, spent, rewinds>>
  BY LoopsOfTimers DEF DoTimers, CheckAllTimers
<1>2. CASE LoopEnds
  <2>1. 0 \in CARD32 /\ 0 \in -CARD32_SIZE..CARD32_SIZE
    BY Sizes DEF CARD32
  <2>2. CallsOK'
    BY <1>1, <1>2 DEF LoopEnds, TypeInv, CallsOK
  <2> QED  BY <1>1, <1>2, <2>1, <2>2 DEF LoopEnds, TypeInv, FieldsOK
<1>3. ASSUME NEW t \in Range(timers), DoTimer(t) PROVE CallsOK' /\ FieldsOK'
  <2>1. /\ timers' = Unlinked(t) /\ left' = [left EXCEPT ![t] = 0]
        /\ calls' = <<Callback(t, TRUE, FALSE)>> /\ UNCHANGED <<mpc, timeout, now>>
    BY <1>3 DEF DoTimer
  <2>2. t \in Timer /\ 0 \in -MaxLate..CARD32_SIZE
    BY RangeOfTimers, Sizes
  <2>3. left' \in [Timer -> -MaxLate..CARD32_SIZE]
    BY <2>1, <2>2 DEF TypeInv, FieldsOK
  <2>4. FieldsOK'
    BY <1>1, <2>1, <2>3 DEF TypeInv, FieldsOK
  <2>5. calls' = <<Callback(t, TRUE, FALSE)>> \o calls
    BY <1>1, <2>1
  <2> QED  BY <1>1, <2>1, <2>4, <2>5, CalledBack
<1> QED  BY <1>1, <1>2, <1>3

(* What WaitForSomething does besides.                                     *)
LEMMA WaitsKeep ==
  ASSUME TypeInv, Dispatched \/ CheckTimers \/ CheckSane \/ PollReturns \/ PollReturnsClient
  PROVE  CallsOK' /\ FieldsOK'
<1>1. /\ UNCHANGED <<list, clock, calls, left, rewinds>>
      /\ calls = << >>
      /\ mpc' \in {"dispatch", "check", "sane", "DoTimers", "CheckAllTimers", "poll"}
  <2>1. mpc \in {"check", "sane", "poll"} => calls = << >>
    BY DEF TypeInv, CallsOK
  <2> QED  BY <2>1 DEF Dispatched, CheckTimers, CheckSane, PollReturns, PollReturnsClient,
             observed
<1>2. CallsOK'
  BY <1>1 DEF TypeInv, CallsOK, list
<1>3. seen' \in Timer \cup {NoTimer} /\ now' \in CARD32 /\ kicked' \in BOOLEAN
      /\ spent' \in 0..MaxLate
  <2>1. timers # << >> => Head(timers) \in Timer
    BY RangeOfTimers
  <2>2. /\ seen \in Timer \cup {NoTimer} /\ now \in CARD32 /\ clock \in CARD32
        /\ kicked \in BOOLEAN /\ spent \in 0..MaxLate /\ 0 \in 0..MaxLate
    BY Sizes DEF TypeInv, FieldsOK
  <2>3. CASE Dispatched
    BY <2>2, <2>3 DEF Dispatched, observed, locals
  <2>4. CASE CheckTimers
    BY <2>1, <2>2, <2>4 DEF CheckTimers, observed
  <2>5. CASE CheckSane
    BY <2>2, <2>5 DEF CheckSane, observed
  <2>6. CASE PollReturns
    BY <2>2, <2>6 DEF PollReturns
  <2>7. CASE PollReturnsClient
    BY <2>2, <2>7 DEF PollReturnsClient
  <2> QED  BY <2>3, <2>4, <2>5, <2>6, <2>7
<1>4. timeout' \in -CARD32_SIZE..CARD32_SIZE
  <2>1. CASE CheckTimers /\ timers # << >>
    <3>1. timeout' = Signed(expires[Head(timers)] - clock)
      BY <2>1 DEF CheckTimers
    <3>2. expires[Head(timers)] \in CARD32 /\ clock \in CARD32
      BY <2>1, RangeOfTimers DEF TypeInv, FieldsOK
    <3>3. expires[Head(timers)] - clock \in Int /\ CARD32_SIZE \in Nat
      BY <3>2, Sizes DEF CARD32
    <3> HIDE DEF TypeInv
    <3>4. Signed(expires[Head(timers)] - clock) \in -CARD32_SIZE..CARD32_SIZE
      <4> DEFINE x == expires[Head(timers)] - clock
      <4> HIDE DEF x
      <4>1. x \in Int
        BY <3>3 DEF x
      <4>2. Signed(x) \in -CARD32_SIZE..CARD32_SIZE
        BY <3>3, <4>1, SignedType
      <4> QED  BY <4>2 DEF x
    <3> QED  BY <3>1, <3>4
  <2>2. 0 \in -CARD32_SIZE..CARD32_SIZE /\ -1 \in -CARD32_SIZE..CARD32_SIZE
        /\ timeout \in -CARD32_SIZE..CARD32_SIZE
    BY Sizes DEF TypeInv, FieldsOK
  <2> QED  BY <2>1, <2>2 DEF Dispatched, CheckTimers, CheckSane, PollReturns, PollReturnsClient,
             locals
<1> QED  BY <1>1, <1>2, <1>3, <1>4 DEF TypeInv, FieldsOK, list

LEMMA InputTimerSetKeeps ==
  ASSUME TypeInv, NEW t \in InputTimers, NEW m \in Delays, InputTimerSet(t, m)
  PROVE  CallsOK' /\ FieldsOK'
<1>1. /\ timers' = SortedIn(Unlinked(t), t, Unsigned(clock + m))
      /\ expires' = [expires EXCEPT ![t] = Unsigned(clock + m)]
      /\ delta' = [delta EXCEPT ![t] = m]
      /\ left' = [left EXCEPT ![t] = m]
      /\ kicked' = TRUE
      /\ UNCHANGED <<allocated, clock, mpc, calls, locals, spent, rewinds>>
  BY DEF InputTimerSet
<1>2. t \in allocated /\ t \in Timer
  BY DEF TypeInv, CallsOK, FieldsOK
<1>3. m \in CARD32 /\ m \in -MaxLate..CARD32_SIZE /\ Unsigned(clock + m) \in CARD32
  <2>1. m \in CARD32 /\ m \in 0..CARD32_SIZE /\ Unsigned(clock + m) \in CARD32
    BY TimeTypes
  <2> QED  BY <2>1, Sizes
<1>4. FieldsOK'
  <2>1. /\ expires' \in [Timer -> CARD32] /\ delta' \in [Timer -> CARD32]
        /\ left' \in [Timer -> -MaxLate..CARD32_SIZE]
    BY <1>1, <1>2, <1>3 DEF TypeInv, FieldsOK
  <2> QED  BY <1>1, <2>1 DEF TypeInv, FieldsOK, locals
<1>5. /\ Unlinked(t) \in Seq(allocated) /\ Once(Unlinked(t))
      /\ Range(Unlinked(t)) = Range(timers) \ {t}
  BY UnlinkedOK
<1>6. timers' \in Seq(allocated) /\ Once(timers') /\ Range(timers') = Range(timers) \cup {t}
  <2> DEFINE us == Unlinked(t)
  <2> HIDE DEF us
  <2>1. timers' = SortedIn(us, t, Unsigned(clock + m)) /\ us \in Seq(allocated)
        /\ Once(us) /\ t \notin Range(us) /\ Range(us) = Range(timers) \ {t}
    BY <1>1, <1>5 DEF us
  <2>2. /\ timers' \in Seq(allocated) /\ Range(timers') = Range(us) \cup {t}
        /\ Once(timers')
    BY <1>2, <2>1, SortedInList
  <2> QED  BY <2>1, <2>2
<1>7. StackOK(calls, timers', allocated)
  <2>1. StackOK(calls, timers, allocated)
    BY DEF TypeInv, CallsOK
  <2>2. \A i \in DOMAIN calls : calls[i].timer \in allocated
    BY <2>1 DEF StackOK
  <2>3. \A i \in DOMAIN calls : calls[i].call = "set" => calls[i].timer \notin Range(timers')
    BY <1>6, <2>1 DEF StackOK
  <2> QED  BY <2>1, <2>2, <2>3, StackListed
<1> QED  BY <1>1, <1>4, <1>6, <1>7 DEF TypeInv, CallsOK

LEMMA ClockKeeps ==
  ASSUME TypeInv, Tick \/ (\E r \in Rewinds : ClockRewinds(r)) \/ UNCHANGED vars
  PROVE  CallsOK' /\ FieldsOK'
<1>1. UNCHANGED <<list, mpc, calls, seen, now, kicked>>
  BY DEF Tick, ClockRewinds, vars, locals
<1>2. CallsOK'
  BY <1>1 DEF TypeInv, CallsOK, list
<1>3. CASE Tick
  <2>1. clock' \in CARD32
    BY <1>3, TimeTypes DEF Tick
  <2>2. left' \in [Timer -> -MaxLate..CARD32_SIZE]
    <3>1. \A t \in Timer : left[t] \in -MaxLate..CARD32_SIZE
      BY DEF TypeInv, FieldsOK
    <3>2. \A t \in Timer : Counted(t) => left[t] - 1 \in -MaxLate..CARD32_SIZE
      BY <1>3, <3>1, Sizes DEF Tick
    <3>3. \A t \in Timer :
            (IF Counted(t) THEN left[t] - 1 ELSE left[t]) \in -MaxLate..CARD32_SIZE
      BY <3>1, <3>2
    <3> QED  BY <1>3, <3>3 DEF Tick
  <2>3. timeout' \in -CARD32_SIZE..CARD32_SIZE /\ spent' \in 0..MaxLate
    BY <1>3, Sizes DEF Tick, TypeInv, FieldsOK
  <2>4. rewinds' = rewinds
    BY <1>3 DEF Tick
  <2> QED  BY <1>1, <1>2, <2>1, <2>2, <2>3, <2>4 DEF TypeInv, FieldsOK, list
<1>4. CASE \E r \in Rewinds : ClockRewinds(r)
  <2>1. clock' \in CARD32 /\ rewinds' \in 0..MaxRewinds /\ UNCHANGED <<timeout, left, spent>>
    BY <1>4, TimeTypes, Sizes DEF ClockRewinds, locals, TypeInv, FieldsOK
  <2> QED  BY <1>1, <1>2, <2>1 DEF TypeInv, FieldsOK, list
<1>5. CASE UNCHANGED vars
  BY <1>2, <1>5 DEF TypeInv, FieldsOK, vars, list, locals, observed
<1> QED  BY <1>3, <1>4, <1>5

(* The steps, one by one.                                                  *)
LEMMA StepCases ==
  ASSUME [Next]_vars
  PROVE  \/ TimerSetInserts
         \/ \E m \in Delays \cup {0} : CallbackReturns(m)
         \/ DoTimers \/ CheckAllTimers
         \/ Dispatched \/ CheckTimers \/ CheckSane \/ PollReturns \/ PollReturnsClient
         \/ \E t \in Timer, force \in BOOLEAN, m \in Delays : TimerSetRelative(t, m, force)
         \/ \E t \in Timer, force \in BOOLEAN, o \in Offsets : TimerSetAbsolute(t, o, force)
         \/ \E t \in Timer : TimerSetZero(t) \/ TimerCancel(t) \/ TimerFree(t)
         \/ \E t \in Timer : TimerForce(t)
         \/ \E t \in InputTimers, m \in Delays : InputTimerSet(t, m)
         \/ Tick \/ (\E r \in Rewinds : ClockRewinds(r)) \/ UNCHANGED vars
BY DEF Next, MainStep, Calls

LEMMA TypeStep == TypeInv /\ [Next]_vars => TypeInv'
<1> SUFFICES ASSUME TypeInv, [Next]_vars PROVE CallsOK' /\ FieldsOK'
  BY DEF TypeInv
<1>1. ASSUME NEW t \in Timer, NEW force \in BOOLEAN, NEW m \in Delays,
             TimerSetRelative(t, m, force)
      PROVE  CallsOK' /\ FieldsOK'
  <2>1. m \in CARD32 /\ m \in 0..CARD32_SIZE /\ Unsigned(clock + m) \in CARD32
    BY TimeTypes
  <2> QED  BY <1>1, <2>1, TimerSetKeeps DEF TimerSetRelative
<1>2. ASSUME NEW t \in Timer, NEW force \in BOOLEAN, NEW o \in Offsets,
             TimerSetAbsolute(t, o, force)
      PROVE  CallsOK' /\ FieldsOK'
  <2>1. Unsigned(o) \in CARD32 /\ o \in 0..CARD32_SIZE /\ Unsigned(clock + o) \in CARD32
    BY TimeTypes
  <2> QED  BY <1>2, <2>1, TimerSetKeeps DEF TimerSetAbsolute
<1> QED  BY <1>1, <1>2, StepCases, CallbackReturnsKeeps, TimerSetInsertsKeeps, StopsKeep,
            TimerForceKeeps, LoopsKeep, WaitsKeep, InputTimerSetKeeps, ClockKeeps

LEMMA TypeInit == Init => TypeInv
<1> SUFFICES ASSUME Init PROVE CallsOK /\ FieldsOK
  BY DEF TypeInv
<1>1. timers = << >> /\ calls = << >> /\ allocated = InputTimers
  BY DEF Init
<1>2. CallsOK
  <2>1. timers \in Seq(allocated) /\ calls \in Seq(Calling)
        /\ DOMAIN timers = {} /\ DOMAIN calls = {}
    BY <1>1
  <2> QED  BY <1>1, <2>1 DEF CallsOK, Once, StackOK
<1>3. FieldsOK
  <2>1. 0 \in CARD32 /\ 0 \in -MaxLate..CARD32_SIZE /\ 0 \in -CARD32_SIZE..CARD32_SIZE
        /\ 0 \in 0..MaxLate /\ 0 \in 0..MaxRewinds
    BY Sizes DEF CARD32
  <2> QED  BY <2>1, Sizes DEF Init, FieldsOK
<1> QED  BY <1>2, <1>3

LEMMA TypeInvHolds == Spec => []TypeInv
BY TypeInit, TypeStep, PTL DEF Spec

(* include/list.h and TimerFree: no timer is in the list twice, which      *)
(* would make the loops over it endless, or after it is freed, whatever    *)
(* the callbacks do while TimerSet has given the lock up.                  *)
THEOREM ListIsSound == Spec => []TypeOK
BY TypeInvHolds, TypeInvType, PTL

---------------------------------------------------------------------------
(* The timeout is sane.                                                    *)

LEMMA UnsignedBound ==
  ASSUME NEW x \in Nat
  PROVE  Unsigned(x) <= x
<1> DEFINE n == CARD32_SIZE
           q == x \div n
<1>1. n \in Nat \ {0}
  BY Sizes
<1> HIDE DEF n
<1>2. x = n * q + (x % n) /\ q \in Int /\ x % n \in 0..(n - 1)
  BY <1>1
<1>3. q >= 0
  BY <1>1
<1>4. n * q >= 0
  <2> HIDE DEF q
  <2> QED  BY <1>1, <1>2, <1>3
<1> QED  BY <1>1, <1>2, <1>4 DEF Unsigned, n

(* The main thread makes calls only while it does not wait.                *)
LEMMA CallsDoNotWait ==
  ASSUME TypeInv,
         \/ TimerSetInserts
         \/ \E m \in Delays \cup {0} : CallbackReturns(m)
         \/ \E t \in Timer, force \in BOOLEAN, m \in Delays : TimerSetRelative(t, m, force)
         \/ \E t \in Timer, force \in BOOLEAN, o \in Offsets : TimerSetAbsolute(t, o, force)
         \/ \E t \in Timer : TimerSetZero(t) \/ TimerCancel(t) \/ TimerFree(t)
         \/ \E t \in Timer : TimerForce(t)
  PROVE  /\ mpc' = mpc /\ mpc \in {"dispatch", "DoTimers", "CheckAllTimers"}
         /\ UNCHANGED <<clock, locals, kicked, spent, rewinds>>
<1>1. calls # << >> => mpc \in {"dispatch", "DoTimers", "CheckAllTimers"}
  BY DEF TypeInv, CallsOK
<1>2. MayCall => mpc \in {"dispatch", "DoTimers", "CheckAllTimers"}
  BY <1>1 DEF MayCall, MainRuns
<1>3. CASE TimerSetInserts \/ \E m \in Delays \cup {0} : CallbackReturns(m)
  BY <1>1, <1>3 DEF TimerSetInserts, CallbackReturns
<1>4. CASE \/ \E t \in Timer, force \in BOOLEAN, m \in Delays : TimerSetRelative(t, m, force)
           \/ \E t \in Timer, force \in BOOLEAN, o \in Offsets : TimerSetAbsolute(t, o, force)
  BY <1>2, <1>4 DEF TimerSetRelative, TimerSetAbsolute, TimerSet
<1>5. CASE \E t \in Timer : TimerSetZero(t) \/ TimerCancel(t) \/ TimerFree(t)
  BY <1>2, <1>5 DEF TimerSetZero, TimerCancel, TimerFree
<1>6. CASE \E t \in Timer : TimerForce(t)
  BY <1>2, <1>6 DEF TimerForce
<1> QED  BY <1>3, <1>4, <1>5, <1>6

LEMMA SaneStep == TypeInv /\ SaneInv /\ [Next]_vars => SaneInv'
<1> SUFFICES ASSUME TypeInv, SaneInv, [Next]_vars PROVE SaneInv'
  OBVIOUS
<1>1. TypeInv'
  BY TypeStep
<1>2. CASE mpc' \notin {"sane", "poll"}
  BY <1>2 DEF SaneInv, PollIsSane
<1>3. CASE LoopEnds /\ (DoTimers \/ CheckAllTimers)
  <2>1. timers' # << >> => delta'[Head(timers')] \in CARD32
    <3>1. timers' # << >> => Head(timers') \in Timer
      BY <1>1, RangeOfTimers DEF TypeInv, CallsOK, FieldsOK
    <3> QED  BY <1>1, <3>1 DEF TypeInv, FieldsOK
  <2>2. timers' # << >> => 0 <= delta'[Head(timers')] + SLACK
    BY <2>1, Sizes DEF CARD32
  <2> QED  BY <1>3, <2>2 DEF LoopEnds, SaneInv, PollIsSane
<1>4. CASE CheckTimers
  <2>1. CASE timers = << >>
    BY <1>4, <2>1 DEF CheckTimers, SaneInv, PollIsSane, list
  <2>2. CASE timers # << >>
    BY <1>4, <2>2 DEF CheckTimers, SaneInv, PollIsSane, list
  <2> QED  BY <2>1, <2>2
<1>5. CASE CheckSane
  <2> SUFFICES ASSUME mpc' = "poll", ~kicked' PROVE timeout <= delta[Head(timers)] + SLACK
    BY <1>5 DEF CheckSane, SaneInv, PollIsSane, list
  <2>1. ~kicked /\ mpc = "sane" /\ timeout < Unsigned(delta[seen] + SLACK)
    BY <1>5 DEF CheckSane
  <2>2. timers # << >> /\ seen = Head(timers)
    BY <2>1 DEF SaneInv
  <2>3. seen \in Timer
    BY <2>2, RangeOfTimers
  <2>4. delta[seen] + SLACK \in Nat /\ timeout \in Int
    BY <2>3, Sizes DEF TypeInv, FieldsOK, CARD32
  <2>5. Unsigned(delta[seen] + SLACK) <= delta[seen] + SLACK
        /\ Unsigned(delta[seen] + SLACK) \in Int
    <3> DEFINE x == delta[seen] + SLACK
    <3> HIDE DEF x
    <3>1. x \in Nat /\ x \in Int
      BY <2>4 DEF x
    <3>2. Unsigned(x) <= x /\ Unsigned(x) \in Int
      BY <3>1, UnsignedBound, UnsignedType DEF CARD32
    <3> QED  BY <3>2 DEF x
  <2> QED  BY <2>1, <2>2, <2>4, <2>5
<1>6. CASE Tick \/ \E r \in Rewinds : ClockRewinds(r)
  <2>1. UNCHANGED <<timers, delta, mpc, seen, kicked>>
    BY <1>6 DEF Tick, ClockRewinds, list, locals
  <2>2. timeout' <= timeout /\ timeout \in Int /\ timeout' \in Int
    BY <1>6 DEF Tick, ClockRewinds, locals, TypeInv, FieldsOK
  <2>3. timers # << >> => delta[Head(timers)] \in Int /\ SLACK \in Int
    BY RangeOfTimers, Sizes DEF TypeInv, FieldsOK, CARD32
  <2> QED  BY <2>1, <2>2, <2>3 DEF SaneInv, PollIsSane
<1>7. CASE \E t \in InputTimers, m \in Delays : InputTimerSet(t, m)
  BY <1>7 DEF InputTimerSet, SaneInv, PollIsSane
<1>8. CASE Dispatched \/ PollReturns \/ PollReturnsClient
  BY <1>2, <1>8 DEF Dispatched, PollReturns, PollReturnsClient
<1>9. CASE (DoTimers \/ CheckAllTimers) /\ ~LoopEnds
  <2>1. mpc' = mpc /\ mpc \in {"DoTimers", "CheckAllTimers"}
    BY <1>9 DEF DoTimers, CheckAllTimers, DoTimer
  <2> QED  BY <1>2, <2>1
<1>10. CASE UNCHANGED vars
  BY <1>10 DEF vars, list, locals, SaneInv, PollIsSane
<1> QED  BY <1>2, <1>3, <1>4, <1>5, <1>6, <1>7, <1>8, <1>9, <1>10, StepCases, CallsDoNotWait

(* check_timers, "Make sure the timeout is sane": also with a clock that   *)
(* is set back, and while the input thread sets timers between the look at *)
(* the first timer and the comparison with its delta, the main thread      *)
(* sleeps no longer than the delta of the first timer and the slack.       *)
THEOREM PollIsAlwaysSane == Spec => []PollIsSane
<1>1. Init => SaneInv
  BY DEF Init, SaneInv, PollIsSane
<1>2. SaneInv => PollIsSane
  BY DEF SaneInv
<1> QED  BY <1>1, <1>2, SaneStep, TypeInvHolds, PTL DEF Spec

---------------------------------------------------------------------------
(* Real time                                                               *)

LEMMA ShortFacts ==
  ASSUME NEW d, Short(d), NEW x \in Int, -MaxLate <= x, x <= d
  PROVE  /\ d \in Nat /\ MaxLate \in Nat /\ CARD32_SIZE \in Nat \ {0}
         /\ -CARD32_SIZE < 2 * x /\ 2 * x < CARD32_SIZE
         /\ 2 * (x + MaxLate) < CARD32_SIZE /\ x + SLACK < CARD32_SIZE
BY Sizes DEF Short

LEMMA ClockType ==
  ASSUME TypeInv
  PROVE  /\ clock \in CARD32 /\ clock \in Int /\ 0 <= clock /\ clock < CARD32_SIZE
         /\ now \in CARD32 /\ now \in Int /\ 0 <= now /\ now < CARD32_SIZE
         /\ \A t \in Timer : left[t] \in Int
         /\ left \in [Timer -> -MaxLate..CARD32_SIZE]
         /\ expires \in [Timer -> CARD32] /\ delta \in [Timer -> CARD32]
         /\ timeout \in Int /\ spent \in Int /\ spent >= 0
BY Sizes DEF TypeInv, FieldsOK, CARD32

(* The signed difference of when two timers expire is what is left of the  *)
(* one less what is left of the other.                                     *)
LEMMA LeftDifference ==
  ASSUME TypeInv, NEW x \in Int, NEW y \in Int, NEW d, NEW f, Short(d), Short(f),
         -MaxLate <= x, x <= d, -MaxLate <= y, y <= f
  PROVE  Signed(Unsigned(clock + x) - Unsigned(clock + y)) = x - y
<1>1. /\ -CARD32_SIZE < 2 * x /\ 2 * x < CARD32_SIZE /\ 2 * (x + MaxLate) < CARD32_SIZE
      /\ MaxLate \in Nat /\ CARD32_SIZE \in Nat \ {0}
  BY ShortFacts
<1>2. -CARD32_SIZE < 2 * y /\ 2 * y < CARD32_SIZE /\ 2 * (y + MaxLate) < CARD32_SIZE
  BY ShortFacts
<1>3. -CARD32_SIZE <= 2 * (x - y) /\ 2 * (x - y) < CARD32_SIZE
  BY <1>1, <1>2
<1>4. clock \in CARD32
  BY ClockType
<1> QED  BY <1>1, <1>2, <1>3, <1>4, SignedDifference

(* What is not touched stays due.                                          *)
LEMMA ListDueKept ==
  ASSUME TypeInv, DeadlineInv, clock' = clock,
         Range(timers') \subseteq Range(timers),
         \A u \in Range(timers') :
           expires'[u] = expires[u] /\ delta'[u] = delta[u] /\ left'[u] = left[u]
  PROVE  ListDue'
BY DEF DeadlineInv, ListDue, Expires

LEMMA InOrderKept ==
  ASSUME NEW S, NEW ts \in Seq(S), NEW w, NEW v, InOrder(ts, w),
         \A u \in Range(ts) : v[u] = w[u]
  PROVE  InOrder(ts, v)
BY DEF InOrder, Range

LEMMA SetsDueKept ==
  ASSUME DeadlineInv, clock' = clock,
         \A i \in DOMAIN calls' : calls'[i].call = "set" =>
           /\ \E j \in DOMAIN calls : calls'[i] = calls[j]
           /\ left'[calls'[i].timer] = left[calls'[i].timer]
  PROVE  SetsDue'
<1> SUFFICES ASSUME NEW i \in DOMAIN calls', calls'[i].call = "set"
             PROVE  /\ Expires(calls[i].timer, calls[i].expires, calls[i].delta)'
                    /\ calls'[i].expires = Unsigned(calls'[i].now + calls'[i].delta)
  BY DEF SetsDue
<1>1. PICK j \in DOMAIN calls : calls'[i] = calls[j]
  OBVIOUS
<1>2. /\ Expires(calls[j].timer, calls[j].expires, calls[j].delta)
      /\ calls[j].expires = Unsigned(calls[j].now + calls[j].delta)
  BY <1>1 DEF DeadlineInv, SetsDue
<1>3. left'[calls[j].timer] = left[calls[j].timer]
  BY <1>1
<1> QED  BY <1>1, <1>2, <1>3 DEF Expires

(* A timer that is sorted in is due when it should be, and where.          *)
LEMMA SortedInDue ==
  ASSUME TypeInv, DeadlineInv, clock' = clock,
         NEW t \in allocated, NEW us \in Seq(allocated), Range(us) = Range(timers) \ {t},
         InOrder(us, left),
         NEW d, Short(d), NEW until \in Int, -MaxLate <= until, until <= d,
         NEW e, e = Unsigned(clock + until),
         timers' = SortedIn(us, t, e), expires' = [expires EXCEPT ![t] = e],
         delta' = [delta EXCEPT ![t] = d], left' = [left EXCEPT ![t] = until]
  PROVE  ListDue' /\ InOrder(timers, left)'
<1>1. t \in Timer /\ Range(timers) \subseteq Timer
  BY RangeOfTimers
<1>2. /\ expires'[t] = e /\ delta'[t] = d /\ left'[t] = until
      /\ \A u \in Range(us) : /\ expires'[u] = expires[u] /\ delta'[u] = delta[u]
                              /\ left'[u] = left[u] /\ u \in Range(timers) /\ u \in Timer
  BY <1>1, ClockType
<1>3. \A i \in DOMAIN us : us[i] \in Range(us)
  BY DEF Range
<1>4. \A u \in Range(us) : Expires(u, expires[u], delta[u]) /\ left[u] \in Int
  BY <1>2, ClockType DEF DeadlineInv, ListDue
<1>5. \A u \in Range(us) : Signed(expires[u] - e) = left[u] - until
  <2> SUFFICES ASSUME NEW u \in Range(us) PROVE Signed(expires[u] - e) = left[u] - until
    OBVIOUS
  <2>1. /\ Short(delta[u]) /\ -MaxLate <= left[u] /\ left[u] <= delta[u]
        /\ expires[u] = Unsigned(clock + left[u]) /\ left[u] \in Int
    BY <1>4 DEF Expires
  <2> QED  BY <2>1, LeftDifference
<1>6. InOrder(us, left')
  BY <1>2, InOrderKept
<1>7. \A i \in DOMAIN us : left'[us[i]] \in Int
                           /\ (Signed(expires[us[i]] - e) > 0 <=> left'[us[i]] > left'[t])
  <2> SUFFICES ASSUME NEW i \in DOMAIN us
               PROVE  /\ left'[us[i]] \in Int
                      /\ Signed(expires[us[i]] - e) > 0 <=> left'[us[i]] > left'[t]
    OBVIOUS
  <2> DEFINE u == us[i]
  <2>1. u \in Range(us)
    BY <1>3
  <2> HIDE DEF u
  <2>2. left'[u] = left[u] /\ left[u] \in Int /\ Signed(expires[u] - e) = left[u] - until
    BY <1>2, <1>4, <1>5, <2>1
  <2> QED  BY <1>2, <2>2 DEF u
<1>8. /\ Range(timers') = Range(us) \cup {t}
      /\ InOrder(timers', left')
  <2> DEFINE w == left'
  <2> HIDE DEF w
  <2>1. /\ InOrder(us, w) /\ w[t] \in Int
        /\ \A i \in DOMAIN us : w[us[i]] \in Int
        /\ \A i \in DOMAIN us : Signed(expires[us[i]] - e) > 0 <=> w[us[i]] > w[t]
    BY <1>2, <1>6, <1>7 DEF w
  <2> DEFINE r == SortedIn(us, t, e)
  <2>2. /\ Range(r) = Range(us) \cup {t}
        /\ \A v : /\ InOrder(us, v)
                  /\ v[t] \in Int /\ \A i \in DOMAIN us : v[us[i]] \in Int
                  /\ \A i \in DOMAIN us :
                       Signed(expires[us[i]] - e) > 0 <=> v[us[i]] > v[t]
                  => InOrder(r, v)
    BY SortedInList
  <2> HIDE DEF r
  <2>3. InOrder(r, w)
    BY <2>1, <2>2
  <2> QED  BY <2>2, <2>3 DEF w, r
<1>9. ListDue'
  <2> SUFFICES ASSUME NEW u \in Range(timers') PROVE Expires(u, expires[u], delta[u])'
    BY DEF ListDue
  <2>1. CASE u = t
    BY <1>2, <2>1 DEF Expires
  <2>2. CASE u \in Range(us)
    BY <1>2, <1>4, <2>2 DEF Expires
  <2> QED  BY <1>8, <2>1, <2>2
<1> QED  BY <1>8, <1>9

LEMMA UnlinkedInOrder ==
  ASSUME TypeInv, DeadlineInv, NEW t
  PROVE  InOrder(Unlinked(t), left)
BY UnlinkedList DEF TypeInv, CallsOK, DeadlineInv

(* A timer that is not in the list any more does not matter.               *)
LEMMA UnlinkedDue ==
  ASSUME TypeInv, DeadlineInv, clock' = clock, NEW t \in Timer, NEW e, NEW d, NEW until,
         NEW us \in Seq(allocated), Range(us) = Range(timers) \ {t}, InOrder(us, left),
         timers' = us, expires' = expires \/ expires' = [expires EXCEPT ![t] = e],
         delta' = delta \/ delta' = [delta EXCEPT ![t] = d],
         left' = [left EXCEPT ![t] = until]
  PROVE  ListDue' /\ InOrder(timers, left)'
<1>1. \A u \in Range(us) : u \in Timer /\ u # t /\ u \in Range(timers)
  BY RangeOfTimers
<1>2. \A u \in Range(us) :
        expires'[u] = expires[u] /\ delta'[u] = delta[u] /\ left'[u] = left[u]
  BY <1>1, ClockType
<1>3. InOrder(us, left')
  BY <1>2, InOrderKept
<1>4. ListDue'
  BY <1>1, <1>2, ListDueKept
<1> QED  BY <1>3, <1>4

(* The delays a timer is set to.                                           *)
LEMMA DelayFacts ==
  ASSUME TypeInv, ShortDelays
  PROVE  /\ \A m \in Delays : Short(m) /\ m \in Nat /\ m > 0 /\ m \in CARD32
         /\ \A o \in Offsets : Short(o) /\ o \in Nat /\ Unsigned(o) = o
         /\ MaxLate \in Nat
<1>1. Delays \subseteq CARD32 \ {0} /\ Offsets \subseteq CARD32 /\ CARD32_SIZE \in Nat \ {0}
      /\ MaxLate \in Nat
  BY Sizes
<1>2. \A o \in CARD32 : o \in Nat /\ -CARD32_SIZE <= o /\ o < CARD32_SIZE /\ ~(o < 0)
                        /\ o \in Int /\ o < 2 * CARD32_SIZE
  BY <1>1 DEF CARD32
<1>3. \A o \in CARD32 : Unsigned(o) = o
  BY <1>2, UnsignedCases
<1> QED  BY <1>1, <1>2, <1>3 DEF ShortDelays

(* Whether TimerSet calls the timer back at once depends on its delta.     *)
LEMMA SignedDelta ==
  ASSUME NEW n \in CARD32, NEW d, Short(d)
  PROVE  Signed(Unsigned(n + d) - n) = d
<1>1. d \in Int /\ CARD32_SIZE \in Nat \ {0} /\ n \in Int /\ 0 <= n /\ n < CARD32_SIZE
      /\ -CARD32_SIZE <= 2 * d /\ 2 * d < CARD32_SIZE
  BY Sizes DEF Short, CARD32
<1>2. Unsigned(n + 0) = n
  <2>1. n + 0 = n /\ n < 2 * CARD32_SIZE
    BY <1>1
  <2> QED  BY <1>1, <2>1, UnsignedCases
<1>3. /\ -CARD32_SIZE <= 2 * 0 /\ 2 * 0 < CARD32_SIZE
      /\ -CARD32_SIZE <= 2 * (d - 0) /\ 2 * (d - 0) < CARD32_SIZE
  BY <1>1
<1>4. Signed(Unsigned(n + d) - Unsigned(n + 0)) = d - 0
  BY <1>1, <1>3, SignedDifference
<1> QED  BY <1>1, <1>2, <1>4

LEMMA TimerSetDue ==
  ASSUME TypeInv, DeadlineInv, NEW t \in Timer, NEW d, Short(d), NEW force,
         TimerSet(t, Unsigned(clock + d), d, d, force)
  PROVE  ListDue' /\ SetsDue' /\ InOrder(timers, left)'
<1> DEFINE s == SetCall(t, Unsigned(clock + d), d, clock)
           f == Callback(t, FALSE, TRUE)
<1>1. /\ t \notin InputTimers /\ ~InSet(t) /\ timers' = Unlinked(t)
      /\ left' = [left EXCEPT ![t] = d]
      /\ calls' = <<s>> \o calls \/ calls' = <<f>> \o (<<s>> \o calls)
      /\ UNCHANGED <<expires, delta, clock>>
  BY DEF TimerSet
<1>2. ListDue' /\ InOrder(timers, left)'
  <2>1. /\ Unlinked(t) \in Seq(allocated) /\ Range(Unlinked(t)) = Range(timers) \ {t}
    BY UnlinkedOK
  <2> QED  BY <1>1, <2>1, UnlinkedInOrder, UnlinkedDue
<1>3. /\ Short(s.delta) /\ -MaxLate <= left'[t] /\ left'[t] <= s.delta
      /\ s.expires = Unsigned(clock' + left'[t])
      /\ s.expires = Unsigned(s.now + s.delta)
  <2>1. left'[t] = d /\ d \in Nat /\ -MaxLate <= d
    BY <1>1, ClockType, Sizes DEF Short
  <2> QED  BY <1>1, <2>1 DEF SetCall
<1>4. calls \in Seq(Calling) /\ DOMAIN calls = 1..Len(calls)
  BY DEF TypeInv, CallsOK
<1>5. s \in Calling /\ f \in Calling /\ s.timer = t /\ s.call = "set" /\ f.call = "callback"
  <2>1. d \in CARD32 /\ Unsigned(clock + d) \in CARD32 /\ clock \in CARD32
    BY ClockType, Sizes, UnsignedType DEF Short, CARD32
  <2> QED  BY <2>1, CallingTypes DEF SetCall, Callback
<1>6. \A j \in DOMAIN calls : calls[j].call = "set" =>
        /\ Expires(calls[j].timer, calls[j].expires, calls[j].delta)
        /\ calls[j].expires = Unsigned(calls[j].now + calls[j].delta)
        /\ left'[calls[j].timer] = left[calls[j].timer]
  <2> SUFFICES ASSUME NEW j \in DOMAIN calls, calls[j].call = "set"
               PROVE  left'[calls[j].timer] = left[calls[j].timer]
    BY DEF DeadlineInv, SetsDue
  <2>1. calls[j].timer # t /\ calls[j].timer \in Timer
    BY <1>1, <1>4, CallingFields DEF InSet
  <2> QED  BY <1>1, <2>1, ClockType
(* Each set that is in progress is the new one or one that was before.     *)
<1>7. \A i \in DOMAIN calls' : calls'[i].call = "set" =>
        calls'[i] = s \/ \E j \in DOMAIN calls : calls'[i] = calls[j]
  <2> DEFINE more == <<s>> \o calls
  <2>1. /\ more \in Seq(Calling) /\ more[1] = s
        /\ \A i \in DOMAIN more : i # 1 => i - 1 \in DOMAIN calls /\ more[i] = calls[i - 1]
    <3> HIDE DEF s
    <3> QED  BY <1>4, <1>5, Pushed
  <2> HIDE DEF more, s, f
  <2>2. \A i \in DOMAIN more : more[i] = s \/ \E j \in DOMAIN calls : more[i] = calls[j]
    BY <2>1
  <2> DEFINE most == <<f>> \o more
  <2>3. /\ most[1] = f
        /\ \A i \in DOMAIN most : i # 1 => i - 1 \in DOMAIN more /\ most[i] = more[i - 1]
    BY <1>5, <2>1, Pushed
  <2> HIDE DEF most
  <2>4. \A i \in DOMAIN most : most[i].call = "set" =>
          most[i] = s \/ \E j \in DOMAIN calls : most[i] = calls[j]
    <3> SUFFICES ASSUME NEW i \in DOMAIN most, most[i].call = "set"
                 PROVE  most[i] = s \/ \E j \in DOMAIN calls : most[i] = calls[j]
      OBVIOUS
    <3>1. i # 1
      BY <1>5, <2>3
    <3> QED  BY <2>2, <2>3, <3>1
  <2>5. calls' = more \/ calls' = most
    BY <1>1 DEF more, most
  <2> QED  BY <2>2, <2>4, <2>5
<1> HIDE DEF s, f
<1>8. SetsDue'
  <2> SUFFICES ASSUME NEW i \in DOMAIN calls', calls'[i].call = "set"
               PROVE  /\ Expires(calls[i].timer, calls[i].expires, calls[i].delta)'
                      /\ calls'[i].expires = Unsigned(calls'[i].now + calls'[i].delta)
    BY DEF SetsDue
  <2>1. CASE calls'[i] = s
    BY <1>3, <1>5, <2>1 DEF Expires
  <2>2. CASE \E j \in DOMAIN calls : calls'[i] = calls[j]
    <3>1. PICK j \in DOMAIN calls : calls'[i] = calls[j]
      BY <2>2
    <3> QED  BY <1>1, <1>6, <3>1 DEF Expires
  <2> QED  BY <1>7, <2>1, <2>2
<1> QED  BY <1>2, <1>8

(* The sets in progress are those of before, less perhaps the innermost.   *)
LEMMA RestOfSets ==
  ASSUME TypeInv, DeadlineInv, clock' = clock, NEW t \in Timer, NEW x,
         left' = left \/ left' = [left EXCEPT ![t] = x],
         NEW rest \in Seq(Calling),
         \A i \in DOMAIN rest : /\ \E j \in DOMAIN calls : rest[i] = calls[j]
                                /\ ~IsSetOf(rest[i], t),
         NEW c \in Calling, c.call = "callback",
         calls' = rest \/ calls' = <<c>> \o rest
  PROVE  SetsDue'
<1>1. \A i \in DOMAIN calls' : calls'[i].call = "set" => \E j \in DOMAIN rest : calls'[i] = rest[j]
  <2>1. CASE calls' = rest
    BY <2>1
  <2>2. CASE calls' = <<c>> \o rest
    <3> DEFINE more == <<c>> \o rest
    <3>1. /\ more[1] = c
          /\ \A i \in DOMAIN more : i # 1 => i - 1 \in DOMAIN rest /\ more[i] = rest[i - 1]
      BY Pushed
    <3> HIDE DEF more
    <3>2. \A i \in DOMAIN more : more[i].call = "set" => \E j \in DOMAIN rest : more[i] = rest[j]
      BY <3>1
    <3> QED  BY <2>2, <3>2 DEF more
  <2> QED  BY <2>1, <2>2
<1>2. ASSUME NEW i \in DOMAIN calls', calls'[i].call = "set"
      PROVE  /\ \E j \in DOMAIN calls : calls'[i] = calls[j]
             /\ left'[calls'[i].timer] = left[calls'[i].timer]
  <2>1. PICK j \in DOMAIN rest : calls'[i] = rest[j]
    BY <1>1, <1>2
  <2>2. rest[j] \in Calling /\ rest[j].timer \in Timer
    BY CallingFields
  <2>3. calls'[i].timer # t
    BY <1>2, <2>1 DEF IsSetOf
  <2> QED  BY <2>1, <2>2, <2>3, ClockType
<1> QED  BY <1>2, SetsDueKept

(* What the calls in progress have in common with a rest of them.          *)
LEMMA CallsFacts ==
  ASSUME TypeInv
  PROVE  /\ calls \in Seq(Calling) /\ DOMAIN calls = 1..Len(calls)
         /\ \A i \in DOMAIN calls : \A t \in Range(timers) \cup InputTimers :
              ~IsSetOf(calls[i], t)
         /\ calls # << >> =>
              /\ Tail(calls) \in Seq(Calling) /\ Head(calls) \in Calling
              /\ Head(calls).timer \in allocated /\ Head(calls).timer \in Timer
              /\ \E j \in DOMAIN calls : Head(calls) = calls[j]
              /\ \A i \in DOMAIN Tail(calls) : \E j \in DOMAIN calls : Tail(calls)[i] = calls[j]
              /\ ~(Head(calls).call = "callback" /\ ~Head(calls).rearm) =>
                   \A i \in DOMAIN Tail(calls) : ~IsSetOf(Tail(calls)[i], Head(calls).timer)
              /\ Head(calls).call = "set" => Head(calls).timer \notin Range(timers)
<1>1. calls \in Seq(Calling) /\ StackOK(calls, timers, allocated) /\ allocated \subseteq Timer
  BY DEF TypeInv, CallsOK, FieldsOK
<1>2. \A i \in DOMAIN calls : \A t \in Range(timers) \cup InputTimers : ~IsSetOf(calls[i], t)
  BY <1>1 DEF StackOK, IsSetOf
<1>3. ASSUME calls # << >>
      PROVE  /\ Tail(calls) \in Seq(Calling) /\ Head(calls) \in Calling
             /\ \E j \in DOMAIN calls : Head(calls) = calls[j]
             /\ \A i \in DOMAIN Tail(calls) : \E j \in DOMAIN calls : Tail(calls)[i] = calls[j]
  <2>1. /\ Tail(calls) \in Seq(Calling) /\ Head(calls) = calls[1] /\ 1 \in DOMAIN calls
        /\ Head(calls) \in Calling
        /\ \A i \in DOMAIN Tail(calls) : i + 1 \in DOMAIN calls /\ Tail(calls)[i] = calls[i + 1]
    BY <1>1, <1>3, Popped
  <2> QED  BY <2>1
<1>4. ASSUME calls # << >>
      PROVE  /\ Head(calls).timer \in allocated
             /\ ~(Head(calls).call = "callback" /\ ~Head(calls).rearm) =>
                  \A i \in DOMAIN Tail(calls) : ~IsSetOf(Tail(calls)[i], Head(calls).timer)
             /\ Head(calls).call = "set" => Head(calls).timer \notin Range(timers)
  BY <1>1, <1>4, StackPopped
<1>5. DOMAIN calls = 1..Len(calls)
  BY <1>1
<1> QED  BY <1>1, <1>2, <1>3, <1>4, <1>5

(* The second half of TimerSet, on its own or for a callback that returns. *)
LEMMA InsertDue ==
  ASSUME TypeInv, DeadlineInv, clock' = clock, NEW t \in allocated,
         NEW d, Short(d), NEW until \in Int, -MaxLate <= until, until <= d,
         NEW e, e = Unsigned(clock + until), NEW n,
         NEW us \in Seq(allocated), Range(us) = Range(timers) \ {t}, InOrder(us, left),
         NEW rest \in Seq(Calling),
         \A i \in DOMAIN rest : /\ \E j \in DOMAIN calls : rest[i] = calls[j]
                                /\ ~IsSetOf(rest[i], t),
         Insert(t, e, d, n, until, us, rest)
  PROVE  ListDue' /\ SetsDue' /\ InOrder(timers, left)'
<1>1. /\ expires' = [expires EXCEPT ![t] = e] /\ delta' = [delta EXCEPT ![t] = d]
      /\ \/ timers' = SortedIn(us, t, e) /\ left' = [left EXCEPT ![t] = until] /\ calls' = rest
         \/ /\ timers' = us /\ left' = [left EXCEPT ![t] = 0]
            /\ calls' = <<Callback(t, TRUE, FALSE)>> \o rest
  BY DEF Insert
<1>2. t \in Timer
  BY DEF TypeInv, FieldsOK
<1>3. Callback(t, TRUE, FALSE) \in Calling /\ Callback(t, TRUE, FALSE).call = "callback"
  BY <1>2, CallingTypes DEF Callback
<1>4. SetsDue'
  <2> DEFINE c == Callback(t, TRUE, FALSE)
  <2>1. c \in Calling /\ c.call = "callback" /\ (calls' = rest \/ calls' = <<c>> \o rest)
    BY <1>1, <1>3
  <2> HIDE DEF c
  <2>2. CASE left' = [left EXCEPT ![t] = until]
    BY <1>2, <2>1, <2>2, RestOfSets
  <2>3. CASE left' = [left EXCEPT ![t] = 0]
    BY <1>2, <2>1, <2>3, RestOfSets
  <2> QED  BY <1>1, <2>2, <2>3
<1>5. CASE timers' = SortedIn(us, t, e) /\ left' = [left EXCEPT ![t] = until]
  BY <1>1, <1>4, <1>5, SortedInDue
<1>6. CASE timers' = us /\ left' = [left EXCEPT ![t] = 0]
  BY <1>1, <1>2, <1>4, <1>6, UnlinkedDue
<1> QED  BY <1>1, <1>5, <1>6

LEMMA TimerSetInsertsDue ==
  ASSUME TypeInv, DeadlineInv, TimerSetInserts
  PROVE  ListDue' /\ SetsDue' /\ InOrder(timers, left)'
<1> DEFINE c == Head(calls)
           t == c.timer
           rest == Tail(calls)
           e == c.expires
           d == c.delta
           n == c.now
           until == left[t]
<1>1. /\ calls # << >> /\ c.call = "set" /\ clock' = clock
      /\ Insert(t, e, d, n, until, timers, rest)
  BY DEF TimerSetInserts
<1>2. /\ rest \in Seq(Calling) /\ t \in allocated /\ t \in Timer /\ t \notin Range(timers)
      /\ \A i \in DOMAIN rest : /\ \E j \in DOMAIN calls : rest[i] = calls[j]
                                /\ ~IsSetOf(rest[i], t)
  BY <1>1, CallsFacts
<1>3. Expires(t, e, d)
  <2>1. PICK j \in DOMAIN calls : c = calls[j]
    BY <1>1, CallsFacts
  <2> QED  BY <1>1, <2>1 DEF DeadlineInv, SetsDue
<1>4. timers \in Seq(allocated) /\ InOrder(timers, left) /\ left[t] \in Int
      /\ Range(timers) = Range(timers) \ {t}
  BY <1>2, ClockType DEF TypeInv, CallsOK, DeadlineInv
<1> HIDE DEF c, t, rest, e, d, n
<1>5. /\ Short(d) /\ until \in Int /\ -MaxLate <= until /\ until <= d
      /\ e = Unsigned(clock + until)
  BY <1>3, <1>4 DEF Expires
<1> HIDE DEF until
<1> QED  BY <1>1, <1>2, <1>4, <1>5, InsertDue

LEMMA CallbackReturnsDue ==
  ASSUME TypeInv, ShortDelays, DeadlineInv, NEW m \in Delays \cup {0}, CallbackReturns(m)
  PROVE  ListDue' /\ SetsDue' /\ InOrder(timers, left)'
<1> DEFINE c == Head(calls)
           t == c.timer
           rest == Tail(calls)
<1>1. /\ calls # << >> /\ c.call = "callback" /\ clock' = clock
      /\ \/ /\ c.rearm /\ m # 0
            /\ Insert(t, Unsigned(clock + m), m, clock, m, Unlinked(t), rest)
         \/ calls' = rest /\ UNCHANGED <<list, left>>
  BY DEF CallbackReturns
<1>2. /\ rest \in Seq(Calling) /\ t \in allocated /\ t \in Timer /\ c \in Calling
      /\ \A i \in DOMAIN rest : \E j \in DOMAIN calls : rest[i] = calls[j]
      /\ c.rearm => \A i \in DOMAIN rest : ~IsSetOf(rest[i], t)
  BY <1>1, CallsFacts
<1> HIDE DEF c, t, rest
<1>3. CASE /\ c.rearm /\ m # 0
           /\ Insert(t, Unsigned(clock + m), m, clock, m, Unlinked(t), rest)
  <2>1. m \in Delays
    BY <1>3
  <2>2. Short(m) /\ m \in Int /\ -MaxLate <= m /\ m <= m
    BY <2>1, DelayFacts
  <2>3. /\ Unlinked(t) \in Seq(allocated) /\ Range(Unlinked(t)) = Range(timers) \ {t}
        /\ InOrder(Unlinked(t), left)
    BY UnlinkedOK, UnlinkedInOrder
  <2> DEFINE us == Unlinked(t)
             e == Unsigned(clock + m)
  <2>4. /\ us \in Seq(allocated) /\ Range(us) = Range(timers) \ {t} /\ InOrder(us, left)
        /\ Insert(t, e, m, clock, m, us, rest) /\ e = Unsigned(clock + m)
    BY <1>3, <2>3
  <2> HIDE DEF us, e
  <2> QED  BY <1>1, <1>2, <1>3, <2>2, <2>4, InsertDue
<1>4. CASE calls' = rest /\ UNCHANGED <<list, left>>
  <2>1. UNCHANGED <<timers, expires, delta, left, clock>>
    BY <1>1, <1>4 DEF list
  <2>2. SetsDue'
    BY <1>2, <1>4, <2>1, SetsDueKept
  <2>3. ListDue' /\ InOrder(timers, left)'
    BY <2>1 DEF DeadlineInv, ListDue, Expires, InOrder
  <2> QED  BY <2>2, <2>3
<1> QED  BY <1>1, <1>3, <1>4

(* A timer is taken out of the list, and called back or not.               *)
LEMMA OutOfListDue ==
  ASSUME TypeInv, DeadlineInv, clock' = clock, NEW t \in Timer,
         t \in Range(timers) \/ ~InSet(t),
         timers' = Unlinked(t), left' = [left EXCEPT ![t] = 0],
         UNCHANGED <<expires, delta>>,
         NEW forced \in BOOLEAN,
         calls' = calls \/ calls' = <<Callback(t, TRUE, forced)>> \o calls
  PROVE  ListDue' /\ SetsDue' /\ InOrder(timers, left)'
<1>1. /\ Unlinked(t) \in Seq(allocated) /\ Range(Unlinked(t)) = Range(timers) \ {t}
      /\ InOrder(Unlinked(t), left)
  BY UnlinkedOK, UnlinkedInOrder
<1>2. ListDue' /\ InOrder(timers, left)'
  BY <1>1, UnlinkedDue
<1>3. \A i \in DOMAIN calls : ~IsSetOf(calls[i], t)
  BY CallsFacts DEF InSet, IsSetOf
<1> DEFINE c == Callback(t, TRUE, forced)
<1>4. c \in Calling /\ c.call = "callback" /\ calls \in Seq(Calling)
  BY CallsFacts, CallingTypes DEF Callback
<1>5. calls' = calls \/ calls' = <<c>> \o calls
  OBVIOUS
<1> HIDE DEF c
<1>6. \A i \in DOMAIN calls : \E j \in DOMAIN calls : calls[i] = calls[j]
  OBVIOUS
<1>7. SetsDue'
  BY <1>3, <1>4, <1>5, <1>6, RestOfSets
<1> QED  BY <1>2, <1>7

LEMMA LoopsDue ==
  ASSUME TypeInv, DeadlineInv, DoTimers \/ CheckAllTimers
  PROVE  /\ ListDue' /\ SetsDue' /\ InOrder(timers, left)'
         /\ clock' = clock /\ (now' = now \/ mpc' # "DoTimers")
         /\ mpc' = "DoTimers" => mpc = "DoTimers"
<1>1. /\ calls = << >>
      /\ UNCHANGED <<allocated, expires, delta, clock>>
      /\ mpc \in {"DoTimers", "CheckAllTimers"}
  BY DEF DoTimers, CheckAllTimers
<1>2. CASE LoopEnds
  <2>1. UNCHANGED <<timers, expires, delta, left, clock, calls>> /\ mpc' = "poll"
    BY <1>1, <1>2 DEF LoopEnds
  <2>2. ListDue' /\ SetsDue' /\ InOrder(timers, left)'
    BY <2>1 DEF DeadlineInv, ListDue, SetsDue, Expires, InOrder
  <2> QED  BY <2>1, <2>2
<1>3. ASSUME NEW t \in Range(timers), DoTimer(t)
      PROVE  /\ ListDue' /\ SetsDue' /\ InOrder(timers, left)'
             /\ now' = now /\ mpc' = mpc
  <2>1. /\ timers' = Unlinked(t) /\ left' = [left EXCEPT ![t] = 0]
        /\ calls' = <<Callback(t, TRUE, FALSE)>> /\ UNCHANGED <<mpc, timeout, now>>
    BY <1>3 DEF DoTimer
  <2>2. t \in Timer
    BY RangeOfTimers
  <2>3. calls' = <<Callback(t, TRUE, FALSE)>> \o calls
    BY <1>1, <2>1
  <2> QED  BY <1>1, <2>1, <2>2, <2>3, OutOfListDue
<1>4. (\E t \in Range(timers) : DoTimer(t)) \/ LoopEnds
  BY LoopsOfTimers
<1> QED  BY <1>1, <1>2, <1>3, <1>4

LEMMA InputTimerSetDue ==
  ASSUME TypeInv, ShortDelays, DeadlineInv, NEW t \in InputTimers, NEW m \in Delays,
         InputTimerSet(t, m)
  PROVE  ListDue' /\ SetsDue' /\ InOrder(timers, left)'
<1> DEFINE us == Unlinked(t)
           e == Unsigned(clock + m)
<1>1. /\ timers' = SortedIn(us, t, e) /\ expires' = [expires EXCEPT ![t] = e]
      /\ delta' = [delta EXCEPT ![t] = m] /\ left' = [left EXCEPT ![t] = m]
      /\ clock' = clock /\ calls' = calls
  BY DEF InputTimerSet
<1>2. /\ us \in Seq(allocated) /\ Range(us) = Range(timers) \ {t} /\ InOrder(us, left)
      /\ e = Unsigned(clock + m)
  BY UnlinkedOK, UnlinkedInOrder
<1> HIDE DEF us, e
<1>3. t \in allocated /\ t \in Timer
  BY DEF TypeInv, CallsOK, FieldsOK
<1>4. Short(m) /\ m \in Int /\ -MaxLate <= m /\ m <= m
  BY DelayFacts
<1>5. ListDue' /\ InOrder(timers, left)'
  BY <1>1, <1>2, <1>3, <1>4, SortedInDue
<1>6. \A i \in DOMAIN calls : calls[i].call = "set" => left'[calls[i].timer] = left[calls[i].timer]
  <2> SUFFICES ASSUME NEW i \in DOMAIN calls, calls[i].call = "set"
               PROVE  left'[calls[i].timer] = left[calls[i].timer]
    OBVIOUS
  <2>1. calls[i].timer # t /\ calls[i].timer \in Timer
    BY CallsFacts, CallingFields DEF IsSetOf
  <2> QED  BY <1>1, <2>1, ClockType
<1>7. SetsDue'
  BY <1>1, <1>6, SetsDueKept
<1> QED  BY <1>5, <1>7

(* Time passes: the clock goes on, and less is left.                       *)
LEMMA TickDue ==
  ASSUME TypeInv, DeadlineInv, Tick
  PROVE  DeadlineInv'
<1>1. /\ \A t \in Timer : Counted(t) => left[t] > -MaxLate
      /\ mpc = "DoTimers" => Unsigned(clock - now) < MaxLate
      /\ clock' = Unsigned(clock + 1)
      /\ left' = [t \in Timer |-> IF Counted(t) THEN left[t] - 1 ELSE left[t]]
      /\ UNCHANGED <<timers, expires, delta, mpc, calls, now>>
  BY DEF Tick, list
<1>2. /\ clock \in CARD32 /\ clock \in Int /\ 0 <= clock /\ clock < CARD32_SIZE
      /\ CARD32_SIZE \in Nat \ {0} /\ MaxLate \in Nat
      /\ now \in Int /\ 0 <= now /\ now < CARD32_SIZE
  BY ClockType, Sizes
<1>3. ASSUME NEW t \in Timer, Counted(t), NEW e, NEW d, Expires(t, e, d)
      PROVE  /\ Short(d) /\ -MaxLate <= left'[t] /\ left'[t] <= d
             /\ e = Unsigned(clock' + left'[t])
  <2>1. left'[t] = left[t] - 1 /\ left[t] \in Int /\ left[t] > -MaxLate
    BY <1>1, <1>3, ClockType
  <2>2. Short(d) /\ -MaxLate <= left[t] /\ left[t] <= d /\ e = Unsigned(clock + left[t])
    BY <1>3 DEF Expires
  <2>3. -CARD32_SIZE < 2 * left[t] /\ 2 * left[t] < CARD32_SIZE /\ d \in Nat
    BY <2>1, <2>2, ShortFacts
  <2> DEFINE b == left[t] - 1
  <2>4. b \in Int /\ 1 + b = left[t]
    BY <2>1
  <2>5. Unsigned(Unsigned(clock + 1) + b) = Unsigned(clock + (1 + b))
    <3>1. /\ -CARD32_SIZE <= 1 /\ 1 <= CARD32_SIZE
          /\ -CARD32_SIZE <= 1 + b /\ clock + 1 + b < 2 * CARD32_SIZE
          /\ -CARD32_SIZE <= b /\ b <= CARD32_SIZE
      BY <1>2, <2>1, <2>3, <2>4
    <3> HIDE DEF b
    <3> QED  BY <1>2, <2>4, <3>1, UnsignedSum
  <2>6. e = Unsigned(clock' + left'[t])
    BY <1>1, <2>1, <2>2, <2>4, <2>5
  <2>7. -MaxLate <= left'[t] /\ left'[t] <= d
    BY <1>2, <2>1, <2>2, <2>3
  <2> QED  BY <2>2, <2>6, <2>7
<1>4. \A t \in Range(timers) : t \in Timer /\ Counted(t)
  BY RangeOfTimers DEF Counted, Pending
<1>5. ListDue'
  <2> SUFFICES ASSUME NEW t \in Range(timers) PROVE Expires(t, expires[t], delta[t])'
    BY <1>1 DEF ListDue
  <2>1. Expires(t, expires[t], delta[t])
    BY DEF DeadlineInv, ListDue
  <2>2. /\ Short(delta[t]) /\ -MaxLate <= left'[t] /\ left'[t] <= delta[t]
        /\ expires[t] = Unsigned(clock' + left'[t])
    BY <1>3, <1>4, <2>1
  <2> QED  BY <1>1, <2>2 DEF Expires
<1>6. SetsDue'
  <2> SUFFICES ASSUME NEW i \in DOMAIN calls, calls[i].call = "set"
               PROVE  /\ Expires(calls[i].timer, calls[i].expires, calls[i].delta)'
                      /\ calls[i].expires = Unsigned(calls[i].now + calls[i].delta)
    BY <1>1 DEF SetsDue
  <2> DEFINE c == calls[i]
  <2>1. Expires(c.timer, c.expires, c.delta) /\ c.expires = Unsigned(c.now + c.delta)
    BY DEF DeadlineInv, SetsDue
  <2>2. c.timer \in Timer /\ Counted(c.timer)
    BY CallsFacts, CallingFields DEF Counted, InSet
  <2>3. /\ Short(c.delta) /\ -MaxLate <= left'[c.timer] /\ left'[c.timer] <= c.delta
        /\ c.expires = Unsigned(clock' + left'[c.timer])
    BY <1>3, <2>1, <2>2
  <2> QED  BY <1>1, <2>1, <2>3 DEF Expires
<1>7. InOrder(timers, left)'
  <2> SUFFICES ASSUME NEW i \in DOMAIN timers, NEW j \in DOMAIN timers, i < j
               PROVE  left'[timers[i]] <= left'[timers[j]]
    BY <1>1 DEF InOrder
  <2>1. timers[i] \in Range(timers) /\ timers[j] \in Range(timers)
    BY RangeOfTimers
  <2>2. left'[timers[i]] = left[timers[i]] - 1 /\ left'[timers[j]] = left[timers[j]] - 1
        /\ left[timers[i]] \in Int /\ left[timers[j]] \in Int
    BY <1>1, <1>4, <2>1, ClockType
  <2>3. left[timers[i]] <= left[timers[j]]
    BY DEF DeadlineInv, InOrder
  <2> QED  BY <2>2, <2>3
<1>8. ASSUME mpc' = "DoTimers" PROVE Unsigned(clock' - now') <= MaxLate
  <2> DEFINE x == clock - now
  <2>1. x \in Int /\ -CARD32_SIZE < x /\ x < CARD32_SIZE /\ Unsigned(x) < MaxLate
    BY <1>1, <1>2, <1>8
  <2>2. Unsigned(clock' - now') = Unsigned(x + 1)
    <3>1. Unsigned(Unsigned(clock + 1) + (-now)) = Unsigned(clock + (1 + (-now)))
      <4> DEFINE b == -now
      <4>1. /\ b \in Int /\ -CARD32_SIZE <= b /\ b <= CARD32_SIZE
            /\ -CARD32_SIZE <= 1 /\ 1 <= CARD32_SIZE
            /\ -CARD32_SIZE <= 1 + b /\ clock + 1 + b < 2 * CARD32_SIZE
        BY <1>2
      <4> HIDE DEF b
      <4>2. Unsigned(Unsigned(clock + 1) + b) = Unsigned(clock + (1 + b))
        BY <1>2, <4>1, UnsignedSum
      <4> QED  BY <4>2 DEF b
    <3>2. clock + (1 + (-now)) = x + 1
      BY <1>2
    <3>3. Unsigned(clock + 1) + (-now) = clock' - now'
      <4>1. Unsigned(clock + 1) \in Int
        BY <1>2, UnsignedType DEF CARD32
      <4> QED  BY <1>1, <1>2, <4>1
    <3> QED  BY <3>1, <3>2, <3>3
  <2> HIDE DEF x
  <2>3. /\ Unsigned(x) = IF x < 0 THEN x + CARD32_SIZE
                         ELSE IF x < CARD32_SIZE THEN x ELSE x - CARD32_SIZE
    BY <1>2, <2>1, UnsignedCases
  <2> DEFINE y == x + 1
  <2>4. y \in Int /\ -CARD32_SIZE <= y /\ y < 2 * CARD32_SIZE /\ y = x + 1
    BY <1>2, <2>1
  <2> HIDE DEF y
  <2>5. Unsigned(y) = IF y < 0 THEN y + CARD32_SIZE
                      ELSE IF y < CARD32_SIZE THEN y ELSE y - CARD32_SIZE
    BY <1>2, <2>4, UnsignedCases
  <2>6. Unsigned(y) <= MaxLate
    BY <1>2, <2>1, <2>3, <2>4, <2>5
  <2> QED  BY <2>2, <2>6 DEF y
<1> QED  BY <1>5, <1>6, <1>7, <1>8 DEF DeadlineInv

(* What leaves the list, the calls and the clock alone.                    *)
LEMMA WaitsDue ==
  ASSUME TypeInv, DeadlineInv,
         \/ Dispatched \/ CheckTimers \/ CheckSane \/ PollReturns \/ PollReturnsClient
         \/ UNCHANGED vars
  PROVE  DeadlineInv'
<1>1. UNCHANGED <<timers, expires, delta, left, clock, calls>>
  BY DEF Dispatched, CheckTimers, CheckSane, PollReturns, PollReturnsClient, list, observed, vars
<1>2. ListDue' /\ SetsDue' /\ InOrder(timers, left)'
  BY <1>1 DEF DeadlineInv, ListDue, SetsDue, Expires, InOrder
<1>3. ASSUME mpc' = "DoTimers" PROVE Unsigned(clock' - now') <= MaxLate
  <2>1. CASE now' = clock
    <3>1. clock' - now' = 0
      BY <1>1, <2>1, ClockType
    <3>2. Unsigned(0) = 0
      BY Sizes, UnsignedCases
    <3> QED  BY <3>1, <3>2, Sizes
  <2>2. CASE now' = now /\ mpc = "DoTimers"
    BY <1>1, <2>2 DEF DeadlineInv
  <2>3. now' = clock \/ (now' = now /\ mpc = "DoTimers")
    BY <1>3 DEF Dispatched, CheckTimers, CheckSane, PollReturns, PollReturnsClient, vars, locals
  <2> QED  BY <2>1, <2>2, <2>3
<1> QED  BY <1>2, <1>3 DEF DeadlineInv

LEMMA DeadlineStep ==
  ASSUME Monotonic, ShortDelays
  PROVE  TypeInv /\ DeadlineInv /\ [Next]_vars => DeadlineInv'
<1> SUFFICES ASSUME TypeInv, DeadlineInv, [Next]_vars PROVE DeadlineInv'
  OBVIOUS
<1>1. ASSUME ListDue', SetsDue', InOrder(timers, left)', UNCHANGED <<clock, now, mpc>>
      PROVE  DeadlineInv'
  BY <1>1 DEF DeadlineInv
<1>2. ASSUME NEW t \in Timer, NEW force \in BOOLEAN, NEW m \in Delays,
             TimerSetRelative(t, m, force)
      PROVE  DeadlineInv'
  <2>1. TimerSet(t, Unsigned(clock + m), m, m, force) /\ Short(m)
    BY <1>2, DelayFacts DEF TimerSetRelative
  <2> QED  BY <1>1, <1>2, <2>1, TimerSetDue, CallsDoNotWait DEF locals
<1>3. ASSUME NEW t \in Timer, NEW force \in BOOLEAN, NEW o \in Offsets,
             TimerSetAbsolute(t, o, force)
      PROVE  DeadlineInv'
  <2>1. TimerSet(t, Unsigned(clock + o), o, o, force) /\ Short(o)
    BY <1>3, DelayFacts DEF TimerSetAbsolute
  <2> QED  BY <1>1, <1>3, <2>1, TimerSetDue, CallsDoNotWait DEF locals
<1>4. CASE TimerSetInserts
  BY <1>1, <1>4, TimerSetInsertsDue, CallsDoNotWait DEF locals
<1>5. CASE \E m \in Delays \cup {0} : CallbackReturns(m)
  BY <1>1, <1>5, CallbackReturnsDue, CallsDoNotWait DEF locals
<1>6. ASSUME NEW t \in Timer, TimerSetZero(t) \/ TimerCancel(t) \/ TimerFree(t)
      PROVE  DeadlineInv'
  <2>1. /\ timers' = Unlinked(t) /\ left' = [left EXCEPT ![t] = 0] /\ calls' = calls
        /\ UNCHANGED <<expires, delta>>
        /\ t \in Range(timers) \/ ~InSet(t)
    BY <1>6 DEF TimerSetZero, TimerCancel, TimerFree, Pending, InCall, InSet
  <2>2. UNCHANGED <<clock, now, mpc>>
    BY <1>6, CallsDoNotWait DEF locals
  <2>3. FALSE \in BOOLEAN
    OBVIOUS
  <2> QED  BY <1>1, <2>1, <2>2, <2>3, OutOfListDue
<1>7. ASSUME NEW t \in Timer, TimerForce(t) PROVE DeadlineInv'
  <2>1. /\ timers' = Unlinked(t) /\ left' = [left EXCEPT ![t] = 0]
        /\ calls' = <<Callback(t, TRUE, TRUE)>> \o calls
        /\ UNCHANGED <<expires, delta>> /\ t \in Range(timers)
    BY <1>7 DEF TimerForce, Pending
  <2>2. UNCHANGED <<clock, now, mpc>>
    BY <1>7, CallsDoNotWait DEF locals
  <2>3. TRUE \in BOOLEAN
    OBVIOUS
  <2> QED  BY <1>1, <2>1, <2>2, <2>3, OutOfListDue
<1>8. CASE DoTimers \/ CheckAllTimers
  BY <1>8, LoopsDue DEF DeadlineInv
<1>9. ASSUME NEW t \in InputTimers, NEW m \in Delays, InputTimerSet(t, m) PROVE DeadlineInv'
  <2>1. UNCHANGED <<clock, now, mpc>>
    BY <1>9 DEF InputTimerSet, locals
  <2> QED  BY <1>1, <1>9, <2>1, InputTimerSetDue
<1>10. CASE Tick
  BY <1>10, TickDue
<1>11. CASE \E r \in Rewinds : ClockRewinds(r)
  <2>1. rewinds < 0 /\ rewinds \in 0..0
    BY <1>11 DEF ClockRewinds, Monotonic, TypeInv, FieldsOK
  <2> QED  BY <2>1
<1> QED  BY <1>2, <1>3, <1>4, <1>5, <1>6, <1>7, <1>8, <1>9, <1>10, <1>11, WaitsDue, StepCases

---------------------------------------------------------------------------
(* The order of the list.                                                  *)

LEMMA DeadlineInit == Init => DeadlineInv
<1> SUFFICES ASSUME Init PROVE DeadlineInv
  OBVIOUS
<1>1. timers = << >> /\ calls = << >> /\ mpc = "dispatch"
  BY DEF Init
<1>2. DOMAIN timers = {} /\ DOMAIN calls = {} /\ Range(timers) = {}
  BY <1>1 DEF Range
<1> QED  BY <1>1, <1>2 DEF DeadlineInv, ListDue, SetsDue, InOrder

LEMMA DeadlineInvHolds ==
  ASSUME Monotonic, ShortDelays
  PROVE  Spec => []DeadlineInv
BY DeadlineInit, DeadlineStep, TypeInvHolds, PTL DEF Spec

LEMMA TypeAndOrder == TypeInv /\ DeadlineInv => TimersSorted
<1> SUFFICES ASSUME TypeInv, DeadlineInv PROVE TimersSorted
  OBVIOUS
<1>1. TypeOK
  BY TypeInvType
<1>2. DOMAIN timers = 1..Len(timers)
  BY DEF TypeInv, CallsOK
<1> QED  BY <1>1, <1>2 DEF DeadlineInv, InOrder, TimersSorted

(* TimerSet and DoTimer sort a timer in by signed differences of times     *)
(* that wrap around, in a list that may have been changed by callbacks and *)
(* by the input thread since the time was read: the list is still in the   *)
(* order of real time, and sound.                                          *)
THEOREM TimersAreSorted ==
  ASSUME Monotonic, ShortDelays
  PROVE  Spec => []TimersSorted
BY TypeInvHolds, DeadlineInvHolds, TypeAndOrder, PTL

---------------------------------------------------------------------------
(* No timer is called back early.                                          *)

(* DoTimers(now), where now is up to MaxLate ago.                          *)
LEMMA FirstDueIsDue ==
  ASSUME TypeInv, DeadlineInv, mpc = "DoTimers", FirstIsDue
  PROVE  left[Head(timers)] <= 0
<1> DEFINE t == Head(timers)
           lag == Unsigned(clock - now)
<1>1. t \in Range(timers) /\ t \in Timer /\ Signed(expires[t] - now) <= 0
  BY RangeOfTimers DEF FirstIsDue
<1>2. /\ Short(delta[t]) /\ -MaxLate <= left[t] /\ left[t] <= delta[t]
      /\ expires[t] = Unsigned(clock + left[t]) /\ left[t] \in Int
  BY <1>1, ClockType DEF DeadlineInv, ListDue, Expires
<1> HIDE DEF t
<1>3. /\ clock \in CARD32 /\ clock \in Int /\ 0 <= clock /\ clock < CARD32_SIZE
      /\ now \in Int /\ 0 <= now /\ now < CARD32_SIZE /\ CARD32_SIZE \in Nat \ {0}
      /\ MaxLate \in Nat
  BY ClockType, Sizes
<1>4. lag \in CARD32 /\ lag <= MaxLate /\ lag = IF clock - now < 0 THEN clock - now + CARD32_SIZE
                                                                 ELSE clock - now
  <2> DEFINE x == clock - now
  <2>1. x \in Int /\ -CARD32_SIZE <= x /\ x < CARD32_SIZE /\ x < 2 * CARD32_SIZE
    BY <1>3
  <2> HIDE DEF x
  <2>2. /\ Unsigned(x) = IF x < 0 THEN x + CARD32_SIZE
                         ELSE IF x < CARD32_SIZE THEN x ELSE x - CARD32_SIZE
        /\ Unsigned(x) \in CARD32
    BY <2>1, UnsignedCases
  <2> QED  BY <2>1, <2>2 DEF DeadlineInv, x
<1> HIDE DEF lag
<1>5. lag \in Nat
  BY <1>3, <1>4 DEF CARD32
<1> DEFINE y == -lag
<1>6. y \in Int /\ -MaxLate <= y /\ y <= delta[t] /\ clock + y >= -CARD32_SIZE
      /\ clock + y < CARD32_SIZE /\ delta[t] \in Nat
  BY <1>2, <1>3, <1>4, <1>5 DEF Short
<1>7. now = Unsigned(clock + y)
  <2> DEFINE z == clock + y
  <2>1. z \in Int /\ -CARD32_SIZE <= z /\ z < 2 * CARD32_SIZE /\ z < CARD32_SIZE
        /\ now = IF z < 0 THEN z + CARD32_SIZE ELSE z
    BY <1>3, <1>4, <1>5, <1>6
  <2> HIDE DEF z
  <2>2. Unsigned(z) = IF z < 0 THEN z + CARD32_SIZE
                      ELSE IF z < CARD32_SIZE THEN z ELSE z - CARD32_SIZE
    BY <2>1, UnsignedCases
  <2>3. now = Unsigned(z)
    BY <2>1, <2>2
  <2> QED  BY <2>3 DEF z
<1>8. Signed(Unsigned(clock + left[t]) - Unsigned(clock + y)) = left[t] - y
  <2> HIDE DEF y
  <2> QED  BY <1>2, <1>6, LeftDifference
<1>9. left[t] - y <= 0
  BY <1>1, <1>2, <1>7, <1>8
<1> QED  BY <1>2, <1>5, <1>9 DEF t

(* CheckAllTimers: without a step of the clock, no timer is further away   *)
(* than it was set to, and none is called that is not due.                 *)
LEMMA RewoundIsDue ==
  ASSUME TypeInv, DeadlineInv, NEW t \in Range(timers), Rewound(t)
  PROVE  left[t] <= 0
<1>1. /\ Short(delta[t]) /\ -MaxLate <= left[t] /\ left[t] <= delta[t]
      /\ expires[t] = Unsigned(clock + left[t]) /\ left[t] \in Int /\ delta[t] \in Nat
  BY RangeOfTimers, ClockType DEF DeadlineInv, ListDue, Expires, Short
<1>2. /\ clock \in CARD32 /\ clock \in Int /\ 0 <= clock /\ clock < CARD32_SIZE
      /\ CARD32_SIZE \in Nat \ {0} /\ SLACK \in Nat /\ MaxLate \in Nat
  BY ClockType, Sizes
<1> SUFFICES ASSUME left[t] > 0 PROVE FALSE
  BY <1>1
<1> DEFINE l == left[t]
           b == -clock
           s == delta[t] + SLACK
<1>3. /\ l \in Int /\ 0 < l /\ 2 * l < CARD32_SIZE /\ l <= s
      /\ s \in Nat /\ s < CARD32_SIZE /\ expires[t] = Unsigned(clock + l)
  BY <1>1, <1>2 DEF Short
<1>4. Rewound(t) <=> Unsigned(Unsigned(clock + l) - clock) > Unsigned(s)
  BY <1>1 DEF Rewound
<1> HIDE DEF l, s
<1>5. Unsigned(s) = s
  BY <1>2, <1>3, UnsignedCases
<1>6. Unsigned(l) = l
  BY <1>2, <1>3, UnsignedCases
<1>7. Unsigned(Unsigned(clock + l) - clock) = Unsigned(l)
  <2>1. /\ b \in Int /\ -CARD32_SIZE <= b /\ b <= CARD32_SIZE
        /\ -CARD32_SIZE <= l /\ l <= CARD32_SIZE /\ -CARD32_SIZE <= l + b
        /\ clock + l + b < 2 * CARD32_SIZE /\ clock + (l + b) = l
    BY <1>2, <1>3
  <2>2. Unsigned(clock + l) \in Int
    <3>1. clock + l \in Int
      BY <1>2, <1>3
    <3> QED  BY <1>2, <3>1, UnsignedType DEF CARD32
  <2>3. Unsigned(clock + l) - clock = Unsigned(clock + l) + b
    BY <1>2, <2>2
  <2> HIDE DEF b
  <2>4. Unsigned(Unsigned(clock + l) + b) = Unsigned(clock + (l + b))
    BY <1>2, <1>3, <2>1, UnsignedSum
  <2> QED  BY <2>1, <2>3, <2>4
<1> QED  BY <1>3, <1>4, <1>5, <1>6, <1>7

(* TimerSet calls a timer back at once only when it was set to now.        *)
LEMMA InsertedIsDue ==
  ASSUME TypeInv, DeadlineInv, TimerSetInserts, Len(calls') >= Len(calls)
  PROVE  Head(calls').timer = Head(calls).timer /\ left[Head(calls).timer] <= 0
<1> DEFINE c == Head(calls)
<1>1. /\ calls # << >> /\ c.call = "set" /\ calls \in Seq(Calling) /\ c \in Calling
      /\ \E j \in DOMAIN calls : c = calls[j]
  BY CallsFacts DEF TimerSetInserts
<1>2. Len(Tail(calls)) < Len(calls)
  BY <1>1
<1>3. /\ Signed(c.expires - c.now) <= 0
      /\ calls' = <<Callback(c.timer, TRUE, FALSE)>> \o Tail(calls)
  <2>1. Insert(c.timer, c.expires, c.delta, c.now, left[c.timer], timers, Tail(calls))
    BY DEF TimerSetInserts
  <2>2. ~(calls' = Tail(calls))
    <3>1. Len(Tail(calls)) \in Int /\ Len(calls) \in Int
      BY <1>1
    <3> QED  BY <1>2, <3>1
  <2> HIDE DEF c
  <2> QED  BY <2>1, <2>2 DEF Insert
<1>4. Expires(c.timer, c.expires, c.delta) /\ c.expires = Unsigned(c.now + c.delta)
  BY <1>1 DEF DeadlineInv, SetsDue
<1>5. c.now \in CARD32 /\ c.timer \in Timer /\ Tail(calls) \in Seq(Calling)
  BY <1>1, CallingFields
<1>6. Head(calls').timer = c.timer
  <2> DEFINE f == Callback(c.timer, TRUE, FALSE)
             rest == Tail(calls)
  <2>1. f.timer = c.timer /\ calls' = <<f>> \o rest /\ rest \in Seq(Calling)
    BY <1>3, <1>5 DEF Callback
  <2> HIDE DEF f, rest
  <2>2. Head(<<f>> \o rest) = f
    BY <2>1
  <2> QED  BY <2>1, <2>2
<1>7. left[c.timer] \in Int
  BY <1>5, ClockType
<1> HIDE DEF c
<1>8. Short(c.delta) /\ left[c.timer] <= c.delta
  BY <1>4 DEF Expires
<1>9. Signed(c.expires - c.now) = c.delta
  BY <1>4, <1>5, <1>8, SignedDelta
<1>10. c.delta \in Nat
  BY <1>8 DEF Short
<1>11. left[c.timer] <= 0
  BY <1>3, <1>7, <1>8, <1>9, <1>10
<1> QED  BY <1>6, <1>11 DEF c

(* DoTimer sets a timer again for later.                                   *)
LEMMA ReturnsAreShorter ==
  ASSUME TypeInv, ShortDelays, DeadlineInv, NEW m \in Delays \cup {0}, CallbackReturns(m)
  PROVE  Len(calls') < Len(calls)
<1>1. calls # << >> /\ calls \in Seq(Calling) /\ Len(Tail(calls)) < Len(calls)
  BY CallsFacts DEF CallbackReturns
<1>2. clock \in CARD32
  BY ClockType
<1>3. CASE calls' = Tail(calls)
  BY <1>1, <1>3
<1>4. CASE m # 0 /\ Signed(Unsigned(clock + m) - clock) <= 0
  <2>1. m \in Delays
    BY <1>4
  <2>2. Short(m) /\ m \in Nat /\ m > 0
    BY <2>1, DelayFacts
  <2> QED  BY <1>2, <1>4, <2>2, SignedDelta
<1> QED  BY <1>3, <1>4 DEF CallbackReturns, Insert

(* What DoTimers and CheckAllTimers call is due.                           *)
LEMMA LoopsAreDue ==
  ASSUME TypeInv, DeadlineInv, DoTimers \/ CheckAllTimers, calls' # calls
  PROVE  left[Head(calls').timer] <= 0
<1>1. ASSUME NEW t, DoTimer(t) PROVE Head(calls').timer = t
  <2> DEFINE f == Callback(t, TRUE, FALSE)
  <2>1. f.timer = t /\ calls' = <<f>>
    BY <1>1 DEF DoTimer, Callback
  <2> HIDE DEF f
  <2> QED  BY <2>1
<1>2. ~LoopEnds
  BY DEF LoopEnds
<1>3. CASE DoTimers
  BY <1>1, <1>2, <1>3, FirstDueIsDue DEF DoTimers
<1>4. CASE CheckAllTimers
  <2> DEFINE hits == {i \in 1..Len(timers) : Rewound(timers[i])}
             i == CHOOSE k \in hits : \A j \in hits : k <= j
  <2>1. hits # {} /\ DoTimer(timers[i])
    BY <1>2, <1>4 DEF CheckAllTimers
  <2>2. hits \in SUBSET Nat /\ hits \subseteq DOMAIN timers
    BY DEF TypeInv, CallsOK
  <2>3. i \in hits
    <3> HIDE DEF hits
    <3>1. \E k \in hits : \A j \in hits : k <= j
      BY <2>1, <2>2, LeastExists
    <3> QED  BY <3>1
  <2> HIDE DEF i
  <2>4. Rewound(timers[i]) /\ timers[i] \in Range(timers)
    BY <2>2, <2>3, RangeOfTimers
  <2> QED  BY <1>1, <2>1, <2>4, RewoundIsDue
<1> QED  BY <1>3, <1>4

(* What is pushed on the calls is on top of them.                          *)
LEMMA TopOfCalls ==
  ASSUME NEW c, NEW s \in Seq(Calling)
  PROVE  Head(<<c>> \o s) = c
OBVIOUS

LEMMA EarlyStep ==
  ASSUME TypeInv, ShortDelays, DeadlineInv, [Next]_vars, CalledAtOnce
  PROVE  left[Head(calls').timer] <= 0
<1>1. /\ calls' # calls /\ Len(calls') >= Len(calls) /\ calls \in Seq(Calling)
      /\ Head(calls').call = "callback" /\ ~Head(calls').forced
  BY CallsFacts DEF CalledAtOnce
<1>2. ASSUME NEW t \in Timer, NEW e \in CARD32, NEW d \in CARD32, NEW until, NEW force,
             TimerSet(t, e, d, until, force)
      PROVE  FALSE
  <2> DEFINE s == SetCall(t, e, d, clock)
             f == Callback(t, FALSE, TRUE)
  <2>1. s.call = "set" /\ f.forced = TRUE
    BY DEF SetCall, Callback
  <2>2. s \in Calling
    BY <1>2, ClockType, CallingTypes
  <2>3. calls' = <<s>> \o calls \/ calls' = <<f>> \o (<<s>> \o calls)
    BY <1>2 DEF TimerSet
  <2> HIDE DEF s, f
  <2>4. <<s>> \o calls \in Seq(Calling)
    BY <1>1, <2>2
  <2>5. Head(calls') = s \/ Head(calls') = f
    BY <1>1, <2>3, <2>4, TopOfCalls
  <2> QED  BY <1>1, <2>1, <2>5
<1>3. ASSUME NEW t \in Timer, TimerForce(t) PROVE FALSE
  <2> DEFINE f == Callback(t, TRUE, TRUE)
  <2>1. f.forced = TRUE /\ calls' = <<f>> \o calls
    BY <1>3 DEF TimerForce, Callback
  <2> HIDE DEF f
  <2>2. Head(calls') = f
    BY <1>1, <2>1, TopOfCalls
  <2> QED  BY <1>1, <2>1, <2>2
<1>4. ASSUME NEW m \in Delays \cup {0}, CallbackReturns(m) PROVE FALSE
  <2>1. Len(calls') < Len(calls)
    BY <1>4, ReturnsAreShorter
  <2> QED  BY <1>1, <2>1
<1>5. CASE TimerSetInserts
  BY <1>1, <1>5, InsertedIsDue
<1>6. CASE DoTimers \/ CheckAllTimers
  BY <1>1, <1>6, LoopsAreDue
<1>7. ASSUME NEW t \in Timer, NEW force \in BOOLEAN,
             \/ \E m \in Delays : TimerSetRelative(t, m, force)
             \/ \E o \in Offsets : TimerSetAbsolute(t, o, force)
      PROVE  FALSE
  <2>1. CASE \E m \in Delays : TimerSetRelative(t, m, force)
    BY <1>2, <2>1, TimeTypes DEF TimerSetRelative
  <2>2. CASE \E o \in Offsets : TimerSetAbsolute(t, o, force)
    BY <1>2, <2>2, TimeTypes DEF TimerSetAbsolute
  <2> QED  BY <1>7, <2>1, <2>2
<1>8. UNCHANGED calls => FALSE
  BY <1>1
<1>9. CASE \/ Dispatched \/ CheckTimers \/ CheckSane \/ PollReturns \/ PollReturnsClient
           \/ \E t \in Timer : TimerSetZero(t) \/ TimerCancel(t) \/ TimerFree(t)
           \/ \E t \in InputTimers, m \in Delays : InputTimerSet(t, m)
           \/ Tick \/ (\E r \in Rewinds : ClockRewinds(r)) \/ UNCHANGED vars
  BY <1>8, <1>9 DEF Dispatched, CheckTimers, CheckSane, PollReturns, PollReturnsClient,
       TimerSetZero, TimerCancel, TimerFree, InputTimerSet, Tick, ClockRewinds, vars
<1> QED  BY <1>3, <1>4, <1>5, <1>6, <1>7, <1>9, StepCases

(* TimerSet, DoTimers and CheckAllTimers: no timer is called back before   *)
(* it is due, whatever CARD32 the clock has reached, with a now that was   *)
(* read up to MaxLate ago, and for an expires that a TimerSet has computed *)
(* before it gave the lock up.                                             *)
THEOREM TimersAreNeverEarly ==
  ASSUME Monotonic, ShortDelays
  PROVE  Spec => NeverEarly
<1>1. TypeInv /\ DeadlineInv /\ [Next]_vars => [DueWhenCalled]_vars
  BY EarlyStep DEF DueWhenCalled
<1> QED  BY <1>1, TypeInvHolds, DeadlineInvHolds, PTL DEF Spec, NeverEarly

---------------------------------------------------------------------------
(* The poll ends in time.                                                  *)

(* The timeout of check_timers is the time to the first timer.             *)
LEMMA TimeoutIsLeft ==
  ASSUME TypeInv, DeadlineInv, timers # << >>
  PROVE  /\ Signed(expires[Head(timers)] - clock) = left[Head(timers)]
         /\ \A t \in Range(timers) : left[Head(timers)] <= left[t]
<1> DEFINE h == Head(timers)
<1>1. h = timers[1] /\ 1 \in DOMAIN timers /\ h \in Range(timers) /\ h \in Timer
  BY RangeOfTimers
<1>2. /\ Short(delta[h]) /\ -MaxLate <= left[h] /\ left[h] <= delta[h]
      /\ expires[h] = Unsigned(clock + left[h]) /\ left[h] \in Int
  BY <1>1, ClockType DEF DeadlineInv, ListDue, Expires
<1>3. \A t \in Range(timers) : left[h] <= left[t]
  <2> SUFFICES ASSUME NEW t \in Range(timers) PROVE left[h] <= left[t]
    OBVIOUS
  <2>1. PICK j \in DOMAIN timers : t = timers[j]
    BY DEF Range
  <2>2. CASE j = 1
    BY <1>1, <1>2, <2>1, <2>2
  <2>3. CASE j # 1
    <3>1. 1 < j
      BY <2>3 DEF TypeInv, CallsOK
    <3> QED  BY <1>1, <2>1, <3>1 DEF DeadlineInv, InOrder
  <2> QED  BY <2>2, <2>3
<1> HIDE DEF h
<1>4. clock \in Int /\ clock = Unsigned(clock + 0)
  <2>1. /\ clock \in Int /\ 0 <= clock /\ clock < CARD32_SIZE /\ CARD32_SIZE \in Nat \ {0}
        /\ clock + 0 = clock
    BY ClockType, Sizes
  <2> QED  BY <2>1, UnsignedCases
<1>5. Signed(Unsigned(clock + left[h]) - Unsigned(clock + 0)) = left[h] - 0
  <2>1. MaxLate \in Nat /\ delta[h] \in Nat
    BY <1>2, Sizes DEF Short
  <2>2. -MaxLate <= 0 /\ 0 <= delta[h] /\ 0 \in Int
    BY <2>1
  <2> QED  BY <1>2, <2>2, LeftDifference
<1>6. Signed(expires[h] - clock) = left[h]
  <2>1. left[h] - 0 = left[h]
    BY <1>2
  <2> QED  BY <1>2, <1>4, <1>5, <2>1
<1> QED  BY <1>3, <1>6 DEF h

LEMMA CheckTimersInTime ==
  ASSUME TypeInv, DeadlineInv, WakeInv, CheckTimers
  PROVE  WakeInv'
<1>1. /\ mpc = "check" /\ UNCHANGED <<timers, left, kicked, spent>> /\ spent = 0
      /\ mpc' \in {"poll", "DoTimers", "sane"}
  BY DEF CheckTimers, WakeInv, list, observed
<1>2. CASE timers = << >> /\ mpc' = "poll"
  <2>1. Range(timers') = {} /\ timeout' = -1
    BY <1>1, <1>2 DEF Range, CheckTimers
  <2>2. -1 >= -1
    OBVIOUS
  <2> QED  BY <1>2, <2>1, <2>2 DEF WakeInv, PollWakesInTime
<1>3. CASE mpc' = "DoTimers"
  BY <1>3 DEF WakeInv, PollWakesInTime
<1>4. CASE timers # << >> /\ mpc' = "sane"
  <2>1. timeout' = left[Head(timers)] /\ timeout' > 0
    BY <1>4, TimeoutIsLeft DEF CheckTimers
  <2>2. \A t \in Range(timers) : left[t] \in Int
    BY RangeOfTimers, ClockType
  <2>3. \A t \in Range(timers') : timeout' <= left'[t] + spent'
    BY <1>1, <1>4, <2>1, <2>2, TimeoutIsLeft
  <2> QED  BY <1>4, <2>1, <2>3 DEF WakeInv, PollWakesInTime, InTime
<1> QED  BY <1>1, <1>2, <1>3, <1>4 DEF CheckTimers

(* Before the poll, the time that passes is counted in spent; in the poll, *)
(* it is taken off the timeout.                                            *)
LEMMA TickInTime ==
  ASSUME TypeInv, WakeInv, Tick
  PROVE  WakeInv'
<1>1. /\ left' = [t \in Timer |-> IF Counted(t) THEN left[t] - 1 ELSE left[t]]
      /\ timeout' = IF mpc = "poll" /\ timeout > 0 THEN timeout - 1 ELSE timeout
      /\ spent' = IF mpc = "sane" THEN spent + 1 ELSE spent
      /\ UNCHANGED <<timers, mpc, kicked>>
  BY DEF Tick, list
<1>2. \A t \in Range(timers) : left'[t] = left[t] - 1 /\ left[t] \in Int
  BY <1>1, RangeOfTimers, ClockType DEF Counted, Pending
<1>3. timeout \in Int /\ spent \in Int
  BY ClockType
<1>4. CASE mpc = "sane"
  <2>1. timeout' = timeout /\ spent' = spent + 1 /\ timeout > 0
    BY <1>1, <1>4 DEF WakeInv
  <2>2. ~kicked => \A t \in Range(timers) : timeout <= left[t] + spent
    BY <1>4 DEF WakeInv, InTime
  <2>3. ~kicked => \A t \in Range(timers) : timeout' <= left'[t] + spent'
    BY <1>2, <1>3, <2>1, <2>2
  <2> QED  BY <1>1, <1>4, <2>1, <2>3 DEF WakeInv, InTime, PollWakesInTime
<1>5. CASE mpc = "poll"
  <2>1. timeout >= -1 /\ timeout' >= -1
    BY <1>1, <1>3, <1>5 DEF WakeInv
  <2>2. ASSUME ~kicked, NEW t \in Range(timers)
        PROVE  timeout' # -1 /\ (timeout' = 0 \/ timeout' <= left'[t] + spent')
    <3>1. timeout # -1 /\ (timeout = 0 \/ timeout <= left[t] + spent)
      BY <1>5, <2>2 DEF WakeInv, PollWakesInTime
    <3> QED  BY <1>1, <1>2, <1>3, <1>5, <2>1, <2>2, <3>1
  <2> QED  BY <1>1, <1>5, <2>1, <2>2 DEF WakeInv, PollWakesInTime
<1>6. CASE mpc \notin {"sane", "poll"}
  BY <1>1, <1>6 DEF WakeInv, PollWakesInTime
<1> QED  BY <1>4, <1>5, <1>6

LEMMA WakeStep ==
  ASSUME Monotonic, ShortDelays
  PROVE  TypeInv /\ DeadlineInv /\ WakeInv /\ [Next]_vars => WakeInv'
<1> SUFFICES ASSUME TypeInv, DeadlineInv, WakeInv, [Next]_vars PROVE WakeInv'
  OBVIOUS
<1>1. ASSUME mpc' = mpc, mpc \in {"dispatch", "DoTimers", "CheckAllTimers"}, spent' = spent
      PROVE  WakeInv'
  BY <1>1 DEF WakeInv, PollWakesInTime
<1>2. CASE DoTimers \/ CheckAllTimers
  <2>1. \/ mpc' = mpc /\ mpc \in {"DoTimers", "CheckAllTimers"} /\ spent' = spent
        \/ mpc' = "poll" /\ timeout' = 0
    BY <1>2 DEF DoTimers, CheckAllTimers, DoTimer, LoopEnds
  <2>2. mpc' = "poll" /\ timeout' = 0 => WakeInv'
    <3>1. 0 # -1 /\ 0 >= -1
      OBVIOUS
    <3> QED  BY <3>1 DEF WakeInv, PollWakesInTime
  <2> QED  BY <1>1, <2>1, <2>2
<1>3. CASE CheckSane
  <2>1. /\ mpc = "sane" /\ mpc' \in {"poll", "CheckAllTimers"} /\ timeout > 0
        /\ UNCHANGED <<timers, timeout, kicked, left, spent>>
    BY <1>3 DEF CheckSane, WakeInv, list, observed
  <2>2. timeout # -1 /\ timeout >= -1
    BY <2>1, ClockType
  <2> QED  BY <2>1, <2>2 DEF WakeInv, InTime, PollWakesInTime
<1>4. CASE Dispatched \/ PollReturns \/ PollReturnsClient
  <2>1. /\ mpc' \in {"dispatch", "check"} /\ spent' = 0
    BY <1>4 DEF Dispatched, PollReturns, PollReturnsClient, WakeInv, observed
  <2> QED  BY <2>1 DEF WakeInv, PollWakesInTime
<1>5. CASE \E t \in InputTimers, m \in Delays : InputTimerSet(t, m)
  <2>1. kicked' /\ mpc' = mpc /\ timeout' = timeout /\ spent' = spent
    BY <1>5 DEF InputTimerSet, locals
  <2> QED  BY <2>1 DEF WakeInv, PollWakesInTime
<1>6. CASE \E r \in Rewinds : ClockRewinds(r)
  BY <1>6 DEF ClockRewinds, list, locals, WakeInv, InTime, PollWakesInTime
<1>7. CASE UNCHANGED vars
  BY <1>7 DEF vars, list, locals, observed, WakeInv, InTime, PollWakesInTime
<1> QED  BY <1>1, <1>2, <1>3, <1>4, <1>5, <1>6, <1>7, CheckTimersInTime, TickInTime,
            StepCases, CallsDoNotWait

(* check_timers and WaitForSomething: the poll is over by the time that    *)
(* any timer is due, or the pipe is readable, although the main thread     *)
(* looks at the first timer without the lock.                              *)
THEOREM PollAlwaysWakesInTime ==
  ASSUME Monotonic, ShortDelays
  PROVE  Spec => []PollWakesInTime
<1>1. Init => WakeInv
  BY DEF Init, WakeInv, PollWakesInTime
<1>2. WakeInv => PollWakesInTime
  BY DEF WakeInv
<1>3. TypeInv /\ DeadlineInv /\ WakeInv /\ [Next]_vars => WakeInv'
  BY WakeStep
<1> QED  BY <1>1, <1>2, <1>3, TypeInvHolds, DeadlineInvHolds, PTL DEF Spec
=============================================================================
