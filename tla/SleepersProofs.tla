--------------------------- MODULE SleepersProofs ---------------------------
(***************************************************************************)
(* Theorems about Sleepers, for any number of clients, any requests they   *)
(* make and any number of swaps.                                           *)
(*                                                                         *)
(* What a client waits for is in one place: once in the sleep queue or     *)
(* once among the delayed, and every function in the work queue has a      *)
(* sleeper, until it is called (QueuesInv).  From this follow the ignore   *)
(* counts, and that nothing is left of who is gone.  DelaysInv is about    *)
(* the time, BlockedInv about the counts of dri2.c, and FontsInv about the *)
(* closures of doOpenFont.                                                 *)
(***************************************************************************)
EXTENDS Sleepers, SetLemmas, SequenceTheorems

(* No client has two entries in a queue.                                   *)
Once(list) == \A i, j \in DOMAIN list : list[i].client = list[j].client => i = j

InOrder(list) == \A i, j \in DOMAIN list : i <= j => list[i].revive <= list[j].revive

---------------------------------------------------------------------------
(* What is assumed about the constants.                                    *)
LEMMA Sizes ==
  /\ MaxTime \in Nat /\ UINT \in Nat \ {0} /\ SwapLimit \in Nat \ {0}
  /\ MaxHandlers \in Nat \ {0}
  /\ IsFiniteSet(Clients) /\ Cardinality(Clients) < UINT
  /\ None \notin Clients /\ None \notin Int
<1>1. MaxTime \in Nat
  BY SleepersAssumption
<1>2. {UINT, SwapLimit, MaxHandlers} \subseteq Nat \ {0}
  BY SleepersAssumption
<1>3. IsFiniteSet(Clients) /\ Cardinality(Clients) < UINT
  BY SleepersAssumption
<1>4. None \notin Clients \cup Int
  BY SleepersAssumption
<1> QED  BY <1>1, <1>2, <1>3, <1>4

(* What is done to queues.                                                 *)

LEMMA KeepEntries ==
  ASSUME NEW S, NEW list \in Seq(S), NEW K \in SUBSET (DOMAIN list)
  PROVE  LET kept == Keep(list, K)
         IN  /\ kept \in Seq(S) /\ Len(kept) = Cardinality(K)
             /\ \A e : e \in Range(kept) <=> \E i \in K : list[i] = e
             /\ Once(list) => Once(kept)
             /\ InOrder(list) => InOrder(kept)
<1> DEFINE kept == Keep(list, K)
           n == Cardinality(K)
<1>1. /\ kept \in Seq(S) /\ Len(kept) = n /\ n \in Nat /\ DOMAIN kept = 1..n
      /\ \A j \in 1..n : Nth(K, j) \in K /\ kept[j] = list[Nth(K, j)]
      /\ \A i \in K : /\ Rank(K, i) \in 1..n /\ Nth(K, Rank(K, i)) = i
                      /\ kept[Rank(K, i)] = list[i]
      /\ \A j, l \in 1..n : j < l => Nth(K, j) < Nth(K, l)
  BY KeepProperties
<1>2. DOMAIN list \subseteq Nat
  OBVIOUS
<1> HIDE DEF kept, n
<1>3. \A e : e \in Range(kept) <=> \E i \in K : list[i] = e
  BY <1>1 DEF Range
<1>4. ASSUME Once(list), NEW j \in DOMAIN kept, NEW l \in DOMAIN kept,
             kept[j].client = kept[l].client
      PROVE  j = l
  <2>1. Nth(K, j) = Nth(K, l)
    BY <1>1, <1>4 DEF Once
  <2>2. Nth(K, j) \in Nat /\ j \in Nat /\ l \in Nat
    BY <1>1, <1>2
  <2>3. j \in 1..n /\ l \in 1..n
    BY <1>1
  <2>4. (j < l => Nth(K, j) < Nth(K, l)) /\ (l < j => Nth(K, l) < Nth(K, j))
    BY <1>1, <2>3
  <2>5. ~(j < l) /\ ~(l < j)
    BY <2>1, <2>2, <2>4
  <2> QED  BY <2>2, <2>5
<1>5. ASSUME InOrder(list), NEW j \in DOMAIN kept, NEW l \in DOMAIN kept, j <= l
      PROVE  kept[j].revive <= kept[l].revive
  <2>1. Nth(K, j) \in Nat /\ Nth(K, l) \in Nat /\ j \in Nat /\ l \in Nat
    BY <1>1, <1>2
  <2>2. Nth(K, j) <= Nth(K, l)
    <3>1. CASE j = l
      BY <2>1, <3>1
    <3>2. CASE j < l
      BY <1>1, <2>1, <3>2
    <3> QED  BY <1>5, <2>1, <3>1, <3>2
  <2> QED  BY <1>1, <1>5, <2>2 DEF InOrder
<1> QED  BY <1>1, <1>3, <1>4, <1>5 DEF kept, n, Once, InOrder

(* The entry of a client is found, and taken out.                          *)
LEMMA FirstPlace ==
  ASSUME NEW S, NEW list \in Seq(S), NEW c, PlacesOf(c, list) # {}
  PROVE  LET i == Min(PlacesOf(c, list))
         IN  i \in DOMAIN list /\ list[i].client = c
<1>1. PlacesOf(c, list) \in SUBSET Nat
  BY DEF PlacesOf
<1>2. Min(PlacesOf(c, list)) \in PlacesOf(c, list)
  BY <1>1, MinProperties
<1> QED  BY <1>2 DEF PlacesOf

LEMMA WithoutEntries ==
  ASSUME NEW S, NEW list \in Seq(S), NEW i \in DOMAIN list
  PROVE  /\ Without(list, i) \in Seq(S)
         /\ \A e : e \in Range(Without(list, i)) <=>
                     \E j \in DOMAIN list : j # i /\ list[j] = e
         /\ Once(list) => Once(Without(list, i))
<1>1. DOMAIN list \ {i} \in SUBSET (DOMAIN list)
  OBVIOUS
<1> DEFINE K == DOMAIN list \ {i}
<1> HIDE DEF K
<1>2. /\ Keep(list, K) \in Seq(S)
      /\ \A e : e \in Range(Keep(list, K)) <=> \E j \in K : list[j] = e
      /\ Once(list) => Once(Keep(list, K))
  BY <1>1, KeepEntries DEF K
<1> QED  BY <1>2 DEF K, Without

LEMMA WithoutClient ==
  ASSUME NEW S, NEW list \in Seq(S), Once(list), NEW c, PlacesOf(c, list) # {}
  PROVE  LET left == Without(list, Min(PlacesOf(c, list)))
         IN  /\ left \in Seq(S) /\ Once(left)
             /\ \A e : e \in Range(left) <=> e \in Range(list) /\ e.client # c
<1> DEFINE i == Min(PlacesOf(c, list))
<1>1. i \in DOMAIN list /\ list[i].client = c
  BY FirstPlace
<1> HIDE DEF i
<1>2. /\ Without(list, i) \in Seq(S) /\ Once(Without(list, i))
      /\ \A e : e \in Range(Without(list, i)) <=>
                  \E j \in DOMAIN list : j # i /\ list[j] = e
  BY <1>1, WithoutEntries
<1>3. \A j \in DOMAIN list : j # i <=> list[j].client # c
  BY <1>1 DEF Once
<1>4. \A e : e \in Range(list) <=> \E j \in DOMAIN list : list[j] = e
  BY DEF Range
<1> QED  BY <1>2, <1>3, <1>4 DEF i

LEMMA TailEntries ==
  ASSUME NEW S, NEW list \in Seq(S), list # << >>
  PROVE  /\ Tail(list) \in Seq(S) /\ list[1] \in S /\ list[1] \in Range(list)
         /\ \A e \in Range(Tail(list)) : e \in Range(list)
         /\ \A e \in Range(list) : e = list[1] \/ e \in Range(Tail(list))
<1>1. Len(list) \in Nat \ {0} /\ DOMAIN list = 1..Len(list)
  OBVIOUS
<1>2. /\ Tail(list) \in Seq(S) /\ DOMAIN Tail(list) = 1..(Len(list) - 1)
      /\ \A i \in DOMAIN Tail(list) : Tail(list)[i] = list[i + 1]
  OBVIOUS
<1>3. \A e \in Range(Tail(list)) : e \in Range(list)
  <2> TAKE e \in Range(Tail(list))
  <2>1. PICK i \in DOMAIN Tail(list) : Tail(list)[i] = e
    BY DEF Range
  <2>2. i + 1 \in DOMAIN list /\ list[i + 1] = e
    BY <1>1, <1>2, <2>1
  <2> QED  BY <2>2 DEF Range
<1>4. \A e \in Range(list) : e = list[1] \/ e \in Range(Tail(list))
  <2> TAKE e \in Range(list)
  <2>1. PICK i \in DOMAIN list : list[i] = e
    BY DEF Range
  <2>2. CASE i # 1
    <3>1. i - 1 \in DOMAIN Tail(list) /\ Tail(list)[i - 1] = e
      BY <1>1, <1>2, <2>1, <2>2
    <3> QED  BY <3>1 DEF Range
  <2> QED  BY <2>1, <2>2
<1>5. list[1] \in S /\ list[1] \in Range(list)
  BY <1>1 DEF Range
<1> QED  BY <1>2, <1>3, <1>4, <1>5

LEMMA JoinedEntries ==
  ASSUME NEW S, NEW left \in Seq(S), NEW right \in Seq(S)
  PROVE  /\ left \o right \in Seq(S)
         /\ \A e : e \in Range(left \o right) <=> e \in Range(left) \/ e \in Range(right)
<1> DEFINE all == left \o right
           n == Len(left)
<1>1. /\ all \in Seq(S) /\ n \in Nat /\ Len(right) \in Nat
      /\ DOMAIN left = 1..n /\ DOMAIN right = 1..Len(right)
      /\ DOMAIN all = 1..(n + Len(right))
      /\ \A i \in 1..n : all[i] = left[i]
  OBVIOUS
<1>2. \A i \in DOMAIN right : n + i \in DOMAIN all /\ all[n + i] = right[i]
  OBVIOUS
<1>3. \A i \in DOMAIN all : i > n => i - n \in DOMAIN right /\ all[i] = right[i - n]
  OBVIOUS
<1> HIDE DEF all, n
<1>4. \A e : e \in Range(all) <=> e \in Range(left) \/ e \in Range(right)
  <2> TAKE e
  <2>1. ASSUME e \in Range(all) PROVE e \in Range(left) \/ e \in Range(right)
    <3>1. PICK i \in DOMAIN all : all[i] = e
      BY <2>1 DEF Range
    <3>2. i \in DOMAIN left \/ i > n
      BY <1>1
    <3> QED  BY <1>1, <1>3, <3>1, <3>2 DEF Range
  <2>2. ASSUME e \in Range(left) PROVE e \in Range(all)
    <3>1. PICK i \in DOMAIN left : left[i] = e
      BY <2>2 DEF Range
    <3>2. i \in DOMAIN all /\ all[i] = e
      BY <1>1, <3>1
    <3> QED  BY <3>2 DEF Range
  <2>3. ASSUME e \in Range(right) PROVE e \in Range(all)
    <3>1. PICK i \in DOMAIN right : right[i] = e
      BY <2>3 DEF Range
    <3>2. n + i \in DOMAIN all /\ all[n + i] = e
      BY <1>2, <3>1
    <3> QED  BY <3>2 DEF Range
  <2> QED  BY <2>1, <2>2, <2>3
<1> QED  BY <1>1, <1>4 DEF all

LEMMA AppendedEntry ==
  ASSUME NEW S, NEW list \in Seq(S), NEW e \in S
  PROVE  /\ Append(list, e) \in Seq(S)
         /\ \A f : f \in Range(Append(list, e)) <=> f \in Range(list) \/ f = e
         /\ (\A f \in Range(list) : f.client # e.client) /\ Once(list)
              => Once(Append(list, e))
<1> DEFINE all == Append(list, e)
           n == Len(list)
<1>1. /\ all \in Seq(S) /\ n \in Nat /\ DOMAIN list = 1..n /\ DOMAIN all = 1..(n + 1)
      /\ \A i \in 1..n : all[i] = list[i]
      /\ all[n + 1] = e
  OBVIOUS
<1> HIDE DEF all, n
<1>2. \A i \in DOMAIN all : i \in DOMAIN list \/ i = n + 1
  BY <1>1
<1>3. \A f : f \in Range(all) <=> f \in Range(list) \/ f = e
  BY <1>1, <1>2 DEF Range
<1>4. ASSUME \A f \in Range(list) : f.client # e.client, Once(list) PROVE Once(all)
  BY <1>1, <1>2, <1>4 DEF Once, Range
<1> QED  BY <1>1, <1>3, <1>4 DEF all

(* A new sleeper is put before the others.                                 *)
LEMMA FirstEntry ==
  ASSUME NEW S, NEW list \in Seq(S), NEW e \in S
  PROVE  /\ <<e>> \o list \in Seq(S)
         /\ \A f : f \in Range(<<e>> \o list) <=> f \in Range(list) \/ f = e
         /\ (\A f \in Range(list) : f.client # e.client) /\ Once(list)
              => Once(<<e>> \o list)
<1> DEFINE all == <<e>> \o list
           n == Len(list)
<1>1. /\ all \in Seq(S) /\ n \in Nat /\ DOMAIN list = 1..n /\ DOMAIN all = 1..(n + 1)
      /\ \A i \in 1..n : all[i + 1] = list[i]
      /\ all[1] = e
  OBVIOUS
<1> HIDE DEF all, n
<1>2. \A i \in DOMAIN all : i = 1 \/ (i - 1 \in DOMAIN list /\ all[i] = list[i - 1])
  <2> TAKE i \in DOMAIN all
  <2>1. i # 1 => i - 1 \in 1..n /\ (i - 1) + 1 = i
    BY <1>1
  <2> QED  BY <1>1, <2>1
<1>3. \A i \in DOMAIN list : i + 1 \in DOMAIN all /\ all[i + 1] = list[i]
  BY <1>1
<1>4. 1 \in DOMAIN all
  BY <1>1
<1>5. \A f : f \in Range(all) <=> f \in Range(list) \/ f = e
  <2>1. <<e>> \in Seq(S) /\ Range(<<e>>) = {e}
    BY DEF Range
  <2> QED  BY <2>1, JoinedEntries DEF all
<1>6. ASSUME \A f \in Range(list) : f.client # e.client, Once(list) PROVE Once(all)
  <2> SUFFICES ASSUME NEW i \in DOMAIN all, NEW j \in DOMAIN all,
                      all[i].client = all[j].client
               PROVE  i = j
    BY DEF Once
  <2>1. \A h \in DOMAIN list : list[h] \in Range(list)
    BY DEF Range
  <2>2. (i = 1) = (j = 1)
    BY <1>1, <1>2, <1>6, <2>1
  <2>3. CASE i # 1 /\ j # 1
    <3>1. i - 1 = j - 1
      BY <1>2, <1>6, <2>3 DEF Once
    <3> QED  BY <1>1, <3>1
  <2> QED  BY <2>2, <2>3
<1> QED  BY <1>1, <1>5, <1>6 DEF all

(* The place before which an entry is put.                                 *)
PutAt(list, i, e, all) ==
  /\ DOMAIN all = 1..(Len(list) + 1)
  /\ all[i] = e
  /\ \A j \in 1..(i - 1) : all[j] = list[j]
  /\ \A j \in (i + 1)..(Len(list) + 1) : all[j] = list[j - 1]

LEMMA InsertAtEntries ==
  ASSUME NEW S, NEW list \in Seq(S), NEW i \in DOMAIN list, NEW e \in S
  PROVE  InsertAt(list, i, e) \in Seq(S) /\ PutAt(list, i, e, InsertAt(list, i, e))
<1> DEFINE n == Len(list)
           left == SubSeq(list, 1, i - 1)
           right == SubSeq(list, i, n)
<1>1. n \in Nat /\ i \in 1..n
  OBVIOUS
<1>2. /\ left \in Seq(S) /\ Len(left) = i - 1
      /\ \A j \in 1..(i - 1) : left[j] = list[j]
  OBVIOUS
<1>3. /\ right \in Seq(S) /\ Len(right) = n - i + 1
      /\ \A j \in 1..(n - i + 1) : right[j] = list[i + j - 1]
  OBVIOUS
<1> HIDE DEF left, right
<1> DEFINE start == left \o <<e>>
           all == start \o right
<1>4. /\ start \in Seq(S) /\ Len(start) = i /\ start[i] = e
      /\ \A j \in 1..(i - 1) : start[j] = list[j]
  <2>1. start \in Seq(S) /\ Len(start) = Len(left) + 1
    BY <1>2
  <2>2. \A j \in 1..(Len(left) + 1) :
          start[j] = IF j <= Len(left) THEN left[j] ELSE <<e>>[j - Len(left)]
    <3>1. <<e>> \in Seq(S) /\ Len(<<e>>) = 1
      OBVIOUS
    <3> HIDE DEF start
    <3> QED  BY <1>2, <3>1, ConcatProperties DEF start
  <2>3. \A j \in 1..Len(left) : start[j] = left[j]
    BY <1>1, <1>2, <2>2
  <2> HIDE DEF start
  <2>4. Len(left) + 1 = i
    BY <1>1, <1>2
  <2>5. start[i] = e /\ Len(start) = i
    <3>1. i \in 1..(Len(left) + 1) /\ ~(i <= Len(left)) /\ i - Len(left) = 1
      BY <1>1, <1>2
    <3>2. start[i] = <<e>>[1]
      BY <2>2, <3>1
    <3> QED  BY <2>1, <2>4, <3>2
  <2>6. \A j \in 1..(i - 1) : start[j] = list[j]
    BY <1>2, <2>3
  <2> QED  BY <2>1, <2>5, <2>6
<1> HIDE DEF start
<1>5. /\ all \in Seq(S) /\ DOMAIN all = 1..(n + 1)
      /\ \A j \in 1..i : all[j] = start[j]
      /\ \A j \in (i + 1)..(n + 1) : all[j] = right[j - i]
  <2>1. start \in Seq(S) /\ right \in Seq(S)
    BY <1>3, <1>4
  <2>2. /\ all \in Seq(S) /\ Len(all) = Len(start) + Len(right)
        /\ \A j \in 1..(Len(start) + Len(right)) :
             all[j] = IF j <= Len(start) THEN start[j] ELSE right[j - Len(start)]
    BY <2>1, ConcatProperties
  <2> HIDE DEF all
  <2>3. Len(start) = i /\ Len(start) + Len(right) = n + 1
    BY <1>1, <1>3, <1>4
  <2>4. DOMAIN all = 1..Len(all)
    BY <2>2
  <2> QED  BY <1>1, <2>2, <2>3, <2>4
<1> HIDE DEF all
<1>6. \A j \in (i + 1)..(n + 1) : all[j] = list[j - 1]
  <2> TAKE j \in (i + 1)..(n + 1)
  <2> HIDE DEF n
  <2>1. j - i \in 1..(n - i + 1) /\ i + (j - i) - 1 = j - 1
    <3>1. j \in Int /\ i \in Int /\ n \in Int /\ i + 1 <= j /\ j <= n + 1
      BY <1>1
    <3>2. j - i \in Int /\ 1 <= j - i
      BY <3>1
    <3>3. j - i <= n - i + 1
      BY <3>1
    <3>4. i + (j - i) - 1 = j - 1
      BY <3>1
    <3>5. n - i + 1 \in Int
      BY <3>1
    <3> QED  BY <3>2, <3>3, <3>4, <3>5
  <2>2. right[j - i] = list[i + (j - i) - 1]
    BY <1>3, <2>1
  <2>3. all[j] = right[j - i]
    BY <1>5
  <2> QED  BY <2>1, <2>2, <2>3
<1>7. InsertAt(list, i, e) = all
  BY DEF InsertAt, all, start, left, right
<1>8. all[i] = e /\ \A j \in 1..(i - 1) : all[j] = list[j]
  BY <1>1, <1>4, <1>5
<1> QED  BY <1>1, <1>5, <1>6, <1>7, <1>8 DEF PutAt

Delay == [client : Clients, revive : 0..MaxTime]

(* ClientSleepUntil keeps the list in the order of time.                   *)
LEMMA InsertEntries ==
  ASSUME NEW list \in Seq(Delay), NEW e \in Delay, Once(list), InOrder(list),
         \A f \in Range(list) : f.client # e.client
  PROVE  LET all == Insert(list, e)
         IN  /\ all \in Seq(Delay) /\ Once(all) /\ InOrder(all)
             /\ \A f : f \in Range(all) <=> f \in Range(list) \/ f = e
<1> DEFINE later == {i \in DOMAIN list : list[i].revive > e.revive}
           n == Len(list)
           all == Insert(list, e)
<1>1. /\ n \in Nat /\ DOMAIN list = 1..n /\ MaxTime \in Nat
      /\ \A j \in DOMAIN list : list[j] \in Delay /\ list[j].revive \in Nat
      /\ e.revive \in Nat
  <2>1. MaxTime \in Nat
    BY Sizes
  <2>2. \A d \in Delay : d.revive \in Nat
    BY <2>1 DEF Delay
  <2>3. \A j \in DOMAIN list : list[j] \in Delay
    OBVIOUS
  <2> QED  BY <2>1, <2>2, <2>3
<1>2. \E i \in 1..(n + 1) :
        /\ all \in Seq(Delay) /\ DOMAIN all = 1..(n + 1) /\ all[i] = e
        /\ \A j \in 1..(i - 1) : all[j] = list[j] /\ list[j].revive <= e.revive
        /\ \A j \in (i + 1)..(n + 1) : all[j] = list[j - 1] /\ list[j - 1].revive >= e.revive
  <2>1. CASE later = {}
    <3>1. all = Append(list, e)
      BY <2>1 DEF Insert
    <3>2. /\ all \in Seq(Delay) /\ DOMAIN all = 1..(n + 1) /\ all[n + 1] = e
          /\ \A j \in 1..n : all[j] = list[j]
      BY <3>1
    <3>3. \A j \in 1..n : list[j].revive <= e.revive
      BY <1>1, <2>1
    <3> HIDE DEF all
    <3>4. n + 1 \in 1..(n + 1) /\ 1..((n + 1) - 1) = 1..n /\ ((n + 1) + 1)..(n + 1) = {}
      BY <1>1
    <3> WITNESS n + 1 \in 1..(n + 1)
    <3> QED  BY <3>2, <3>3, <3>4
  <2>2. CASE later # {}
    <3> DEFINE i == Min(later)
    <3>1. i \in later /\ \A j \in later : i <= j
      <4>1. later \in SUBSET Nat
        OBVIOUS
      <4> HIDE DEF later
      <4> QED  BY <2>2, <4>1, MinProperties
    <3>2. all = InsertAt(list, i, e)
      BY <2>2 DEF Insert
    <3>3. i \in DOMAIN list /\ list[i].revive > e.revive
          /\ \A j \in DOMAIN list : list[j].revive > e.revive => i <= j
      BY <3>1
    <3> HIDE DEF i, later, all
    <3>4. /\ all \in Seq(Delay) /\ DOMAIN all = 1..(n + 1)
          /\ all[i] = e
          /\ \A j \in 1..(i - 1) : all[j] = list[j]
          /\ \A j \in (i + 1)..(n + 1) : all[j] = list[j - 1]
      <4>1. i \in DOMAIN list
        BY <3>3
      <4>2. InsertAt(list, i, e) \in Seq(Delay) /\ PutAt(list, i, e, InsertAt(list, i, e))
        BY <4>1, InsertAtEntries
      <4> QED  BY <3>2, <4>2 DEF PutAt
    <3>5. \A j \in 1..(i - 1) : list[j].revive <= e.revive
      BY <1>1, <3>3
    <3>6. \A j \in (i + 1)..(n + 1) : list[j - 1].revive >= e.revive
      <4> TAKE j \in (i + 1)..(n + 1)
      <4>1. j - 1 \in DOMAIN list /\ i <= j - 1
        BY <1>1, <3>3
      <4>2. list[i].revive <= list[j - 1].revive
        BY <3>3, <4>1 DEF InOrder
      <4> QED  BY <1>1, <3>3, <4>1, <4>2
    <3>7. i \in 1..(n + 1)
      BY <1>1, <3>3
    <3> QED  BY <3>4, <3>5, <3>6, <3>7
  <2> QED  BY <2>1, <2>2
<1> HIDE DEF all, n, later
<1>3. PICK i \in 1..(n + 1) :
        /\ all \in Seq(Delay) /\ DOMAIN all = 1..(n + 1) /\ all[i] = e
        /\ \A j \in 1..(i - 1) : all[j] = list[j] /\ list[j].revive <= e.revive
        /\ \A j \in (i + 1)..(n + 1) : all[j] = list[j - 1] /\ list[j - 1].revive >= e.revive
  BY <1>2
<1>4. \A j \in DOMAIN all : \/ j = i
                            \/ j < i /\ j \in 1..(i - 1) /\ j \in DOMAIN list
                            \/ j > i /\ j \in (i + 1)..(n + 1) /\ j - 1 \in DOMAIN list
  BY <1>1, <1>3
<1>5. \A f : f \in Range(all) <=> f \in Range(list) \/ f = e
  <2> TAKE f
  <2>1. ASSUME f \in Range(all) PROVE f \in Range(list) \/ f = e
    <3>1. PICK j \in DOMAIN all : all[j] = f
      BY <2>1 DEF Range
    <3> QED  BY <1>3, <1>4, <3>1 DEF Range
  <2>2. ASSUME f \in Range(list) PROVE f \in Range(all)
    <3>1. PICK j \in DOMAIN list : list[j] = f
      BY <2>2 DEF Range
    <3>2. CASE j < i
      <4>1. j \in 1..(i - 1) /\ j \in DOMAIN all
        BY <1>1, <1>3, <3>2
      <4> QED  BY <1>3, <3>1, <4>1 DEF Range
    <3>3. CASE j >= i
      <4>1. j + 1 \in (i + 1)..(n + 1) /\ j + 1 \in DOMAIN all /\ (j + 1) - 1 = j
        BY <1>1, <1>3, <3>3
      <4>2. all[j + 1] = f
        BY <1>3, <3>1, <4>1
      <4> QED  BY <4>1, <4>2 DEF Range
    <3> QED  BY <1>1, <3>2, <3>3
  <2>3. e \in Range(all)
    BY <1>3 DEF Range
  <2> QED  BY <2>1, <2>2, <2>3
<1>6. Once(all)
  <2> SUFFICES ASSUME NEW j \in DOMAIN all, NEW l \in DOMAIN all,
                      all[j].client = all[l].client, j < l
               PROVE  FALSE
    <3>1. \A j, l \in DOMAIN all : j \in Nat /\ l \in Nat
      BY <1>1, <1>3
    <3> QED  BY <3>1 DEF Once
  <2>1. \A h \in DOMAIN list : list[h].client # e.client
    BY DEF Range
  <2>2. j \in Nat /\ l \in Nat /\ i \in Nat
    BY <1>1, <1>3
  <2>3. CASE j = i
    BY <1>3, <1>4, <2>1, <2>2, <2>3
  <2>4. CASE l = i
    BY <1>3, <1>4, <2>1, <2>2, <2>4
  <2>5. CASE j < i /\ l < i
    BY <1>3, <1>4, <2>2, <2>5 DEF Once
  <2>6. CASE j < i /\ l > i
    <3>1. j = l - 1
      BY <1>3, <1>4, <2>2, <2>6 DEF Once
    <3> QED  BY <2>2, <2>6, <3>1
  <2>7. CASE j > i /\ l > i
    <3>1. j - 1 = l - 1
      BY <1>3, <1>4, <2>2, <2>7 DEF Once
    <3> QED  BY <2>2, <2>7, <3>1
  <2> QED  BY <2>2, <2>3, <2>4, <2>5, <2>6, <2>7
<1>7. InOrder(all)
  <2> SUFFICES ASSUME NEW j \in DOMAIN all, NEW l \in DOMAIN all, j <= l
               PROVE  all[j].revive <= all[l].revive
    BY DEF InOrder
  <2>1. j \in Nat /\ l \in Nat /\ i \in Nat
    BY <1>1, <1>3
  <2>2. \A h \in DOMAIN all : all[h].revive \in Nat
    BY <1>1, <1>3, <1>4
  <2>3. \A h \in DOMAIN all : h < i => all[h].revive <= e.revive
    BY <1>3, <1>4, <2>1
  <2>4. \A h \in DOMAIN all : h > i => all[h].revive >= e.revive
    BY <1>3, <1>4, <2>1
  <2>5. CASE j < i /\ l < i
    BY <1>3, <1>4, <2>1, <2>5 DEF InOrder
  <2>6. CASE j > i /\ l > i
    <3>1. j - 1 \in DOMAIN list /\ l - 1 \in DOMAIN list /\ j - 1 <= l - 1
      BY <1>4, <2>1, <2>6
    <3> QED  BY <1>3, <1>4, <2>1, <2>6, <3>1 DEF InOrder
  <2>7. CASE j <= i /\ l >= i
    <3>1. all[j].revive <= e.revive
      BY <1>1, <1>3, <2>1, <2>2, <2>3, <2>7
    <3>2. all[l].revive >= e.revive
      BY <1>1, <1>3, <2>1, <2>2, <2>4, <2>7
    <3> QED  BY <1>1, <2>2, <3>1, <3>2
  <2> QED  BY <2>1, <2>5, <2>6, <2>7
<1> QED  BY <1>3, <1>5, <1>6, <1>7 DEF all

(* How many entries a client has.                                          *)
LEMMA OnePlace ==
  ASSUME NEW S, NEW list \in Seq(S), Once(list), NEW c
  PROVE  /\ PlacesOf(c, list) # {} <=> \E e \in Range(list) : e.client = c
         /\ PlacesOf(c, list) # {} => Cardinality(PlacesOf(c, list)) = 1
         /\ PlacesOf(c, list) = {} => Cardinality(PlacesOf(c, list)) = 0
<1>1. PlacesOf(c, list) # {} <=> \E e \in Range(list) : e.client = c
  BY DEF PlacesOf, Range
<1>2. ASSUME PlacesOf(c, list) # {} PROVE Cardinality(PlacesOf(c, list)) = 1
  <2>1. PICK i \in PlacesOf(c, list) : TRUE
    BY <1>2
  <2>2. PlacesOf(c, list) = {i}
    BY <2>1 DEF PlacesOf, Once
  <2> QED  BY <2>2, FS_Singleton
<1> QED  BY <1>1, <1>2, FS_EmptySet

---------------------------------------------------------------------------
(* What the functions on the queues do, as long as no client has two       *)
(* entries in the sleep queue.                                             *)
QueueRecord == [ignore : [Clients -> Int], sleep : Seq(SleepEntry), work : Seq(SleepEntry)]

LEMMA SleepEntries ==
  ASSUME NEW c \in Clients, NEW why \in WakeType \cup {"font"}
  PROVE  Sleep(c, why) \in SleepEntry /\ Sleep(c, why).client = c /\ Sleep(c, why).why = why
BY DEF Sleep, SleepEntry

FallsAsleep(q, c, why, r) ==
  /\ r.ignore = [q.ignore EXCEPT ![c] = @ + 1]
  /\ r.work = q.work
  /\ r.sleep \in Seq(SleepEntry) /\ Once(r.sleep)
  /\ \A e : e \in Range(r.sleep) <=> e \in Range(q.sleep) \/ e = Sleep(c, why)

LEMMA ClientSleepEffect ==
  ASSUME NEW q \in QueueRecord, Once(q.sleep), NEW c \in Clients,
         NEW why \in WakeType \cup {"font"}, \A e \in Range(q.sleep) : e.client # c
  PROVE  FallsAsleep(q, c, why, ClientSleep(q, c, why))
<1> DEFINE sl == q.sleep
           r == ClientSleep(q, c, why)
<1>1. sl \in Seq(SleepEntry) /\ Once(sl)
  BY DEF QueueRecord
<1>2. Sleep(c, why) \in SleepEntry /\ Sleep(c, why).client = c
  BY SleepEntries
<1>3. /\ r.ignore = [q.ignore EXCEPT ![c] = @ + 1] /\ r.work = q.work
      /\ r.sleep = <<Sleep(c, why)>> \o sl
  BY DEF ClientSleep, QueueRecord
<1>4. \A e \in Range(sl) : e.client # Sleep(c, why).client
  BY <1>2
<1> HIDE DEF sl, r
<1>5. /\ <<Sleep(c, why)>> \o sl \in Seq(SleepEntry)
      /\ \A e : e \in Range(<<Sleep(c, why)>> \o sl) <=> e \in Range(sl) \/ e = Sleep(c, why)
      /\ Once(<<Sleep(c, why)>> \o sl)
  BY <1>1, <1>2, <1>4, FirstEntry
<1> QED  BY <1>3, <1>5 DEF sl, r, FallsAsleep

LEMMA ClientWakeupEffect ==
  ASSUME NEW q \in QueueRecord, Once(q.sleep), NEW c \in Clients
  PROVE  LET r == ClientWakeup(q, c)
             sleeps == \E e \in Range(q.sleep) : e.client = c
         IN  /\ r.ignore = IF sleeps /\ c \notin gone THEN [q.ignore EXCEPT ![c] = @ - 1]
                           ELSE q.ignore
             /\ r.work = q.work
             /\ r.sleep \in Seq(SleepEntry) /\ Once(r.sleep)
             /\ \A e : e \in Range(r.sleep) <=> e \in Range(q.sleep) /\ e.client # c
             /\ ~sleeps => r = q
<1> DEFINE sl == q.sleep
           r == ClientWakeup(q, c)
           sleeps == \E e \in Range(sl) : e.client = c
<1>1. sl \in Seq(SleepEntry) /\ Once(sl)
  BY DEF QueueRecord
<1>2. PlacesOf(c, sl) # {} <=> sleeps
  BY <1>1, OnePlace
<1>3. CASE ~sleeps
  BY <1>1, <1>2, <1>3 DEF ClientWakeup, ClientIsAsleep
<1>4. CASE sleeps
  <2>1. /\ r.ignore = IF c \notin gone THEN [q.ignore EXCEPT ![c] = @ - 1] ELSE q.ignore
        /\ r.work = q.work
        /\ r.sleep = Without(sl, Min(PlacesOf(c, sl)))
    BY <1>2, <1>4 DEF ClientWakeup, ClientIsAsleep, AttendClient, QueueRecord
  <2> HIDE DEF sl, r
  <2>2. /\ r.sleep \in Seq(SleepEntry) /\ Once(r.sleep)
        /\ \A e : e \in Range(r.sleep) <=> e \in Range(sl) /\ e.client # c
    BY <1>1, <1>2, <1>4, <2>1, WithoutClient
  <2> QED  BY <1>4, <2>1, <2>2 DEF sl, r
<1> QED  BY <1>3, <1>4

LEMMA ClientSignalEffect ==
  ASSUME NEW q \in QueueRecord, Once(q.sleep), NEW c \in Clients
  PROVE  LET r == ClientSignal(q, c)
         IN  /\ r.ignore = q.ignore /\ r.sleep = q.sleep
             /\ r.work \in Seq(SleepEntry)
             /\ \A e : e \in Range(r.work) <=>
                         e \in Range(q.work) \/ (e \in Range(q.sleep) /\ e.client = c)
             /\ \/ r.work = q.work
                \/ \E e \in Range(q.sleep) : e.client = c /\ r.work = Append(q.work, e)
<1> DEFINE sl == q.sleep
           r == ClientSignal(q, c)
<1>1. sl \in Seq(SleepEntry) /\ Once(sl) /\ q.work \in Seq(SleepEntry)
  BY DEF QueueRecord
<1>2. PlacesOf(c, sl) # {} <=> \E e \in Range(sl) : e.client = c
  BY <1>1, OnePlace
<1>3. CASE PlacesOf(c, sl) = {}
  BY <1>1, <1>2, <1>3 DEF ClientSignal, ClientIsAsleep
<1>4. CASE PlacesOf(c, sl) # {}
  <2> DEFINE i == Min(PlacesOf(c, sl))
  <2>1. /\ r.ignore = q.ignore /\ r.sleep = sl
        /\ r.work = Append(q.work, sl[i])
    BY <1>4 DEF ClientSignal, ClientIsAsleep, QueueRecord
  <2>2. i \in DOMAIN sl /\ sl[i].client = c
    BY <1>1, <1>4, FirstPlace
  <2> HIDE DEF sl, r, i
  <2>3. sl[i] \in SleepEntry /\ sl[i] \in Range(sl)
    BY <1>1, <2>2 DEF Range
  <2>4. /\ r.work \in Seq(SleepEntry)
        /\ \A e : e \in Range(r.work) <=> e \in Range(q.work) \/ e = sl[i]
    BY <1>1, <2>1, <2>3, AppendedEntry
  <2>5. \A e : e \in Range(sl) /\ e.client = c <=> e = sl[i]
    <3>1. \A j \in DOMAIN sl : sl[j].client = c => j = i
      BY <1>1, <2>2 DEF Once
    <3>2. ASSUME NEW e \in Range(sl), e.client = c PROVE e = sl[i]
      <4>1. PICK j \in DOMAIN sl : sl[j] = e
        BY <3>2 DEF Range
      <4> QED  BY <3>1, <3>2, <4>1
    <3> QED  BY <2>2, <2>3, <3>2
  <2> QED  BY <2>1, <2>2, <2>3, <2>4, <2>5 DEF sl, r
<1> QED  BY <1>3, <1>4

(* The clients that dri2WakeAll finds, for a wakeup of c or of all.        *)
Found(q, c, t) == {x \in Clients : c \in {None, x} /\ Sleep(x, t) \in Range(q.sleep)}

LEMMA SignalledEntries ==
  ASSUME NEW q \in QueueRecord, Once(q.sleep), NEW c \in Clients \cup {None}, NEW t \in WakeType
  PROVE  /\ Signalled(q, c, t) \in Seq(SleepEntry)
         /\ \A e : e \in Range(Signalled(q, c, t)) <=>
                     e \in Range(q.sleep) /\ e.why = t /\ c \in {None, e.client}
         /\ Len(Signalled(q, c, t)) = Cardinality(Found(q, c, t))
         /\ IsFiniteSet(Found(q, c, t))
<1> DEFINE sl == q.sleep
           K == {i \in DOMAIN sl : sl[i].why = t /\ c \in {None, sl[i].client}}
           F == Found(q, c, t)
<1>1. sl \in Seq(SleepEntry) /\ Once(sl)
  BY DEF QueueRecord
<1>2. Signalled(q, c, t) = Keep(sl, K)
  BY DEF Signalled
<1>3. /\ Keep(sl, K) \in Seq(SleepEntry) /\ Len(Keep(sl, K)) = Cardinality(K)
      /\ \A e : e \in Range(Keep(sl, K)) <=> \E i \in K : sl[i] = e
  <2>1. K \in SUBSET (DOMAIN sl)
    OBVIOUS
  <2> HIDE DEF K, sl
  <2> QED  BY <1>1, <2>1, KeepEntries
<1>4. \A e : (\E i \in K : sl[i] = e) <=> e \in Range(sl) /\ e.why = t /\ c \in {None, e.client}
  BY DEF Range
<1>5. IsFiniteSet(F)
  BY Sizes, FS_Subset DEF Found
<1>6. IsFiniteSet(K)
  <2>1. Len(sl) \in Nat /\ DOMAIN sl = 1..Len(sl)
    BY <1>1
  <2>2. IsFiniteSet(1..Len(sl))
    BY <2>1, FS_Interval
  <2> QED  BY <2>1, <2>2, FS_Subset
<1>7. Cardinality(K) = Cardinality(F)
  <2> DEFINE f == [i \in K |-> sl[i].client]
  <2>1. \A i \in DOMAIN sl : sl[i] \in SleepEntry /\ sl[i] \in Range(sl)
    BY <1>1 DEF Range
  <2>2. \A e \in SleepEntry : e = Sleep(e.client, e.why) /\ e.client \in Clients
    BY DEF SleepEntry, Sleep
  <2>3. \A i \in K : sl[i].client \in F
    <3> TAKE i \in K
    <3>1. i \in DOMAIN sl /\ sl[i].why = t /\ c \in {None, sl[i].client}
      OBVIOUS
    <3>2. sl[i] \in Range(sl) /\ sl[i] = Sleep(sl[i].client, t) /\ sl[i].client \in Clients
      BY <2>1, <2>2, <3>1
    <3>3. Sleep(sl[i].client, t) \in Range(q.sleep)
      BY <3>2
    <3> QED  BY <3>1, <3>2, <3>3 DEF Found
  <2>4. \A x \in F : \E i \in K : sl[i].client = x
    <3> TAKE x \in F
    <3>1. x \in Clients /\ c \in {None, x} /\ Sleep(x, t) \in Range(sl)
      BY DEF Found
    <3>2. PICK i \in DOMAIN sl : sl[i] = Sleep(x, t)
      BY <3>1 DEF Range
    <3>3. sl[i].client = x /\ sl[i].why = t
      BY <3>2 DEF Sleep
    <3> QED  BY <3>1, <3>2, <3>3
  <2>5. \A i, j \in K : sl[i].client = sl[j].client => i = j
    BY <1>1 DEF Once
  <2> HIDE DEF K, F, sl
  <2>6. f \in [K -> F] /\ \A i \in K : f[i] = sl[i].client
    BY <2>3
  <2> HIDE DEF f
  <2>7. f \in Bijection(K, F)
    BY <2>4, <2>5, <2>6 DEF Bijection, Injection, IsInjective, Surjection
  <2>8. ExistsBijection(K, F)
    BY <2>7 DEF ExistsBijection
  <2> QED  BY <1>6, <2>8, FS_Bijection
<1> QED  BY <1>2, <1>3, <1>4, <1>5, <1>7

Dri2Record == [q : QueueRecord, blocked : [WakeType -> Int]]

WakesAll(d, c, t, r) ==
  /\ d.blocked[t] = 0 => r = d
  /\ r.q.ignore = d.q.ignore /\ r.q.sleep = d.q.sleep
  /\ r.q.work \in Seq(SleepEntry)
  /\ d.blocked[t] # 0 =>
       /\ \A e : e \in Range(r.q.work) <=>
                   \/ e \in Range(d.q.work)
                   \/ e \in Range(d.q.sleep) /\ e.why = t /\ c \in {None, e.client}
       /\ r.blocked = [d.blocked EXCEPT ![t] = (@ - Cardinality(Found(d.q, c, t))) % UINT]
       /\ Found(d.q, c, t) = {} => r.q = d.q

LEMMA WakeAllEffect ==
  ASSUME NEW d \in Dri2Record, Once(d.q.sleep), NEW c \in Clients \cup {None}, NEW t \in WakeType
  PROVE  WakesAll(d, c, t, WakeAll(d, c, t))
<1> DEFINE q == d.q
           r == WakeAll(d, c, t)
           more == Signalled(q, c, t)
<1>1. q \in QueueRecord /\ Once(q.sleep) /\ q.work \in Seq(SleepEntry)
  BY DEF Dri2Record, QueueRecord
<1>2. /\ more \in Seq(SleepEntry)
      /\ \A e : e \in Range(more) <=> e \in Range(q.sleep) /\ e.why = t /\ c \in {None, e.client}
      /\ Len(more) = Cardinality(Found(q, c, t)) /\ IsFiniteSet(Found(q, c, t))
  BY <1>1, SignalledEntries
<1>3. CASE d.blocked[t] = 0
  BY <1>1, <1>3 DEF WakeAll, WakesAll
<1>4. CASE d.blocked[t] # 0
  <2>1. r = [q |-> [q EXCEPT !.work = @ \o more],
             blocked |-> [d.blocked EXCEPT ![t] = (@ - Len(more)) % UINT]]
    BY <1>4, Zenon DEF WakeAll
  <2> HIDE DEF r, more
  <2>2. /\ r.q = [q EXCEPT !.work = @ \o more]
        /\ r.blocked = [d.blocked EXCEPT ![t] = (@ - Len(more)) % UINT]
    BY <2>1
  <2>3. /\ r.q.ignore = q.ignore /\ r.q.sleep = q.sleep /\ r.q.work = q.work \o more
    BY <1>1, <2>2 DEF QueueRecord
  <2> HIDE DEF q
  <2>4. /\ q.work \o more \in Seq(SleepEntry)
        /\ \A e : e \in Range(q.work \o more) <=> e \in Range(q.work) \/ e \in Range(more)
    BY <1>1, <1>2, JoinedEntries
  <2>5. Found(q, c, t) = {} => r.q = q
    <3> SUFFICES ASSUME Found(q, c, t) = {} PROVE r.q = q
      OBVIOUS
    <3>1. Len(more) = 0
      BY <1>2, FS_EmptySet
    <3>2. q.work \in Seq(SleepEntry) /\ more \in Seq(SleepEntry)
      BY <1>1, <1>2
    <3>3. more = <<>>
      BY <3>1, <3>2
    <3>4. q.work \o more = q.work
      BY <3>2, <3>3, ConcatEmptySeq
    <3>5. [q EXCEPT !.work = q.work] = q
      BY <1>1 DEF QueueRecord
    <3> QED  BY <2>2, <3>4, <3>5 DEF q
  <2> QED  BY <1>2, <1>4, <2>2, <2>3, <2>4, <2>5 DEF q, r, WakesAll
<1> QED  BY <1>3, <1>4

---------------------------------------------------------------------------
(* The counts are unsigned.                                                *)
LEMMA Unsigned ==
  ASSUME NEW n \in Int
  PROVE  n % UINT \in 0..(UINT - 1)
BY Sizes

(* Steps that only put sleepers in the work queue.                         *)
OnlySignals(q, r) ==
  /\ r.ignore = q.ignore /\ r.sleep = q.sleep /\ r.work \in Seq(SleepEntry)
  /\ \A e \in Range(r.work) : e \in Range(q.work) \/ e \in Range(q.sleep)
  /\ \A e \in Range(q.work) : e \in Range(r.work)

(* Those of dri2.c leave the functions for fonts as they are.              *)
FontsOnce(list) ==
  \A i, j \in DOMAIN list : list[i] = list[j] /\ list[i].why = "font" => i = j

DriSignals(q, r) ==
  /\ OnlySignals(q, r)
  /\ FontsOnce(q.work) => FontsOnce(r.work)
  /\ \A e \in Range(r.work) : e.why = "font" => e \in Range(q.work)

LEMMA JoinedFonts ==
  ASSUME NEW S, NEW left \in Seq(S), NEW right \in Seq(S), FontsOnce(left),
         \A e \in Range(right) : e.why # "font"
  PROVE  FontsOnce(left \o right)
<1> DEFINE all == left \o right
           n == Len(left)
<1>1. /\ n \in Nat /\ Len(right) \in Nat
      /\ DOMAIN left = 1..n /\ DOMAIN right = 1..Len(right)
  OBVIOUS
<1>2. /\ DOMAIN all = 1..(n + Len(right))
      /\ \A i \in 1..(n + Len(right)) : all[i] = IF i <= n THEN left[i] ELSE right[i - n]
  <2>1. /\ all \in Seq(S) /\ Len(all) = n + Len(right)
        /\ \A i \in 1..(n + Len(right)) : all[i] = IF i <= n THEN left[i] ELSE right[i - n]
    BY ConcatProperties
  <2> HIDE DEF all
  <2> QED  BY <2>1
<1> HIDE DEF all, n
<1>3. \A i \in DOMAIN all : all[i].why = "font" => i \in DOMAIN left /\ all[i] = left[i]
  <2> SUFFICES ASSUME NEW i \in DOMAIN all, all[i].why = "font"
               PROVE  i \in DOMAIN left /\ all[i] = left[i]
    OBVIOUS
  <2>1. CASE i <= n
    BY <1>1, <1>2, <2>1
  <2>2. CASE ~(i <= n)
    <3>1. i - n \in DOMAIN right /\ all[i] = right[i - n]
      BY <1>1, <1>2, <2>2
    <3> QED  BY <3>1 DEF Range
  <2> QED  BY <2>1, <2>2
<1> QED  BY <1>3 DEF FontsOnce, all

LEMMA ClientSignalSignals ==
  ASSUME NEW q \in QueueRecord, Once(q.sleep), NEW c \in Clients
  PROVE  OnlySignals(q, ClientSignal(q, c))
BY ClientSignalEffect DEF OnlySignals

LEMMA WakeAllSignals ==
  ASSUME NEW d \in Dri2Record, Once(d.q.sleep), NEW c \in Clients \cup {None}, NEW t \in WakeType
  PROVE  LET r == WakeAll(d, c, t)
         IN  /\ r \in Dri2Record /\ Once(r.q.sleep) /\ DriSignals(d.q, r.q)
             /\ d.blocked \in [WakeType -> 0..(UINT - 1)] =>
                  r.blocked \in [WakeType -> 0..(UINT - 1)]
<1> DEFINE r == WakeAll(d, c, t)
           n == Cardinality(Found(d.q, c, t))
<1>1. d.q \in QueueRecord /\ d.blocked \in [WakeType -> Int] /\ d.q.work \in Seq(SleepEntry)
  BY DEF Dri2Record, QueueRecord
<1>2. n \in Int
  <2>1. IsFiniteSet(Found(d.q, c, t))
    BY <1>1, SignalledEntries
  <2> QED  BY <2>1, FS_CardinalityType
<1>3. /\ d.blocked[t] = 0 => r = d
      /\ r.q.ignore = d.q.ignore /\ r.q.sleep = d.q.sleep /\ r.q.work \in Seq(SleepEntry)
      /\ d.blocked[t] # 0 =>
           /\ \A e : e \in Range(r.q.work) <=>
                       \/ e \in Range(d.q.work)
                       \/ e \in Range(d.q.sleep) /\ e.why = t /\ c \in {None, e.client}
           /\ r.blocked = [d.blocked EXCEPT ![t] = (@ - n) % UINT]
  <2>1. WakesAll(d, c, t, r)
    BY WakeAllEffect
  <2> HIDE DEF r
  <2> QED  BY <2>1 DEF WakesAll
<1>4. OnlySignals(d.q, r.q)
  BY <1>1, <1>3 DEF OnlySignals
<1>5. (d.blocked[t] - n) % UINT \in 0..(UINT - 1)
  <2>1. d.blocked[t] - n \in Int
    BY <1>1, <1>2
  <2> QED  BY <2>1, Unsigned
<1>6. \A m : m \in 0..(UINT - 1) => m \in Int
  BY Sizes
<1>7. r \in Dri2Record
  <2>1. CASE d.blocked[t] = 0
    BY <1>3, <2>1
  <2>2. CASE d.blocked[t] # 0
    <3>1. r.q = [d.q EXCEPT !.work = @ \o Signalled(d.q, c, t)]
      BY <2>2 DEF WakeAll
    <3>2. r.q.work = d.q.work \o Signalled(d.q, c, t)
      BY <1>1, <3>1 DEF QueueRecord
    <3>3. [d.q EXCEPT !.work = r.q.work] \in QueueRecord
      BY <1>1, <1>3 DEF QueueRecord
    <3>4. r.q \in QueueRecord
      BY <3>1, <3>2, <3>3
    <3>5. r.blocked \in [WakeType -> Int]
      BY <1>1, <1>3, <1>5, <1>6, <2>2
    <3>6. r = [q |-> r.q, blocked |-> r.blocked]
      BY <2>2 DEF WakeAll
    <3> QED  BY <3>4, <3>5, <3>6 DEF Dri2Record
  <2> QED  BY <2>1, <2>2
<1>8. ASSUME d.blocked \in [WakeType -> 0..(UINT - 1)]
      PROVE  r.blocked \in [WakeType -> 0..(UINT - 1)]
  BY <1>3, <1>5, <1>8
<1>9. DriSignals(d.q, r.q)
  <2>1. \A e \in Range(r.q.work) : e.why = "font" => e \in Range(d.q.work)
    BY <1>3 DEF WakeType
  <2>2. ASSUME FontsOnce(d.q.work) PROVE FontsOnce(r.q.work)
    <3>1. CASE d.blocked[t] = 0
      BY <1>3, <2>2, <3>1
    <3>2. CASE d.blocked[t] # 0
      <4> DEFINE more == Signalled(d.q, c, t)
      <4>1. r.q.work = d.q.work \o more
        <5>1. r.q = [d.q EXCEPT !.work = @ \o more]
          BY <3>2 DEF WakeAll
        <5> QED  BY <1>1, <5>1 DEF QueueRecord
      <4>2. /\ more \in Seq(SleepEntry)
            /\ \A e : e \in Range(more) <=> e \in Range(d.q.sleep) /\ e.why = t /\ c \in {None, e.client}
        BY <1>1, SignalledEntries
      <4> HIDE DEF more, r
      <4>3. \A e \in Range(more) : e.why # "font"
        BY <4>2 DEF WakeType
      <4> QED  BY <1>1, <2>2, <4>1, <4>2, <4>3, JoinedFonts
    <3> QED  BY <3>1, <3>2
  <2> QED  BY <1>4, <2>1, <2>2 DEF DriSignals
<1> QED  BY <1>3, <1>7, <1>8, <1>9

LEMMA SignalsTransitive ==
  ASSUME NEW p, NEW q, NEW r, DriSignals(p, q), DriSignals(q, r)
  PROVE  DriSignals(p, r)
BY DEF DriSignals, OnlySignals

---------------------------------------------------------------------------
(* What a client waits for.                                                *)
Sleeps(c) == \E e \in Range(sleepQueue) : e.client = c
Delayed(c) == \E d \in Range(pending) : d.client = c
HasWork(c) == \E e \in Range(workQueue) : e.client = c

QueueType ==
  /\ gone \subseteq Clients
  /\ ignoreCount \in [Clients -> Nat]
  /\ sleepQueue \in Seq(SleepEntry)
  /\ workQueue \in Seq(SleepEntry)
  /\ pending \in Seq(Delay)

(* A client waits in one place; the delays are in the order of time.       *)
OneQueue ==
  /\ Once(sleepQueue) /\ Once(pending) /\ InOrder(pending)
  /\ \A c \in Clients : ~(Sleeps(c) /\ Delayed(c))

IgnoredOnce ==
  \A c \in Clients \ gone : ignoreCount[c] = IF Sleeps(c) \/ Delayed(c) THEN 1 ELSE 0

(* The functions of who is gone are called before anything else happens,   *)
(* and end the sleep.                                                      *)
NothingOfGone == pc # "zombies" => \A c \in gone : ~Sleeps(c) /\ ~Delayed(c) /\ ~HasWork(c)
GoneAreCalled == \A c \in gone : Sleeps(c) => HasWork(c)

(* A function in the work queue is for a client that sleeps for it, or     *)
(* comes after another of the client that has been called just before.     *)
WorkHasSleeper ==
  \A e \in Range(workQueue) :
    \/ e \in Range(sleepQueue)
    \/ ~Sleeps(e.client) /\ (pc = "work" \/ (pc = "zombies" /\ e.client \in gone))

ServedIsThere == pc = "dispatch" => serving \notin gone

QueuesInv ==
  /\ QueueType /\ OneQueue /\ IgnoredOnce
  /\ NothingOfGone /\ GoneAreCalled /\ WorkHasSleeper /\ ServedIsThere

LEMMA QueuesAreRecord ==
  ASSUME QueueType
  PROVE  /\ Queues \in QueueRecord
         /\ Queues.ignore = ignoreCount /\ Queues.sleep = sleepQueue /\ Queues.work = workQueue
<1>1. ignoreCount \in [Clients -> Int]
  BY DEF QueueType
<1> QED  BY <1>1 DEF Queues, QueueRecord, QueueType

---------------------------------------------------------------------------
(* The ways in which the queues change.                                    *)

(* They do not, and the main thread goes on; it leaves the work queue when *)
(* it is empty, and what is left of who is gone when there is nothing.     *)
LEMMA QueuesKept ==
  ASSUME QueuesInv,
         UNCHANGED <<ignoreCount, sleepQueue, workQueue, pending, gone>>,
         pc' # "zombies", pc # "zombies", pc = "work" => workQueue = <<>> \/ pc' = "work",
         pc' = "dispatch" => serving' \notin gone
  PROVE  QueuesInv'
<1>1. QueueType' /\ OneQueue' /\ IgnoredOnce'
  BY DEF QueuesInv, QueueType, OneQueue, IgnoredOnce, Sleeps, Delayed
<1>2. NothingOfGone' /\ GoneAreCalled' /\ ServedIsThere'
  BY DEF QueuesInv, NothingOfGone, GoneAreCalled, ServedIsThere, Sleeps, Delayed, HasWork
<1>3. WorkHasSleeper'
  <2>1. pc = "work" /\ pc' # "work" => Range(workQueue) = {}
    BY DEF Range
  <2> QED  BY <2>1 DEF QueuesInv, WorkHasSleeper, Sleeps
<1> QED  BY <1>1, <1>2, <1>3 DEF QueuesInv

(* Sleepers are signalled.                                                 *)
LEMMA QueuesSignal ==
  ASSUME QueuesInv, UNCHANGED <<pc, serving, gone, pending>>,
         NEW r, OnlySignals(Queues, r), SetQueues(r)
  PROVE  QueuesInv'
<1>1. /\ UNCHANGED <<ignoreCount, sleepQueue>> /\ workQueue' \in Seq(SleepEntry)
      /\ \A e \in Range(workQueue') : e \in Range(workQueue) \/ e \in Range(sleepQueue)
      /\ \A e \in Range(workQueue) : e \in Range(workQueue')
  BY QueuesAreRecord DEF OnlySignals, SetQueues, QueuesInv
<1>2. QueueType' /\ OneQueue' /\ IgnoredOnce'
  BY <1>1 DEF QueuesInv, QueueType, OneQueue, IgnoredOnce, Sleeps, Delayed
<1>3. NothingOfGone' /\ GoneAreCalled' /\ ServedIsThere'
  BY <1>1 DEF QueuesInv, NothingOfGone, GoneAreCalled, ServedIsThere, Sleeps, Delayed, HasWork
<1>4. WorkHasSleeper'
  BY <1>1 DEF QueuesInv, WorkHasSleeper, Sleeps
<1> QED  BY <1>2, <1>3, <1>4 DEF QueuesInv

(* The client that is served falls asleep.                                 *)
LEMMA SleepSteps ==
  ASSUME QueuesInv, NEW c \in Clients, NEW why \in WakeType \cup {"font"},
         pc = "dispatch", serving = c, ignoreCount[c] = 0,
         SetQueues(ClientSleep(Queues, c, why))
  PROVE  /\ c \notin gone /\ ~Sleeps(c) /\ ~Delayed(c)
         /\ ignoreCount' = [ignoreCount EXCEPT ![c] = @ + 1]
         /\ workQueue' = workQueue
         /\ sleepQueue' \in Seq(SleepEntry) /\ Once(sleepQueue')
         /\ \A e : e \in Range(sleepQueue') <=> e \in Range(sleepQueue) \/ e = Sleep(c, why)
<1>1. c \notin gone
  BY DEF QueuesInv, ServedIsThere
<1>2. ~Sleeps(c) /\ ~Delayed(c)
  BY <1>1 DEF QueuesInv, IgnoredOnce
<1>3. /\ ignoreCount' = [ignoreCount EXCEPT ![c] = @ + 1]
      /\ workQueue' = workQueue
      /\ sleepQueue' \in Seq(SleepEntry) /\ Once(sleepQueue')
      /\ \A e : e \in Range(sleepQueue') <=> e \in Range(sleepQueue) \/ e = Sleep(c, why)
  <2> DEFINE q == Queues
             r == ClientSleep(q, c, why)
  <2>1. q \in QueueRecord /\ q.ignore = ignoreCount /\ q.sleep = sleepQueue /\ q.work = workQueue
    BY QueuesAreRecord DEF QueuesInv
  <2>2. SetQueues(r)
    OBVIOUS
  <2> HIDE DEF q
  <2>3. Once(q.sleep)
    BY <2>1 DEF QueuesInv, OneQueue
  <2>4. \A e \in Range(q.sleep) : e.client # c
    BY <1>2, <2>1 DEF Sleeps
  <2>5. q \in QueueRecord
    BY <2>1
  <2>6. FallsAsleep(q, c, why, r)
    BY <2>3, <2>4, <2>5, ClientSleepEffect
  <2> HIDE DEF r
  <2> QED  BY <2>1, <2>2, <2>6 DEF SetQueues, FallsAsleep
<1> QED  BY <1>1, <1>2, <1>3

LEMMA QueuesSleep ==
  ASSUME QueuesInv, NEW c \in Clients, NEW why \in WakeType \cup {"font"},
         pc = "dispatch", serving = c, ignoreCount[c] = 0,
         UNCHANGED <<pc, serving, gone, pending>>,
         SetQueues(ClientSleep(Queues, c, why))
  PROVE  QueuesInv'
<1>1. c \notin gone
  BY SleepSteps
<1>2. ~Sleeps(c) /\ ~Delayed(c)
  BY SleepSteps
<1>3. /\ ignoreCount' = [ignoreCount EXCEPT ![c] = @ + 1]
      /\ workQueue' = workQueue
      /\ sleepQueue' \in Seq(SleepEntry) /\ Once(sleepQueue')
      /\ \A e : e \in Range(sleepQueue') <=> e \in Range(sleepQueue) \/ e = Sleep(c, why)
  BY SleepSteps
<1>4. Sleep(c, why).client = c
  BY SleepEntries
<1>5. \A x : Sleeps(x)' <=> Sleeps(x) \/ x = c
  BY <1>3, <1>4 DEF Sleeps
<1>6. \A x : (Delayed(x)' <=> Delayed(x)) /\ (HasWork(x)' <=> HasWork(x))
  BY <1>3 DEF Delayed, HasWork
<1>7. QueueType'
  <2>1. ignoreCount' \in [Clients -> Nat]
    BY <1>3 DEF QueuesInv, QueueType
  <2> QED  BY <1>3, <2>1 DEF QueuesInv, QueueType
<1>8. OneQueue'
  BY <1>2, <1>3, <1>5, <1>6 DEF QueuesInv, OneQueue
<1>9. IgnoredOnce'
  <2> SUFFICES ASSUME NEW x \in Clients \ gone
               PROVE  ignoreCount'[x] = IF Sleeps(x)' \/ Delayed(x)' THEN 1 ELSE 0
    BY DEF IgnoredOnce
  <2>1. ignoreCount[x] = IF Sleeps(x) \/ Delayed(x) THEN 1 ELSE 0
    BY DEF QueuesInv, IgnoredOnce
  <2>2. ignoreCount'[x] = IF x = c THEN 1 ELSE ignoreCount[x]
    BY <1>3 DEF QueuesInv, QueueType
  <2> QED  BY <1>5, <1>6, <2>1, <2>2
<1>10. NothingOfGone' /\ GoneAreCalled' /\ ServedIsThere'
  BY <1>1, <1>5, <1>6 DEF QueuesInv, NothingOfGone, GoneAreCalled, ServedIsThere
<1>11. WorkHasSleeper'
  BY <1>3 DEF QueuesInv, WorkHasSleeper
<1> QED  BY <1>7, <1>8, <1>9, <1>10, <1>11 DEF QueuesInv

(* The function of a client in the work queue is called and removed, which *)
(* ends its sleep.                                                         *)
LEMMA QueuesWake ==
  ASSUME QueuesInv, NEW c \in Clients, NEW work \in Seq(SleepEntry),
         \A e \in Range(work) : e \in Range(workQueue),
         \A e \in Range(workQueue) : e.client = c \/ e \in Range(work),
         pc = "work" \/ (pc = "zombies" /\ c \in gone),
         UNCHANGED <<pc, serving, gone, pending>>,
         SetQueues(ClientWakeup([Queues EXCEPT !.work = work], c))
  PROVE  QueuesInv' /\ workQueue' = work
         /\ \A e : e \in Range(sleepQueue') <=> e \in Range(sleepQueue) /\ e.client # c
<1> DEFINE q == [Queues EXCEPT !.work = work]
<1>1. q \in QueueRecord /\ q.ignore = ignoreCount /\ q.sleep = sleepQueue /\ q.work = work
  BY QueuesAreRecord DEF QueuesInv, QueueRecord
<1>2. Once(q.sleep)
  BY <1>1 DEF QueuesInv, OneQueue
<1> HIDE DEF q
<1>3. /\ ignoreCount' = IF Sleeps(c) /\ c \notin gone THEN [ignoreCount EXCEPT ![c] = @ - 1]
                        ELSE ignoreCount
      /\ workQueue' = work
      /\ sleepQueue' \in Seq(SleepEntry) /\ Once(sleepQueue')
      /\ \A e : e \in Range(sleepQueue') <=> e \in Range(sleepQueue) /\ e.client # c
  <2> DEFINE r == ClientWakeup(q, c)
  <2>1. SetQueues(r)
    BY DEF q
  <2>2. /\ r.ignore = IF (\E e \in Range(q.sleep) : e.client = c) /\ c \notin gone
                      THEN [q.ignore EXCEPT ![c] = @ - 1] ELSE q.ignore
        /\ r.work = q.work
        /\ r.sleep \in Seq(SleepEntry) /\ Once(r.sleep)
        /\ \A e : e \in Range(r.sleep) <=> e \in Range(q.sleep) /\ e.client # c
    BY <1>1, <1>2, ClientWakeupEffect
  <2> HIDE DEF r
  <2> QED  BY <1>1, <2>1, <2>2 DEF SetQueues, Sleeps
<1>4. \A x : Sleeps(x)' <=> Sleeps(x) /\ x # c
  BY <1>3 DEF Sleeps
<1>5. \A x : /\ Delayed(x)' <=> Delayed(x)
             /\ HasWork(x)' => HasWork(x)
             /\ x # c => (HasWork(x)' <=> HasWork(x))
  BY <1>3 DEF Delayed, HasWork
<1>6. IgnoredOnce' /\ ignoreCount' \in [Clients -> Nat]
  <2>1. ignoreCount \in [Clients -> Nat]
    BY DEF QueuesInv, QueueType
  <2>2. \A x \in Clients \ gone : ignoreCount[x] = IF Sleeps(x) \/ Delayed(x) THEN 1 ELSE 0
    BY DEF QueuesInv, IgnoredOnce
  <2>3. ~(Sleeps(c) /\ Delayed(c))
    BY DEF QueuesInv, OneQueue
  <2>4. CASE Sleeps(c) /\ c \notin gone
    <3>1. ignoreCount[c] = 1 /\ ignoreCount' = [ignoreCount EXCEPT ![c] = 0]
      <4>1. ignoreCount[c] = 1
        BY <2>2, <2>4
      <4>2. ignoreCount' = [ignoreCount EXCEPT ![c] = @ - 1]
        BY <1>3, <2>4
      <4> QED  BY <4>1, <4>2
    <3>2. \A x \in Clients : ignoreCount'[x] = IF x = c THEN 0 ELSE ignoreCount[x]
      BY <2>1, <3>1
    <3> QED  BY <1>4, <1>5, <2>1, <2>2, <2>3, <2>4, <3>1, <3>2 DEF IgnoredOnce
  <2>5. CASE ~(Sleeps(c) /\ c \notin gone)
    <3>1. ignoreCount' = ignoreCount
      BY <1>3, <2>5
    <3> QED  BY <1>4, <1>5, <2>1, <2>2, <2>5, <3>1 DEF IgnoredOnce
  <2> QED  BY <2>4, <2>5
<1>7. QueueType' /\ OneQueue'
  BY <1>3, <1>4, <1>5, <1>6 DEF QueuesInv, QueueType, OneQueue
<1>8. NothingOfGone' /\ GoneAreCalled' /\ ServedIsThere'
  BY <1>4, <1>5 DEF QueuesInv, NothingOfGone, GoneAreCalled, ServedIsThere
<1>9. WorkHasSleeper'
  BY <1>3, <1>4 DEF QueuesInv, WorkHasSleeper
<1> QED  BY <1>3, <1>6, <1>7, <1>8, <1>9 DEF QueuesInv

(* The delays that are over end.                                           *)
LEMMA QueuesFreeDue ==
  ASSUME QueuesInv, FreeDue, UNCHANGED <<serving, gone, sleepQueue, workQueue>>,
         pc \in {"block", "poll"}, pc' \in {"poll", "events"}
  PROVE  /\ QueuesInv'
         /\ \A e : e \in Range(pending') <=> \E i \in DOMAIN pending \ Due : pending[i] = e
<1> DEFINE K == DOMAIN pending \ Due
           over(c) == Cardinality(Due \cap PlacesOf(c, pending))
<1>1. pending \in Seq(Delay) /\ Once(pending) /\ InOrder(pending)
  BY DEF QueuesInv, QueueType, OneQueue
<1>2. /\ pending' \in Seq(Delay) /\ Once(pending') /\ InOrder(pending')
      /\ \A e : e \in Range(pending') <=> \E i \in K : pending[i] = e
  <2>1. K \in SUBSET (DOMAIN pending) /\ pending' = Keep(pending, K)
    BY DEF FreeDue
  <2> HIDE DEF K
  <2> DEFINE kept == Keep(pending, K)
  <2>2. /\ kept \in Seq(Delay) /\ (Once(pending) => Once(kept)) /\ (InOrder(pending) => InOrder(kept))
        /\ \A e : e \in Range(kept) <=> \E i \in K : pending[i] = e
    BY <1>1, <2>1, KeepEntries
  <2> HIDE DEF kept
  <2> QED  BY <1>1, <2>1, <2>2 DEF kept
<1>3. ASSUME NEW c
      PROVE  \/ ~Delayed(c) /\ ~Delayed(c)' /\ over(c) = 0
             \/ Delayed(c) /\ Delayed(c)' /\ over(c) = 0
             \/ Delayed(c) /\ ~Delayed(c)' /\ over(c) = 1
  <2>1. Delayed(c) <=> \E i \in DOMAIN pending : pending[i].client = c
    BY DEF Delayed, Range
  <2>2. Delayed(c)' <=> \E i \in K : pending[i].client = c
    BY <1>2 DEF Delayed
  <2>3. CASE ~Delayed(c)
    <3>1. Due \cap PlacesOf(c, pending) = {}
      BY <2>1, <2>3 DEF PlacesOf
    <3>2. over(c) = 0
      BY <3>1, FS_EmptySet
    <3> QED  BY <2>1, <2>2, <2>3, <3>2
  <2>4. CASE Delayed(c)
    <3>1. PICK i \in DOMAIN pending : pending[i].client = c
      BY <2>1, <2>4
    <3>2. PlacesOf(c, pending) = {i}
      BY <1>1, <3>1 DEF PlacesOf, Once
    <3>3. CASE i \in Due
      <4>1. Due \cap PlacesOf(c, pending) = {i}
        BY <3>2, <3>3
      <4>2. over(c) = 1
        BY <4>1, FS_Singleton
      <4>3. ~Delayed(c)'
        BY <2>2, <3>2, <3>3 DEF PlacesOf
      <4> QED  BY <2>4, <4>2, <4>3
    <3>4. CASE i \notin Due
      <4>1. Due \cap PlacesOf(c, pending) = {}
        BY <3>2, <3>4
      <4>2. over(c) = 0
        BY <4>1, FS_EmptySet
      <4> QED  BY <2>2, <2>4, <3>1, <3>4, <4>2
    <3> QED  BY <3>3, <3>4
  <2> QED  BY <2>3, <2>4
<1>4. ignoreCount' = [c \in Clients |-> ignoreCount[c] - over(c)]
  BY DEF FreeDue
<1> HIDE DEF K, over
<1>5. \A x : (Sleeps(x)' <=> Sleeps(x)) /\ (HasWork(x)' <=> HasWork(x))
  BY DEF Sleeps, HasWork
<1>6. \A c \in gone : ~Delayed(c)
  BY DEF QueuesInv, NothingOfGone
<1>7. \A c \in Clients : /\ ignoreCount'[c] \in Nat
                         /\ c \notin gone =>
                              ignoreCount'[c] = IF Sleeps(c)' \/ Delayed(c)' THEN 1 ELSE 0
  <2> TAKE c \in Clients
  <2>1. ignoreCount[c] \in Nat /\ ignoreCount'[c] = ignoreCount[c] - over(c)
    BY <1>4 DEF QueuesInv, QueueType
  <2>2. c \notin gone => ignoreCount[c] = IF Sleeps(c) \/ Delayed(c) THEN 1 ELSE 0
    BY DEF QueuesInv, IgnoredOnce
  <2>3. ~(Sleeps(c) /\ Delayed(c))
    BY DEF QueuesInv, OneQueue
  <2>4. CASE c \in gone
    <3>1. over(c) = 0
      BY <1>3, <1>6, <2>4
    <3> QED  BY <2>1, <2>4, <3>1
  <2>5. CASE c \notin gone
    BY <1>3, <1>5, <2>1, <2>2, <2>3, <2>5
  <2> QED  BY <2>4, <2>5
<1>8. QueueType' /\ OneQueue' /\ IgnoredOnce'
  <2>1. ignoreCount' \in [Clients -> Nat]
    BY <1>4, <1>7
  <2>2. \A c : Delayed(c)' => Delayed(c)
    BY <1>3
  <2> QED  BY <1>2, <1>5, <1>7, <2>1, <2>2 DEF QueuesInv, QueueType, OneQueue, IgnoredOnce
<1>9. NothingOfGone' /\ GoneAreCalled' /\ ServedIsThere'
  BY <1>3, <1>5 DEF QueuesInv, NothingOfGone, GoneAreCalled, ServedIsThere
<1>10. WorkHasSleeper'
  BY <1>5 DEF QueuesInv, WorkHasSleeper
<1> QED  BY <1>2, <1>8, <1>9, <1>10 DEF QueuesInv, K

LEMMA QueuesFakeInput ==
  ASSUME QueuesInv, NEW c \in Clients, NEW revive \in 0..MaxTime, FakeInput(c, revive)
  PROVE  QueuesInv'
<1> DEFINE d == [client |-> c, revive |-> revive]
<1>1. /\ pc = "dispatch" /\ serving = c /\ ignoreCount[c] = 0
      /\ pending' = Insert(pending, d)
      /\ ignoreCount' = [ignoreCount EXCEPT ![c] = @ + 1]
      /\ UNCHANGED <<pc, serving, gone, sleepQueue, workQueue>>
  BY DEF FakeInput, Serves
<1>2. c \notin gone
  BY <1>1 DEF QueuesInv, ServedIsThere
<1>3. ~Sleeps(c) /\ ~Delayed(c)
  BY <1>1, <1>2 DEF QueuesInv, IgnoredOnce
<1>4. /\ pending' \in Seq(Delay) /\ Once(pending') /\ InOrder(pending')
      /\ \A e : e \in Range(pending') <=> e \in Range(pending) \/ e = d
  <2>1. pending \in Seq(Delay) /\ Once(pending) /\ InOrder(pending)
    BY DEF QueuesInv, QueueType, OneQueue
  <2>2. d \in Delay /\ d.client = c
    BY DEF Delay
  <2> HIDE DEF d
  <2>3. \A e \in Range(pending) : e.client # d.client
    BY <1>3, <2>2 DEF Delayed
  <2> DEFINE all == Insert(pending, d)
  <2>4. /\ all \in Seq(Delay) /\ Once(all) /\ InOrder(all)
        /\ \A e : e \in Range(all) <=> e \in Range(pending) \/ e = d
    BY <2>1, <2>2, <2>3, InsertEntries
  <2> HIDE DEF all
  <2> QED  BY <1>1, <2>4 DEF all
<1>5. \A x : /\ Delayed(x)' <=> Delayed(x) \/ x = c
             /\ (Sleeps(x)' <=> Sleeps(x)) /\ (HasWork(x)' <=> HasWork(x))
  BY <1>1, <1>4 DEF Delayed, Sleeps, HasWork
<1> HIDE DEF d
<1>6. IgnoredOnce' /\ ignoreCount' \in [Clients -> Nat]
  <2>1. ignoreCount \in [Clients -> Nat]
    BY DEF QueuesInv, QueueType
  <2>2. \A x \in Clients \ gone : ignoreCount[x] = IF Sleeps(x) \/ Delayed(x) THEN 1 ELSE 0
    BY DEF QueuesInv, IgnoredOnce
  <2>3. \A x \in Clients : ignoreCount'[x] = IF x = c THEN 1 ELSE ignoreCount[x]
    BY <1>1, <2>1
  <2>4. IgnoredOnce'
    BY <1>1, <1>5, <2>2, <2>3 DEF IgnoredOnce
  <2> QED  BY <1>1, <2>1, <2>4
<1>7. QueueType' /\ OneQueue'
  BY <1>1, <1>3, <1>4, <1>5, <1>6 DEF QueuesInv, QueueType, OneQueue
<1>8. NothingOfGone' /\ GoneAreCalled' /\ ServedIsThere'
  BY <1>1, <1>2, <1>5 DEF QueuesInv, NothingOfGone, GoneAreCalled, ServedIsThere
<1>9. WorkHasSleeper'
  BY <1>1, <1>5 DEF QueuesInv, WorkHasSleeper
<1> QED  BY <1>6, <1>7, <1>8, <1>9 DEF QueuesInv

LEMMA QueuesZombiesDone ==
  ASSUME QueuesInv, ZombiesDone
  PROVE  /\ QueuesInv'
         /\ \A e : e \in Range(pending') => e \in Range(pending)
<1> DEFINE K == {i \in DOMAIN pending : pending[i].client \notin gone}
<1>1. /\ pc = "zombies" /\ pc' = "dispatch" /\ Zombies = {}
      /\ pending' = Keep(pending, K)
      /\ serving' = IF serving \in gone THEN None ELSE serving
      /\ UNCHANGED <<gone, ignoreCount, sleepQueue, workQueue>>
  BY DEF ZombiesDone, queueVars
<1>2. /\ pending' \in Seq(Delay) /\ Once(pending') /\ InOrder(pending')
      /\ \A e : e \in Range(pending') <=> e \in Range(pending) /\ e.client \notin gone
  <2>1. pending \in Seq(Delay) /\ Once(pending) /\ InOrder(pending)
    BY DEF QueuesInv, QueueType, OneQueue
  <2>2. K \in SUBSET (DOMAIN pending)
    OBVIOUS
  <2>3. \A e : (\E i \in K : pending[i] = e) <=> e \in Range(pending) /\ e.client \notin gone
    BY DEF Range
  <2> HIDE DEF K
  <2> DEFINE kept == Keep(pending, K)
  <2>4. /\ kept \in Seq(Delay) /\ (Once(pending) => Once(kept)) /\ (InOrder(pending) => InOrder(kept))
        /\ \A e : e \in Range(kept) <=> \E i \in K : pending[i] = e
    BY <2>1, <2>2, KeepEntries
  <2> HIDE DEF kept
  <2>5. pending' = kept
    BY <1>1 DEF kept
  <2> QED  BY <2>1, <2>3, <2>4, <2>5
<1>3. \A c \in gone : ~HasWork(c)
  BY <1>1 DEF HasWork, Zombies, Range
<1>4. \A c \in gone : ~Sleeps(c)
  BY <1>3 DEF QueuesInv, GoneAreCalled
<1>5. \A x : /\ Delayed(x)' <=> Delayed(x) /\ x \notin gone
             /\ (Sleeps(x)' <=> Sleeps(x)) /\ (HasWork(x)' <=> HasWork(x))
  BY <1>1, <1>2 DEF Delayed, Sleeps, HasWork
<1>6. QueueType' /\ OneQueue'
  BY <1>1, <1>2, <1>5 DEF QueuesInv, QueueType, OneQueue
<1>7. IgnoredOnce'
  BY <1>1, <1>5 DEF QueuesInv, IgnoredOnce
<1>8. NothingOfGone' /\ GoneAreCalled'
  BY <1>1, <1>3, <1>4, <1>5 DEF NothingOfGone, GoneAreCalled
<1>9. ServedIsThere'
  <2>1. None \notin gone
    BY Sizes DEF QueuesInv, QueueType
  <2> QED  BY <1>1, <2>1 DEF ServedIsThere
<1>10. WorkHasSleeper'
  <2>1. \A e \in Range(workQueue) : e.client \notin gone
    BY <1>3 DEF HasWork
  <2> QED  BY <1>1, <2>1 DEF QueuesInv, WorkHasSleeper
<1> QED  BY <1>2, <1>6, <1>7, <1>8, <1>9, <1>10 DEF QueuesInv

LEMMA QueuesConnect ==
  ASSUME QueuesInv, NEW c \in Clients, Connect(c)
  PROVE  QueuesInv'
<1>1. /\ pc = "events" /\ c \in gone /\ gone' = gone \ {c}
      /\ ignoreCount' = [ignoreCount EXCEPT ![c] = 0]
      /\ UNCHANGED <<pc, serving, sleepQueue, workQueue, pending>>
  BY DEF Connect, timeVars
<1>2. ~Sleeps(c) /\ ~Delayed(c)
  BY <1>1 DEF QueuesInv, NothingOfGone
<1>3. QueueType' /\ OneQueue'
  BY <1>1 DEF QueuesInv, QueueType, OneQueue, Sleeps, Delayed
<1>4. IgnoredOnce'
  <2>1. \A x \in Clients : ignoreCount'[x] = IF x = c THEN 0 ELSE ignoreCount[x]
    BY <1>1 DEF QueuesInv, QueueType
  <2> QED  BY <1>1, <1>2, <2>1 DEF QueuesInv, IgnoredOnce, Sleeps, Delayed
<1>5. NothingOfGone' /\ GoneAreCalled' /\ ServedIsThere'
  BY <1>1 DEF QueuesInv, NothingOfGone, GoneAreCalled, ServedIsThere, Sleeps, Delayed, HasWork
<1>6. WorkHasSleeper'
  BY <1>1 DEF QueuesInv, WorkHasSleeper
<1> QED  BY <1>3, <1>4, <1>5, <1>6 DEF QueuesInv

(* CloseDownClient signals the client that it closes.                      *)
LEMMA CloseDownClientSteps ==
  ASSUME QueuesInv, NEW c \in Clients, NEW k \in Clients, CloseDownClient(c, k)
  PROVE  /\ pc = "dispatch" /\ pc' = "zombies" /\ k \notin gone /\ gone' = gone \cup {k}
         /\ DeathOf(k) \subseteq Deaths
         /\ UNCHANGED <<serving, ignoreCount, sleepQueue, pending, handlers, now, timeout>>
         /\ UNCHANGED <<blocked, swaps, targetSbc, mscs>>
         /\ workQueue' \in Seq(SleepEntry)
         /\ \A e : e \in Range(workQueue') <=>
                     e \in Range(workQueue) \/ (e \in Range(sleepQueue) /\ e.client = k)
         /\ \/ workQueue' = workQueue
            \/ \E e \in Range(sleepQueue) : e.client = k /\ workQueue' = Append(workQueue, e)
<1> DEFINE q == Queues
           r == ClientSignal(q, k)
<1>1. /\ pc = "dispatch" /\ pc' = "zombies" /\ k \notin gone /\ gone' = gone \cup {k}
      /\ DeathOf(k) \subseteq Deaths
      /\ UNCHANGED <<serving, pending, handlers, now, timeout, blocked, swaps, targetSbc, mscs>>
      /\ SetQueues(r)
  BY DEF CloseDownClient, SignalGone, timeVars, dri2Vars
<1>2. q \in QueueRecord /\ q.ignore = ignoreCount /\ q.sleep = sleepQueue /\ q.work = workQueue
  BY QueuesAreRecord DEF QueuesInv
<1> HIDE DEF q
<1>3. Once(q.sleep)
  BY <1>2 DEF QueuesInv, OneQueue
<1>4. /\ r.ignore = q.ignore /\ r.sleep = q.sleep
      /\ r.work \in Seq(SleepEntry)
      /\ \A e : e \in Range(r.work) <=>
                  e \in Range(q.work) \/ (e \in Range(q.sleep) /\ e.client = k)
      /\ \/ r.work = q.work
         \/ \E e \in Range(q.sleep) : e.client = k /\ r.work = Append(q.work, e)
  BY <1>2, <1>3, ClientSignalEffect
<1> HIDE DEF r
<1>5. ignoreCount' = r.ignore /\ sleepQueue' = r.sleep /\ workQueue' = r.work
  BY <1>1 DEF SetQueues
<1> QED  BY <1>1, <1>2, <1>4, <1>5

LEMMA QueuesCloseDownClient ==
  ASSUME QueuesInv, NEW c \in Clients, NEW k \in Clients, CloseDownClient(c, k)
  PROVE  QueuesInv'
<1>1. /\ pc = "dispatch" /\ pc' = "zombies" /\ gone' = gone \cup {k}
      /\ UNCHANGED <<ignoreCount, sleepQueue, pending>>
      /\ workQueue' \in Seq(SleepEntry)
      /\ \A e : e \in Range(workQueue') <=>
                  e \in Range(workQueue) \/ (e \in Range(sleepQueue) /\ e.client = k)
  BY CloseDownClientSteps
<1>2. \A x : /\ (Sleeps(x)' <=> Sleeps(x)) /\ (Delayed(x)' <=> Delayed(x))
             /\ HasWork(x) => HasWork(x)'
  BY <1>1 DEF Sleeps, Delayed, HasWork
<1>3. Sleeps(k) => HasWork(k)'
  BY <1>1 DEF Sleeps, HasWork
<1>4. QueueType' /\ OneQueue' /\ IgnoredOnce'
  BY <1>1, <1>2 DEF QueuesInv, QueueType, OneQueue, IgnoredOnce
<1>5. NothingOfGone' /\ GoneAreCalled' /\ ServedIsThere'
  BY <1>1, <1>2, <1>3 DEF QueuesInv, NothingOfGone, GoneAreCalled, ServedIsThere
<1>6. WorkHasSleeper'
  BY <1>1 DEF QueuesInv, WorkHasSleeper
<1> QED  BY <1>4, <1>5, <1>6 DEF QueuesInv

(* ProcessWorkQueueZombies calls the first function of who is gone.        *)
LEMMA CallZombieSteps ==
  ASSUME QueuesInv, CallZombie
  PROVE  \E i \in Zombies :
           /\ pc = "zombies" /\ i \in DOMAIN workQueue /\ workQueue[i] \in SleepEntry
           /\ workQueue[i].client \in gone
           /\ UNCHANGED <<pc, serving, gone, pending, handlers, now, timeout>>
           /\ UNCHANGED <<blocked, swaps, targetSbc, mscs>>
           /\ workQueue' = Without(workQueue, i)
           /\ \A e : e \in Range(workQueue') <=>
                       \E j \in DOMAIN workQueue : j # i /\ workQueue[j] = e
           /\ \A e : e \in Range(sleepQueue') <=>
                       e \in Range(sleepQueue) /\ e.client # workQueue[i].client
           /\ QueuesInv'
<1> DEFINE i == Min(Zombies)
           c == workQueue[i].client
           left == Without(workQueue, i)
<1>1. /\ pc = "zombies" /\ Zombies # {}
      /\ UNCHANGED <<pc, serving, gone, pending, handlers, now, timeout>>
      /\ UNCHANGED <<blocked, swaps, targetSbc, mscs>>
      /\ SetQueues(ClientWakeup([Queues EXCEPT !.work = left], c))
  BY DEF CallZombie, ZombieCalled, timeVars, dri2Vars, Queues
<1>2. workQueue \in Seq(SleepEntry) /\ gone \subseteq Clients
  BY DEF QueuesInv, QueueType
<1>3. i \in Zombies
  <2>1. Zombies \in SUBSET Nat
    BY <1>2 DEF Zombies
  <2> QED  BY <1>1, <2>1, MinProperties
<1>4. i \in DOMAIN workQueue /\ c \in gone /\ c \in Clients /\ workQueue[i] \in SleepEntry
  BY <1>2, <1>3 DEF Zombies
<1> HIDE DEF i
<1>5. /\ left \in Seq(SleepEntry)
      /\ \A e : e \in Range(left) <=> \E j \in DOMAIN workQueue : j # i /\ workQueue[j] = e
  BY <1>2, <1>4, WithoutEntries
<1> HIDE DEF left
<1>6. /\ \A e \in Range(left) : e \in Range(workQueue)
      /\ \A e \in Range(workQueue) : e.client = c \/ e \in Range(left)
  BY <1>5 DEF Range
<1>7. /\ QueuesInv' /\ workQueue' = left
      /\ \A e : e \in Range(sleepQueue') <=> e \in Range(sleepQueue) /\ e.client # c
  <2> HIDE DEF c
  <2>1. pc = "work" \/ (pc = "zombies" /\ c \in gone)
    BY <1>1, <1>4
  <2>2. UNCHANGED <<pc, serving, gone, pending>>
    BY <1>1
  <2>3. c \in Clients /\ left \in Seq(SleepEntry)
    BY <1>4, <1>5
  <2>4. \A e \in Range(left) : e \in Range(workQueue)
    BY <1>6
  <2>5. \A e \in Range(workQueue) : e.client = c \/ e \in Range(left)
    BY <1>6
  <2>6. SetQueues(ClientWakeup([Queues EXCEPT !.work = left], c))
    BY <1>1
  <2> QED  BY <2>1, <2>2, <2>3, <2>4, <2>5, <2>6, QueuesWake
<1> QED  BY <1>1, <1>3, <1>4, <1>5, <1>7 DEF left

(* ProcessWorkQueue.                                                       *)
LEMMA CallWorkSteps ==
  ASSUME QueuesInv, NEW c \in Clients, CallWork(c)
  PROVE  /\ pc = "work" /\ workQueue # <<>> /\ workQueue[1].client = c
         /\ workQueue[1] \in Range(workQueue)
         /\ UNCHANGED <<pc, serving, gone, pending, handlers, now, timeout>>
         /\ UNCHANGED <<blocked, swaps, targetSbc, mscs>>
         /\ Tail(workQueue) \in Seq(SleepEntry)
         /\ \A e \in Range(Tail(workQueue)) : e \in Range(workQueue)
         /\ \A e \in Range(workQueue) : e = workQueue[1] \/ e \in Range(Tail(workQueue))
<1>1. workQueue \in Seq(SleepEntry)
  BY DEF QueuesInv, QueueType
<1>2. /\ pc = "work" /\ workQueue # <<>> /\ workQueue[1].client = c
      /\ UNCHANGED <<pc, serving, gone, pending, handlers, now, timeout>>
      /\ UNCHANGED <<blocked, swaps, targetSbc, mscs>>
  BY DEF CallWork, timeVars, dri2Vars
<1> QED  BY <1>1, <1>2, TailEntries

LEMMA WorkWakesSteps ==
  ASSUME QueuesInv, NEW c \in Clients, WorkWakes(c)
  PROVE  /\ QueuesInv' /\ workQueue' = Tail(workQueue)
         /\ \A e : e \in Range(sleepQueue') <=> e \in Range(sleepQueue) /\ e.client # c
<1> DEFINE left == Tail(workQueue)
<1>1. /\ pc = "work" /\ workQueue[1].client = c
      /\ UNCHANGED <<pc, serving, gone, pending>>
      /\ left \in Seq(SleepEntry)
      /\ \A e \in Range(left) : e \in Range(workQueue)
      /\ \A e \in Range(workQueue) : e = workQueue[1] \/ e \in Range(left)
  BY CallWorkSteps DEF WorkWakes
<1>2. SetQueues(ClientWakeup([Queues EXCEPT !.work = left], c))
  BY DEF WorkWakes, Called, Queues
<1> HIDE DEF left
<1>3. \A e \in Range(workQueue) : e.client = c \/ e \in Range(left)
  BY <1>1
<1>4. pc = "work" \/ (pc = "zombies" /\ c \in gone)
  BY <1>1
<1>5. \A e \in Range(left) : e \in Range(workQueue)
  BY <1>1
<1>6. UNCHANGED <<pc, serving, gone, pending>>
  BY <1>1
<1>7. /\ QueuesInv' /\ workQueue' = left
      /\ \A e : e \in Range(sleepQueue') <=> e \in Range(sleepQueue) /\ e.client # c
  BY <1>1, <1>2, <1>3, <1>4, <1>5, <1>6, QueuesWake
<1> QED  BY <1>7 DEF left

LEMMA WorkSuspendsSteps ==
  ASSUME QueuesInv, NEW c \in Clients, WorkSuspends(c)
  PROVE  /\ QueuesInv' /\ workQueue' = Tail(workQueue) /\ workQueue[1].why = "font"
         /\ UNCHANGED <<ignoreCount, sleepQueue>>
<1>1. /\ pc = "work"
      /\ UNCHANGED <<pc, serving, gone, pending>>
      /\ Tail(workQueue) \in Seq(SleepEntry)
      /\ \A e \in Range(Tail(workQueue)) : e \in Range(workQueue)
  BY CallWorkSteps DEF WorkSuspends
<1>2. /\ workQueue' = Tail(workQueue) /\ workQueue[1].why = "font"
      /\ UNCHANGED <<ignoreCount, sleepQueue>>
  BY DEF WorkSuspends, SetQueues, Called, Queues
<1>3. QueueType' /\ OneQueue' /\ IgnoredOnce'
  BY <1>1, <1>2 DEF QueuesInv, QueueType, OneQueue, IgnoredOnce, Sleeps, Delayed
<1>4. NothingOfGone' /\ GoneAreCalled' /\ ServedIsThere'
  BY <1>1, <1>2 DEF QueuesInv, NothingOfGone, GoneAreCalled, ServedIsThere, Sleeps, Delayed, HasWork
<1>5. WorkHasSleeper'
  BY <1>1, <1>2 DEF QueuesInv, WorkHasSleeper, Sleeps
<1> QED  BY <1>2, <1>3, <1>4, <1>5 DEF QueuesInv

---------------------------------------------------------------------------
(* What dri2.c does.                                                       *)
RestType ==
  /\ pc \in {"work", "block", "poll", "events", "dispatch", "zombies"}
  /\ serving \in Clients \cup {None}
  /\ handlers \in 0..MaxHandlers
  /\ now \in 0..MaxTime
  /\ timeout \in 0..Never
  /\ blocked \in [WakeType -> 0..(UINT - 1)]
  /\ swaps \in Seq(Clients \cup {None}) /\ Len(swaps) <= SwapLimit
  /\ targetSbc \in 0..SwapLimit \cup {None}
  /\ mscs \subseteq Clients

LEMMA Dri2IsRecord ==
  ASSUME QueueType, RestType
  PROVE  /\ Dri2 \in Dri2Record /\ Dri2.q = Queues /\ Dri2.blocked = blocked
<1>1. blocked \in [WakeType -> Int]
  BY Sizes DEF RestType
<1>2. Queues \in QueueRecord
  BY QueuesAreRecord
<1> QED  BY <1>1, <1>2 DEF Dri2, Dri2Record

LEMMA SetDri2Sleep ==
  ASSUME NEW c, NEW t, SetDri2(Dri2Sleep(Dri2, c, t))
  PROVE  /\ SetQueues(ClientSleep(Queues, c, t))
         /\ blocked' = [blocked EXCEPT ![t] = (@ + 1) % UINT]
BY DEF SetDri2, Dri2Sleep, Dri2

(* After DRI2SwapComplete.                                                 *)
SwapTarget == IF targetSbc \in {None, 0} THEN targetSbc ELSE targetSbc - 1

SbcWoken(c) == IF SwapTarget = 0 /\ c # None THEN WakeAll(Dri2, c, "SBC") ELSE Dri2

LEMMA SwapCompletedIs ==
  ASSUME NEW c
  PROVE  /\ SwapCompleted(c).d = WakeAll(SbcWoken(c), None, "SWAP")
         /\ SwapCompleted(c).target = IF SbcWoken(c).q # Queues THEN None ELSE SwapTarget
<1> DEFINE a == WakeAll(SbcWoken(c), None, "SWAP")
           b == IF SbcWoken(c).q # Queues THEN None ELSE SwapTarget
<1>1. SwapCompleted(c) = [d |-> a, target |-> b]
  BY Zenon DEF SwapCompleted, SbcWoken, SwapTarget
<1> HIDE DEF a, b
<1>2. SwapCompleted(c).d = a /\ SwapCompleted(c).target = b
  BY <1>1
<1> QED  BY <1>2 DEF a, b

LEMMA SbcWokenSignals ==
  ASSUME QueuesInv, RestType, NEW c \in Clients \cup {None}
  PROVE  LET d == SbcWoken(c)
         IN  /\ d \in Dri2Record /\ Once(d.q.sleep) /\ DriSignals(Queues, d.q)
             /\ d.blocked \in [WakeType -> 0..(UINT - 1)]
<1>1. /\ Dri2 \in Dri2Record /\ Dri2.q = Queues /\ Dri2.blocked = blocked
      /\ Once(Dri2.q.sleep) /\ blocked \in [WakeType -> 0..(UINT - 1)]
  BY Dri2IsRecord, QueuesAreRecord DEF QueuesInv, OneQueue, RestType
<1>2. DriSignals(Queues, Queues)
  BY QueuesAreRecord DEF QueuesInv, DriSignals, OnlySignals, QueueType
<1>3. CASE SwapTarget = 0 /\ c # None
  <2> DEFINE d == WakeAll(Dri2, c, "SBC")
  <2>1. "SBC" \in WakeType
    BY DEF WakeType
  <2>2. /\ d \in Dri2Record /\ Once(d.q.sleep) /\ DriSignals(Dri2.q, d.q)
        /\ Dri2.blocked \in [WakeType -> 0..(UINT - 1)] => d.blocked \in [WakeType -> 0..(UINT - 1)]
    BY <1>1, <2>1, WakeAllSignals
  <2> HIDE DEF d
  <2>3. SbcWoken(c) = d
    BY <1>3 DEF SbcWoken, d
  <2> QED  BY <1>1, <2>2, <2>3
<1>4. CASE ~(SwapTarget = 0 /\ c # None)
  <2>1. SbcWoken(c) = Dri2
    BY <1>4 DEF SbcWoken
  <2> QED  BY <1>1, <1>2, <2>1
<1> QED  BY <1>3, <1>4

LEMMA SwapCompletedSignals ==
  ASSUME QueuesInv, RestType, NEW c \in Clients \cup {None}
  PROVE  LET r == SwapCompleted(c)
         IN  /\ DriSignals(Queues, r.d.q)
             /\ r.d.blocked \in [WakeType -> 0..(UINT - 1)]
             /\ r.target \in 0..SwapLimit \cup {None}
<1> DEFINE d == SbcWoken(c)
           e == WakeAll(d, None, "SWAP")
<1>1. /\ d \in Dri2Record /\ Once(d.q.sleep) /\ DriSignals(Queues, d.q)
      /\ d.blocked \in [WakeType -> 0..(UINT - 1)]
  BY SbcWokenSignals
<1> HIDE DEF d
<1>2. "SWAP" \in WakeType /\ None \in Clients \cup {None}
  BY DEF WakeType
<1>3. /\ e \in Dri2Record /\ Once(e.q.sleep) /\ DriSignals(d.q, e.q)
      /\ d.blocked \in [WakeType -> 0..(UINT - 1)] => e.blocked \in [WakeType -> 0..(UINT - 1)]
  BY <1>1, <1>2, WakeAllSignals
<1> HIDE DEF e
<1>4. DriSignals(Queues, e.q)
  BY <1>1, <1>3, SignalsTransitive
<1>5. SwapCompleted(c).d = e
  BY SwapCompletedIs DEF e, d
<1>6. SwapCompleted(c).target \in 0..SwapLimit \cup {None}
  <2>1. SwapTarget \in 0..SwapLimit \cup {None}
    <3>1. targetSbc \in 0..SwapLimit \cup {None}
      BY DEF RestType
    <3>2. SwapLimit \in Nat
      BY Sizes
    <3> QED  BY <3>1, <3>2 DEF SwapTarget
  <2>2. SwapCompleted(c).target \in {None, SwapTarget}
    BY SwapCompletedIs
  <2> QED  BY <2>1, <2>2
<1> QED  BY <1>1, <1>3, <1>4, <1>5, <1>6

(* DRI2DrawableGone.                                                       *)
SwapsGone == WakeAll(Dri2, None, "SWAP")
MscsGone == WakeAll(SwapsGone, None, "MSC")
SbcsGone == WakeAll(MscsGone, None, "SBC")

LEMMA DrawableGoneSignals ==
  ASSUME QueuesInv, RestType
  PROVE  /\ SwapsGone \in Dri2Record /\ Once(SwapsGone.q.sleep) /\ DriSignals(Queues, SwapsGone.q)
         /\ MscsGone \in Dri2Record /\ Once(MscsGone.q.sleep) /\ DriSignals(Queues, MscsGone.q)
         /\ SbcsGone \in Dri2Record /\ Once(SbcsGone.q.sleep) /\ DriSignals(Queues, SbcsGone.q)
<1>1. Dri2 \in Dri2Record /\ Dri2.q = Queues /\ Once(Dri2.q.sleep)
  BY Dri2IsRecord, QueuesAreRecord DEF QueuesInv, OneQueue
<1>2. {"SWAP", "MSC", "SBC"} \subseteq WakeType /\ None \in Clients \cup {None}
  BY DEF WakeType
<1>3. SwapsGone \in Dri2Record /\ Once(SwapsGone.q.sleep) /\ DriSignals(Queues, SwapsGone.q)
  BY <1>1, <1>2, WakeAllSignals DEF SwapsGone
<1>4. MscsGone \in Dri2Record /\ Once(MscsGone.q.sleep) /\ DriSignals(SwapsGone.q, MscsGone.q)
  BY <1>2, <1>3, WakeAllSignals DEF MscsGone
<1>5. SbcsGone \in Dri2Record /\ Once(SbcsGone.q.sleep) /\ DriSignals(MscsGone.q, SbcsGone.q)
  BY <1>2, <1>4, WakeAllSignals DEF SbcsGone
<1>6. DriSignals(Queues, MscsGone.q)
  BY <1>3, <1>4, SignalsTransitive
<1>7. DriSignals(Queues, SbcsGone.q)
  BY <1>5, <1>6, SignalsTransitive
<1> QED  BY <1>3, <1>4, <1>5, <1>6, <1>7

---------------------------------------------------------------------------
(* Each step keeps the queues in order.                                    *)

(* What the requests of a client do.                                       *)
LEMMA ServesSteps ==
  ASSUME NEW c \in Clients, NEW request, Serves(c, request)
  PROVE  pc = "dispatch" /\ serving = c /\ ignoreCount[c] = 0 /\ UNCHANGED <<pc, now, timeout>>
BY DEF Serves

LEMMA ThrottleSteps ==
  ASSUME NEW c \in Clients, Throttle(c)
  PROVE  /\ Len(swaps) >= SwapLimit
         /\ SetQueues(ClientSleep(Queues, c, "SWAP"))
         /\ blocked' = [blocked EXCEPT !["SWAP"] = (@ + 1) % UINT]
         /\ UNCHANGED <<serving, gone, pending, handlers, swaps, targetSbc, mscs>>
BY SetDri2Sleep DEF Throttle

LEMMA QueuesThrottle ==
  ASSUME QueuesInv, NEW c \in Clients, NEW request, Serves(c, request), Throttle(c)
  PROVE  QueuesInv'
<1>1. /\ pc = "dispatch" /\ serving = c /\ ignoreCount[c] = 0
      /\ UNCHANGED <<pc, serving, gone, pending>>
      /\ SetQueues(ClientSleep(Queues, c, "SWAP"))
  BY ServesSteps, ThrottleSteps
<1>2. "SWAP" \in WakeType \cup {"font"}
  BY DEF WakeType
<1> QED  BY <1>1, <1>2, QueuesSleep

(* OpenFont that finishes at once wakes up a client that does not sleep.   *)
LEMMA OpenFontIsOpen ==
  ASSUME QueuesInv, NEW c \in Clients, pc = "dispatch", serving = c, ignoreCount[c] = 0,
         SetQueues(ClientWakeup(Queues, c))
  PROVE  UNCHANGED <<ignoreCount, sleepQueue, workQueue>>
<1>1. ~Sleeps(c)
  BY DEF QueuesInv, ServedIsThere, IgnoredOnce
<1> DEFINE q == Queues
<1>2. q \in QueueRecord /\ q.sleep = sleepQueue /\ Once(q.sleep)
  BY QueuesAreRecord DEF QueuesInv, OneQueue
<1>3. SetQueues(ClientWakeup(q, c))
  OBVIOUS
<1> HIDE DEF q
<1>4. ~(\E e \in Range(q.sleep) : e.client = c)
  BY <1>1, <1>2 DEF Sleeps
<1>5. ClientWakeup(q, c) = q
  BY <1>2, <1>4, ClientWakeupEffect
<1>6. SetQueues(q)
  BY <1>3, <1>5
<1> QED  BY <1>6, QueuesAreRecord DEF q, SetQueues, QueuesInv

LEMMA QueuesRequest ==
  ASSUME QueuesInv, RestType, ServedRequest
  PROVE  QueuesInv'
<1>1. PICK c \in Clients :
        \/ \E revive \in 0..MaxTime : FakeInput(c, revive)
        \/ GetBuffers(c)
        \/ SwapBuffers(c)
        \/ WaitMSC(c)
        \/ \E n \in 1..SwapLimit : WaitSBC(c, n)
        \/ OpenFont(c)
        \/ DestroyDrawable(c)
        \/ \E k \in Clients : CloseDownClient(c, k)
  BY Zenon DEF ServedRequest
<1>2. CASE \E revive \in 0..MaxTime : FakeInput(c, revive)
  BY <1>2, QueuesFakeInput
<1>3. CASE GetBuffers(c)
  BY <1>3, QueuesThrottle DEF GetBuffers
<1>4. CASE SwapBuffers(c)
  <2>1. Serves(c, "SwapBuffers")
    BY <1>4 DEF SwapBuffers
  <2>2. /\ pc = "dispatch" /\ serving = c /\ c \notin gone /\ pc' = pc
    BY <2>1, ServesSteps DEF QueuesInv, ServedIsThere
  <2>3. \/ Throttle(c)
        \/ UNCHANGED <<ignoreCount, sleepQueue, workQueue, serving, gone, pending>>
        \/ SetQueues(SwapCompleted(c).d.q) /\ UNCHANGED <<serving, gone, pending>>
    BY <1>4, Zenon DEF SwapBuffers, SetDri2
  <2>4. CASE Throttle(c)
    BY <2>1, <2>4, QueuesThrottle
  <2>5. CASE UNCHANGED <<ignoreCount, sleepQueue, workQueue, serving, gone, pending>>
    BY <2>2, <2>5, QueuesKept
  <2>6. CASE SetQueues(SwapCompleted(c).d.q) /\ UNCHANGED <<serving, gone, pending>>
    <3>1. OnlySignals(Queues, SwapCompleted(c).d.q)
      BY SwapCompletedSignals DEF DriSignals
    <3>2. UNCHANGED <<pc, serving, gone, pending>>
      BY <2>2, <2>6
    <3> QED  BY <2>6, <3>1, <3>2, QueuesSignal
  <2> QED  BY <2>3, <2>4, <2>5, <2>6
<1>5. CASE WaitMSC(c)
  <2>1. /\ Serves(c, "WaitMSC")
        /\ SetQueues(ClientSleep(Queues, c, "MSC")) /\ UNCHANGED <<serving, gone, pending>>
    BY <1>5, SetDri2Sleep DEF WaitMSC
  <2>2. "MSC" \in WakeType \cup {"font"}
    BY DEF WakeType
  <2> QED  BY <2>1, <2>2, ServesSteps, QueuesSleep
<1>6. CASE \E n \in 1..SwapLimit : WaitSBC(c, n)
  <2>1. /\ Serves(c, "WaitSBC")
        /\ SetQueues(ClientSleep(Queues, c, "SBC")) /\ UNCHANGED <<serving, gone, pending>>
    BY <1>6, SetDri2Sleep DEF WaitSBC
  <2>2. "SBC" \in WakeType \cup {"font"}
    BY DEF WakeType
  <2> QED  BY <2>1, <2>2, ServesSteps, QueuesSleep
<1>7. CASE OpenFont(c)
  <2>1. /\ pc = "dispatch" /\ serving = c /\ ignoreCount[c] = 0 /\ c \notin gone
        /\ UNCHANGED <<pc, serving, gone, pending>>
    BY <1>7, ServesSteps DEF OpenFont, QueuesInv, ServedIsThere
  <2>2. CASE SetQueues(ClientSleep(Queues, c, "font"))
    BY <2>1, <2>2, QueuesSleep
  <2>3. CASE SetQueues(ClientWakeup(Queues, c))
    <3>1. UNCHANGED <<ignoreCount, sleepQueue, workQueue>>
      BY <2>1, <2>3, OpenFontIsOpen
    <3> QED  BY <2>1, <3>1, QueuesKept
  <2> QED  BY <1>7, <2>2, <2>3 DEF OpenFont
<1>8. CASE DestroyDrawable(c)
  <2>1. SetQueues(SbcsGone.q)
    BY <1>8 DEF DestroyDrawable, SbcsGone, MscsGone, SwapsGone
  <2>2. UNCHANGED <<pc, serving, gone, pending>>
    BY <1>8, Zenon DEF DestroyDrawable, Serves
  <2>3. OnlySignals(Queues, SbcsGone.q)
    BY DrawableGoneSignals DEF DriSignals
  <2> QED  BY <2>1, <2>2, <2>3, QueuesSignal
<1>9. CASE \E k \in Clients : CloseDownClient(c, k)
  BY <1>9, QueuesCloseDownClient
<1> QED  BY <1>1, <1>2, <1>3, <1>4, <1>5, <1>6, <1>7, <1>8, <1>9

(* A step of Next, one action after the other.                             *)
LEMMA Steps ==
  ASSUME [Next]_vars
  PROVE  \/ \E c \in Clients : \/ WorkWakes(c) \/ WorkSuspends(c)
                               \/ WaitMSCComplete(c) \/ FontAnswer(c) \/ Connect(c)
         \/ WorkDone \/ BlockHandler \/ WakeupHandler
         \/ SwapComplete \/ EventsDone \/ SliceEnds \/ ServedRequest
         \/ CallZombie \/ ZombiesDone \/ Tick
         \/ UNCHANGED vars
BY Zenon DEF Next, TimesOut, WokenUp

(* The reports of the drivers, and of the font server.                     *)
LEMMA SwapCompleteSteps ==
  ASSUME QueueType, RestType, SwapComplete
  PROVE  /\ pc = "events" /\ swaps # <<>> /\ swaps' = Tail(swaps)
         /\ swaps[1] \in Clients \cup {None}
         /\ SetQueues(SwapCompleted(swaps[1]).d.q)
         /\ blocked' = SwapCompleted(swaps[1]).d.blocked
         /\ targetSbc' = SwapCompleted(swaps[1]).target
         /\ UNCHANGED <<pc, serving, gone, pending, handlers, now, timeout, mscs>>
<1>1. swaps # <<>> => swaps[1] \in Clients \cup {None}
  BY DEF RestType
<1>2. /\ pc = "events" /\ swaps # <<>> /\ swaps' = Tail(swaps)
      /\ SetQueues(SwapCompleted(swaps[1]).d.q)
      /\ blocked' = SwapCompleted(swaps[1]).d.blocked
      /\ targetSbc' = SwapCompleted(swaps[1]).target
      /\ UNCHANGED <<pc, serving, gone, timeVars, mscs>>
  BY Zenon DEF SwapComplete, SetDri2
<1> QED  BY <1>1, <1>2 DEF timeVars

LEMMA QueuesReports ==
  ASSUME QueuesInv, RestType, NEW c \in Clients,
         WaitMSCComplete(c) \/ FontAnswer(c)
  PROVE  QueuesInv'
<1>1. CASE WaitMSCComplete(c)
  <2> DEFINE d == WakeAll(Dri2, c, "MSC")
  <2>1. SetQueues(d.q) /\ UNCHANGED <<pc, serving, gone, pending>>
    BY <1>1 DEF WaitMSCComplete, SetDri2, timeVars
  <2>2. Dri2 \in Dri2Record /\ Dri2.q = Queues /\ Once(Dri2.q.sleep) /\ "MSC" \in WakeType
    BY Dri2IsRecord, QueuesAreRecord DEF QueuesInv, OneQueue, WakeType
  <2>3. OnlySignals(Dri2.q, d.q)
    BY <2>2, WakeAllSignals DEF DriSignals
  <2> HIDE DEF d
  <2> QED  BY <2>1, <2>2, <2>3, QueuesSignal
<1>2. CASE FontAnswer(c)
  <2> DEFINE q == Queues
  <2>1. SetQueues(ClientSignal(q, c)) /\ UNCHANGED <<pc, serving, gone, pending>>
    BY <1>2 DEF FontAnswer, timeVars
  <2>2. q \in QueueRecord /\ Once(q.sleep)
    BY QueuesAreRecord DEF QueuesInv, OneQueue
  <2>3. OnlySignals(q, ClientSignal(q, c))
    <3> HIDE DEF q
    <3> QED  BY <2>2, ClientSignalSignals
  <2> QED  BY <2>1, <2>3, QueuesSignal
<1> QED  BY <1>1, <1>2

LEMMA QueuesSwapComplete ==
  ASSUME QueuesInv, RestType, SwapComplete
  PROVE  QueuesInv'
<1>1. /\ swaps[1] \in Clients \cup {None}
      /\ SetQueues(SwapCompleted(swaps[1]).d.q)
      /\ UNCHANGED <<pc, serving, gone, pending>>
  BY SwapCompleteSteps DEF QueuesInv
<1>2. OnlySignals(Queues, SwapCompleted(swaps[1]).d.q)
  BY <1>1, SwapCompletedSignals DEF DriSignals
<1> QED  BY <1>1, <1>2, QueuesSignal

LEMMA QueuesStep ==
  ASSUME QueuesInv, RestType, [Next]_vars
  PROVE  QueuesInv'
<1>1. ASSUME UNCHANGED <<pc, serving, gone, ignoreCount, sleepQueue, workQueue, pending>>
      PROVE  QueuesInv'
  <2>1. QueueType' /\ OneQueue' /\ IgnoredOnce'
    BY <1>1 DEF QueuesInv, QueueType, OneQueue, IgnoredOnce, Sleeps, Delayed
  <2>2. NothingOfGone' /\ GoneAreCalled' /\ ServedIsThere' /\ WorkHasSleeper'
    BY <1>1 DEF QueuesInv, NothingOfGone, GoneAreCalled, ServedIsThere, WorkHasSleeper,
                Sleeps, Delayed, HasWork
  <2> QED  BY <2>1, <2>2 DEF QueuesInv
<1>2. ASSUME NEW c \in Clients,
             \/ WorkWakes(c) \/ WorkSuspends(c)
             \/ WaitMSCComplete(c) \/ FontAnswer(c) \/ Connect(c)
      PROVE  QueuesInv'
  BY <1>2, WorkWakesSteps, WorkSuspendsSteps, QueuesReports, QueuesConnect
<1>3. CASE WorkDone
  <2>1. /\ pc = "work" /\ pc' = "block" /\ workQueue = <<>>
        /\ UNCHANGED <<ignoreCount, sleepQueue, workQueue, pending, gone>>
    BY <1>3 DEF WorkDone, queueVars, timeVars
  <2> QED  BY <2>1, QueuesKept
<1>4. CASE BlockHandler \/ WakeupHandler
  <2>1. /\ pc \in {"block", "poll"} /\ pc' \in {"poll", "events"}
        /\ UNCHANGED <<serving, gone, sleepQueue, workQueue>>
        /\ UNCHANGED <<pending, ignoreCount>> \/ FreeDue
    BY <1>4 DEF BlockHandler, WakeupHandler
  <2>2. CASE UNCHANGED <<pending, ignoreCount>>
    BY <2>1, <2>2, QueuesKept
  <2>3. CASE FreeDue
    BY <2>1, <2>3, QueuesFreeDue
  <2> QED  BY <2>1, <2>2, <2>3
<1>5. CASE SwapComplete
  BY <1>5, QueuesSwapComplete
<1>6. CASE EventsDone \/ SliceEnds
  <2>1. /\ pc \in {"events", "dispatch"} /\ pc' \in {"dispatch", "work"}
        /\ pc' = "dispatch" => serving' \notin gone
        /\ UNCHANGED <<ignoreCount, sleepQueue, workQueue, pending, gone>>
    BY <1>6 DEF EventsDone, SliceEnds, queueVars, timeVars
  <2> QED  BY <2>1, QueuesKept
<1>7. CASE ServedRequest
  BY <1>7, QueuesRequest
<1>8. CASE CallZombie
  BY <1>8, CallZombieSteps
<1>9. CASE ZombiesDone
  BY <1>9, QueuesZombiesDone
<1>10. CASE Tick
  <2>1. UNCHANGED <<pc, serving, gone, ignoreCount, sleepQueue, workQueue, pending>>
    BY <1>10 DEF Tick, queueVars
  <2> QED  BY <1>1, <2>1
<1>11. CASE UNCHANGED vars
  <2>1. UNCHANGED <<pc, serving, gone, ignoreCount, sleepQueue, workQueue, pending>>
    BY <1>11 DEF vars, queueVars, timeVars
  <2> QED  BY <1>1, <2>1
<1> QED  BY <1>2, <1>3, <1>4, <1>5, <1>6, <1>7, <1>8, <1>9, <1>10, <1>11, Steps

---------------------------------------------------------------------------
(* The other variables keep their types.                                   *)
RoundType ==
  /\ pc \in {"work", "block", "poll", "events", "dispatch", "zombies"}
  /\ serving \in Clients \cup {None}
  /\ handlers \in 0..MaxHandlers
  /\ now \in 0..MaxTime
  /\ timeout \in 0..Never

Dri2Type ==
  /\ blocked \in [WakeType -> 0..(UINT - 1)]
  /\ swaps \in Seq(Clients \cup {None}) /\ Len(swaps) <= SwapLimit
  /\ targetSbc \in 0..SwapLimit \cup {None}
  /\ mscs \subseteq Clients

LEMMA RestTypeIs == RestType <=> RoundType /\ Dri2Type
BY DEF RestType, RoundType, Dri2Type

LEMMA RoundTypeStep ==
  ASSUME QueueType, RoundType, [Next]_vars
  PROVE  RoundType'
<1>1. ASSUME UNCHANGED <<pc, serving, handlers, now, timeout>> PROVE RoundType'
  BY <1>1 DEF RoundType
<1>2. ASSUME NEW c \in Clients,
             \/ WorkWakes(c) \/ WorkSuspends(c)
             \/ WaitMSCComplete(c) \/ FontAnswer(c) \/ Connect(c)
      PROVE  RoundType'
  <2>1. UNCHANGED <<pc, serving, handlers, now, timeout>>
    BY <1>2, Zenon DEF WorkWakes, WorkSuspends, CallWork, WaitMSCComplete, FontAnswer, Connect,
                       timeVars
  <2> QED  BY <1>1, <2>1
<1>3. CASE WorkDone \/ EventsDone \/ SliceEnds
  <2>1. /\ pc' \in {"work", "block", "dispatch"} /\ serving' \in Clients \cup {None, serving}
        /\ UNCHANGED <<handlers, now, timeout>>
    BY <1>3 DEF WorkDone, EventsDone, SliceEnds, timeVars
  <2> QED  BY <2>1 DEF RoundType
<1>4. CASE BlockHandler
  <2>1. /\ pc' = "poll" /\ UNCHANGED <<serving, handlers, now>>
        /\ timeout' = Never \/ timeout' = now
           \/ (pending # <<>> /\ timeout' = pending[1].revive)
    <3>1. CASE handlers = 0
      BY <1>4, <3>1 DEF BlockHandler
    <3>2. CASE handlers # 0
      BY <1>4, <3>2 DEF BlockHandler
    <3> QED  BY <3>1, <3>2
  <2>2. MaxTime \in Nat
    BY Sizes
  <2>3. pending # <<>> => pending[1].revive \in 0..MaxTime
    <3>1. pending # <<>> => pending[1] \in Delay
      BY DEF QueueType
    <3> QED  BY <3>1 DEF Delay
  <2>4. timeout' \in 0..Never
    BY <2>1, <2>2, <2>3 DEF RoundType, Never
  <2> QED  BY <2>1, <2>4 DEF RoundType
<1>5. CASE WakeupHandler
  <2>1. /\ pc' = "events" /\ UNCHANGED <<serving, now, timeout>>
        /\ handlers' = handlers \/ (handlers # 0 /\ handlers' = handlers - 1)
    BY <1>5 DEF WakeupHandler
  <2>2. MaxHandlers \in Nat
    BY Sizes
  <2>3. handlers' \in 0..MaxHandlers
    BY <2>1, <2>2 DEF RoundType
  <2> QED  BY <2>1, <2>3 DEF RoundType
<1>6. CASE SwapComplete
  BY <1>1, <1>6, Zenon DEF SwapComplete, timeVars
<1>7. CASE ServedRequest
  <2>1. PICK c \in Clients :
          \/ \E revive \in 0..MaxTime : FakeInput(c, revive)
          \/ GetBuffers(c)
          \/ SwapBuffers(c)
          \/ WaitMSC(c)
          \/ \E n \in 1..SwapLimit : WaitSBC(c, n)
          \/ OpenFont(c)
          \/ DestroyDrawable(c)
          \/ \E k \in Clients : CloseDownClient(c, k)
    BY <1>7, Zenon DEF ServedRequest
  <2>2. ASSUME \E revive \in 0..MaxTime : FakeInput(c, revive) PROVE RoundType'
    <3>1. /\ UNCHANGED <<pc, serving, now, timeout>>
          /\ handlers < MaxHandlers /\ handlers' = handlers + 1
      BY <2>2, Zenon DEF FakeInput, Serves
    <3>2. MaxHandlers \in Nat
      BY Sizes
    <3> QED  BY <3>1, <3>2 DEF RoundType
  <2>3. ASSUME \/ GetBuffers(c) \/ SwapBuffers(c) \/ WaitMSC(c)
               \/ \E n \in 1..SwapLimit : WaitSBC(c, n)
               \/ OpenFont(c) \/ DestroyDrawable(c)
        PROVE  RoundType'
    <3>1. UNCHANGED <<pc, serving, handlers, now, timeout>>
      BY <2>3, Zenon DEF GetBuffers, SwapBuffers, WaitMSC, WaitSBC, OpenFont, DestroyDrawable,
                         Serves, Throttle
    <3> QED  BY <1>1, <3>1
  <2>4. ASSUME \E k \in Clients : CloseDownClient(c, k) PROVE RoundType'
    <3>1. pc' = "zombies" /\ UNCHANGED <<serving, handlers, now, timeout>>
      BY <2>4, Zenon DEF CloseDownClient, timeVars
    <3> QED  BY <3>1 DEF RoundType
  <2> QED  BY <2>1, <2>2, <2>3, <2>4
<1>8. CASE CallZombie
  BY <1>1, <1>8, Zenon DEF CallZombie, timeVars
<1>9. CASE ZombiesDone
  <2>1. /\ pc' = "dispatch" /\ serving' \in {None, serving}
        /\ UNCHANGED <<handlers, now, timeout>>
    BY <1>9 DEF ZombiesDone
  <2> QED  BY <2>1 DEF RoundType
<1>10. CASE Tick
  <2>1. now < MaxTime /\ now' = now + 1 /\ UNCHANGED <<pc, serving, handlers, timeout>>
    BY <1>10 DEF Tick
  <2>2. MaxTime \in Nat
    BY Sizes
  <2> QED  BY <2>1, <2>2 DEF RoundType
<1>11. CASE UNCHANGED vars
  BY <1>1, <1>11 DEF vars, timeVars
<1> QED  BY <1>2, <1>3, <1>4, <1>5, <1>6, <1>7, <1>8, <1>9, <1>10, <1>11, Steps

LEMMA Dri2TypeStep ==
  ASSUME QueuesInv, RestType, [Next]_vars
  PROVE  Dri2Type'
<1>1. ASSUME UNCHANGED <<blocked, swaps, targetSbc, mscs>> PROVE Dri2Type'
  BY <1>1 DEF RestType, Dri2Type
<1>2. Dri2Type
  BY RestTypeIs
<1>3. \A t \in WakeType : (blocked[t] + 1) % UINT \in 0..(UINT - 1)
  <2>1. \A t \in WakeType : blocked[t] + 1 \in Int
    BY <1>2, Sizes DEF Dri2Type
  <2> QED  BY <2>1, Unsigned
<1>4. ASSUME NEW t \in WakeType, blocked' = [blocked EXCEPT ![t] = (@ + 1) % UINT]
      PROVE  blocked' \in [WakeType -> 0..(UINT - 1)]
  BY <1>2, <1>3, <1>4 DEF Dri2Type
<1>5. ASSUME NEW c \in Clients, WaitMSCComplete(c) PROVE Dri2Type'
  <2> DEFINE d == WakeAll(Dri2, c, "MSC")
  <2>1. blocked' = d.blocked /\ UNCHANGED <<swaps, targetSbc>> /\ mscs' = mscs \ {c}
    BY <1>5 DEF WaitMSCComplete, SetDri2
  <2>2. /\ Dri2 \in Dri2Record /\ Once(Dri2.q.sleep) /\ "MSC" \in WakeType
        /\ Dri2.blocked = blocked
    BY Dri2IsRecord, QueuesAreRecord DEF QueuesInv, OneQueue, WakeType
  <2>3. Dri2.blocked \in [WakeType -> 0..(UINT - 1)] => d.blocked \in [WakeType -> 0..(UINT - 1)]
    BY <2>2, WakeAllSignals
  <2> HIDE DEF d
  <2> QED  BY <1>2, <2>1, <2>2, <2>3 DEF Dri2Type
<1>6. CASE SwapComplete
  <2>1. /\ swaps # <<>> /\ swaps' = Tail(swaps) /\ mscs' = mscs
        /\ swaps[1] \in Clients \cup {None}
        /\ blocked' = SwapCompleted(swaps[1]).d.blocked
        /\ targetSbc' = SwapCompleted(swaps[1]).target
    BY <1>6, SwapCompleteSteps DEF QueuesInv
  <2>2. /\ blocked' \in [WakeType -> 0..(UINT - 1)]
        /\ targetSbc' \in 0..SwapLimit \cup {None}
    BY <2>1, SwapCompletedSignals
  <2>3. Tail(swaps) \in Seq(Clients \cup {None}) /\ Len(Tail(swaps)) <= SwapLimit
    BY <1>2, <2>1, Sizes DEF Dri2Type
  <2> QED  BY <1>2, <2>1, <2>2, <2>3 DEF Dri2Type
<1>7. CASE ServedRequest
  <2>1. PICK c \in Clients :
          \/ \E revive \in 0..MaxTime : FakeInput(c, revive)
          \/ GetBuffers(c)
          \/ SwapBuffers(c)
          \/ WaitMSC(c)
          \/ \E n \in 1..SwapLimit : WaitSBC(c, n)
          \/ OpenFont(c)
          \/ DestroyDrawable(c)
          \/ \E k \in Clients : CloseDownClient(c, k)
    BY <1>7, Zenon DEF ServedRequest
  <2>2. ASSUME Throttle(c) PROVE Dri2Type'
    <3>1. /\ blocked' = [blocked EXCEPT !["SWAP"] = (@ + 1) % UINT]
          /\ UNCHANGED <<swaps, targetSbc, mscs>>
      BY <2>2, ThrottleSteps
    <3>2. "SWAP" \in WakeType
      BY DEF WakeType
    <3> QED  BY <1>2, <1>4, <3>1, <3>2 DEF Dri2Type
  <2>3. ASSUME SwapBuffers(c), ~Throttle(c) PROVE Dri2Type'
    <3>1. /\ Len(swaps) < SwapLimit /\ mscs' = mscs
          /\ \/ swaps' = Append(swaps, c) /\ UNCHANGED <<blocked, targetSbc>>
             \/ /\ blocked' = SwapCompleted(c).d.blocked /\ targetSbc' = SwapCompleted(c).target
                /\ swaps' = swaps
      BY <2>3, Zenon DEF SwapBuffers, SetDri2
    <3>2. /\ SwapCompleted(c).d.blocked \in [WakeType -> 0..(UINT - 1)]
          /\ SwapCompleted(c).target \in 0..SwapLimit \cup {None}
      BY SwapCompletedSignals
    <3>3. Append(swaps, c) \in Seq(Clients \cup {None}) /\ Len(Append(swaps, c)) <= SwapLimit
      BY <1>2, <3>1, Sizes DEF Dri2Type
    <3> QED  BY <1>2, <3>1, <3>2, <3>3 DEF Dri2Type
  <2>4. ASSUME WaitMSC(c) PROVE Dri2Type'
    <3>1. /\ blocked' = [blocked EXCEPT !["MSC"] = (@ + 1) % UINT]
          /\ UNCHANGED <<swaps, targetSbc>> /\ mscs' = mscs \cup {c}
      BY <2>4, SetDri2Sleep DEF WaitMSC
    <3>2. "MSC" \in WakeType
      BY DEF WakeType
    <3> QED  BY <1>2, <1>4, <3>1, <3>2 DEF Dri2Type
  <2>5. ASSUME NEW n \in 1..SwapLimit, WaitSBC(c, n) PROVE Dri2Type'
    <3>1. /\ blocked' = [blocked EXCEPT !["SBC"] = (@ + 1) % UINT]
          /\ UNCHANGED <<swaps, mscs>> /\ targetSbc' = n
      BY <2>5, SetDri2Sleep DEF WaitSBC
    <3>2. "SBC" \in WakeType
      BY DEF WakeType
    <3>3. n \in 0..SwapLimit
      BY Sizes
    <3> QED  BY <1>2, <1>4, <3>1, <3>2, <3>3 DEF Dri2Type
  <2>6. ASSUME DestroyDrawable(c) PROVE Dri2Type'
    <3>1. /\ blocked' = [t \in WakeType |-> 0] /\ swaps' = <<>> /\ targetSbc' = None /\ mscs' = {}
      BY <2>6, Zenon DEF DestroyDrawable
    <3>2. blocked' \in [WakeType -> 0..(UINT - 1)]
      <4>1. 0 \in 0..(UINT - 1)
        BY Sizes
      <4> QED  BY <3>1, <4>1
    <3>3. swaps' \in Seq(Clients \cup {None}) /\ Len(swaps') <= SwapLimit
      BY <3>1, Sizes
    <3> QED  BY <3>1, <3>2, <3>3 DEF Dri2Type
  <2>7. ASSUME \/ \E revive \in 0..MaxTime : FakeInput(c, revive)
               \/ OpenFont(c) \/ \E k \in Clients : CloseDownClient(c, k)
        PROVE  Dri2Type'
    <3>1. UNCHANGED <<blocked, swaps, targetSbc, mscs>>
      BY <2>7, Zenon DEF FakeInput, OpenFont, CloseDownClient, dri2Vars
    <3> QED  BY <1>1, <3>1
  <2>8. GetBuffers(c) => Throttle(c)
    BY Zenon DEF GetBuffers
  <2> QED  BY <2>1, <2>2, <2>3, <2>4, <2>5, <2>6, <2>7, <2>8
<1>8. CASE ZombiesDone
  <2>1. /\ swaps' = [i \in DOMAIN swaps |-> IF swaps[i] \in gone THEN None ELSE swaps[i]]
        /\ mscs' = mscs \ gone /\ UNCHANGED <<blocked, targetSbc>>
    BY <1>8 DEF ZombiesDone
  <2>2. swaps' \in Seq(Clients \cup {None}) /\ Len(swaps') = Len(swaps)
    <3>1. swaps \in Seq(Clients \cup {None}) /\ Len(swaps) \in Nat /\ DOMAIN swaps = 1..Len(swaps)
      BY <1>2 DEF Dri2Type
    <3>2. \A i \in 1..Len(swaps) : swaps[i] \in Clients \cup {None}
      BY <3>1
    <3>3. swaps' \in [1..Len(swaps) -> Clients \cup {None}]
      BY <2>1, <3>1, <3>2
    <3>4. swaps' \in Seq(Clients \cup {None})
      BY <3>1, <3>3
    <3>5. DOMAIN swaps' = 1..Len(swaps)
      BY <3>3
    <3> QED  BY <3>1, <3>4, <3>5
  <2> QED  BY <1>2, <2>1, <2>2 DEF Dri2Type
<1>9. ASSUME \/ \E c \in Clients : WorkWakes(c) \/ WorkSuspends(c) \/ FontAnswer(c) \/ Connect(c)
             \/ WorkDone \/ BlockHandler \/ WakeupHandler \/ EventsDone \/ SliceEnds
             \/ CallZombie \/ Tick \/ UNCHANGED vars
      PROVE  Dri2Type'
  <2>1. UNCHANGED <<blocked, swaps, targetSbc, mscs>>
    BY <1>9, Zenon DEF WorkWakes, WorkSuspends, CallWork, FontAnswer, Connect, WorkDone,
                       BlockHandler, WakeupHandler, EventsDone, SliceEnds, CallZombie, Tick,
                       vars, dri2Vars
  <2> QED  BY <1>1, <2>1
<1> QED  BY <1>5, <1>6, <1>7, <1>8, <1>9, Steps

---------------------------------------------------------------------------
(* The queues are in order in every state.                                 *)
Inv == QueuesInv /\ RestType

LEMMA EmptyQueues ==
  /\ <<>> \in Seq(SleepEntry) /\ <<>> \in Seq(Delay) /\ <<>> \in Seq(Clients \cup {None})
  /\ Range(<<>>) = {} /\ DOMAIN <<>> = {} /\ Len(<<>>) = 0
<1>1. DOMAIN <<>> = {}
  OBVIOUS
<1> QED  BY <1>1 DEF Range

LEMMA InvHolds == Spec => []Inv
<1>1. Init => Inv
  <2> SUFFICES ASSUME Init PROVE Inv
    OBVIOUS
  <2>1. /\ pc = "work" /\ serving = None /\ gone = {}
        /\ ignoreCount = [c \in Clients |-> 0]
        /\ sleepQueue = <<>> /\ workQueue = <<>> /\ pending = <<>>
        /\ handlers = 0 /\ now = 0 /\ timeout = Never
        /\ blocked = [t \in WakeType |-> 0]
        /\ swaps = <<>> /\ targetSbc = None /\ mscs = {}
    BY DEF Init
  <2>2. RestType
    <3>1. 0 \in 0..(UINT - 1) /\ 0 \in 0..MaxHandlers /\ 0 \in 0..MaxTime /\ Never \in 0..Never
          /\ 0 <= SwapLimit
      BY Sizes DEF Never
    <3> QED  BY <2>1, <3>1, EmptyQueues DEF RestType
  <2>3. \A c : ~Sleeps(c) /\ ~Delayed(c) /\ ~HasWork(c)
    BY <2>1, EmptyQueues DEF Sleeps, Delayed, HasWork
  <2>4. QueueType
    BY <2>1, EmptyQueues DEF QueueType
  <2>5. Once(sleepQueue) /\ Once(pending) /\ InOrder(pending)
    BY <2>1, EmptyQueues DEF Once, InOrder
  <2>6. OneQueue /\ IgnoredOnce
    BY <2>1, <2>3, <2>5 DEF OneQueue, IgnoredOnce
  <2>7. NothingOfGone /\ GoneAreCalled /\ ServedIsThere /\ WorkHasSleeper
    BY <2>1, EmptyQueues DEF NothingOfGone, GoneAreCalled, ServedIsThere, WorkHasSleeper
  <2> QED  BY <2>2, <2>4, <2>6, <2>7 DEF Inv, QueuesInv
<1>2. Inv /\ [Next]_vars => Inv'
  <2> SUFFICES ASSUME Inv, [Next]_vars PROVE Inv'
    OBVIOUS
  <2>1. QueuesInv'
    BY QueuesStep DEF Inv
  <2>2. RoundType'
    BY RestTypeIs, RoundTypeStep DEF Inv, QueuesInv
  <2>3. Dri2Type'
    BY Dri2TypeStep DEF Inv
  <2>4. RestType'
    BY <2>2, <2>3 DEF RestType, RoundType, Dri2Type
  <2> QED  BY <2>1, <2>4 DEF Inv
<1> QED  BY <1>1, <1>2, PTL DEF Spec

(* The variables have their types, and a client is ignored exactly as      *)
(* often as somebody will attend to it again: sleeping clients, delayed    *)
(* clients and the work queue of dixutils.c never disagree.                *)
THEOREM IgnoredAsAsleep == Spec => [](TypeOK /\ IgnoredAsOftenAsAsleep)
<1>1. Inv => TypeOK /\ IgnoredAsOftenAsAsleep
  <2> SUFFICES ASSUME Inv PROVE TypeOK /\ IgnoredAsOftenAsAsleep
    OBVIOUS
  <2>1. TypeOK
    BY DEF Inv, QueuesInv, QueueType, RestType, TypeOK, Delay
  <2>2. ASSUME NEW c \in Clients \ gone
        PROVE  ignoreCount[c] = Cardinality(PlacesOf(c, sleepQueue))
                                + Cardinality(PlacesOf(c, pending))
    <3>1. /\ sleepQueue \in Seq(SleepEntry) /\ Once(sleepQueue)
          /\ pending \in Seq(Delay) /\ Once(pending)
      BY DEF Inv, QueuesInv, QueueType, OneQueue
    <3>2. /\ PlacesOf(c, sleepQueue) # {} <=> Sleeps(c)
          /\ PlacesOf(c, sleepQueue) # {} => Cardinality(PlacesOf(c, sleepQueue)) = 1
          /\ PlacesOf(c, sleepQueue) = {} => Cardinality(PlacesOf(c, sleepQueue)) = 0
      BY <3>1, OnePlace DEF Sleeps
    <3>3. /\ PlacesOf(c, pending) # {} <=> Delayed(c)
          /\ PlacesOf(c, pending) # {} => Cardinality(PlacesOf(c, pending)) = 1
          /\ PlacesOf(c, pending) = {} => Cardinality(PlacesOf(c, pending)) = 0
      BY <3>1, OnePlace DEF Delayed
    <3>4. /\ ~(Sleeps(c) /\ Delayed(c))
          /\ ignoreCount[c] = IF Sleeps(c) \/ Delayed(c) THEN 1 ELSE 0
      BY DEF Inv, QueuesInv, OneQueue, IgnoredOnce
    <3> QED  BY <3>2, <3>3, <3>4
  <2> QED  BY <2>1, <2>2 DEF IgnoredAsOftenAsAsleep
<1> QED  BY <1>1, InvHolds, PTL

---------------------------------------------------------------------------
(* The delays are over in time: a delayed client has the handlers          *)
(* registered, and the poll ends with the first delay.                     *)
DelaysInv ==
  /\ pending # <<>> => handlers > 0
  /\ PollInTime

LEMMA DelaysStep ==
  ASSUME Inv, DelaysInv, [Next]_vars
  PROVE  DelaysInv'
<1>1. ASSUME UNCHANGED <<handlers, timeout>>,
             \A e \in Range(pending') : e \in Range(pending),
             pending' # <<>> => pending # <<>>,
             pc' = "poll" => pc = "poll"
      PROVE  DelaysInv'
  BY <1>1 DEF DelaysInv, PollInTime
<1>2. ASSUME UNCHANGED <<handlers, timeout, pending>>, pc' = "poll" => pc = "poll"
      PROVE  DelaysInv'
  BY <1>1, <1>2
<1>3. CASE BlockHandler
  <2>1. pc' = "poll" /\ pc = "block" /\ handlers' = handlers
    BY <1>3 DEF BlockHandler
  <2>2. CASE handlers = 0
    <3>1. pending' = pending /\ pending = <<>>
      BY <1>3, <2>2 DEF BlockHandler, DelaysInv
    <3> QED  BY <2>1, <3>1, EmptyQueues DEF DelaysInv, PollInTime
  <2>3. CASE handlers # 0
    <3>1. FreeDue /\ handlers > 0
      BY <1>3, <2>3 DEF BlockHandler, Inv, RestType
    <3>2. \A e : e \in Range(pending') <=> \E i \in DOMAIN pending \ Due : pending[i] = e
      <4>1. UNCHANGED <<serving, gone, sleepQueue, workQueue>> /\ pc \in {"block", "poll"}
            /\ pc' \in {"poll", "events"}
        BY <1>3 DEF BlockHandler
      <4> QED  BY <3>1, <4>1, QueuesFreeDue DEF Inv
    <3>3. timeout' = IF Due # {} THEN now ELSE IF pending = <<>> THEN Never ELSE pending[1].revive
      BY <1>3, <2>3 DEF BlockHandler
    <3>4. ASSUME NEW e \in Range(pending') PROVE timeout' <= e.revive
      <4>1. PICK i \in DOMAIN pending \ Due : pending[i] = e
        BY <3>2
      <4>2. /\ pending \in Seq(Delay) /\ InOrder(pending) /\ now \in Nat /\ MaxTime \in Nat
        BY Sizes DEF Inv, QueuesInv, QueueType, OneQueue, RestType
      <4>3. \A j \in DOMAIN pending : pending[j].revive \in Nat /\ j \in Nat
        <5>1. \A d \in Delay : d.revive \in Nat
          BY <4>2 DEF Delay
        <5>2. \A j \in DOMAIN pending : pending[j] \in Delay /\ j \in Nat
          BY <4>2
        <5> QED  BY <5>1, <5>2
      <4>4. PICK j \in 1..i : ~(pending[j].revive <= now)
        BY <4>1 DEF Due
      <4>5. j \in DOMAIN pending /\ j <= i /\ 1 \in DOMAIN pending /\ 1 <= i
        BY <4>1, <4>2, <4>4
      <4>6. pending[j].revive <= pending[i].revive /\ pending[1].revive <= pending[i].revive
        BY <4>1, <4>2, <4>5 DEF InOrder
      <4>7. now <= e.revive
        BY <4>1, <4>2, <4>3, <4>4, <4>5, <4>6
      <4>8. pending # <<>>
        BY <4>5
      <4> QED  BY <3>3, <4>1, <4>6, <4>7, <4>8
    <3> QED  BY <2>1, <3>1, <3>4 DEF DelaysInv, PollInTime
  <2> QED  BY <2>2, <2>3
<1>4. CASE WakeupHandler
  <2>1. pc = "poll" /\ pc' = "events"
    BY <1>4 DEF WakeupHandler
  <2>2. CASE handlers = 0
    BY <1>4, <2>1, <2>2 DEF WakeupHandler, DelaysInv, PollInTime
  <2>3. CASE handlers # 0
    BY <1>4, <2>1, <2>3 DEF WakeupHandler, DelaysInv, PollInTime, Inv, RestType
  <2> QED  BY <2>2, <2>3
<1>5. CASE ServedRequest
  <2>1. PICK c \in Clients :
          \/ \E revive \in 0..MaxTime : FakeInput(c, revive)
          \/ GetBuffers(c)
          \/ SwapBuffers(c)
          \/ WaitMSC(c)
          \/ \E n \in 1..SwapLimit : WaitSBC(c, n)
          \/ OpenFont(c)
          \/ DestroyDrawable(c)
          \/ \E k \in Clients : CloseDownClient(c, k)
    BY <1>5, Zenon DEF ServedRequest
  <2>2. ASSUME \E revive \in 0..MaxTime : FakeInput(c, revive) PROVE DelaysInv'
    <3>1. /\ pc = "dispatch" /\ pc' = pc /\ handlers' = handlers + 1
      BY <2>2, Zenon DEF FakeInput, Serves
    <3>2. handlers' > 0
      BY <3>1 DEF Inv, RestType
    <3> QED  BY <3>1, <3>2 DEF DelaysInv, PollInTime
  <2>3. ASSUME \/ GetBuffers(c) \/ SwapBuffers(c) \/ WaitMSC(c)
               \/ \E n \in 1..SwapLimit : WaitSBC(c, n)
               \/ OpenFont(c) \/ DestroyDrawable(c)
        PROVE  DelaysInv'
    <3>1. UNCHANGED <<pc, pending, handlers, timeout>>
      BY <2>3, Zenon DEF GetBuffers, SwapBuffers, WaitMSC, WaitSBC, OpenFont, DestroyDrawable,
                         Serves, Throttle
    <3> QED  BY <1>2, <3>1
  <2>4. ASSUME \E k \in Clients : CloseDownClient(c, k) PROVE DelaysInv'
    <3>1. pc' = "zombies" /\ UNCHANGED <<pending, handlers, timeout>>
      BY <2>4, Zenon DEF CloseDownClient, timeVars
    <3> QED  BY <1>2, <3>1
  <2> QED  BY <2>1, <2>2, <2>3, <2>4
<1>6. CASE ZombiesDone
  <2>1. pc = "zombies" /\ pc' = "dispatch" /\ UNCHANGED <<handlers, timeout>>
    BY <1>6 DEF ZombiesDone
  <2>2. \A e \in Range(pending') : e \in Range(pending)
    BY <1>6, QueuesZombiesDone DEF Inv
  <2>3. pending' # <<>> => pending # <<>>
    <3>1. pending' \in Seq(Delay)
      BY <1>6, QueuesZombiesDone DEF Inv, QueuesInv, QueueType
    <3>2. ASSUME pending' # <<>> PROVE pending'[1] \in Range(pending')
      BY <3>1, <3>2 DEF Range
    <3> QED  BY <2>2, <3>2, EmptyQueues
  <2> QED  BY <1>1, <2>1, <2>2, <2>3
<1>7. ASSUME \/ \E c \in Clients : \/ WorkWakes(c) \/ WorkSuspends(c)
                                   \/ WaitMSCComplete(c) \/ FontAnswer(c) \/ Connect(c)
             \/ WorkDone \/ SwapComplete \/ EventsDone \/ SliceEnds
             \/ CallZombie \/ Tick \/ UNCHANGED vars
      PROVE  DelaysInv'
  <2>1. UNCHANGED <<handlers, timeout, pending>> /\ (pc' = "poll" => pc = "poll")
    BY <1>7, Zenon DEF WorkWakes, WorkSuspends, CallWork, WaitMSCComplete, FontAnswer, Connect,
                       WorkDone, SwapComplete, EventsDone, SliceEnds, CallZombie, Tick,
                       vars, timeVars
  <2> QED  BY <1>2, <2>1
<1> QED  BY <1>3, <1>4, <1>5, <1>6, <1>7, Steps

(* The poll of the main thread ends when the first delay is over, however  *)
(* often the handlers of sleepuntil.c are registered and removed, whoever  *)
(* was delayed last, and whoever is closed down meanwhile.                 *)
THEOREM PollEndsInTime == Spec => []PollInTime
<1>1. Init => DelaysInv
  BY DEF Init, DelaysInv, PollInTime
<1>2. Inv /\ DelaysInv /\ [Next]_vars => DelaysInv'
  BY DelaysStep
<1>3. DelaysInv => PollInTime
  BY DEF DelaysInv
<1> QED  BY <1>1, <1>2, <1>3, InvHolds, PTL DEF Spec

---------------------------------------------------------------------------
(* The closures of doOpenFont.                                             *)

LEMMA AppendedFont ==
  ASSUME NEW S, NEW list \in Seq(S), NEW e \in S, FontsOnce(list),
         e.why = "font" => e \notin Range(list)
  PROVE  FontsOnce(Append(list, e))
<1> DEFINE all == Append(list, e)
           n == Len(list)
<1>1. /\ n \in Nat /\ DOMAIN list = 1..n /\ DOMAIN all = 1..(n + 1)
      /\ \A i \in 1..n : all[i] = list[i]
      /\ all[n + 1] = e
  OBVIOUS
<1> HIDE DEF all, n
<1>2. \A i \in DOMAIN all : (i \in DOMAIN list /\ all[i] = list[i]) \/ (i = n + 1 /\ all[i] = e)
  BY <1>1
<1>3. \A i \in DOMAIN list : list[i] \in Range(list)
  BY DEF Range
<1> QED  BY <1>2, <1>3 DEF FontsOnce, all

LEMMA TailFonts ==
  ASSUME NEW S, NEW list \in Seq(S), list # <<>>, FontsOnce(list)
  PROVE  /\ FontsOnce(Tail(list))
         /\ \A e \in Range(Tail(list)) : e.why = "font" => e # list[1]
<1>1. /\ Len(list) \in Nat \ {0} /\ DOMAIN list = 1..Len(list)
      /\ DOMAIN Tail(list) = 1..(Len(list) - 1)
      /\ \A i \in DOMAIN Tail(list) : Tail(list)[i] = list[i + 1]
  OBVIOUS
<1>2. \A i \in DOMAIN Tail(list) : i + 1 \in DOMAIN list /\ i + 1 # 1 /\ i \in Nat
  BY <1>1
<1>3. 1 \in DOMAIN list
  BY <1>1
<1>4. FontsOnce(Tail(list))
  <2> SUFFICES ASSUME NEW i \in DOMAIN Tail(list), NEW j \in DOMAIN Tail(list),
                      Tail(list)[i] = Tail(list)[j], Tail(list)[i].why = "font"
               PROVE  i = j
    BY DEF FontsOnce
  <2>1. i + 1 = j + 1
    BY <1>1, <1>2 DEF FontsOnce
  <2> QED  BY <1>2, <2>1
<1>5. ASSUME NEW e \in Range(Tail(list)), e.why = "font", e = list[1] PROVE FALSE
  <2>1. PICK i \in DOMAIN Tail(list) : Tail(list)[i] = e
    BY DEF Range
  <2>2. i + 1 = 1
    BY <1>1, <1>2, <1>3, <1>5, <2>1 DEF FontsOnce
  <2> QED  BY <1>2, <2>2
<1> QED  BY <1>4, <1>5

LEMMA WithoutFonts ==
  ASSUME NEW S, NEW list \in Seq(S), NEW i \in DOMAIN list, FontsOnce(list)
  PROVE  FontsOnce(Without(list, i))
<1> DEFINE K == DOMAIN list \ {i}
           kept == Keep(list, K)
           n == Cardinality(K)
<1>1. K \in SUBSET (DOMAIN list) /\ DOMAIN list \subseteq Nat
  OBVIOUS
<1> HIDE DEF K
<1>2. /\ n \in Nat /\ DOMAIN kept = 1..n
      /\ \A j \in 1..n : Nth(K, j) \in K /\ kept[j] = list[Nth(K, j)]
      /\ \A j, l \in 1..n : j < l => Nth(K, j) < Nth(K, l)
  BY <1>1, KeepProperties
<1> HIDE DEF kept, n
<1>3. ASSUME NEW j \in DOMAIN kept, NEW l \in DOMAIN kept, kept[j] = kept[l], kept[j].why = "font"
      PROVE  j = l
  <2>1. Nth(K, j) = Nth(K, l) /\ Nth(K, j) \in Nat
    BY <1>1, <1>2, <1>3 DEF FontsOnce
  <2>2. j \in 1..n /\ l \in 1..n
    BY <1>2
  <2>3. (j < l => Nth(K, j) < Nth(K, l)) /\ (l < j => Nth(K, l) < Nth(K, j))
    BY <1>2, <2>2
  <2>4. ~(j < l) /\ ~(l < j)
    BY <2>1, <2>3
  <2> QED  BY <1>2, <2>2, <2>4
<1> QED  BY <1>3 DEF FontsOnce, Without, K, kept

(* doOpenFont is in the work queue once for a closure, and the closure is  *)
(* that of a client that sleeps.                                           *)
FontsInv == FontsOnce(workQueue) /\ ClosuresAlive

LEMMA FontsKept ==
  ASSUME FontsInv, UNCHANGED <<sleepQueue, workQueue>>
  PROVE  FontsInv'
BY DEF FontsInv, FontsOnce, ClosuresAlive

LEMMA FontsSignal ==
  ASSUME Inv, FontsInv, NEW r, DriSignals(Queues, r), SetQueues(r)
  PROVE  FontsInv'
<1>1. /\ sleepQueue' = sleepQueue /\ workQueue' = r.work /\ FontsOnce(r.work)
      /\ \A e \in Range(r.work) : e.why = "font" => e \in Range(workQueue)
  BY QueuesAreRecord DEF Inv, QueuesInv, FontsInv, DriSignals, OnlySignals, SetQueues
<1> QED  BY <1>1 DEF FontsInv, ClosuresAlive, FontsOnce

LEMMA FontsSleep ==
  ASSUME Inv, FontsInv, NEW c \in Clients, NEW request, Serves(c, request),
         NEW why \in WakeType \cup {"font"}, SetQueues(ClientSleep(Queues, c, why))
  PROVE  FontsInv'
<1>1. /\ workQueue' = workQueue
      /\ \A e : e \in Range(sleepQueue') <=> e \in Range(sleepQueue) \/ e = Sleep(c, why)
  BY ServesSteps, SleepSteps DEF Inv
<1> QED  BY <1>1 DEF FontsInv, FontsOnce, ClosuresAlive

(* A sleeper is signalled, other than one that waits for a font and has    *)
(* been already.                                                           *)
LEMMA FontsAppend ==
  ASSUME Inv, FontsInv, NEW e \in Range(sleepQueue), e.why = "font" => e \notin Range(workQueue),
         sleepQueue' = sleepQueue, workQueue' = Append(workQueue, e)
  PROVE  FontsInv'
<1>1. sleepQueue \in Seq(SleepEntry) /\ workQueue \in Seq(SleepEntry)
  BY DEF Inv, QueuesInv, QueueType
<1>2. e \in SleepEntry
  BY <1>1 DEF Range
<1>3. FontsOnce(Append(workQueue, e))
  BY <1>1, <1>2, AppendedFont DEF FontsInv
<1>4. \A f : f \in Range(Append(workQueue, e)) <=> f \in Range(workQueue) \/ f = e
  BY <1>1, <1>2, AppendedEntry
<1>5. ClosuresAlive'
  BY <1>4 DEF FontsInv, ClosuresAlive
<1> QED  BY <1>3, <1>5 DEF FontsInv, FontsOnce

(* A function is called: if the client sleeps for a font, this is its only *)
(* one.                                                                    *)
LEMMA CalledFont ==
  ASSUME Inv, FontsInv, NEW e \in Range(workQueue), NEW f \in Range(workQueue),
         e.client = f.client, e.why = "font"
  PROVE  e = f
<1>1. e \in Range(sleepQueue)
  BY DEF FontsInv, ClosuresAlive
<1>2. Sleeps(f.client)
  BY <1>1 DEF Sleeps
<1>3. f \in Range(sleepQueue)
  BY <1>2 DEF Inv, QueuesInv, WorkHasSleeper
<1> QED  BY <1>1, <1>3 DEF Inv, QueuesInv, OneQueue, Once, Range

LEMMA EntryIs ==
  ASSUME NEW e \in SleepEntry
  PROVE  e = Sleep(e.client, e.why) /\ e.client \in Clients /\ e.why \in WakeType \cup {"font"}
BY DEF SleepEntry, Sleep

LEMMA FontsWork ==
  ASSUME Inv, FontsInv, NEW c \in Clients, WorkWakes(c) \/ WorkSuspends(c)
  PROVE  FontsInv'
<1>1. /\ workQueue # <<>> /\ workQueue[1].client = c /\ workQueue[1] \in Range(workQueue)
      /\ \A e \in Range(Tail(workQueue)) : e \in Range(workQueue)
  BY CallWorkSteps DEF Inv, WorkWakes, WorkSuspends
<1>2. workQueue' = Tail(workQueue)
  BY WorkWakesSteps, WorkSuspendsSteps DEF Inv
<1>3. \A e : e \in Range(sleepQueue) /\ e.client # c => e \in Range(sleepQueue')
  BY WorkWakesSteps, WorkSuspendsSteps DEF Inv
<1>4. /\ FontsOnce(Tail(workQueue))
      /\ \A e \in Range(Tail(workQueue)) : e.why = "font" => e # workQueue[1]
  BY <1>1, TailFonts DEF Inv, QueuesInv, QueueType, FontsInv
<1>5. ASSUME NEW e \in Range(Tail(workQueue)), e.why = "font"
      PROVE  e \in Range(sleepQueue')
  <2>1. e \in Range(workQueue) /\ e \in Range(sleepQueue)
    BY <1>1, <1>5 DEF FontsInv, ClosuresAlive
  <2>2. e.client # c
    <3>1. e # workQueue[1]
      BY <1>4, <1>5
    <3> QED  BY <1>1, <1>5, <2>1, <3>1, CalledFont
  <2> QED  BY <1>3, <2>1, <2>2
<1> QED  BY <1>2, <1>4, <1>5 DEF FontsInv, FontsOnce, ClosuresAlive

LEMMA FontsZombie ==
  ASSUME Inv, FontsInv, CallZombie
  PROVE  FontsInv'
<1>1. PICK i \in Zombies :
        /\ i \in DOMAIN workQueue
        /\ workQueue' = Without(workQueue, i)
        /\ \A e : e \in Range(workQueue') <=> \E j \in DOMAIN workQueue : j # i /\ workQueue[j] = e
        /\ \A e : e \in Range(sleepQueue') <=>
                    e \in Range(sleepQueue) /\ e.client # workQueue[i].client
  BY CallZombieSteps DEF Inv
<1>2. FontsOnce(Without(workQueue, i))
  BY <1>1, WithoutFonts DEF Inv, QueuesInv, QueueType, FontsInv
<1>3. ASSUME NEW e \in Range(workQueue'), e.why = "font"
      PROVE  e \in Range(sleepQueue')
  <2>1. PICK j \in DOMAIN workQueue : j # i /\ workQueue[j] = e
    BY <1>1
  <2>2. e \in Range(workQueue) /\ workQueue[i] \in Range(workQueue)
    BY <1>1, <2>1 DEF Range
  <2>3. e \in Range(sleepQueue)
    BY <1>3, <2>2 DEF FontsInv, ClosuresAlive
  <2>4. e # workQueue[i]
    BY <1>1, <1>3, <2>1 DEF FontsInv, FontsOnce
  <2>5. e.client # workQueue[i].client
    BY <1>3, <2>2, <2>4, CalledFont
  <2> QED  BY <1>1, <2>3, <2>5
<1>4. ClosuresAlive'
  BY <1>3 DEF ClosuresAlive
<1> QED  BY <1>1, <1>2, <1>4 DEF FontsInv, FontsOnce

(* A closure is freed while doOpenFont is in the work queue if a client is *)
(* closed down between the answer of the font server and the call.         *)
LEMMA FontsSignalled ==
  ASSUME Inv, FontsInv, NEW c \in Clients,
         \/ FontAnswer(c)
         \/ "signalledFont" \notin Deaths /\ \E x \in Clients : CloseDownClient(x, c)
  PROVE  FontsInv'
<1>1. sleepQueue \in Seq(SleepEntry) /\ Once(sleepQueue)
  BY DEF Inv, QueuesInv, QueueType, OneQueue
<1>2. ASSUME NEW e \in Range(sleepQueue), e.client = c, e.why = "font",
             Sleep(c, "font") \notin Range(workQueue)
      PROVE  e \notin Range(workQueue)
  <2>1. e \in SleepEntry
    BY <1>1 DEF Range
  <2> QED  BY <1>2, <2>1, EntryIs
<1>3. CASE FontAnswer(c)
  <2> DEFINE q == Queues
  <2>1. /\ SetQueues(ClientSignal(q, c)) /\ Sleep(c, "font") \in Range(sleepQueue)
        /\ Sleep(c, "font") \notin Range(workQueue)
    BY <1>3 DEF FontAnswer
  <2>2. q \in QueueRecord /\ q.sleep = sleepQueue /\ q.work = workQueue /\ Once(q.sleep)
    BY <1>1, QueuesAreRecord DEF Inv, QueuesInv
  <2> HIDE DEF q
  <2>3. /\ ClientSignal(q, c).sleep = q.sleep
        /\ \/ ClientSignal(q, c).work = q.work
           \/ \E e \in Range(q.sleep) : e.client = c /\ ClientSignal(q, c).work = Append(q.work, e)
    BY <2>2, ClientSignalEffect
  <2>4. /\ sleepQueue' = sleepQueue
        /\ \/ workQueue' = workQueue
           \/ \E e \in Range(sleepQueue) : e.client = c /\ workQueue' = Append(workQueue, e)
    BY <2>1, <2>2, <2>3 DEF SetQueues
  <2> QED  BY <1>2, <2>1, <2>4, FontsKept, FontsAppend
<1>4. CASE "signalledFont" \notin Deaths /\ \E x \in Clients : CloseDownClient(x, c)
  <2>1. PICK x \in Clients : CloseDownClient(x, c)
    BY <1>4
  <2>2. /\ DeathOf(c) \subseteq Deaths /\ sleepQueue' = sleepQueue
        /\ \/ workQueue' = workQueue
           \/ \E e \in Range(sleepQueue) : e.client = c /\ workQueue' = Append(workQueue, e)
    BY <2>1, CloseDownClientSteps DEF Inv
  <2>3. Sleep(c, "font") \notin Range(workQueue)
    BY <1>4, <2>2 DEF DeathOf
  <2> QED  BY <1>2, <2>2, <2>3, FontsKept, FontsAppend
<1> QED  BY <1>3, <1>4

LEMMA FontsRequest ==
  ASSUME Inv, FontsInv, ServedRequest, "signalledFont" \notin Deaths
  PROVE  FontsInv'
<1>1. PICK c \in Clients :
        \/ \E revive \in 0..MaxTime : FakeInput(c, revive)
        \/ GetBuffers(c)
        \/ SwapBuffers(c)
        \/ WaitMSC(c)
        \/ \E n \in 1..SwapLimit : WaitSBC(c, n)
        \/ OpenFont(c)
        \/ DestroyDrawable(c)
        \/ \E k \in Clients : CloseDownClient(c, k)
  BY Zenon DEF ServedRequest
<1>2. ASSUME NEW request, Serves(c, request), Throttle(c) PROVE FontsInv'
  BY <1>2, ThrottleSteps, FontsSleep DEF WakeType
<1>3. CASE GetBuffers(c)
  BY <1>2, <1>3 DEF GetBuffers
<1>4. CASE SwapBuffers(c)
  <2>1. /\ Serves(c, "SwapBuffers")
        /\ \/ Throttle(c)
           \/ UNCHANGED <<sleepQueue, workQueue>>
           \/ SetQueues(SwapCompleted(c).d.q)
    BY <1>4, Zenon DEF SwapBuffers, SetDri2
  <2>2. DriSignals(Queues, SwapCompleted(c).d.q)
    BY SwapCompletedSignals DEF Inv
  <2> QED  BY <1>2, <2>1, <2>2, FontsKept, FontsSignal
<1>5. CASE WaitMSC(c) \/ \E n \in 1..SwapLimit : WaitSBC(c, n)
  <2>1. \E t \in {"MSC", "SBC"} : /\ SetQueues(ClientSleep(Queues, c, t))
                                  /\ \E request : Serves(c, request)
    BY <1>5, SetDri2Sleep DEF WaitMSC, WaitSBC
  <2> QED  BY <2>1, FontsSleep DEF WakeType
<1>6. CASE OpenFont(c)
  <2>1. Serves(c, "OpenFont") /\ pc = "dispatch" /\ serving = c /\ ignoreCount[c] = 0
    BY <1>6, ServesSteps DEF OpenFont
  <2>2. CASE SetQueues(ClientSleep(Queues, c, "font"))
    BY <2>1, <2>2, FontsSleep
  <2>3. CASE SetQueues(ClientWakeup(Queues, c))
    BY <2>1, <2>3, OpenFontIsOpen, FontsKept DEF Inv
  <2> QED  BY <1>6, <2>2, <2>3 DEF OpenFont
<1>7. CASE DestroyDrawable(c)
  <2>1. SetQueues(SbcsGone.q)
    BY <1>7 DEF DestroyDrawable, SbcsGone, MscsGone, SwapsGone
  <2> QED  BY <2>1, DrawableGoneSignals, FontsSignal DEF Inv
<1>8. CASE \E k \in Clients : CloseDownClient(c, k)
  BY <1>8, FontsSignalled
<1>9. CASE \E revive \in 0..MaxTime : FakeInput(c, revive)
  <2>1. UNCHANGED <<sleepQueue, workQueue>>
    BY <1>9, Zenon DEF FakeInput
  <2> QED  BY <2>1, FontsKept
<1> QED  BY <1>1, <1>3, <1>4, <1>5, <1>6, <1>7, <1>8, <1>9

LEMMA FontsStep ==
  ASSUME Inv, FontsInv, [Next]_vars, "signalledFont" \notin Deaths
  PROVE  FontsInv'
<1>1. ASSUME NEW c \in Clients, WaitMSCComplete(c) PROVE FontsInv'
  <2> DEFINE d == WakeAll(Dri2, c, "MSC")
  <2>1. SetQueues(d.q)
    BY <1>1 DEF WaitMSCComplete, SetDri2
  <2>2. Dri2 \in Dri2Record /\ Dri2.q = Queues /\ Once(Dri2.q.sleep) /\ "MSC" \in WakeType
    BY Dri2IsRecord, QueuesAreRecord DEF Inv, QueuesInv, OneQueue, WakeType
  <2>3. DriSignals(Dri2.q, d.q)
    BY <2>2, WakeAllSignals
  <2> HIDE DEF d
  <2> QED  BY <2>1, <2>2, <2>3, FontsSignal
<1>2. CASE SwapComplete
  <2>1. swaps[1] \in Clients \cup {None} /\ SetQueues(SwapCompleted(swaps[1]).d.q)
    BY <1>2, SwapCompleteSteps DEF Inv, QueuesInv
  <2>2. DriSignals(Queues, SwapCompleted(swaps[1]).d.q)
    BY <2>1, SwapCompletedSignals DEF Inv
  <2> QED  BY <2>1, <2>2, FontsSignal
<1>3. ASSUME \/ \E c \in Clients : Connect(c)
             \/ WorkDone \/ BlockHandler \/ WakeupHandler \/ EventsDone \/ SliceEnds
             \/ ZombiesDone \/ Tick \/ UNCHANGED vars
      PROVE  FontsInv'
  <2>1. UNCHANGED <<sleepQueue, workQueue>>
    BY <1>3, Zenon DEF Connect, WorkDone, BlockHandler, WakeupHandler, EventsDone, SliceEnds,
                       ZombiesDone, Tick, vars, queueVars
  <2> QED  BY <2>1, FontsKept
<1> QED  BY <1>1, <1>2, <1>3, Steps, FontsWork, FontsZombie, FontsSignalled, FontsRequest

(* What CloseDownClient and doOpenFont free is in no queue any more: not   *)
(* the client that has gone, and not the closure of a font that is open.   *)
(* It takes that no client is closed down between the answer of the font   *)
(* server and the call of doOpenFont: it would be called twice.            *)
THEOREM NothingLeftOfTheFreed ==
  ASSUME "signalledFont" \notin Deaths
  PROVE  Spec => []NothingOfTheFreed
<1>1. Init => FontsInv
  <2> SUFFICES ASSUME Init PROVE FontsInv
    OBVIOUS
  <2>1. workQueue = <<>>
    BY DEF Init
  <2> QED  BY <2>1, EmptyQueues DEF FontsInv, FontsOnce, ClosuresAlive
<1>2. Inv /\ FontsInv /\ [Next]_vars => FontsInv'
  BY FontsStep
<1>3. Inv /\ FontsInv => NothingOfTheFreed
  <2> SUFFICES ASSUME Inv, FontsInv PROVE NothingOfTheFreed
    OBVIOUS
  <2>1. NoEntryOfTheGone
    BY DEF Inv, QueuesInv, NothingOfGone, NoEntryOfTheGone, Asleep, Sleeps, Delayed, HasWork
  <2> QED  BY <2>1 DEF FontsInv, NothingOfTheFreed
<1> QED  BY <1>1, <1>2, <1>3, InvHolds, PTL DEF Spec

---------------------------------------------------------------------------
(* How many sleepers dri2.c believes it has to wake.                       *)

(* Those who sleep for t and have not been signalled.                      *)
Unsignalled(q, t) == {x \in Found(q, None, t) : Sleep(x, t) \notin Range(q.work)}

LEMMA FoundOf ==
  ASSUME NEW q, NEW c \in Clients \cup {None}, NEW t
  PROVE  /\ Found(q, None, t) = {x \in Clients : Sleep(x, t) \in Range(q.sleep)}
         /\ Found(q, c, t) = IF c = None THEN Found(q, None, t)
                             ELSE {c} \cap Found(q, None, t)
BY Sizes DEF Found

LEMMA SleepIs ==
  ASSUME NEW c, NEW t, NEW x, NEW u, Sleep(c, t) = Sleep(x, u)
  PROVE  c = x /\ t = u
BY DEF Sleep

(* What dri2WakeAll does to them.                                          *)
SignalsFound(d, c, t, r) ==
  /\ Unsignalled(r.q, t) = Unsignalled(d.q, t) \ Found(d.q, c, t)
  /\ \A x, u : Found(r.q, x, u) = Found(d.q, x, u)
  /\ \A u \in WakeType \ {t} : /\ Unsignalled(r.q, u) = Unsignalled(d.q, u)
                               /\ r.blocked[u] = d.blocked[u]

LEMMA WakeAllUnsignalled ==
  ASSUME NEW d \in Dri2Record, Once(d.q.sleep), NEW c \in Clients \cup {None}, NEW t \in WakeType,
         d.blocked[t] = 0 => Unsignalled(d.q, t) = {}
  PROVE  SignalsFound(d, c, t, WakeAll(d, c, t))
<1> DEFINE r == WakeAll(d, c, t)
<1>1. WakesAll(d, c, t, r)
  BY WakeAllEffect
<1> HIDE DEF r
<1>2. d.blocked \in [WakeType -> Int]
  BY DEF Dri2Record
<1>3. \A x, u : Found(r.q, x, u) = Found(d.q, x, u)
  BY <1>1 DEF WakesAll, Found
<1>4. CASE d.blocked[t] = 0
  <2>1. r = d
    BY <1>1, <1>4 DEF WakesAll
  <2> QED  BY <1>3, <1>4, <2>1 DEF r, SignalsFound
<1>5. CASE d.blocked[t] # 0
  <2>1. /\ r.q.sleep = d.q.sleep
        /\ \A e : e \in Range(r.q.work) <=>
                    \/ e \in Range(d.q.work)
                    \/ e \in Range(d.q.sleep) /\ e.why = t /\ c \in {None, e.client}
        /\ \E m : r.blocked = [d.blocked EXCEPT ![t] = m]
    BY <1>1, <1>5 DEF WakesAll
  <2>2. \A x, u : Sleep(x, u).client = x /\ Sleep(x, u).why = u
    BY DEF Sleep
  <2>3. ASSUME NEW u \in WakeType
        PROVE  Unsignalled(r.q, u) =
                 IF u = t THEN Unsignalled(d.q, t) \ Found(d.q, c, t) ELSE Unsignalled(d.q, u)
    <3>1. \A x \in Found(d.q, None, u) :
            Sleep(x, u) \in Range(r.q.work) <=>
              Sleep(x, u) \in Range(d.q.work) \/ (u = t /\ x \in Found(d.q, c, t))
      <4> TAKE x \in Found(d.q, None, u)
      <4>1. x \in Clients /\ Sleep(x, u) \in Range(d.q.sleep)
        BY DEF Found
      <4>2. Sleep(x, u) \in Range(r.q.work) <=>
              Sleep(x, u) \in Range(d.q.work) \/ (u = t /\ c \in {None, x})
        BY <2>1, <2>2, <4>1
      <4>3. u = t => (x \in Found(d.q, c, t) <=> c \in {None, x})
        BY <4>1 DEF Found
      <4> QED  BY <4>2, <4>3
    <3>2. Unsignalled(r.q, u) = {x \in Found(d.q, None, u) : Sleep(x, u) \notin Range(r.q.work)}
      BY <1>3 DEF Unsignalled
    <3> QED  BY <3>1, <3>2 DEF Unsignalled
  <2>4. \A u \in WakeType \ {t} : r.blocked[u] = d.blocked[u]
    BY <1>2, <2>1
  <2> QED  BY <1>3, <2>3, <2>4 DEF r, SignalsFound
<1> QED  BY <1>4, <1>5

Counted(d) == \A t \in WakeType : d.blocked[t] = Cardinality(Unsignalled(d.q, t))

LEMMA SizeOfSome ==
  ASSUME NEW U \in SUBSET Clients
  PROVE  /\ IsFiniteSet(U) /\ Cardinality(U) \in Nat /\ Cardinality(U) < UINT
         /\ Cardinality(U) = 0 <=> U = {}
<1>1. IsFiniteSet(U) /\ Cardinality(U) <= Cardinality(Clients)
  BY Sizes, FS_Subset
<1>2. Cardinality(U) \in Nat /\ Cardinality(Clients) \in Nat
  BY <1>1, Sizes, FS_CardinalityType
<1>3. Cardinality(U) < UINT
  BY <1>1, <1>2, Sizes
<1>4. Cardinality(U) = 0 <=> U = {}
  BY <1>1, FS_EmptySet
<1> QED  BY <1>1, <1>2, <1>3, <1>4

LEMMA UnsignalledSize ==
  ASSUME NEW q, NEW t
  PROVE  /\ IsFiniteSet(Unsignalled(q, t)) /\ Cardinality(Unsignalled(q, t)) \in Nat
         /\ Cardinality(Unsignalled(q, t)) < UINT
         /\ Cardinality(Unsignalled(q, t)) = 0 <=> Unsignalled(q, t) = {}
<1>1. Unsignalled(q, t) \in SUBSET Clients
  BY DEF Unsignalled, Found
<1> QED  BY <1>1, SizeOfSome

(* The counts stay right if those who are found have not been signalled.   *)
LEMMA WakeAllCounts ==
  ASSUME NEW d \in Dri2Record, Once(d.q.sleep), NEW c \in Clients \cup {None}, NEW t \in WakeType,
         Counted(d), Found(d.q, c, t) \subseteq Unsignalled(d.q, t) \/ d.blocked[t] = 0
  PROVE  Counted(WakeAll(d, c, t))
<1> DEFINE r == WakeAll(d, c, t)
           U == Unsignalled(d.q, t)
           F == Found(d.q, c, t)
<1>1. d.blocked[t] = Cardinality(U) /\ IsFiniteSet(U) /\ Cardinality(U) \in Nat
      /\ Cardinality(U) < UINT /\ (Cardinality(U) = 0 <=> U = {})
  BY UnsignalledSize DEF Counted
<1>2. WakesAll(d, c, t, r)
  BY WakeAllEffect
<1>3. /\ Unsignalled(r.q, t) = U \ F
      /\ \A u \in WakeType \ {t} : /\ Unsignalled(r.q, u) = Unsignalled(d.q, u)
                                   /\ r.blocked[u] = d.blocked[u]
  <2>1. d.blocked[t] = 0 => Unsignalled(d.q, t) = {}
    BY <1>1
  <2>2. SignalsFound(d, c, t, r)
    BY <2>1, WakeAllUnsignalled
  <2> HIDE DEF r
  <2> QED  BY <2>2 DEF SignalsFound
<1> HIDE DEF r, U, F
<1>4. r.blocked[t] = Cardinality(U \ F)
  <2>1. CASE d.blocked[t] = 0
    <3>1. r = d
      BY <1>2, <2>1 DEF WakesAll
    <3>2. U \ F = {}
      BY <1>1, <2>1
    <3> QED  BY <1>1, <2>1, <3>1, <3>2, FS_EmptySet
  <2>2. CASE d.blocked[t] # 0
    <3>1. F \subseteq U
      BY <2>2 DEF F, U
    <3>2. IsFiniteSet(F) /\ Cardinality(F) \in Nat /\ Cardinality(F) <= Cardinality(U)
      BY <1>1, <3>1, FS_Subset, FS_CardinalityType
    <3>3. Cardinality(U \ F) = Cardinality(U) - Cardinality(F)
      <4>1. F = U \cap F
        BY <3>1
      <4>2. Cardinality(U \ F) = Cardinality(U) - Cardinality(U \cap F)
        BY <1>1, FS_Difference
      <4> QED  BY <4>1, <4>2
    <3>4. r.blocked = [d.blocked EXCEPT ![t] = (@ - Cardinality(F)) % UINT]
      BY <1>2, <2>2 DEF WakesAll, F
    <3>5. r.blocked[t] = (Cardinality(U) - Cardinality(F)) % UINT
      BY <1>1, <3>4 DEF Dri2Record
    <3>6. (Cardinality(U) - Cardinality(F)) % UINT = Cardinality(U) - Cardinality(F)
      <4>1. \A n \in 0..(UINT - 1) : n % UINT = n
        BY Sizes
      <4>2. Cardinality(U) - Cardinality(F) \in 0..(UINT - 1)
        BY <1>1, <3>2, Sizes
      <4> QED  BY <4>1, <4>2
    <3> QED  BY <3>3, <3>5, <3>6
  <2> QED  BY <2>1, <2>2
<1>5. \A u \in WakeType : r.blocked[u] = Cardinality(Unsignalled(r.q, u))
  <2> TAKE u \in WakeType
  <2>1. CASE u = t
    BY <1>3, <1>4, <2>1
  <2>2. CASE u # t
    BY <1>3, <2>2 DEF Counted
  <2> QED  BY <2>1, <2>2
<1> QED  BY <1>5 DEF Counted, r

---------------------------------------------------------------------------
(* Who sleeps in dri2.c, and who of them has not been signalled.           *)
SleepersFor(t) == {x \in Clients : Sleep(x, t) \in Range(sleepQueue)}
WaitingFor(t) == {x \in SleepersFor(t) : Sleep(x, t) \notin Range(workQueue)}

(* Outside of the work queue, and until the served client falls asleep, a  *)
(* wakeup finds either all of its sleepers signalled or none of them.      *)
Settled ==
  \/ pc \in {"block", "poll", "events"}
  \/ pc \in {"dispatch", "zombies"} /\ serving \in Clients \ gone /\ ignoreCount[serving] = 0

CountsRight == \A t \in WakeType : blocked[t] = Cardinality(WaitingFor(t))
MscsWait == mscs \subseteq WaitingFor("MSC")
OneForSbc ==
  /\ \A x, y \in WaitingFor("SBC") : x = y
  /\ targetSbc = None => WaitingFor("SBC") = {}
AllOrNone == Settled => \A t \in {"SWAP", "SBC"} : WaitingFor(t) \in {{}, SleepersFor(t)}
GoneSleepForFonts == \A e \in Range(sleepQueue) : e.client \in gone => e.why = "font"

BlockedInv == CountsRight /\ MscsWait /\ OneForSbc /\ AllOrNone /\ GoneSleepForFonts

LEMMA SleepersAreFound ==
  ASSUME QueueType, NEW t
  PROVE  Found(Queues, None, t) = SleepersFor(t) /\ Unsignalled(Queues, t) = WaitingFor(t)
<1>1. Queues.sleep = sleepQueue /\ Queues.work = workQueue
  BY QueuesAreRecord
<1>2. Found(Queues, None, t) = SleepersFor(t)
  BY <1>1 DEF Found, SleepersFor
<1> QED  BY <1>1, <1>2 DEF Unsignalled, WaitingFor

LEMMA SleepersWereFound ==
  ASSUME NEW q, SetQueues(q), NEW t
  PROVE  SleepersFor(t)' = Found(q, None, t) /\ WaitingFor(t)' = Unsignalled(q, t)
<1>1. sleepQueue' = q.sleep /\ workQueue' = q.work
  BY DEF SetQueues
<1>2. Found(q, None, t) = SleepersFor(t)'
  BY <1>1 DEF Found, SleepersFor
<1> QED  BY <1>1, <1>2 DEF Unsignalled, WaitingFor

LEMMA WakeTypes == WakeType = {"SWAP", "MSC", "SBC"} /\ "font" \notin WakeType
BY DEF WakeType

(* Nobody is signalled or falls asleep in dri2.c.                          *)
LEMMA BlockedKept ==
  ASSUME BlockedInv, UNCHANGED blocked, mscs' \subseteq mscs, targetSbc' = targetSbc,
         \A t \in WakeType : WaitingFor(t)' = WaitingFor(t),
         \/ ~Settled'
         \/ Settled /\ \A t \in WakeType : SleepersFor(t)' = SleepersFor(t)
         \/ workQueue' = <<>>,
         GoneSleepForFonts'
  PROVE  BlockedInv'
<1>1. CountsRight' /\ MscsWait' /\ OneForSbc'
  BY WakeTypes DEF BlockedInv, CountsRight, MscsWait, OneForSbc
<1>2. AllOrNone'
  <2>1. CASE ~Settled'
    BY <2>1 DEF AllOrNone
  <2>2. CASE Settled /\ \A t \in WakeType : SleepersFor(t)' = SleepersFor(t)
    BY <2>2, WakeTypes DEF BlockedInv, AllOrNone
  <2>3. CASE workQueue' = <<>>
    <3>1. \A t : WaitingFor(t)' = SleepersFor(t)'
      BY <2>3, EmptyQueues DEF WaitingFor
    <3> QED  BY <3>1 DEF AllOrNone
  <2> QED  BY <2>1, <2>2, <2>3
<1> QED  BY <1>1, <1>2 DEF BlockedInv

LEMMA BlockedQueuesKept ==
  ASSUME BlockedInv, UNCHANGED <<sleepQueue, workQueue, blocked, targetSbc>>,
         mscs' \subseteq mscs, gone' \subseteq gone,
         ~Settled' \/ Settled \/ workQueue = <<>>
  PROVE  BlockedInv'
<1>1. \A t : SleepersFor(t)' = SleepersFor(t) /\ WaitingFor(t)' = WaitingFor(t)
  BY DEF SleepersFor, WaitingFor
<1>2. GoneSleepForFonts'
  BY DEF BlockedInv, GoneSleepForFonts
<1> QED  BY <1>1, <1>2, BlockedKept

LEMMA ServesSettled ==
  ASSUME Inv, NEW c \in Clients, NEW request, Serves(c, request)
  PROVE  Settled /\ c \notin gone
BY ServesSteps DEF Inv, QueuesInv, ServedIsThere, Settled

(* Functions for fonts come into the work queue, or those of others than   *)
(* sleepers of dri2.c leave it.                                            *)
LEMMA WaitingSame ==
  ASSUME sleepQueue' = sleepQueue,
         \A e : e.why # "font" => (e \in Range(workQueue') <=> e \in Range(workQueue)),
         NEW t \in WakeType
  PROVE  SleepersFor(t)' = SleepersFor(t) /\ WaitingFor(t)' = WaitingFor(t)
<1>1. SleepersFor(t)' = SleepersFor(t)
  BY DEF SleepersFor
<1>2. \A x : Sleep(x, t).why # "font"
  BY WakeTypes DEF Sleep
<1> QED  BY <1>1, <1>2 DEF WaitingFor

LEMMA BlockedFontAnswer ==
  ASSUME Inv, BlockedInv, NEW c \in Clients, FontAnswer(c)
  PROVE  BlockedInv'
<1> DEFINE q == Queues
<1>1. /\ SetQueues(ClientSignal(q, c)) /\ Sleep(c, "font") \in Range(sleepQueue)
      /\ pc = "events" /\ UNCHANGED <<pc, gone, blocked, mscs, targetSbc>>
  BY DEF FontAnswer, dri2Vars
<1>2. /\ q \in QueueRecord /\ q.sleep = sleepQueue /\ q.work = workQueue /\ Once(q.sleep)
      /\ Once(sleepQueue)
  BY QueuesAreRecord DEF Inv, QueuesInv, OneQueue
<1> HIDE DEF q
<1>3. /\ ClientSignal(q, c).sleep = q.sleep
      /\ \A e : e \in Range(ClientSignal(q, c).work) <=>
                  e \in Range(q.work) \/ (e \in Range(q.sleep) /\ e.client = c)
  BY <1>2, ClientSignalEffect
<1>4. /\ sleepQueue' = sleepQueue
      /\ \A e : e \in Range(workQueue') <=>
                  e \in Range(workQueue) \/ (e \in Range(sleepQueue) /\ e.client = c)
  BY <1>1, <1>2, <1>3 DEF SetQueues
<1>5. \A e \in Range(sleepQueue) : e.client = c => e.why = "font"
  BY <1>1, <1>2 DEF Once, Range, Sleep
<1>6. \A t \in WakeType : SleepersFor(t)' = SleepersFor(t) /\ WaitingFor(t)' = WaitingFor(t)
  BY <1>4, <1>5, WaitingSame
<1>7. Settled /\ GoneSleepForFonts'
  BY <1>1, <1>4 DEF BlockedInv, GoneSleepForFonts, Settled
<1> QED  BY <1>1, <1>6, <1>7, BlockedKept

(* Who is closed down does not sleep in dri2.c: the client would be woken  *)
(* without the count being taken down.                                     *)
LEMMA BlockedCloseDownClient ==
  ASSUME Inv, BlockedInv, "dri2" \notin Deaths,
         NEW c \in Clients, NEW k \in Clients, CloseDownClient(c, k)
  PROVE  BlockedInv'
<1>1. /\ pc = "dispatch" /\ pc' = "zombies" /\ gone' = gone \cup {k}
      /\ DeathOf(k) \subseteq Deaths
      /\ UNCHANGED <<serving, ignoreCount, sleepQueue, blocked, targetSbc, mscs>>
      /\ \A e : e \in Range(workQueue') <=>
                  e \in Range(workQueue) \/ (e \in Range(sleepQueue) /\ e.client = k)
  BY CloseDownClientSteps DEF Inv
<1>2. \A e \in Range(sleepQueue) : e.client = k => e.why = "font"
  <2>1. \A t \in WakeType : Sleep(k, t) \notin Range(sleepQueue)
    BY <1>1 DEF DeathOf
  <2>2. \A e \in Range(sleepQueue) : e \in SleepEntry
    BY DEF Inv, QueuesInv, QueueType, Range
  <2> QED  BY <2>1, <2>2, EntryIs
<1>3. \A t \in WakeType : SleepersFor(t)' = SleepersFor(t) /\ WaitingFor(t)' = WaitingFor(t)
  BY <1>1, <1>2, WaitingSame
<1>4. Settled' => Settled
  BY <1>1 DEF Settled
<1>5. GoneSleepForFonts'
  BY <1>1, <1>2 DEF BlockedInv, GoneSleepForFonts
<1> QED  BY <1>1, <1>3, <1>4, <1>5, BlockedKept

LEMMA BlockedWorkWakes ==
  ASSUME Inv, BlockedInv, NEW c \in Clients, WorkWakes(c)
  PROVE  BlockedInv'
<1>1. /\ pc = "work" /\ workQueue # <<>> /\ workQueue[1].client = c
      /\ workQueue[1] \in Range(workQueue)
      /\ UNCHANGED <<pc, gone, blocked, targetSbc, mscs>>
      /\ \A e \in Range(Tail(workQueue)) : e \in Range(workQueue)
      /\ \A e \in Range(workQueue) : e = workQueue[1] \/ e \in Range(Tail(workQueue))
  BY CallWorkSteps DEF Inv, WorkWakes
<1>2. /\ workQueue' = Tail(workQueue)
      /\ \A e : e \in Range(sleepQueue') <=> e \in Range(sleepQueue) /\ e.client # c
  BY WorkWakesSteps DEF Inv
<1>3. \A e \in Range(sleepQueue) : e.client = c => e \in Range(workQueue)
  <2> SUFFICES ASSUME NEW e \in Range(sleepQueue), e.client = c PROVE e \in Range(workQueue)
    OBVIOUS
  <2>1. Sleeps(workQueue[1].client)
    BY <1>1 DEF Sleeps
  <2>2. workQueue[1] \in Range(sleepQueue)
    BY <1>1, <2>1 DEF Inv, QueuesInv, WorkHasSleeper
  <2>3. e = workQueue[1]
    BY <1>1, <2>2 DEF Inv, QueuesInv, OneQueue, Once, Range
  <2> QED  BY <1>1, <2>3
<1>4. \A t \in WakeType : WaitingFor(t)' = WaitingFor(t)
  <2> TAKE t \in WakeType
  <2>1. \A x : Sleep(x, t).client = x
    BY DEF Sleep
  <2>2. ASSUME NEW x \in Clients
        PROVE  /\ Sleep(x, t) \in Range(sleepQueue') /\ Sleep(x, t) \notin Range(workQueue')
               <=> Sleep(x, t) \in Range(sleepQueue) /\ Sleep(x, t) \notin Range(workQueue)
    BY <1>1, <1>2, <1>3, <2>1
  <2> QED  BY <2>2 DEF WaitingFor, SleepersFor
<1>5. ~Settled' /\ GoneSleepForFonts'
  BY <1>1, <1>2 DEF BlockedInv, GoneSleepForFonts, Settled
<1> QED  BY <1>1, <1>4, <1>5, BlockedKept

LEMMA BlockedWorkSuspends ==
  ASSUME Inv, BlockedInv, NEW c \in Clients, WorkSuspends(c)
  PROVE  BlockedInv'
<1>1. /\ pc = "work" /\ UNCHANGED <<pc, gone, blocked, targetSbc, mscs>>
      /\ \A e \in Range(Tail(workQueue)) : e \in Range(workQueue)
      /\ \A e \in Range(workQueue) : e = workQueue[1] \/ e \in Range(Tail(workQueue))
  BY CallWorkSteps DEF Inv, WorkSuspends
<1>2. workQueue' = Tail(workQueue) /\ workQueue[1].why = "font" /\ sleepQueue' = sleepQueue
  BY WorkSuspendsSteps DEF Inv
<1>3. \A t \in WakeType : SleepersFor(t)' = SleepersFor(t) /\ WaitingFor(t)' = WaitingFor(t)
  BY <1>1, <1>2, WaitingSame
<1>4. ~Settled' /\ GoneSleepForFonts'
  BY <1>1, <1>2 DEF BlockedInv, GoneSleepForFonts, Settled
<1> QED  BY <1>1, <1>3, <1>4, BlockedKept

LEMMA BlockedCallZombie ==
  ASSUME Inv, BlockedInv, CallZombie
  PROVE  BlockedInv'
<1>1. PICK i \in Zombies :
        /\ pc = "zombies" /\ i \in DOMAIN workQueue
        /\ workQueue[i].client \in gone
        /\ UNCHANGED <<pc, serving, gone, pending, blocked, targetSbc, mscs>>
        /\ \A e : e \in Range(workQueue') <=> \E j \in DOMAIN workQueue : j # i /\ workQueue[j] = e
        /\ \A e : e \in Range(sleepQueue') <=>
                    e \in Range(sleepQueue) /\ e.client # workQueue[i].client
        /\ QueuesInv'
  BY CallZombieSteps DEF Inv
<1> DEFINE z == workQueue[i].client
<1>2. \A e : e.client # z => (e \in Range(workQueue') <=> e \in Range(workQueue))
  BY <1>1 DEF Range
<1>3. \A e : e \in Range(sleepQueue') <=> e \in Range(sleepQueue) /\ e.client # z
  BY <1>1
<1>4. z \in gone
  BY <1>1
<1> HIDE DEF z
<1>5. \A t \in WakeType : SleepersFor(t)' = SleepersFor(t) /\ WaitingFor(t)' = WaitingFor(t)
  <2> TAKE t \in WakeType
  <2>1. \A x : Sleep(x, t).client = x /\ Sleep(x, t).why = t
    BY DEF Sleep
  <2>2. Sleep(z, t) \notin Range(sleepQueue)
    BY <1>4, <2>1, WakeTypes DEF BlockedInv, GoneSleepForFonts
  <2>3. \A x : Sleep(x, t) \in Range(sleepQueue') <=> Sleep(x, t) \in Range(sleepQueue)
    BY <1>3, <2>1, <2>2
  <2>4. \A x : x # z => (Sleep(x, t) \in Range(workQueue') <=> Sleep(x, t) \in Range(workQueue))
    BY <1>2, <2>1
  <2>5. SleepersFor(t)' = SleepersFor(t)
    BY <2>3 DEF SleepersFor
  <2>6. z \notin SleepersFor(t)
    BY <2>2 DEF SleepersFor
  <2> QED  BY <2>4, <2>5, <2>6 DEF WaitingFor
<1>6. Settled' => Settled
  <2> SUFFICES ASSUME Settled' PROVE Settled
    OBVIOUS
  <2>1. serving \in Clients \ gone /\ ignoreCount'[serving] = 0
    BY <1>1 DEF Settled
  <2>2. ~Sleeps(serving)' /\ ~Delayed(serving)'
    BY <1>1, <2>1 DEF QueuesInv, IgnoredOnce
  <2>3. ~Sleeps(serving) /\ ~Delayed(serving)
    BY <1>1, <1>3, <1>4, <2>1, <2>2 DEF Sleeps, Delayed
  <2>4. ignoreCount[serving] = 0
    BY <2>1, <2>3 DEF Inv, QueuesInv, IgnoredOnce
  <2> QED  BY <1>1, <2>1, <2>4 DEF Settled
<1>7. GoneSleepForFonts'
  BY <1>1 DEF BlockedInv, GoneSleepForFonts
<1> QED  BY <1>1, <1>5, <1>6, <1>7, BlockedKept

(* The served client falls asleep in dri2.c and is counted.                *)
LEMMA BlockedSleep ==
  ASSUME Inv, BlockedInv, NEW c \in Clients, NEW request, Serves(c, request),
         NEW t \in WakeType, SetQueues(ClientSleep(Queues, c, t)),
         blocked' = [blocked EXCEPT ![t] = (@ + 1) % UINT],
         UNCHANGED <<serving, gone>>,
         mscs' \subseteq mscs \cup {x \in {c} : t = "MSC"},
         IF t = "SBC" THEN targetSbc = None /\ targetSbc' # None ELSE targetSbc' = targetSbc
  PROVE  BlockedInv'
<1>1. pc = "dispatch" /\ serving = c /\ ignoreCount[c] = 0 /\ pc' = pc
  BY ServesSteps
<1>2. /\ c \notin gone /\ ~Sleeps(c)
      /\ ignoreCount' = [ignoreCount EXCEPT ![c] = @ + 1]
      /\ workQueue' = workQueue
      /\ \A e : e \in Range(sleepQueue') <=> e \in Range(sleepQueue) \/ e = Sleep(c, t)
  BY <1>1, SleepSteps DEF Inv
<1>3. \A x, u : Sleep(x, u) = Sleep(c, t) <=> x = c /\ u = t
  BY DEF Sleep
<1>4. Sleep(c, t) \notin Range(workQueue) /\ Sleep(c, t) \notin Range(sleepQueue)
  <2>1. Sleep(c, t).client = c
    BY DEF Sleep
  <2> QED  BY <1>1, <1>2, <2>1 DEF Inv, QueuesInv, WorkHasSleeper, Sleeps
<1>5. /\ WaitingFor(t)' = WaitingFor(t) \cup {c} /\ c \notin WaitingFor(t)
      /\ \A u \in WakeType \ {t} : WaitingFor(u)' = WaitingFor(u)
  <2>1. \A u : SleepersFor(u)' = IF u = t THEN SleepersFor(t) \cup {c} ELSE SleepersFor(u)
    BY <1>2, <1>3 DEF SleepersFor
  <2> QED  BY <1>2, <1>4, <2>1 DEF WaitingFor, SleepersFor
<1>6. CountsRight'
  <2>1. /\ WaitingFor(t) \in SUBSET Clients
        /\ WaitingFor(t) \cup {c} \in SUBSET Clients
    BY DEF WaitingFor, SleepersFor
  <2> DEFINE n == Cardinality(WaitingFor(t))
  <2>2. /\ IsFiniteSet(WaitingFor(t)) /\ n \in Nat
        /\ Cardinality(WaitingFor(t) \cup {c}) < UINT
    BY <2>1, SizeOfSome
  <2>3. Cardinality(WaitingFor(t) \cup {c}) = n + 1
    BY <1>5, <2>2, FS_AddElement
  <2>4. blocked[t] = n /\ blocked \in [WakeType -> Int]
    BY Sizes DEF BlockedInv, CountsRight, Inv, RestType
  <2> HIDE DEF n
  <2>5. (n + 1) % UINT = n + 1
    <3>1. \A m \in 0..(UINT - 1) : m % UINT = m
      BY Sizes
    <3>2. n + 1 \in 0..(UINT - 1)
      BY <2>2, <2>3, Sizes
    <3> QED  BY <3>1, <3>2
  <2>6. blocked'[t] = n + 1 /\ \A u \in WakeType \ {t} : blocked'[u] = blocked[u]
    BY <2>4, <2>5
  <2>7. blocked'[t] = Cardinality(WaitingFor(t)')
    BY <1>5, <2>3, <2>6
  <2>8. \A u \in WakeType \ {t} : blocked'[u] = Cardinality(WaitingFor(u)')
    BY <1>5, <2>6 DEF BlockedInv, CountsRight
  <2> QED  BY <2>7, <2>8 DEF CountsRight
<1>7. MscsWait'
  BY <1>5, WakeTypes DEF BlockedInv, MscsWait
<1>8. OneForSbc'
  BY <1>5, WakeTypes DEF BlockedInv, OneForSbc
<1>9. AllOrNone'
  <2>1. ignoreCount'[c] = 1
    BY <1>1, <1>2 DEF Inv, QueuesInv, QueueType
  <2>2. ~Settled'
    BY <1>1, <2>1 DEF Settled
  <2> QED  BY <2>2 DEF AllOrNone
<1>10. GoneSleepForFonts'
  <2>1. Sleep(c, t).client = c
    BY DEF Sleep
  <2> QED  BY <1>2, <2>1 DEF BlockedInv, GoneSleepForFonts
<1> QED  BY <1>6, <1>7, <1>8, <1>9, <1>10 DEF BlockedInv

LEMMA BlockedFontSleep ==
  ASSUME Inv, BlockedInv, NEW c \in Clients, NEW request, Serves(c, request),
         SetQueues(ClientSleep(Queues, c, "font")),
         UNCHANGED <<serving, gone, blocked, targetSbc, mscs>>
  PROVE  BlockedInv'
<1>1. pc = "dispatch" /\ serving = c /\ ignoreCount[c] = 0 /\ pc' = pc
  BY ServesSteps
<1>2. /\ workQueue' = workQueue
      /\ \A e : e \in Range(sleepQueue') <=> e \in Range(sleepQueue) \/ e = Sleep(c, "font")
  BY <1>1, SleepSteps DEF Inv
<1>3. \A t \in WakeType : SleepersFor(t)' = SleepersFor(t) /\ WaitingFor(t)' = WaitingFor(t)
  <2> TAKE t \in WakeType
  <2>1. \A x : Sleep(x, t) # Sleep(c, "font")
    BY WakeTypes DEF Sleep
  <2>2. SleepersFor(t)' = SleepersFor(t)
    BY <1>2, <2>1 DEF SleepersFor
  <2> QED  BY <1>2, <2>2 DEF WaitingFor
<1>4. Settled
  BY ServesSettled
<1>5. GoneSleepForFonts'
  <2>1. Sleep(c, "font").why = "font"
    BY DEF Sleep
  <2> QED  BY <1>2, <2>1 DEF BlockedInv, GoneSleepForFonts
<1> QED  BY <1>3, <1>4, <1>5, BlockedKept

(* The state of dri2.c before a wakeup.                                    *)
LEMMA Dri2IsCounted ==
  ASSUME Inv, BlockedInv
  PROVE  /\ Dri2 \in Dri2Record /\ Once(Dri2.q.sleep) /\ Counted(Dri2)
         /\ Dri2.q = Queues /\ Dri2.blocked = blocked
         /\ \A t : /\ Found(Dri2.q, None, t) = SleepersFor(t)
                   /\ Unsignalled(Dri2.q, t) = WaitingFor(t)
<1>1. /\ Dri2 \in Dri2Record /\ Dri2.q = Queues /\ Dri2.blocked = blocked
      /\ Once(Dri2.q.sleep)
  BY Dri2IsRecord, QueuesAreRecord DEF Inv, QueuesInv, OneQueue
<1>2. \A t : Found(Queues, None, t) = SleepersFor(t) /\ Unsignalled(Queues, t) = WaitingFor(t)
  BY SleepersAreFound DEF Inv, QueuesInv
<1> QED  BY <1>1, <1>2 DEF Counted, BlockedInv, CountsRight

(* ... and after it.                                                       *)
LEMMA CountedIs ==
  ASSUME NEW d, SetQueues(d.q), blocked' = d.blocked, Counted(d)
  PROVE  CountsRight'
BY SleepersWereFound DEF Counted, CountsRight

LEMMA ZeroIsNone ==
  ASSUME NEW d, Counted(d), NEW t \in WakeType
  PROVE  d.blocked[t] = 0 <=> Unsignalled(d.q, t) = {}
BY UnsignalledSize DEF Counted

LEMMA BlockedMSC ==
  ASSUME Inv, BlockedInv, NEW c \in Clients, WaitMSCComplete(c)
  PROVE  BlockedInv'
<1> DEFINE d == Dri2
           r == WakeAll(d, c, "MSC")
<1>1. /\ pc = "events" /\ c \in mscs /\ mscs' = mscs \ {c}
      /\ SetQueues(r.q) /\ blocked' = r.blocked
      /\ UNCHANGED <<pc, serving, gone, targetSbc>>
  BY DEF WaitMSCComplete, SetDri2
<1>2. /\ d \in Dri2Record /\ Once(d.q.sleep) /\ Counted(d)
      /\ \A t : /\ Found(d.q, None, t) = SleepersFor(t)
                /\ Unsignalled(d.q, t) = WaitingFor(t)
  BY Dri2IsCounted
<1>3. d.q.sleep = sleepQueue
  BY Dri2IsCounted, QueuesAreRecord DEF Inv, QueuesInv
<1> HIDE DEF d
<1>4. "MSC" \in WakeType /\ c \in Clients \cup {None} /\ c # None
  BY WakeTypes, Sizes
<1>5. Found(d.q, c, "MSC") = {c} /\ c \in WaitingFor("MSC")
  <2>1. c \in WaitingFor("MSC") /\ c \in SleepersFor("MSC")
    BY <1>1 DEF BlockedInv, MscsWait, WaitingFor
  <2>2. Found(d.q, c, "MSC") = {c} \cap Found(d.q, None, "MSC")
    BY <1>4, FoundOf
  <2> QED  BY <1>2, <2>1, <2>2
<1>6. Counted(r)
  <2>1. Found(d.q, c, "MSC") \subseteq Unsignalled(d.q, "MSC")
    BY <1>2, <1>5
  <2> QED  BY <1>2, <1>4, <2>1, WakeAllCounts
<1>7. /\ SignalsFound(d, c, "MSC", r) /\ WakesAll(d, c, "MSC", r)
  <2>1. d.blocked["MSC"] = 0 => Unsignalled(d.q, "MSC") = {}
    BY <1>2, <1>4, ZeroIsNone
  <2>2. SignalsFound(d, c, "MSC", r)
    BY <1>2, <1>4, <2>1, WakeAllUnsignalled
  <2>3. WakesAll(d, c, "MSC", r)
    BY <1>2, <1>4, WakeAllEffect
  <2> QED  BY <2>2, <2>3
<1> HIDE DEF r
<1>8. CountsRight'
  BY <1>1, <1>6, CountedIs
<1>9. \A t : WaitingFor(t)' = Unsignalled(r.q, t) /\ SleepersFor(t)' = Found(r.q, None, t)
  BY <1>1, SleepersWereFound
<1>10. /\ WaitingFor("MSC")' = WaitingFor("MSC") \ {c}
       /\ \A t \in {"SWAP", "SBC"} : WaitingFor(t)' = WaitingFor(t) /\ SleepersFor(t)' = SleepersFor(t)
  BY <1>2, <1>5, <1>7, <1>9, WakeTypes DEF SignalsFound
<1>11. MscsWait'
  BY <1>1, <1>10 DEF BlockedInv, MscsWait
<1>12. OneForSbc' /\ AllOrNone'
  <2>1. Settled
    BY <1>1 DEF Settled
  <2> QED  BY <1>1, <1>10, <2>1 DEF BlockedInv, OneForSbc, AllOrNone
<1>13. GoneSleepForFonts'
  <2>1. sleepQueue' = sleepQueue
    BY <1>1, <1>3, <1>7 DEF SetQueues, WakesAll
  <2> QED  BY <1>1, <2>1 DEF BlockedInv, GoneSleepForFonts
<1> QED  BY <1>8, <1>11, <1>12, <1>13 DEF BlockedInv

(* Only one client waits for a swap to complete: when the wakeup finds it, *)
(* nobody waits any more, and else nothing happens.                        *)
LEMMA SbcWokenCounted ==
  ASSUME Inv, BlockedInv, Settled, NEW c \in Clients \cup {None}
  PROVE  LET e == SbcWoken(c)
         IN  /\ Counted(e)
             /\ \A t : Found(e.q, None, t) = SleepersFor(t)
             /\ \A t \in WakeType \ {"SBC"} : Unsignalled(e.q, t) = WaitingFor(t)
             /\ Unsignalled(e.q, "SBC") \in {{}, WaitingFor("SBC")}
             /\ e.q # Queues => Unsignalled(e.q, "SBC") = {}
<1> DEFINE d == Dri2
           r == WakeAll(d, c, "SBC")
<1>1. /\ d \in Dri2Record /\ Once(d.q.sleep) /\ Counted(d) /\ d.q = Queues
      /\ \A t : /\ Found(d.q, None, t) = SleepersFor(t)
                /\ Unsignalled(d.q, t) = WaitingFor(t)
  BY Dri2IsCounted
<1>2. CASE ~(SwapTarget = 0 /\ c # None)
  BY <1>1, <1>2 DEF SbcWoken
<1>3. CASE SwapTarget = 0 /\ c # None
  <2>1. SbcWoken(c) = r
    BY <1>3 DEF SbcWoken
  <2> HIDE DEF d
  <2>2. "SBC" \in WakeType
    BY WakeTypes
  <2>3. d.blocked["SBC"] = 0 <=> WaitingFor("SBC") = {}
    BY <1>1, <2>2, ZeroIsNone
  <2>4. Found(d.q, c, "SBC") = {c} \cap SleepersFor("SBC")
    BY <1>1, <1>3, FoundOf
  <2>5. WaitingFor("SBC") \in {{}, SleepersFor("SBC")}
    BY DEF BlockedInv, AllOrNone
  <2>6. Counted(r)
    <3>1. Found(d.q, c, "SBC") \subseteq Unsignalled(d.q, "SBC") \/ d.blocked["SBC"] = 0
      BY <1>1, <2>3, <2>4, <2>5
    <3> QED  BY <1>1, <2>2, <3>1, WakeAllCounts
  <2>7. SignalsFound(d, c, "SBC", r)
    <3>1. d.blocked["SBC"] = 0 => Unsignalled(d.q, "SBC") = {}
      BY <1>1, <2>3
    <3> QED  BY <1>1, <2>2, <3>1, WakeAllUnsignalled
  <2>8. WakesAll(d, c, "SBC", r)
    BY <1>1, <2>2, WakeAllEffect
  <2> HIDE DEF r
  <2>9. /\ \A t : Found(r.q, None, t) = SleepersFor(t)
        /\ \A t \in WakeType \ {"SBC"} : Unsignalled(r.q, t) = WaitingFor(t)
        /\ Unsignalled(r.q, "SBC") = WaitingFor("SBC") \ ({c} \cap SleepersFor("SBC"))
    BY <1>1, <2>4, <2>7 DEF SignalsFound
  <2>10. Unsignalled(r.q, "SBC") \in {{}, WaitingFor("SBC")}
    BY <2>9 DEF BlockedInv, OneForSbc
  <2>11. ASSUME r.q # Queues PROVE Unsignalled(r.q, "SBC") = {}
    <3>1. d.blocked["SBC"] # 0 /\ Found(d.q, c, "SBC") # {}
      <4>1. r # d
        BY <1>1, <2>11
      <4> QED  BY <1>1, <2>8, <2>11, <4>1 DEF WakesAll
    <3>2. c \in WaitingFor("SBC")
      BY <2>3, <2>4, <2>5, <3>1
    <3> QED  BY <2>4, <2>9, <3>1, <3>2 DEF BlockedInv, OneForSbc
  <2> QED  BY <2>1, <2>6, <2>9, <2>10, <2>11
<1> QED  BY <1>2, <1>3

LEMMA BlockedSwapCompleted ==
  ASSUME Inv, BlockedInv, Settled, NEW c \in Clients \cup {None},
         SetQueues(SwapCompleted(c).d.q), blocked' = SwapCompleted(c).d.blocked,
         targetSbc' = SwapCompleted(c).target,
         UNCHANGED <<serving, gone, mscs>>
  PROVE  BlockedInv'
<1> DEFINE e == SbcWoken(c)
           r == WakeAll(e, None, "SWAP")
<1>1. /\ SwapCompleted(c).d = r
      /\ SwapCompleted(c).target = IF e.q # Queues THEN None ELSE SwapTarget
  BY SwapCompletedIs
<1>2. e \in Dri2Record /\ Once(e.q.sleep) /\ DriSignals(Queues, e.q)
  BY SbcWokenSignals DEF Inv
<1>3. /\ Counted(e)
      /\ \A t : Found(e.q, None, t) = SleepersFor(t)
      /\ \A t \in WakeType \ {"SBC"} : Unsignalled(e.q, t) = WaitingFor(t)
      /\ Unsignalled(e.q, "SBC") \in {{}, WaitingFor("SBC")}
      /\ e.q # Queues => Unsignalled(e.q, "SBC") = {}
  BY SbcWokenCounted
<1> HIDE DEF e
<1>4. "SWAP" \in WakeType \ {"SBC"} /\ None \in Clients \cup {None}
  BY WakeTypes
<1>5. e.blocked["SWAP"] = 0 <=> WaitingFor("SWAP") = {}
  BY <1>3, <1>4, ZeroIsNone
<1>6. WaitingFor("SWAP") \in {{}, SleepersFor("SWAP")}
  BY DEF BlockedInv, AllOrNone
<1>7. Counted(r)
  <2>1. Found(e.q, None, "SWAP") \subseteq Unsignalled(e.q, "SWAP") \/ e.blocked["SWAP"] = 0
    BY <1>3, <1>4, <1>5, <1>6
  <2> QED  BY <1>2, <1>3, <1>4, <2>1, WakeAllCounts
<1>8. SignalsFound(e, None, "SWAP", r)
  <2>1. e.blocked["SWAP"] = 0 => Unsignalled(e.q, "SWAP") = {}
    BY <1>3, <1>4, <1>5
  <2> QED  BY <1>2, <1>4, <2>1, WakeAllUnsignalled
<1>9. r.q.sleep = sleepQueue
  <2>1. WakesAll(e, None, "SWAP", r)
    BY <1>2, <1>4, WakeAllEffect
  <2> HIDE DEF r
  <2> QED  BY <1>2, <2>1, QueuesAreRecord DEF WakesAll, DriSignals, OnlySignals, Inv, QueuesInv
<1> HIDE DEF r
<1>10. SetQueues(r.q) /\ blocked' = r.blocked
  BY <1>1
<1>11. CountsRight'
  BY <1>7, <1>10, CountedIs
<1>12. \A t : WaitingFor(t)' = Unsignalled(r.q, t) /\ SleepersFor(t)' = Found(r.q, None, t)
  BY <1>10, SleepersWereFound
<1>13. /\ \A t : SleepersFor(t)' = SleepersFor(t)
       /\ WaitingFor("SWAP")' = {}
       /\ WaitingFor("MSC")' = WaitingFor("MSC")
       /\ WaitingFor("SBC")' \in {{}, WaitingFor("SBC")}
       /\ e.q # Queues => WaitingFor("SBC")' = {}
  <2>1. \A t : SleepersFor(t)' = SleepersFor(t)
    BY <1>3, <1>8, <1>12 DEF SignalsFound
  <2>2. WaitingFor("SWAP")' = {}
    BY <1>3, <1>4, <1>8, <1>12 DEF SignalsFound, WaitingFor
  <2>3. WaitingFor("MSC")' = Unsignalled(e.q, "MSC") /\ WaitingFor("SBC")' = Unsignalled(e.q, "SBC")
    BY <1>8, <1>12, WakeTypes DEF SignalsFound
  <2> QED  BY <1>3, <2>1, <2>2, <2>3, WakeTypes
<1>14. MscsWait'
  BY <1>13 DEF BlockedInv, MscsWait
<1>15. OneForSbc'
  <2>1. SwapTarget = None => targetSbc = None
    <3>1. targetSbc \in Int \cup {None}
      BY Sizes DEF Inv, RestType
    <3> QED  BY <3>1, Sizes DEF SwapTarget
  <2>2. targetSbc' = None => WaitingFor("SBC")' = {}
    BY <1>1, <1>13, <2>1 DEF BlockedInv, OneForSbc
  <2>3. \A x, y \in WaitingFor("SBC")' : x = y
    BY <1>13 DEF BlockedInv, OneForSbc
  <2> QED  BY <2>2, <2>3 DEF OneForSbc
<1>16. AllOrNone'
  BY <1>13 DEF BlockedInv, AllOrNone
<1>17. GoneSleepForFonts'
  <2>1. sleepQueue' = sleepQueue
    BY <1>9, <1>10 DEF SetQueues
  <2> QED  BY <2>1 DEF BlockedInv, GoneSleepForFonts
<1> QED  BY <1>11, <1>14, <1>15, <1>16, <1>17 DEF BlockedInv

(* Everybody is woken up when the drawable goes.                           *)
LEMMA DrawableGoneUnsignalled ==
  ASSUME Inv, BlockedInv
  PROVE  \A t \in WakeType : Unsignalled(SbcsGone.q, t) = {}
<1> DEFINE a == SwapsGone
           b == MscsGone
           g == SbcsGone
<1>1. Dri2 \in Dri2Record /\ Once(Dri2.q.sleep) /\ Counted(Dri2)
  BY Dri2IsCounted
<1>2. /\ a \in Dri2Record /\ Once(a.q.sleep) /\ b \in Dri2Record /\ Once(b.q.sleep)
  BY DrawableGoneSignals DEF Inv
<1>3. \A t \in WakeType : Dri2.blocked[t] = 0 => Unsignalled(Dri2.q, t) = {}
  BY <1>1, ZeroIsNone
<1>4. None \in Clients \cup {None}
  OBVIOUS
<1>5. SignalsFound(Dri2, None, "SWAP", a)
  BY <1>1, <1>3, <1>4, WakeTypes, WakeAllUnsignalled DEF SwapsGone
<1>6. SignalsFound(a, None, "MSC", b)
  <2>1. a.blocked["MSC"] = 0 => Unsignalled(a.q, "MSC") = {}
    BY <1>3, <1>5, WakeTypes DEF SignalsFound
  <2> QED  BY <1>2, <1>4, <2>1, WakeTypes, WakeAllUnsignalled DEF MscsGone
<1>7. SignalsFound(b, None, "SBC", g)
  <2>1. b.blocked["SBC"] = 0 => Unsignalled(b.q, "SBC") = {}
    BY <1>3, <1>5, <1>6, WakeTypes DEF SignalsFound
  <2> QED  BY <1>2, <1>4, <2>1, WakeTypes, WakeAllUnsignalled DEF SbcsGone
<1> HIDE DEF a, b, g
<1>8. /\ Unsignalled(a.q, "SWAP") = {}
      /\ Unsignalled(b.q, "MSC") = {}
      /\ Unsignalled(g.q, "SBC") = {}
  BY <1>5, <1>6, <1>7 DEF SignalsFound, Unsignalled
<1>9. Unsignalled(b.q, "SWAP") = {}
  BY <1>6, <1>8, WakeTypes DEF SignalsFound
<1>10. Unsignalled(g.q, "SWAP") = {} /\ Unsignalled(g.q, "MSC") = {}
  BY <1>7, <1>8, <1>9, WakeTypes DEF SignalsFound
<1> QED  BY <1>8, <1>10, WakeTypes DEF g

LEMMA BlockedDestroyDrawable ==
  ASSUME Inv, BlockedInv, NEW c \in Clients, DestroyDrawable(c)
  PROVE  BlockedInv'
<1> DEFINE q == SbcsGone.q
<1>1. /\ SetQueues(q) /\ blocked' = [t \in WakeType |-> 0] /\ mscs' = {}
      /\ UNCHANGED gone
  BY Zenon DEF DestroyDrawable, SbcsGone, MscsGone, SwapsGone
<1>2. \A t \in WakeType : Unsignalled(q, t) = {}
  BY DrawableGoneUnsignalled
<1>3. q.sleep = sleepQueue
  BY DrawableGoneSignals, QueuesAreRecord DEF DriSignals, OnlySignals, Inv, QueuesInv
<1> HIDE DEF q
<1>4. \A t \in WakeType : WaitingFor(t)' = {}
  BY <1>1, <1>2, SleepersWereFound
<1>5. CountsRight'
  BY <1>1, <1>4, FS_EmptySet DEF CountsRight
<1>6. MscsWait' /\ OneForSbc' /\ AllOrNone'
  BY <1>1, <1>4, WakeTypes DEF MscsWait, OneForSbc, AllOrNone
<1>7. GoneSleepForFonts'
  <2>1. sleepQueue' = sleepQueue
    BY <1>1, <1>3 DEF SetQueues
  <2> QED  BY <1>1, <2>1 DEF BlockedInv, GoneSleepForFonts
<1> QED  BY <1>5, <1>6, <1>7 DEF BlockedInv

LEMMA BlockedRequest ==
  ASSUME Inv, BlockedInv, ServedRequest, "dri2" \notin Deaths
  PROVE  BlockedInv'
<1>1. PICK c \in Clients :
        \/ \E revive \in 0..MaxTime : FakeInput(c, revive)
        \/ GetBuffers(c)
        \/ SwapBuffers(c)
        \/ WaitMSC(c)
        \/ \E n \in 1..SwapLimit : WaitSBC(c, n)
        \/ OpenFont(c)
        \/ DestroyDrawable(c)
        \/ \E k \in Clients : CloseDownClient(c, k)
  BY Zenon DEF ServedRequest
<1>2. ASSUME NEW request, Serves(c, request), Throttle(c) PROVE BlockedInv'
  <2>1. /\ SetQueues(ClientSleep(Queues, c, "SWAP"))
        /\ blocked' = [blocked EXCEPT !["SWAP"] = (@ + 1) % UINT]
        /\ UNCHANGED <<serving, gone, targetSbc, mscs>>
    BY <1>2, ThrottleSteps
  <2>2. "SWAP" \in WakeType /\ "SWAP" # "SBC"
    BY WakeTypes
  <2> QED  BY <1>2, <2>1, <2>2, BlockedSleep
<1>3. ASSUME NEW request, Serves(c, request), UNCHANGED <<sleepQueue, workQueue>>,
             UNCHANGED <<gone, blocked, targetSbc, mscs>>
      PROVE  BlockedInv'
  BY <1>3, ServesSettled, BlockedQueuesKept
<1>4. CASE \E revive \in 0..MaxTime : FakeInput(c, revive)
  <2>1. Serves(c, "FakeInput") /\ UNCHANGED <<sleepQueue, workQueue>>
        /\ UNCHANGED <<gone, blocked, targetSbc, mscs>>
    BY <1>4, Zenon DEF FakeInput, dri2Vars
  <2> QED  BY <1>3, <2>1
<1>5. CASE GetBuffers(c)
  BY <1>2, <1>5 DEF GetBuffers
<1>6. CASE SwapBuffers(c)
  <2>1. Serves(c, "SwapBuffers")
    BY <1>6 DEF SwapBuffers
  <2>2. \/ Throttle(c)
        \/ UNCHANGED <<sleepQueue, workQueue, blocked, targetSbc>> /\ UNCHANGED <<gone, mscs>>
        \/ /\ SetQueues(SwapCompleted(c).d.q) /\ blocked' = SwapCompleted(c).d.blocked
           /\ targetSbc' = SwapCompleted(c).target
           /\ UNCHANGED <<serving, gone, mscs>>
    BY <1>6, Zenon DEF SwapBuffers, SetDri2
  <2>3. CASE UNCHANGED <<sleepQueue, workQueue, blocked, targetSbc>> /\ UNCHANGED <<gone, mscs>>
    BY <1>3, <2>1, <2>3
  <2>4. CASE /\ SetQueues(SwapCompleted(c).d.q) /\ blocked' = SwapCompleted(c).d.blocked
             /\ targetSbc' = SwapCompleted(c).target
             /\ UNCHANGED <<serving, gone, mscs>>
    BY <2>1, <2>4, ServesSettled, BlockedSwapCompleted
  <2> QED  BY <1>2, <2>1, <2>2, <2>3, <2>4
<1>7. CASE WaitMSC(c)
  <2>1. /\ Serves(c, "WaitMSC") /\ SetQueues(ClientSleep(Queues, c, "MSC"))
        /\ blocked' = [blocked EXCEPT !["MSC"] = (@ + 1) % UINT]
        /\ UNCHANGED <<serving, gone, targetSbc>> /\ mscs' = mscs \cup {c}
    BY <1>7, SetDri2Sleep DEF WaitMSC
  <2>2. "MSC" \in WakeType /\ "MSC" # "SBC"
    BY WakeTypes
  <2> QED  BY <2>1, <2>2, BlockedSleep
<1>8. CASE \E n \in 1..SwapLimit : WaitSBC(c, n)
  <2>1. PICK n \in 1..SwapLimit : WaitSBC(c, n)
    BY <1>8
  <2>2. /\ Serves(c, "WaitSBC") /\ SetQueues(ClientSleep(Queues, c, "SBC"))
        /\ blocked' = [blocked EXCEPT !["SBC"] = (@ + 1) % UINT]
        /\ UNCHANGED <<serving, gone, mscs>> /\ targetSbc = None /\ targetSbc' = n
    BY <2>1, SetDri2Sleep DEF WaitSBC
  <2>3. "SBC" \in WakeType /\ n # None
    BY WakeTypes, Sizes
  <2> QED  BY <2>2, <2>3, BlockedSleep
<1>9. CASE OpenFont(c)
  <2>1. /\ Serves(c, "OpenFont") /\ pc = "dispatch" /\ serving = c /\ ignoreCount[c] = 0
        /\ UNCHANGED <<serving, gone, blocked, targetSbc, mscs>>
    BY <1>9, ServesSteps DEF OpenFont, dri2Vars
  <2>2. CASE SetQueues(ClientSleep(Queues, c, "font"))
    BY <2>1, <2>2, BlockedFontSleep
  <2>3. CASE SetQueues(ClientWakeup(Queues, c))
    <3>1. UNCHANGED <<sleepQueue, workQueue>>
      BY <2>1, <2>3, OpenFontIsOpen DEF Inv
    <3> QED  BY <1>3, <2>1, <3>1
  <2> QED  BY <1>9, <2>2, <2>3 DEF OpenFont
<1>10. CASE DestroyDrawable(c)
  BY <1>10, BlockedDestroyDrawable
<1>11. CASE \E k \in Clients : CloseDownClient(c, k)
  BY <1>11, BlockedCloseDownClient
<1> QED  BY <1>1, <1>4, <1>5, <1>6, <1>7, <1>8, <1>9, <1>10, <1>11

LEMMA BlockedStep ==
  ASSUME Inv, BlockedInv, [Next]_vars, "dri2" \notin Deaths
  PROVE  BlockedInv'
<1>1. CASE SwapComplete
  <2>1. /\ pc = "events" /\ swaps[1] \in Clients \cup {None}
        /\ SetQueues(SwapCompleted(swaps[1]).d.q)
        /\ blocked' = SwapCompleted(swaps[1]).d.blocked
        /\ targetSbc' = SwapCompleted(swaps[1]).target
        /\ UNCHANGED <<serving, gone, mscs>>
    BY <1>1, SwapCompleteSteps DEF Inv, QueuesInv
  <2>2. Settled
    BY <2>1 DEF Settled
  <2> QED  BY <2>1, <2>2, BlockedSwapCompleted
<1>2. ASSUME NEW c \in Clients, Connect(c) PROVE BlockedInv'
  <2>1. /\ UNCHANGED <<sleepQueue, workQueue, blocked, targetSbc>> /\ mscs' = mscs
        /\ gone' \subseteq gone /\ pc = "events"
    BY <1>2, Zenon DEF Connect, dri2Vars
  <2>2. Settled
    BY <2>1 DEF Settled
  <2> QED  BY <2>1, <2>2, BlockedQueuesKept
<1>3. CASE WorkDone \/ BlockHandler \/ WakeupHandler \/ EventsDone \/ SliceEnds
  <2>1. /\ UNCHANGED <<sleepQueue, workQueue, blocked, targetSbc>> /\ mscs' = mscs /\ gone' = gone
        /\ pc \in {"block", "poll", "events"} \/ workQueue = <<>> \/ pc' = "work"
    BY <1>3, Zenon DEF WorkDone, BlockHandler, WakeupHandler, EventsDone, SliceEnds, queueVars,
                       dri2Vars
  <2>2. ~Settled' \/ Settled \/ workQueue = <<>>
    BY <2>1 DEF Settled
  <2> QED  BY <2>1, <2>2, BlockedQueuesKept
<1>4. CASE ZombiesDone
  <2>1. /\ UNCHANGED <<sleepQueue, workQueue, blocked, targetSbc, gone, ignoreCount>>
        /\ pc = "zombies" /\ pc' = "dispatch" /\ serving' \in {None, serving}
        /\ mscs' \subseteq mscs
    BY <1>4 DEF ZombiesDone, queueVars
  <2>2. Settled' => Settled
    BY <2>1, Sizes DEF Settled
  <2> QED  BY <2>1, <2>2, BlockedQueuesKept
<1>5. CASE Tick \/ UNCHANGED vars
  <2>1. /\ UNCHANGED <<sleepQueue, workQueue, blocked, targetSbc, mscs>>
        /\ UNCHANGED <<gone, pc, serving, ignoreCount>>
    BY <1>5 DEF Tick, vars, queueVars, dri2Vars
  <2>2. Settled' => Settled
    BY <2>1 DEF Settled
  <2> QED  BY <2>1, <2>2, BlockedQueuesKept
<1> QED  BY <1>1, <1>2, <1>3, <1>4, <1>5, Steps, BlockedWorkWakes, BlockedWorkSuspends, BlockedMSC,
            BlockedFontAnswer, BlockedRequest, BlockedCallZombie

(* All counts of sleepers agree with the queues: a client is neither left  *)
(* ignored nor attended to twice, and as long as somebody waits for a      *)
(* wakeup of dri2.c its count is not 0, so dri2WakeAll looks for him.  It  *)
(* takes that no client is closed down while it sleeps there: nobody takes *)
(* the count down for it.                                                  *)
THEOREM SleepersAreAccounted ==
  ASSUME "dri2" \notin Deaths
  PROVE  Spec => []SleepersAccounted
<1>1. Init => BlockedInv
  <2> SUFFICES ASSUME Init PROVE BlockedInv
    OBVIOUS
  <2>1. /\ sleepQueue = <<>> /\ blocked = [t \in WakeType |-> 0] /\ mscs = {}
    BY DEF Init
  <2>2. \A t : SleepersFor(t) = {} /\ WaitingFor(t) = {}
    BY <2>1, EmptyQueues DEF SleepersFor, WaitingFor
  <2>3. CountsRight
    BY <2>1, <2>2, FS_EmptySet DEF CountsRight
  <2>4. MscsWait /\ OneForSbc /\ AllOrNone /\ GoneSleepForFonts
    BY <2>1, <2>2, EmptyQueues DEF MscsWait, OneForSbc, AllOrNone, GoneSleepForFonts
  <2> QED  BY <2>3, <2>4 DEF BlockedInv
<1>2. Inv /\ BlockedInv /\ [Next]_vars => BlockedInv'
  BY BlockedStep
<1>3. Inv /\ BlockedInv => SleepersCounted
  <2> SUFFICES ASSUME Inv, BlockedInv, NEW s \in Range(sleepQueue),
                      s.why \in WakeType, s \notin Range(workQueue)
               PROVE  blocked[s.why] # 0
    BY DEF SleepersCounted
  <2>1. s \in SleepEntry
    BY DEF Inv, QueuesInv, QueueType, Range
  <2>2. s = Sleep(s.client, s.why) /\ s.client \in Clients
    BY <2>1, EntryIs
  <2>3. s.client \in WaitingFor(s.why)
    BY <2>2 DEF WaitingFor, SleepersFor
  <2>4. WaitingFor(s.why) \in SUBSET Clients
    BY DEF WaitingFor, SleepersFor
  <2>5. Cardinality(WaitingFor(s.why)) # 0
    BY <2>3, <2>4, SizeOfSome
  <2> QED  BY <2>5 DEF BlockedInv, CountsRight
<1>4. Spec => [](Inv /\ BlockedInv)
  BY <1>1, <1>2, InvHolds, PTL DEF Spec
<1>5. Spec => []SleepersCounted
  BY <1>3, <1>4, PTL
<1>6. TypeOK /\ IgnoredAsOftenAsAsleep /\ SleepersCounted <=> SleepersAccounted
  BY DEF SleepersAccounted
<1> QED  BY <1>5, <1>6, IgnoredAsAsleep, PTL
=============================================================================
