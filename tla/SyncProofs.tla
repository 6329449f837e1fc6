----------------------------- MODULE SyncProofs -----------------------------
(***************************************************************************)
(* Theorems about Sync and SyncTime, for any number of clients, counters,  *)
(* fences, alarms and watchers, any requests and any width of the values.  *)
(*                                                                         *)
(* Sync: three things depend on each other.  The lists have the triggers   *)
(* of what waits (ListsInv); the walk through the list of a counter has    *)
(* all that is due, and that still holds, in front of it (WalkInv); and so *)
(* whatever holds is in front of the walk that is under way, or does not   *)
(* wait (QuietInv).                                                        *)
(*                                                                         *)
(* SyncTime: the brackets of the system counters announce what is waited   *)
(* for (AnnouncedInv).                                                     *)
(***************************************************************************)
EXTENDS Sync, SyncTime, SetLemmas, SequenceTheorems

(* What a list has to be for the triggers that look at its object: it has  *)
(* each of them once, and else only Null.                                  *)
ListOf(list, watching) ==
  /\ list \in Seq(Triggers)
  /\ \A i, j \in DOMAIN list : list[i] = list[j] /\ list[i] # Null => i = j
  /\ Range(list) \ {Null} = watching

ListsInv ==
  /\ \A o \in Objects : ListOf(triglist[o], Watching(o))
  /\ \A o \in Objects : ~Exists(o) => triglist[o] = << >>
  /\ \A o \in Objects : Null \in Range(triglist[o]) =>
                          walk.op = "destroy" /\ walk.obj = o

(* A walk goes through the list of an object that exists, and a fence is   *)
(* triggered before its walk begins.                                       *)
WalkObject ==
  /\ walk.op # "none" => Exists(walk.obj)
  /\ walk.op = "fence" => fence[walk.obj] = TRUE

(* A walk that has come to cur gets to t.                                  *)
Ahead(cur, t, list) ==
  \E i, j \in DOMAIN list : i <= j /\ list[i] = cur /\ list[j] = t

(* What is due still holds, and comes no earlier in the list than the node *)
(* that is looked at next.                                                 *)
DueAhead ==
  walk.op = "change" =>
    LET list == triglist[walk.obj]
    IN  /\ walk.cur # Null => walk.cur \in Range(list)
        /\ \A t \in walk.due :
             /\ t # Null
             /\ IsTrue(t, walk.obj, walk.oldval, counter[walk.obj])
             /\ walk.cur # Null
             /\ Ahead(walk.cur, t, list)

WalkInv == WalkObject /\ DueAhead

(* A trigger that has something to do: a comparison that is true, or a     *)
(* fence that is triggered.                                                *)
Pressing(t, o) ==
  /\ t # Null
  /\ Active(t)
  /\ o \in Counters =>
       (IF t.who \in Alarms THEN alarm[t.who].check
        ELSE await[t.who][t.nr].testType) \in ComparisonTypes
  /\ IF o \in Counters THEN IsTrue(t, o, counter[o], counter[o])
     ELSE IsTrue(t, o, 0, fence[o])

(* It is in front of the walk that is under way.                           *)
QuietInv ==
  \A o \in Objects : \A t \in Watching(o) :
    Pressing(t, o) => /\ walk.op \in {"change", "fence"} /\ walk.obj = o
                      /\ walk.op = "change" => t \in walk.due

SyncInv == TypeOK /\ ListsInv /\ WalkInv /\ QuietInv
             /\ AlarmsAdvance /\ IgnoredWhileWaiting

---------------------------------------------------------------------------
(* What is done to lists.                                                  *)

LEMMA RangeIn ==
  ASSUME NEW list \in Seq(Triggers), NEW t
  PROVE  t \in Range(list) <=> \E i \in DOMAIN list : list[i] = t
BY DEF Range

(* The triggers of who are deleted.                                        *)
LEMMA KeepListOf ==
  ASSUME NEW list, NEW watching, NEW who, ListOf(list, watching)
  PROVE  LET kept == Keep(list, Others(list, who))
         IN  /\ ListOf(kept, {t \in watching : t.who # who})
             /\ Null \in Range(kept) => Null \in Range(list)
             /\ \A cur, t : cur.who # who /\ t.who # who /\ Ahead(cur, t, list) =>
                            Ahead(cur, t, kept)
<1> DEFINE K == Others(list, who)
           kept == Keep(list, K)
           n == Cardinality(K)
<1>1. list \in Seq(Triggers) /\ K \in SUBSET (DOMAIN list)
  BY DEF ListOf, Others
<1>2. /\ kept \in Seq(Triggers) /\ n \in Nat /\ DOMAIN kept = 1..n
      /\ \A j \in 1..n : Nth(K, j) \in K /\ kept[j] = list[Nth(K, j)]
      /\ \A i \in K : /\ Rank(K, i) \in 1..n /\ Nth(K, Rank(K, i)) = i
                      /\ kept[Rank(K, i)] = list[i]
      /\ \A j, l \in 1..n : j < l => Nth(K, j) < Nth(K, l)
  <2> HIDE DEF K
  <2> QED  BY <1>1, KeepProperties
<1>3. \A i \in DOMAIN list : i \in K <=> list[i].who # who
  BY DEF Others
<1>4. \A i, j \in DOMAIN list : list[i] = list[j] /\ list[i] # Null => i = j
  BY DEF ListOf
<1> HIDE DEF K, kept, n
<1>5. \A h, l \in DOMAIN kept : kept[h] = kept[l] /\ kept[h] # Null => h = l
  <2> TAKE h, l \in DOMAIN kept
  <2> HAVE kept[h] = kept[l] /\ kept[h] # Null
  <2>1. Nth(K, h) \in DOMAIN list /\ Nth(K, l) \in DOMAIN list
        /\ list[Nth(K, h)] = list[Nth(K, l)] /\ list[Nth(K, h)] # Null
    BY <1>1, <1>2
  <2>2. Nth(K, h) = Nth(K, l)
    BY <1>4, <2>1
  <2>3. h \in Nat /\ l \in Nat /\ Nth(K, h) \in Nat
    BY <1>1, <1>2, <2>1
  <2>4. ~(h < l) /\ ~(l < h)
    BY <1>2, <2>2, <2>3
  <2> QED  BY <2>3, <2>4
<1>6. \A t : t \in Range(kept) <=> t \in Range(list) /\ t.who # who
  <2> TAKE t
  <2>1. ASSUME t \in Range(kept) PROVE t \in Range(list) /\ t.who # who
    <3>1. PICK h \in DOMAIN kept : kept[h] = t
      BY <2>1 DEF Range
    <3>2. Nth(K, h) \in K /\ Nth(K, h) \in DOMAIN list /\ list[Nth(K, h)] = t
      BY <1>1, <1>2, <3>1
    <3> QED  BY <1>3, <3>2 DEF Range
  <2>2. ASSUME t \in Range(list), t.who # who PROVE t \in Range(kept)
    <3>1. PICK i \in DOMAIN list : list[i] = t
      BY <2>2 DEF Range
    <3>2. i \in K
      BY <1>3, <2>2, <3>1
    <3>3. Rank(K, i) \in DOMAIN kept /\ kept[Rank(K, i)] = t
      BY <1>2, <3>1, <3>2
    <3> QED  BY <3>3 DEF Range
  <2> QED  BY <2>1, <2>2
<1>7. Range(list) \ {Null} = watching
  BY DEF ListOf
<1>8. Range(kept) \ {Null} = {t \in watching : t.who # who}
  BY <1>6, <1>7
<1>9. ListOf(kept, {t \in watching : t.who # who})
  BY <1>2, <1>5, <1>8 DEF ListOf
<1>10. ASSUME NEW i \in DOMAIN list, NEW j \in DOMAIN list, i <= j,
              list[i].who # who, list[j].who # who
       PROVE  \E h, l \in DOMAIN kept : h <= l /\ kept[h] = list[i] /\ kept[l] = list[j]
  <2>1. i \in K /\ j \in K
    BY <1>3, <1>10
  <2>2. /\ Rank(K, i) \in DOMAIN kept /\ kept[Rank(K, i)] = list[i]
        /\ Rank(K, j) \in DOMAIN kept /\ kept[Rank(K, j)] = list[j]
        /\ Nth(K, Rank(K, i)) = i /\ Nth(K, Rank(K, j)) = j
    BY <1>2, <2>1
  <2>3. Rank(K, i) <= Rank(K, j)
    <3>1. i \in Nat /\ j \in Nat /\ Rank(K, i) \in Nat /\ Rank(K, j) \in Nat
      BY <1>1, <1>2, <2>2
    <3>2. ~(Rank(K, j) < Rank(K, i))
      BY <1>2, <1>10, <2>2, <3>1
    <3> QED  BY <3>1, <3>2
  <2> QED  BY <2>2, <2>3
<1>11. \A cur, t : cur.who # who /\ t.who # who /\ Ahead(cur, t, list) =>
                    Ahead(cur, t, kept)
  BY <1>10 DEF Ahead
<1> QED  BY <1>6, <1>9, <1>11 DEF kept, K

(* The triggers of who become Null.                                        *)
Nulled(list, who) == [i \in DOMAIN list |-> IF list[i].who = who THEN Null ELSE list[i]]

LEMMA NulledListOf ==
  ASSUME NEW list, NEW watching, NEW who, ListOf(list, watching)
  PROVE  ListOf(Nulled(list, who), {t \in watching : t.who # who})
<1> DEFINE nulled == [i \in DOMAIN list |-> IF list[i].who = who THEN Null ELSE list[i]]
<1>1. list \in Seq(Triggers) /\ Null \in Triggers
  BY DEF ListOf, Null, Trigger, Triggers
<1>2. nulled \in Seq(Triggers) /\ DOMAIN nulled = DOMAIN list
  BY <1>1
<1>3. \A i, j \in DOMAIN nulled : nulled[i] = nulled[j] /\ nulled[i] # Null => i = j
  BY DEF ListOf
<1>4. \A t : t \in Range(nulled) \ {Null} <=> t \in Range(list) \ {Null} /\ t.who # who
  BY DEF Range
<1>5. Range(list) \ {Null} = watching
  BY DEF ListOf
<1> HIDE DEF nulled
<1>6. Range(nulled) \ {Null} = {t \in watching : t.who # who}
  BY <1>4, <1>5
<1> QED  BY <1>2, <1>3, <1>6 DEF ListOf, nulled, Nulled

(* The first node is taken off the list.                                   *)
LEMMA TailListOf ==
  ASSUME NEW list, NEW watching, ListOf(list, watching), list # << >>
  PROVE  /\ ListOf(Tail(list), watching \ {Head(list)})
         /\ Null \in Range(Tail(list)) => Null \in Range(list)
<1> DEFINE rest == Tail(list)
<1>1. list \in Seq(Triggers) /\ Len(list) \in Nat \ {0} /\ DOMAIN list = 1..Len(list)
  BY DEF ListOf
<1>2. /\ rest \in Seq(Triggers) /\ DOMAIN rest = 1..(Len(list) - 1)
      /\ \A i \in DOMAIN rest : rest[i] = list[i + 1]
      /\ Head(list) = list[1]
  BY <1>1
<1>3. \A i, j \in DOMAIN list : list[i] = list[j] /\ list[i] # Null => i = j
  BY DEF ListOf
<1> HIDE DEF rest
<1>4. \A i, j \in DOMAIN rest : rest[i] = rest[j] /\ rest[i] # Null => i = j
  <2> TAKE i, j \in DOMAIN rest
  <2> HAVE rest[i] = rest[j] /\ rest[i] # Null
  <2>1. i + 1 \in DOMAIN list /\ j + 1 \in DOMAIN list
    BY <1>1, <1>2
  <2>2. i + 1 = j + 1
    BY <1>2, <1>3, <2>1
  <2> QED  BY <1>1, <1>2, <2>2
<1>5. \A t : t \in Range(rest) => t \in Range(list)
  <2> TAKE t
  <2> HAVE t \in Range(rest)
  <2>1. PICK i \in DOMAIN rest : rest[i] = t
    BY DEF Range
  <2>2. i + 1 \in DOMAIN list /\ list[i + 1] = t
    BY <1>1, <1>2, <2>1
  <2> QED  BY <2>2 DEF Range
<1>6. Head(list) \notin Range(rest) \ {Null}
  <2> SUFFICES ASSUME Head(list) \in Range(rest), Head(list) # Null PROVE FALSE
    OBVIOUS
  <2>1. PICK i \in DOMAIN rest : rest[i] = Head(list)
    BY DEF Range
  <2>2. i + 1 \in DOMAIN list /\ 1 \in DOMAIN list /\ list[i + 1] = list[1] /\ i + 1 # 1
    BY <1>1, <1>2, <2>1
  <2> QED  BY <1>2, <1>3, <2>2
<1>7. \A t : t \in Range(list) => t = Head(list) \/ t \in Range(rest)
  <2> TAKE t
  <2> HAVE t \in Range(list)
  <2>1. PICK i \in DOMAIN list : list[i] = t
    BY DEF Range
  <2>2. CASE i = 1
    BY <1>2, <2>1, <2>2
  <2>3. CASE i # 1
    <3>1. i - 1 \in DOMAIN rest /\ rest[i - 1] = t
      BY <1>1, <1>2, <2>1, <2>3
    <3> QED  BY <3>1 DEF Range
  <2> QED  BY <2>2, <2>3
<1>8. Range(list) \ {Null} = watching
  BY DEF ListOf
<1>9. Range(rest) \ {Null} = watching \ {Head(list)}
  BY <1>5, <1>6, <1>7, <1>8
<1> QED  BY <1>2, <1>4, <1>5, <1>9 DEF ListOf, rest

(* New triggers are put before the others.                                 *)
LEMMA PutListOf ==
  ASSUME NEW list, NEW watching, ListOf(list, watching), NEW new \in Seq(Triggers),
         \A i, j \in DOMAIN new : new[i] = new[j] => i = j,
         Null \notin Range(new), Range(new) \cap watching = {}
  PROVE  /\ ListOf(new \o list, watching \cup Range(new))
         /\ Null \in Range(new \o list) => Null \in Range(list)
<1> DEFINE all == new \o list
           n == Len(new)
<1>1. /\ list \in Seq(Triggers) /\ n \in Nat /\ DOMAIN new = 1..n
      /\ Len(list) \in Nat /\ DOMAIN list = 1..Len(list)
  BY DEF ListOf
<1>2. /\ all \in Seq(Triggers) /\ DOMAIN all = 1..(n + Len(list))
      /\ \A i \in 1..n : all[i] = new[i]
      /\ \A i \in DOMAIN all : i > n => i - n \in DOMAIN list /\ all[i] = list[i - n]
      /\ \A i \in DOMAIN list : i + n \in DOMAIN all /\ all[i + n] = list[i]
  BY <1>1
<1>3. \A i, j \in DOMAIN list : list[i] = list[j] /\ list[i] # Null => i = j
  BY DEF ListOf
<1>4. Range(list) \ {Null} = watching
  BY DEF ListOf
<1> HIDE DEF all, n
<1>5. \A t : t \in Range(all) <=> t \in Range(new) \/ t \in Range(list)
  <2> TAKE t
  <2>1. ASSUME t \in Range(all) PROVE t \in Range(new) \/ t \in Range(list)
    <3>1. PICK i \in DOMAIN all : all[i] = t
      BY <2>1 DEF Range
    <3>2. CASE i <= n
      <4>1. i \in DOMAIN new /\ new[i] = t
        BY <1>1, <1>2, <3>1, <3>2
      <4> QED  BY <4>1 DEF Range
    <3>3. CASE i > n
      <4>1. i - n \in DOMAIN list /\ list[i - n] = t
        BY <1>2, <3>1, <3>3
      <4> QED  BY <4>1 DEF Range
    <3>4. i <= n \/ i > n
      BY <1>1, <1>2
    <3> QED  BY <3>2, <3>3, <3>4
  <2>2. ASSUME t \in Range(new) PROVE t \in Range(all)
    <3>1. PICK i \in DOMAIN new : new[i] = t
      BY <2>2 DEF Range
    <3>2. i \in DOMAIN all /\ all[i] = t
      BY <1>1, <1>2, <3>1
    <3> QED  BY <3>2 DEF Range
  <2>3. ASSUME t \in Range(list) PROVE t \in Range(all)
    <3>1. PICK i \in DOMAIN list : list[i] = t
      BY <2>3 DEF Range
    <3>2. i + n \in DOMAIN all /\ all[i + n] = t
      BY <1>2, <3>1
    <3> QED  BY <3>2 DEF Range
  <2> QED  BY <2>1, <2>2, <2>3
<1>6. Range(all) \ {Null} = watching \cup Range(new)
  BY <1>4, <1>5
<1>7. \A i, j \in DOMAIN all : all[i] = all[j] /\ all[i] # Null => i = j
  <2> TAKE i, j \in DOMAIN all
  <2> HAVE all[i] = all[j] /\ all[i] # Null
  <2>1. i \in Nat /\ j \in Nat
    BY <1>1, <1>2
  <2>2. \A h \in DOMAIN all : h <= n => all[h] \in Range(new)
    BY <1>1, <1>2 DEF Range
  <2>3. \A h \in DOMAIN all : h > n => all[h] \in Range(list)
    BY <1>2 DEF Range
  <2>4. CASE i <= n /\ j <= n
    BY <1>1, <1>2, <2>4
  <2>5. CASE i > n /\ j > n
    <3>1. i - n = j - n
      BY <1>2, <1>3, <2>5
    <3> QED  BY <1>1, <2>1, <3>1
  <2>6. CASE i <= n /\ j > n
    BY <1>4, <2>2, <2>3, <2>6
  <2>7. CASE i > n /\ j <= n
    BY <1>4, <2>2, <2>3, <2>7
  <2> QED  BY <1>1, <2>1, <2>4, <2>5, <2>6, <2>7
<1> QED  BY <1>2, <1>5, <1>6, <1>7 DEF ListOf, all

---------------------------------------------------------------------------
(* Alarms.                                                                 *)

(* A comparison does not look at the value before the change.              *)
LEMMA ComparisonIgnoresOld ==
  ASSUME NEW type \in ComparisonTypes, NEW test, NEW old1, NEW old2, NEW val
  PROVE  CheckTrigger(type, test, old1, val) = CheckTrigger(type, test, old2, val)
BY DEF CheckTrigger, ComparisonTypes

LEMMA ValueBounds ==
  /\ Limit \in Nat /\ Limit >= 1 /\ 0 \in Value /\ 1 \in Value
  /\ \A v : v \in Value <=> v \in Int /\ -Limit <= v /\ v < Limit
BY LimitAssumption DEF Value, MinValue, MaxValue

(* The loop of SyncAlarmTriggerFired ends: with a delta that is not 0 the  *)
(* sum overflows at some time, and a transition does not hold of a value   *)
(* that stays.                                                             *)
LEMMA StepsExist ==
  ASSUME NEW check \in TestType, NEW test \in Value, NEW delta \in Value,
         NEW val \in Value, delta # 0 \/ check \notin ComparisonTypes
  PROVE  Steps(check, test, delta, val) # {}
<1>1. /\ test \in Int /\ delta \in Int /\ val \in Int
      /\ -Limit <= test /\ test < Limit
      /\ Limit \in Nat /\ Limit >= 1
  BY ValueBounds
<1>2. 1 \in 1..(2 * Limit) /\ 2 * Limit \in 1..(2 * Limit)
  BY <1>1
<1>3. CASE delta # 0
  <2> DEFINE far == test + (2 * Limit) * delta
  <2>1. CASE delta >= 1
    <3>1. (2 * Limit) * delta >= 2 * Limit
      BY <1>1, <2>1
    <3>2. far \notin Value
      BY <1>1, <3>1, ValueBounds
    <3> QED  BY <1>2, <3>2 DEF Steps, Overflows
  <2>2. CASE delta <= -1
    <3>1. (2 * Limit) * delta <= -(2 * Limit)
      BY <1>1, <2>2
    <3>2. far \notin Value
      BY <1>1, <3>1, ValueBounds
    <3> QED  BY <1>2, <3>2 DEF Steps, Overflows
  <2> QED  BY <1>1, <1>3, <2>1, <2>2
<1>4. CASE delta = 0 /\ check \notin ComparisonTypes
  <2>1. test + 1 * delta = test
    BY <1>1, <1>4
  <2>2. ~CheckTrigger(check, test, val, val)
    BY <1>1, <1>4 DEF CheckTrigger, TestType, PositiveTypes, NegativeTypes, ComparisonTypes
  <2> QED  BY <1>2, <2>1, <2>2 DEF Steps
<1> QED  BY <1>3, <1>4

LEMMA MovedOnProperties ==
  ASSUME NEW check \in TestType, NEW test \in Value, NEW delta \in Value,
         NEW val \in Value, delta # 0 \/ check \notin ComparisonTypes
  PROVE  LET next == MovedOn(check, test, delta, val)
         IN  Overflows(next) \/ (next \in Value /\ ~CheckTrigger(check, next, val, val))
<1> DEFINE S == Steps(check, test, delta, val)
<1>1. S # {} /\ S \in SUBSET Nat
  BY StepsExist, ValueBounds DEF Steps
<1>2. Min(S) \in S
  <2> HIDE DEF S
  <2> QED  BY <1>1, MinProperties
<1> QED  BY <1>2 DEF Steps, MovedOn, Overflows

(* An alarm that is consistent.                                            *)
Consistent(al) == al.check = al.type /\ DeltaMatches(al.check, al.delta)

(* It would go off.                                                        *)
GoesOff(al, val) ==
  /\ al.state = "Active"
  /\ al.check \in ComparisonTypes
  /\ CheckTrigger(al.check, al.value, val, val)

LEMMA AlarmAfterProperties ==
  ASSUME NEW al \in AlarmRecord, Consistent(al), NEW val \in Value
  PROVE  LET new == AlarmAfter(al, val)
         IN  /\ new \in AlarmRecord
             /\ new.sync = al.sync
             /\ Consistent(new)
             /\ ~GoesOff(new, val)
<1> DEFINE next == MovedOn(al.check, al.value, al.delta, val)
           off == [al EXCEPT !.state = "Inactive"]
           moved == [al EXCEPT !.value = next]
<1>1. /\ al.check \in TestType /\ al.value \in Value /\ al.delta \in Value
      /\ al.state \in {"Active", "Inactive"} /\ al.check = al.type
  BY DEF AlarmRecord, Consistent
<1>2. CASE al.state # "Active"
  BY <1>2 DEF AlarmAfter, GoesOff
<1>3. off \in AlarmRecord /\ off.sync = al.sync /\ Consistent(off) /\ ~GoesOff(off, val)
  BY DEF AlarmRecord, Consistent, GoesOff
<1>4. CASE al.state = "Active" /\ ((al.delta = 0 /\ al.type \in ComparisonTypes) \/ Overflows(next))
  BY <1>3, <1>4 DEF AlarmAfter
<1>5. CASE al.state = "Active" /\ ~((al.delta = 0 /\ al.type \in ComparisonTypes) \/ Overflows(next))
  <2>1. next \in Value /\ ~CheckTrigger(al.check, next, val, val)
    <3>1. al.delta # 0 \/ al.check \notin ComparisonTypes
      BY <1>1, <1>5
    <3>2. Overflows(next) \/ (next \in Value /\ ~CheckTrigger(al.check, next, val, val))
      BY <1>1, <3>1, MovedOnProperties
    <3> QED  BY <1>5, <3>2
  <2> HIDE DEF next
  <2>2. moved \in AlarmRecord /\ moved.sync = al.sync /\ Consistent(moved)
    BY <2>1 DEF AlarmRecord, Consistent
  <2>3. moved.check = al.check /\ moved.value = next
    BY DEF AlarmRecord
  <2>4. ~GoesOff(moved, val)
    BY <2>1, <2>3 DEF GoesOff
  <2>5. AlarmAfter(al, val) = moved
    BY <1>5 DEF AlarmAfter, next
  <2> QED  BY <2>2, <2>4, <2>5
<1> QED  BY <1>2, <1>4, <1>5

LEMMA AlarmFiredProperties ==
  ASSUME NEW al \in AlarmRecord, Consistent(al),
         al.sync # None => counter[al.sync] \in Value
  PROVE  LET new == AlarmFired(al)
         IN  /\ new \in AlarmRecord
             /\ new.sync = al.sync
             /\ Consistent(new)
             /\ al.sync # None => ~GoesOff(new, counter[al.sync])
             /\ al.sync = None => new.state = "Inactive"
<1>1. CASE al.sync # None
  BY <1>1, AlarmAfterProperties DEF AlarmFired
<1>2. CASE al.sync = None
  BY <1>2 DEF AlarmFired, AlarmRecord, Consistent
<1> QED  BY <1>1, <1>2

---------------------------------------------------------------------------
(* The triggers that look at an object.                                    *)

LEMMA WatchingIs ==
  ASSUME NEW o, NEW t
  PROVE  t \in Watching(o) <=>
           \/ \E c \in Clients : \E i \in DOMAIN await[c] :
                await[c][i].obj = o /\ t = Trigger(c, i)
           \/ \E a \in Alarms :
                alarm[a] # None /\ alarm[a].sync = o /\ t = Trigger(a, 0)
<1>1. t \in AlarmsOn(o) <=>
        \E a \in Alarms :
          alarm[a] # None /\ alarm[a].sync = o /\ t = Trigger(a, 0)
  BY DEF AlarmsOn
<1>2. \A c \in Clients :
        t \in WaitingFor(c, o) <=>
        \E i \in DOMAIN await[c] : await[c][i].obj = o /\ t = Trigger(c, i)
  BY DEF WaitingFor
<1>3. t \in Watching(o) <=>
        (\E c \in Clients : t \in WaitingFor(c, o)) \/ t \in AlarmsOn(o)
  BY DEF Watching
<1> QED  BY <1>1, <1>2, <1>3

LEMMA WatchingIsPrimed ==
  ASSUME NEW o, NEW t
  PROVE  t \in Watching(o)' <=>
           \/ \E c \in Clients : \E i \in DOMAIN await'[c] :
                await'[c][i].obj = o /\ t = Trigger(c, i)
           \/ \E a \in Alarms :
                alarm'[a] # None /\ alarm'[a].sync = o /\ t = Trigger(a, 0)
<1>1. t \in AlarmsOn(o)' <=>
        \E a \in Alarms :
          alarm'[a] # None /\ alarm'[a].sync = o /\ t = Trigger(a, 0)
  BY DEF AlarmsOn
<1>2. \A c \in Clients :
        t \in WaitingFor(c, o)' <=>
        \E i \in DOMAIN await'[c] : await'[c][i].obj = o /\ t = Trigger(c, i)
  BY DEF WaitingFor
<1>3. t \in Watching(o)' <=>
        (\E c \in Clients : t \in WaitingFor(c, o)') \/ t \in AlarmsOn(o)'
  BY DEF Watching
<1> QED  BY <1>1, <1>2, <1>3

LEMMA TriggerParts ==
  ASSUME NEW who, NEW nr
  PROVE  Trigger(who, nr).who = who /\ Trigger(who, nr).nr = nr
BY DEF Trigger

(* Who has a trigger, and what it looks at.                                *)
LEMMA Watches ==
  ASSUME TypeOK, NEW o, NEW t \in Watching(o)
  PROVE  /\ t # Null
         /\ \/ /\ t.who \in Clients /\ t.who \notin Alarms
               /\ t.nr \in DOMAIN await[t.who] /\ await[t.who][t.nr].obj = o
               /\ t = Trigger(t.who, t.nr)
            \/ /\ t.who \in Alarms /\ t.who \notin Clients /\ t = Trigger(t.who, 0)
               /\ alarm[t.who] # None /\ alarm[t.who].sync = o
<1>1. CASE \E c \in Clients : \E i \in DOMAIN await[c] :
             await[c][i].obj = o /\ t = Trigger(c, i)
  <2>1. PICK c \in Clients : \E i \in DOMAIN await[c] :
               await[c][i].obj = o /\ t = Trigger(c, i)
    BY <1>1
  <2>2. PICK i \in DOMAIN await[c] : await[c][i].obj = o /\ t = Trigger(c, i)
    BY <2>1
  <2>3. c \notin Alarms /\ c # None
    BY SyncAssumption
  <2> QED  BY <2>2, <2>3, TriggerParts DEF Null
<1>2. CASE \E a \in Alarms :
             alarm[a] # None /\ alarm[a].sync = o /\ t = Trigger(a, 0)
  <2>1. PICK a \in Alarms : alarm[a] # None /\ alarm[a].sync = o /\ t = Trigger(a, 0)
    BY <1>2
  <2>2. a \notin Clients /\ a # None
    BY SyncAssumption
  <2> QED  BY <2>1, <2>2, TriggerParts DEF Null
<1> QED  BY <1>1, <1>2, WatchingIs

(* The Await of a client ends.                                             *)
LEMMA AwaitOver ==
  ASSUME TypeOK, NEW c \in Clients, await' = [await EXCEPT ![c] = << >>],
         alarm' = alarm, NEW o
  PROVE  Watching(o)' = {t \in Watching(o) : t.who # c}
<1>1. /\ await'[c] = << >> /\ DOMAIN << >> = {}
      /\ \A d \in Clients : d # c => await'[d] = await[d]
  BY DEF TypeOK
<1>2. ASSUME NEW t \in Watching(o)' PROVE t \in Watching(o) /\ t.who # c
  <2>1. CASE \E d \in Clients : \E i \in DOMAIN await'[d] :
               await'[d][i].obj = o /\ t = Trigger(d, i)
    <3>1. PICK d \in Clients : \E i \in DOMAIN await'[d] :
                 await'[d][i].obj = o /\ t = Trigger(d, i)
      BY <2>1
    <3>2. d # c
      BY <1>1, <3>1
    <3> QED  BY <1>1, <3>1, <3>2, WatchingIs, TriggerParts
  <2>2. CASE \E a \in Alarms :
               alarm'[a] # None /\ alarm'[a].sync = o /\ t = Trigger(a, 0)
    <3>1. PICK a \in Alarms : alarm[a] # None /\ alarm[a].sync = o /\ t = Trigger(a, 0)
      BY <2>2
    <3>2. t \in Watching(o)
      BY <3>1, WatchingIs
    <3>3. a # c
      BY SyncAssumption
    <3> QED  BY <3>1, <3>2, <3>3, TriggerParts
  <2> QED  BY <1>2, <2>1, <2>2, WatchingIsPrimed
<1>3. ASSUME NEW t \in Watching(o), t.who # c PROVE t \in Watching(o)'
  <2>1. CASE t.who \in Clients /\ t.nr \in DOMAIN await[t.who]
             /\ await[t.who][t.nr].obj = o /\ t = Trigger(t.who, t.nr)
    BY <1>1, <1>3, <2>1, WatchingIsPrimed
  <2>2. CASE t.who \in Alarms /\ t = Trigger(t.who, 0)
             /\ alarm[t.who] # None /\ alarm[t.who].sync = o
    BY <2>2, WatchingIsPrimed
  <2> QED  BY <2>1, <2>2, Watches
<1> QED  BY <1>2, <1>3

(* An alarm changes.                                                       *)
LEMMA AlarmChanged ==
  ASSUME TypeOK, NEW a \in Alarms, NEW al, alarm' = [alarm EXCEPT ![a] = al],
         await' = await, NEW o
  PROVE  \A t : t \in Watching(o)' <=>
                 \/ t \in Watching(o) /\ t.who # a
                 \/ al # None /\ al.sync = o /\ t = Trigger(a, 0)
<1>1. /\ alarm'[a] = al
      /\ \A b \in Alarms : b # a => alarm'[b] = alarm[b]
  BY DEF TypeOK
<1>2. \A c \in Clients : c # a
  BY SyncAssumption
<1>3. ASSUME NEW t \in Watching(o)'
      PROVE  \/ t \in Watching(o) /\ t.who # a
             \/ al # None /\ al.sync = o /\ t = Trigger(a, 0)
  <2>1. CASE \E c \in Clients : \E i \in DOMAIN await'[c] :
               await'[c][i].obj = o /\ t = Trigger(c, i)
    <3>1. PICK c \in Clients : \E i \in DOMAIN await[c] :
                 await[c][i].obj = o /\ t = Trigger(c, i)
      BY <2>1
    <3> QED  BY <1>2, <3>1, WatchingIs, TriggerParts
  <2>2. CASE \E b \in Alarms :
               alarm'[b] # None /\ alarm'[b].sync = o /\ t = Trigger(b, 0)
    <3>1. PICK b \in Alarms : alarm'[b] # None /\ alarm'[b].sync = o /\ t = Trigger(b, 0)
      BY <2>2
    <3> QED  BY <1>1, <3>1, WatchingIs, TriggerParts
  <2> QED  BY <1>3, <2>1, <2>2, WatchingIsPrimed
<1>4. ASSUME NEW t \in Watching(o), t.who # a PROVE t \in Watching(o)'
  <2>1. CASE t.who \in Clients /\ t.nr \in DOMAIN await[t.who]
             /\ await[t.who][t.nr].obj = o /\ t = Trigger(t.who, t.nr)
    BY <2>1, WatchingIsPrimed
  <2>2. CASE t.who \in Alarms /\ t = Trigger(t.who, 0)
             /\ alarm[t.who] # None /\ alarm[t.who].sync = o
    BY <1>1, <1>4, <2>2, WatchingIsPrimed
  <2> QED  BY <2>1, <2>2, Watches
<1>5. al # None /\ al.sync = o => Trigger(a, 0) \in Watching(o)'
  BY <1>1, WatchingIsPrimed
<1> QED  BY <1>3, <1>4, <1>5

(* The triggers of an alarm are those that it has.                         *)
LEMMA AlarmWatches ==
  ASSUME TypeOK, NEW a \in Alarms, NEW o
  PROVE  /\ Trigger(a, 0) \in Watching(o) <=> alarm[a] # None /\ alarm[a].sync = o
         /\ \A t \in Watching(o) : t.who = a => t = Trigger(a, 0)
<1>1. \A t \in Watching(o) : t.who = a => t = Trigger(a, 0) /\ alarm[a] # None /\ alarm[a].sync = o
  BY Watches, SyncAssumption
<1>2. alarm[a] # None /\ alarm[a].sync = o => Trigger(a, 0) \in Watching(o)
  BY WatchingIs
<1> QED  BY <1>1, <1>2, TriggerParts

(* An alarm changes that stays on its counter.                             *)
LEMMA AlarmStays ==
  ASSUME TypeOK, NEW a \in Alarms, alarm[a] # None, NEW al, al # None,
         al.sync = alarm[a].sync, alarm' = [alarm EXCEPT ![a] = al],
         await' = await, NEW o
  PROVE  Watching(o)' = Watching(o)
<1>1. /\ alarm'[a] = al
      /\ \A b \in Alarms : b # a => alarm'[b] = alarm[b]
  BY DEF TypeOK
<1>2. \A b \in Alarms : /\ alarm'[b] # None <=> alarm[b] # None
                        /\ alarm[b] # None => alarm'[b].sync = alarm[b].sync
  BY <1>1
<1>3. ASSUME NEW t PROVE t \in Watching(o)' <=> t \in Watching(o)
  BY <1>2, WatchingIs, WatchingIsPrimed
<1> QED  BY <1>3

(* A client begins to wait.                                                *)
LEMMA AwaitBegins ==
  ASSUME TypeOK, NEW c \in Clients, await[c] = << >>, NEW conds,
         await' = [await EXCEPT ![c] = conds], alarm' = alarm, NEW o
  PROVE  /\ Watching(o)' = Watching(o) \cup
              {Trigger(c, i) : i \in {j \in DOMAIN conds : conds[j].obj = o}}
         /\ \A t \in Watching(o) : t.who # c
<1>1. /\ await'[c] = conds
      /\ \A d \in Clients : d # c => await'[d] = await[d]
  BY DEF TypeOK
<1>2. \A t \in Watching(o) : t.who # c
  <2>1. DOMAIN await[c] = {}
    OBVIOUS
  <2> QED  BY <2>1, Watches
<1>3. ASSUME NEW t \in Watching(o)'
      PROVE  t \in Watching(o) \/ \E i \in DOMAIN conds : conds[i].obj = o /\ t = Trigger(c, i)
  <2>1. CASE \E d \in Clients : \E i \in DOMAIN await'[d] :
               await'[d][i].obj = o /\ t = Trigger(d, i)
    <3>1. PICK d \in Clients : \E i \in DOMAIN await'[d] :
                 await'[d][i].obj = o /\ t = Trigger(d, i)
      BY <2>1
    <3> QED  BY <1>1, <3>1, WatchingIs
  <2>2. CASE \E a \in Alarms :
               alarm'[a] # None /\ alarm'[a].sync = o /\ t = Trigger(a, 0)
    BY <2>2, WatchingIs
  <2> QED  BY <1>3, <2>1, <2>2, WatchingIsPrimed
<1>4. ASSUME NEW t \in Watching(o) PROVE t \in Watching(o)'
  <2>1. CASE t.who \in Clients /\ t.nr \in DOMAIN await[t.who]
             /\ await[t.who][t.nr].obj = o /\ t = Trigger(t.who, t.nr)
    <3>1. t.who # c
      BY <1>2, <1>4
    <3> QED  BY <1>1, <2>1, <3>1, WatchingIsPrimed
  <2>2. CASE t.who \in Alarms /\ t = Trigger(t.who, 0)
             /\ alarm[t.who] # None /\ alarm[t.who].sync = o
    BY <2>2, WatchingIsPrimed
  <2> QED  BY <2>1, <2>2, Watches
<1>5. ASSUME NEW i \in DOMAIN conds, conds[i].obj = o PROVE Trigger(c, i) \in Watching(o)'
  BY <1>1, <1>5, WatchingIsPrimed
<1> QED  BY <1>2, <1>3, <1>4, <1>5

(* Nothing that waits changes.                                             *)
LEMMA WatchingSame ==
  ASSUME await' = await, alarm' = alarm, NEW o
  PROVE  Watching(o)' = Watching(o)
BY DEF Watching, WaitingFor, AlarmsOn

LEMMA EmptyListOf ==
  ASSUME NEW list, ListOf(list, {}), Null \notin Range(list)
  PROVE  list = << >>
<1>1. Range(list) = {} /\ list \in Seq(Triggers)
  BY DEF ListOf
<1>2. DOMAIN list = {}
  BY <1>1 DEF Range
<1> QED  BY <1>1, <1>2

(* How the lists are as they should be after a step.                       *)
LEMMA ListsInvPrimed ==
  ASSUME \A o \in Objects : ListOf(triglist'[o], Watching(o)'),
         \A o \in Objects : Null \in Range(triglist'[o]) =>
                              walk'.op = "destroy" /\ walk'.obj = o,
         \A o \in Objects : ~Exists(o)' =>
                              Watching(o)' = {} /\ Null \notin Range(triglist'[o])
  PROVE  ListsInv'
<1>1. \A o \in Objects : ~Exists(o)' => triglist'[o] = << >>
  BY EmptyListOf
<1>2. \A o \in Objects : ListOf(triglist[o], Watching(o))'
  BY DEF ListOf
<1> QED  BY <1>1, <1>2 DEF ListsInv

LEMMA NothingListed ==
  ASSUME ListsInv, NEW o \in Objects, ~Exists(o)
  PROVE  triglist[o] = << >> /\ Watching(o) = {} /\ Null \notin Range(triglist[o])
<1>1. triglist[o] = << >>
  BY DEF ListsInv
<1>2. Range(<< >>) = {}
  BY DEF Range
<1> QED  BY <1>1, <1>2 DEF ListsInv, ListOf

---------------------------------------------------------------------------
(* What a step leaves as it was.                                           *)

(* A trigger is as pressing as before when nothing it depends on changes.  *)
LEMMA PressingSame ==
  ASSUME NEW t, NEW o,
         t.who \in Alarms => alarm'[t.who] = alarm[t.who],
         t.who \notin Alarms => await'[t.who] = await[t.who],
         o \in Counters => counter'[o] = counter[o],
         o \notin Counters => fence'[o] = fence[o]
  PROVE  Pressing(t, o)' <=> Pressing(t, o)
<1>1. CASE t.who \in Alarms
  BY <1>1 DEF Pressing, Active, IsTrue
<1>2. CASE t.who \notin Alarms
  BY <1>2 DEF Pressing, Active, IsTrue
<1> QED  BY <1>1, <1>2

(* The client stops waiting, and nothing else changes.                     *)
LEMMA AwaitFreed ==
  ASSUME TypeOK, ListsInv, NEW c \in Clients, await' = [await EXCEPT ![c] = << >>],
         UNCHANGED <<counter, fence, alarm>>,
         triglist' = ListsWithout(c, None), walk.op # "destroy"
  PROVE  /\ ListsInv'
         /\ triglist' \in [Objects -> Seq(Triggers)]
         /\ \A o \in Objects :
              /\ ListOf(triglist'[o], Watching(o)')
              /\ Range(triglist'[o]) = {t \in Watching(o) : t.who # c}
              /\ \A cur, t : cur.who # c /\ t.who # c /\ Ahead(cur, t, triglist[o]) =>
                             Ahead(cur, t, triglist'[o])
<1>1. \A o \in Objects : triglist'[o] = Keep(triglist[o], Others(triglist[o], c))
  BY SyncAssumption DEF ListsWithout
<1>2. \A o \in Objects : ListOf(triglist[o], Watching(o)) /\ Null \notin Range(triglist[o])
  BY DEF ListsInv
<1>3. \A o \in Objects : ListOf(triglist'[o], {t \in Watching(o) : t.who # c})
                         /\ Null \notin Range(triglist'[o])
  BY <1>1, <1>2, KeepListOf
<1>4. \A o \in Objects : Watching(o)' = {t \in Watching(o) : t.who # c}
  BY AwaitOver
<1>5. \A o \in Objects : ListOf(triglist'[o], Watching(o)')
  BY <1>3, <1>4
<1>6. \A o \in Objects : ~Exists(o)' => Watching(o)' = {}
  <2>1. \A o \in Objects : Exists(o)' <=> Exists(o)
    BY DEF Exists
  <2> QED  BY <1>4, <2>1, NothingListed
<1>7. ListsInv'
  BY <1>3, <1>5, <1>6, ListsInvPrimed
<1>8. triglist' \in [Objects -> Seq(Triggers)]
  <2>1. \A o \in Objects : triglist'[o] \in Seq(Triggers)
    BY <1>5 DEF ListOf
  <2>2. triglist' = [o \in Objects |-> triglist'[o]]
    BY DEF ListsWithout
  <2> QED  BY <2>1, <2>2
<1>9. \A o \in Objects : Range(triglist'[o]) = {t \in Watching(o) : t.who # c}
  BY <1>3 DEF ListOf
<1>10. ASSUME NEW o \in Objects, NEW cur, NEW t, cur.who # c, t.who # c,
              Ahead(cur, t, triglist[o])
       PROVE  Ahead(cur, t, triglist'[o])
  <2>1. ListOf(triglist[o], Watching(o)) /\ triglist'[o] = Keep(triglist[o], Others(triglist[o], c))
    BY <1>1, <1>2
  <2> DEFINE list == triglist[o]
             kept == Keep(list, Others(list, c))
  <2>2. \A u, v : u.who # c /\ v.who # c /\ Ahead(u, v, list) => Ahead(u, v, kept)
    BY <2>1, KeepListOf
  <2> HIDE DEF kept
  <2>3. Ahead(cur, t, kept)
    BY <1>10, <2>2
  <2> QED  BY <2>1, <2>3 DEF kept
<1> QED  BY <1>5, <1>7, <1>8, <1>9, <1>10

LEMMA AwaitOverType ==
  ASSUME TypeOK, NEW c \in Clients, await' = [await EXCEPT ![c] = << >>]
  PROVE  await' \in [Clients -> Seq(Condition) \cup Seq([obj : Fences])]
<1>1. << >> \in Seq(Condition)
  OBVIOUS
<1> QED  BY <1>1 DEF TypeOK

(* What then looks at an object did so before, and is as pressing.         *)
LEMMA PressingAfterAwait ==
  ASSUME TypeOK, NEW c \in Clients, await' = [await EXCEPT ![c] = << >>],
         UNCHANGED <<counter, fence, alarm>>, NEW o, NEW t \in Watching(o)'
  PROVE  t \in Watching(o) /\ t.who # c /\ (Pressing(t, o)' <=> Pressing(t, o))
<1>1. t \in Watching(o) /\ t.who # c
  BY AwaitOver
<1>2. t.who \notin Alarms => await'[t.who] = await[t.who]
  <2>1. t.who \notin Alarms => t.who \in Clients
    BY <1>1, Watches
  <2> QED  BY <1>1, <2>1 DEF TypeOK
<1> QED  BY <1>1, <1>2, PressingSame

(* The counter on which an alarm is.                                       *)
CounterOf(a) == IF alarm[a] = None THEN None ELSE alarm[a].sync

(* An alarm changes, and perhaps its counter.                              *)
LEMMA AlarmMoves ==
  ASSUME TypeOK, ListsInv, NEW a \in Alarms, NEW al \in AlarmRecord \cup {None},
         alarm' = [alarm EXCEPT ![a] = al],
         UNCHANGED <<counter, fence, await>>,
         NEW to, to = IF al = None THEN None ELSE al.sync,
         to # None => to \in Objects /\ Exists(to),
         triglist' = ListsMoved(a, CounterOf(a), to), walk.op # "destroy"
  PROVE  /\ ListsInv'
         /\ triglist' \in [Objects -> Seq(Triggers)]
         /\ alarm' \in [Alarms -> AlarmRecord \cup {None}]
<1> DEFINE from == CounterOf(a)
           new == Trigger(a, 0)
<1>1. alarm' \in [Alarms -> AlarmRecord \cup {None}]
  BY DEF TypeOK
<1>2. \A o \in Objects : ListOf(triglist[o], Watching(o)) /\ Null \notin Range(triglist[o])
  BY DEF ListsInv
<1>3. \A o \in Objects : o # None
  BY SyncAssumption
<1>4. \A o \in Objects :
        /\ new \in Watching(o) <=> from = o
        /\ \A t \in Watching(o) : t.who = a => t = new
  BY <1>3, AlarmWatches DEF CounterOf
<1>5. \A o \in Objects : \A t :
        t \in Watching(o)' <=> (t \in Watching(o) /\ t.who # a) \/ (to = o /\ t = new)
  <2> TAKE o \in Objects
  <2> TAKE t
  <2>1. al # None /\ al.sync = o <=> to = o
    <3>1. al # None => to = al.sync
      OBVIOUS
    <3>2. al = None => to = None
      OBVIOUS
    <3> QED  BY <1>3, <3>1, <3>2
  <2>2. t \in Watching(o)' <=>
          \/ t \in Watching(o) /\ t.who # a
          \/ al # None /\ al.sync = o /\ t = new
    BY AlarmChanged
  <2> HIDE DEF new
  <2> QED  BY <2>1, <2>2
<1>6. new \in Triggers /\ new # Null /\ new.who = a
  BY SyncAssumption, TriggerParts DEF Triggers, Trigger, Null
<1> HIDE DEF new, from
<1>7. ASSUME NEW o \in Objects
      PROVE  ListOf(triglist'[o], Watching(o)') /\ Null \notin Range(triglist'[o])
  <2>1. ListOf(triglist[o], Watching(o)) /\ Null \notin Range(triglist[o])
    BY <1>2
  <2>2. CASE from = to
    <3>1. triglist' = triglist
      BY <2>2 DEF ListsMoved, from
    <3>2. Watching(o)' = Watching(o)
      BY <1>4, <1>5, <1>6, <2>2
    <3> QED  BY <2>1, <3>1, <3>2
  <2>3. CASE from # to /\ o = to
    <3>1. triglist'[o] = <<new>> \o triglist[o]
      BY <2>3 DEF ListsMoved, from, new
    <3>2. Watching(o)' = Watching(o) \cup {new}
      BY <1>4, <1>5, <1>6, <2>3
    <3>3. <<new>> \in Seq(Triggers) /\ Range(<<new>>) = {new}
      BY <1>6 DEF Range
    <3>4. \A i, j \in DOMAIN <<new>> : <<new>>[i] = <<new>>[j] => i = j
      OBVIOUS
    <3>5. new \notin Watching(o)
      BY <1>4, <2>3
    <3> DEFINE one == <<new>>
    <3> HIDE DEF one
    <3>6. /\ one \in Seq(Triggers) /\ Range(one) = {new}
          /\ \A i, j \in DOMAIN one : one[i] = one[j] => i = j
      BY <3>3, <3>4 DEF one
    <3>7. Null \notin Range(one) /\ Range(one) \cap Watching(o) = {}
      BY <1>6, <3>5, <3>6
    <3>8. /\ ListOf(one \o triglist[o], Watching(o) \cup Range(one))
          /\ Null \in Range(one \o triglist[o]) => Null \in Range(triglist[o])
      BY <2>1, <3>6, <3>7, PutListOf
    <3>9. triglist'[o] = one \o triglist[o]
      BY <3>1 DEF one
    <3> QED  BY <2>1, <3>2, <3>6, <3>8, <3>9
  <2>4. CASE from # to /\ o # to
    <3>1. triglist'[o] = Keep(triglist[o], Others(triglist[o], a))
      BY <2>4 DEF ListsMoved, from
    <3>2. Watching(o)' = {t \in Watching(o) : t.who # a}
      BY <1>5, <2>4
    <3> QED  BY <2>1, <3>1, <3>2, KeepListOf
  <2> QED  BY <2>2, <2>3, <2>4
<1>8. \A o \in Objects : ~Exists(o)' => Watching(o)' = {}
  <2>1. \A o \in Objects : Exists(o)' <=> Exists(o)
    BY DEF Exists
  <2>2. ASSUME NEW o \in Objects, ~Exists(o) PROVE Watching(o)' = {}
    <3>1. Watching(o) = {} /\ to # o
      BY <1>3, <2>2, NothingListed
    <3> QED  BY <1>5, <3>1
  <2> QED  BY <2>1, <2>2
<1>9. ListsInv'
  BY <1>7, <1>8, ListsInvPrimed
<1>10. triglist' \in [Objects -> Seq(Triggers)]
  <2>1. \A o \in Objects : triglist'[o] \in Seq(Triggers)
    BY <1>7 DEF ListOf
  <2>2. triglist' = [o \in Objects |-> triglist'[o]]
    BY DEF ListsMoved, TypeOK
  <2> QED  BY <2>1, <2>2
<1> QED  BY <1>1, <1>9, <1>10

(* The triggers of others are as pressing as before, and the alarm's own   *)
(* is not when the alarm does not go off.                                  *)
LEMMA PressingAfterAlarm ==
  ASSUME TypeOK, NEW a \in Alarms, NEW al \in AlarmRecord \cup {None},
         alarm' = [alarm EXCEPT ![a] = al], UNCHANGED <<counter, fence, await>>,
         NEW o \in Objects, NEW t \in Watching(o)', Pressing(t, o)',
         al # None /\ al.sync # None => ~GoesOff(al, counter[al.sync])
  PROVE  t \in Watching(o) /\ t.who # a /\ Pressing(t, o)
<1>1. /\ alarm'[a] = al
      /\ \A b \in Alarms : b # a => alarm'[b] = alarm[b]
  BY DEF TypeOK
<1>2. CASE t = Trigger(a, 0) /\ al # None /\ al.sync = o
  <2>1. t.who = a
    BY <1>2, TriggerParts
  <2>2. al.state = "Active"
    BY <1>1, <2>1 DEF Pressing, Active
  <2>3. o # None
    BY SyncAssumption
  <2>4. CASE o \in Counters
    <3>1. al.check \in ComparisonTypes
      BY <1>1, <2>1, <2>4 DEF Pressing
    <3>2. CheckTrigger(al.check, al.value, counter[o], counter[o])
      BY <1>1, <2>1, <2>4 DEF Pressing, IsTrue
    <3> QED  BY <1>2, <2>2, <2>3, <3>1, <3>2 DEF GoesOff
  <2>5. CASE o \notin Counters
    <3>1. al.sync \in Counters \cup {None}
      BY <1>2 DEF AlarmRecord
    <3> QED  BY <1>2, <2>3, <2>5, <3>1
  <2> QED  BY <2>4, <2>5
<1>3. CASE t \in Watching(o) /\ t.who # a
  <2>1. t.who \in Alarms => alarm'[t.who] = alarm[t.who]
    BY <1>1, <1>3
  <2> QED  BY <1>3, <2>1, PressingSame
<1>4. t \in Watching(o)' =>
        \/ t \in Watching(o) /\ t.who # a
        \/ al # None /\ al.sync = o /\ t = Trigger(a, 0)
  BY AlarmChanged
<1> QED  BY <1>2, <1>3, <1>4

---------------------------------------------------------------------------
(* The walk through the list of a counter.                                 *)

LEMMA ListsDuringChange ==
  ASSUME TypeOK, ListsInv, walk.op = "change" \/ walk.op = "fence" \/ walk.op = "none",
         NEW o \in Objects
  PROVE  /\ ListOf(triglist[o], Watching(o))
         /\ Null \notin Range(triglist[o])
         /\ Range(triglist[o]) = Watching(o)
BY DEF ListsInv, ListOf

(* Where the walk goes next: everything that is ahead of a node is ahead   *)
(* of the next one, but for the node itself.                               *)
LEMMA AheadAfter ==
  ASSUME NEW list, NEW watching, ListOf(list, watching), Null \notin Range(list),
         NEW cur \in Range(list)
  PROVE  /\ After(cur, list) = Null \/ After(cur, list) \in Range(list)
         /\ \A t : t # cur /\ Ahead(cur, t, list) =>
              /\ After(cur, list) # Null
              /\ Ahead(After(cur, list), t, list)
<1>1. PICK i \in DOMAIN list : list[i] = cur
  BY DEF Range
<1>2. /\ list \in Seq(Triggers) /\ Len(list) \in Nat /\ DOMAIN list = 1..Len(list)
      /\ cur # Null
  BY DEF ListOf
<1>3. \A j \in DOMAIN list : list[j] = cur => j = i
  BY <1>1, <1>2 DEF ListOf
<1> DEFINE m == CHOOSE j \in DOMAIN list : list[j] = cur
<1>4. m = i
  BY <1>1, <1>3
<1>5. After(cur, list) = IF i = Len(list) THEN Null ELSE list[i + 1]
  <2>1. After(cur, list) = IF m = Len(list) THEN Null ELSE list[m + 1]
    BY Zenon DEF After
  <2> HIDE DEF m
  <2> QED  BY <1>4, <2>1
<1> HIDE DEF m
<1>6. After(cur, list) = Null \/ After(cur, list) \in Range(list)
  <2>1. CASE i = Len(list)
    BY <1>5, <2>1
  <2>2. CASE i # Len(list)
    <3>1. i + 1 \in DOMAIN list /\ After(cur, list) = list[i + 1]
      BY <1>2, <1>5, <2>2
    <3> QED  BY <3>1 DEF Range
  <2> QED  BY <2>1, <2>2
<1>7. ASSUME NEW t, t # cur, Ahead(cur, t, list)
      PROVE  After(cur, list) # Null /\ Ahead(After(cur, list), t, list)
  <2>1. PICK h \in DOMAIN list, j \in DOMAIN list : h <= j /\ list[h] = cur /\ list[j] = t
    BY <1>7 DEF Ahead
  <2>2. h = i /\ j # i
    BY <1>1, <1>3, <1>7, <2>1
  <2>3. i + 1 \in DOMAIN list /\ i # Len(list) /\ i + 1 <= j
    BY <1>2, <2>1, <2>2
  <2>4. After(cur, list) = list[i + 1] /\ list[i + 1] \in Range(list)
    BY <1>5, <2>3 DEF Range
  <2> QED  BY <2>1, <2>3, <2>4 DEF Ahead
<1> QED  BY <1>6, <1>7

(* Everything in a list is ahead of its first node.                        *)
LEMMA AheadOfFirst ==
  ASSUME NEW list \in Seq(Triggers)
  PROVE  /\ FirstOf(list) # Null => FirstOf(list) \in Range(list)
         /\ \A t \in Range(list) : Ahead(FirstOf(list), t, list)
         /\ list # << >> => FirstOf(list) \in Range(list)
<1>1. CASE list = << >>
  BY <1>1 DEF FirstOf, Range
<1>2. CASE list # << >>
  <2>1. 1 \in DOMAIN list /\ FirstOf(list) = list[1] /\ DOMAIN list \in SUBSET Nat
        /\ \A j \in DOMAIN list : 1 <= j
    BY <1>2 DEF FirstOf
  <2> QED  BY <2>1 DEF Range, Ahead
<1> QED  BY <1>1, <1>2

LEMMA WalkTypes ==
  ASSUME TypeOK
  PROVE  /\ walk.op \in {"none", "change", "fence", "destroy"}
         /\ walk.op = "none" <=> walk = NoWalk
         /\ walk.op = "change" =>
              walk \in [op : {"change"}, obj : Counters, cur : Triggers,
                        oldval : Value, due : SUBSET Triggers]
         /\ walk.op = "fence" => walk \in [op : {"fence"}, obj : Fences]
         /\ walk.op = "destroy" => walk \in [op : {"destroy"}, obj : Objects]
<1>1. CASE walk = NoWalk
  BY <1>1 DEF NoWalk
<1>2. CASE walk \in [op : {"change"}, obj : Counters, cur : Triggers,
                     oldval : Value, due : SUBSET Triggers]
  BY <1>2 DEF NoWalk
<1>3. CASE walk \in [op : {"fence"}, obj : Fences]
  BY <1>3 DEF NoWalk
<1>4. CASE walk \in [op : {"destroy"}, obj : Objects]
  BY <1>4 DEF NoWalk
<1> QED  BY <1>1, <1>2, <1>3, <1>4 DEF TypeOK, WalkType

(* The walk goes on, and what is due is ahead of it.                       *)
ChangeRecord == [op : {"change"}, obj : Counters, cur : Triggers, oldval : Value,
                 due : SUBSET Triggers]

LEMMA ChangeRecordWith ==
  ASSUME NEW w \in ChangeRecord, NEW cur \in Triggers, NEW due \in SUBSET Triggers
  PROVE  LET new == [w EXCEPT !.cur = cur, !.due = due]
         IN  /\ new \in ChangeRecord /\ new.obj = w.obj /\ new.oldval = w.oldval
             /\ new.due = due /\ new.cur = cur
BY DEF ChangeRecord

LEMMA ChangeGoesOn ==
  ASSUME TypeOK, WalkInv, walk.op = "change",
         walk' \in ChangeRecord, walk'.obj = walk.obj, walk'.oldval = walk.oldval,
         walk'.due \subseteq walk.due,
         UNCHANGED <<counter, fence>>,
         walk'.cur # Null => walk'.cur \in Range(triglist'[walk.obj]),
         \A t \in walk'.due : /\ t.who \in Alarms => alarm'[t.who] = alarm[t.who]
                              /\ t.who \notin Alarms => await'[t.who] = await[t.who]
                              /\ walk'.cur # Null
                              /\ Ahead(walk'.cur, t, triglist'[walk.obj])
  PROVE  walk' \in WalkType /\ WalkInv' /\ walk'.op = "change"
<1>1. walk'.op = "change" /\ walk' \in WalkType
  BY DEF ChangeRecord, WalkType
<1>2. WalkObject'
  BY <1>1 DEF WalkInv, WalkObject, Exists
<1>3. ASSUME NEW t \in walk'.due
      PROVE  t # Null /\ IsTrue(t, walk.obj, walk.oldval, counter[walk.obj])'
  <2>1. t # Null /\ IsTrue(t, walk.obj, walk.oldval, counter[walk.obj])
    BY DEF WalkInv, DueAhead
  <2>2. /\ t.who \in Alarms => alarm'[t.who] = alarm[t.who]
        /\ t.who \notin Alarms => await'[t.who] = await[t.who]
    OBVIOUS
  <2> QED  BY <2>1, <2>2 DEF IsTrue
<1>4. DueAhead'
  BY <1>1, <1>3 DEF DueAhead, Ahead
<1> QED  BY <1>1, <1>2, <1>4 DEF WalkInv

(* The trigger that is looked at is not true.                              *)
LEMMA ChangePassesBy ==
  ASSUME SyncInv, walk.op = "change", walk.cur # Null,
         ~IsTrue(walk.cur, walk.obj, walk.oldval, counter[walk.obj]),
         walk' = [walk EXCEPT !.cur = After(walk.cur, triglist[walk.obj])],
         UNCHANGED <<counter, fence, triglist, await, alarm, ignored, closing>>
  PROVE  SyncInv'
<1> DEFINE o == walk.obj
           next == After(walk.cur, triglist[o])
<1>1. TypeOK /\ ListsInv /\ WalkInv /\ QuietInv /\ AlarmsAdvance /\ IgnoredWhileWaiting
  BY DEF SyncInv
<1>2. walk \in [op : {"change"}, obj : Counters, cur : Triggers,
                oldval : Value, due : SUBSET Triggers]
  BY <1>1, WalkTypes
<1>3. o \in Objects /\ ListOf(triglist[o], Watching(o)) /\ Null \notin Range(triglist[o])
      /\ Range(triglist[o]) = Watching(o)
  BY <1>1, <1>2, ListsDuringChange DEF Objects
<1>4. walk.cur \in Range(triglist[o])
      /\ \A t \in walk.due : Ahead(walk.cur, t, triglist[o])
                             /\ IsTrue(t, o, walk.oldval, counter[o])
  BY <1>1 DEF WalkInv, DueAhead
<1>5. /\ next = Null \/ next \in Range(triglist[o])
      /\ \A t : t # walk.cur /\ Ahead(walk.cur, t, triglist[o]) =>
                  next # Null /\ Ahead(next, t, triglist[o])
  BY <1>3, <1>4, AheadAfter
<1>6. next \in Triggers
  <2>1. Null \in Triggers
    BY DEF Null, Trigger, Triggers
  <2>2. \A t \in Range(triglist[o]) : t \in Triggers
    BY <1>3 DEF ListOf, Range
  <2> QED  BY <1>5, <2>1, <2>2
<1>7. \A t \in walk.due : t # walk.cur
  BY <1>4
<1>8. /\ walk' \in ChangeRecord /\ walk'.obj = walk.obj /\ walk'.oldval = walk.oldval
      /\ walk'.due = walk.due /\ walk'.cur = next
  BY <1>2, <1>6 DEF ChangeRecord
<1> HIDE DEF next
<1>9. walk' \in WalkType /\ WalkInv' /\ walk'.op = "change"
  BY <1>1, <1>4, <1>5, <1>7, <1>8, ChangeGoesOn
<1>10. TypeOK'
  BY <1>1, <1>9 DEF TypeOK
<1>11. ListsInv'
  BY <1>1, <1>9, WatchingSame DEF ListsInv, ListOf, Exists
<1>12. QuietInv'
  <2> SUFFICES ASSUME NEW p \in Objects, NEW t \in Watching(p)', Pressing(t, p)'
               PROVE  /\ walk'.op \in {"change", "fence"} /\ walk'.obj = p
                      /\ walk'.op = "change" => t \in walk'.due
    BY DEF QuietInv
  <2>1. t \in Watching(p) /\ Pressing(t, p)
    BY WatchingSame, PressingSame
  <2> QED  BY <1>1, <1>8, <1>9, <2>1 DEF QuietInv
<1>13. AlarmsAdvance' /\ IgnoredWhileWaiting'
  BY <1>1 DEF AlarmsAdvance, IgnoredWhileWaiting
<1> QED  BY <1>9, <1>10, <1>11, <1>12, <1>13 DEF SyncInv

(* A client is attended to: its triggers are off the lists, and the walk   *)
(* goes on with what is left.                                              *)
LEMMA ChangeFiresClient ==
  ASSUME SyncInv, WalkChange, walk.cur.who \in Clients,
         IsTrue(walk.cur, walk.obj, walk.oldval, counter[walk.obj])
  PROVE  SyncInv'
<1>0. walk.op = "change" /\ walk.cur # Null /\ UNCHANGED <<counter, fence, closing>>
  BY DEF WalkChange
<1>1. TypeOK /\ ListsInv /\ WalkInv /\ QuietInv /\ AlarmsAdvance /\ IgnoredWhileWaiting
  BY DEF SyncInv
<1>2. walk \in [op : {"change"}, obj : Counters, cur : Triggers,
                oldval : Value, due : SUBSET Triggers]
  BY <1>0, <1>1, WalkTypes
<1> PICK o \in Counters, c \in Clients : o = walk.obj /\ c = walk.cur.who
  BY <1>2
<1> DEFINE next == After(walk.cur, triglist[o])
           cur == Resume(next, triglist'[o])
           due == walk.due \ {u \in walk.due : u.who = c}
<1>3. /\ o \in Objects /\ ListOf(triglist[o], Watching(o)) /\ Null \notin Range(triglist[o])
      /\ Range(triglist[o]) = Watching(o)
  BY <1>1, <1>2, <1>0, ListsDuringChange DEF Objects
<1>4. walk.cur \in Range(triglist[o])
      /\ \A t \in walk.due : Ahead(walk.cur, t, triglist[o])
  BY <1>0, <1>1 DEF WalkInv, DueAhead
<1>5. /\ next = Null \/ next \in Range(triglist[o])
      /\ \A t : t # walk.cur /\ Ahead(walk.cur, t, triglist[o]) =>
                  next # Null /\ Ahead(next, t, triglist[o])
  BY <1>3, <1>4, AheadAfter
<1>6. /\ c \in Clients /\ await' = [await EXCEPT ![c] = << >>]
      /\ UNCHANGED <<counter, fence, alarm, closing>> /\ ignored' = ignored \ {c}
      /\ triglist' = ListsWithout(c, None)
  BY DEF WalkChange, Fire, AwaitFired
<1>7. /\ ListsInv'
      /\ triglist' \in [Objects -> Seq(Triggers)]
      /\ ListOf(triglist'[o], Watching(o)')
      /\ Range(triglist'[o]) = {t \in Watching(o) : t.who # c}
      /\ \A u, t : u.who # c /\ t.who # c /\ Ahead(u, t, triglist[o]) =>
                   Ahead(u, t, triglist'[o])
  <2>1. triglist' = ListsWithout(c, None) /\ walk.op # "destroy"
    BY <1>0, <1>6
  <2>2. /\ ListsInv'
        /\ triglist' \in [Objects -> Seq(Triggers)]
        /\ \A p \in Objects :
             /\ ListOf(triglist'[p], Watching(p)')
             /\ Range(triglist'[p]) = {t \in Watching(p) : t.who # c}
             /\ \A u, t : u.who # c /\ t.who # c /\ Ahead(u, t, triglist[p]) =>
                          Ahead(u, t, triglist'[p])
    BY <1>1, <1>6, <2>1, AwaitFreed
  <2> QED  BY <1>3, <2>2
<1>10. triglist'[o] \in Seq(Triggers)
  BY <1>7 DEF ListOf
<1> DEFINE list == triglist'[o]
<1>11. /\ cur \in Triggers
       /\ cur # Null => cur \in Range(list)
  <2>1. Null \in Triggers
    BY DEF Null, Trigger, Triggers
  <2>2. \A t \in Range(list) : t \in Triggers
    BY <1>10 DEF Range
  <2>3. CASE next = Null \/ next \in Range(list)
    BY <2>1, <2>2, <2>3 DEF Resume
  <2>4. CASE ~(next = Null \/ next \in Range(list))
    <3>1. cur = FirstOf(list)
      BY <2>4 DEF Resume
    <3> QED  BY <1>10, <2>1, <2>2, <3>1, AheadOfFirst DEF FirstOf
  <2> QED  BY <2>3, <2>4
<1>12. ASSUME NEW t \in due PROVE cur # Null /\ Ahead(cur, t, list)
  <2>1. t \in walk.due /\ t.who # c /\ t # walk.cur
    OBVIOUS
  <2>2. next # Null /\ Ahead(next, t, triglist[o])
    BY <1>4, <1>5, <2>1
  <2>3. t \in Range(triglist[o])
    BY <2>2 DEF Ahead, Range
  <2>4. t \in Range(list)
    BY <1>3, <1>7, <2>1, <2>3
  <2>5. CASE next.who # c
    <3>1. next \in Range(list)
      BY <1>3, <1>5, <1>7, <2>2, <2>5
    <3>2. cur = next
      BY <3>1 DEF Resume
    <3> HIDE DEF cur, next
    <3> QED  BY <1>7, <2>1, <2>2, <2>5, <3>2
  <2>6. CASE next.who = c
    <3>1. next \notin Range(list)
      BY <1>7, <2>6
    <3>2. cur = FirstOf(list)
      BY <2>2, <3>1 DEF Resume
    <3>3. list # << >>
      BY <2>4 DEF Range
    <3>4. FirstOf(list) # Null /\ Ahead(FirstOf(list), t, list)
      <4>1. FirstOf(list) \in Range(list) /\ Ahead(FirstOf(list), t, list)
        BY <1>10, <2>4, <3>3, AheadOfFirst
      <4> QED  BY <1>3, <1>7, <4>1
    <3> HIDE DEF cur
    <3> QED  BY <3>2, <3>4
  <2> QED  BY <2>5, <2>6
<1>13. \A t \in due : /\ t.who \in Alarms => alarm'[t.who] = alarm[t.who]
                      /\ t.who \notin Alarms => await'[t.who] = await[t.who]
  <2> TAKE t \in due
  <2>1. t \in Watching(o) /\ t.who # c
    <3>1. Ahead(walk.cur, t, triglist[o])
      BY <1>4
    <3> QED  BY <1>3, <3>1 DEF Ahead, Range
  <2>2. t.who \notin Alarms => t.who \in Clients
    BY <1>1, <2>1, Watches
  <2> QED  BY <1>1, <1>6, <2>1, <2>2 DEF TypeOK
<1>14. due \in SUBSET walk.due
  OBVIOUS
<1>15. /\ walk' \in ChangeRecord /\ walk'.obj = walk.obj /\ walk'.oldval = walk.oldval
       /\ walk'.due = due /\ walk'.cur = cur
  <2>1. walk' = [walk EXCEPT !.cur = cur, !.due = due]
    BY <1>2 DEF WalkChange
  <2>2. walk \in ChangeRecord /\ cur \in Triggers /\ due \in SUBSET Triggers
    BY <1>2, <1>11 DEF ChangeRecord
  <2> HIDE DEF cur, due
  <2>3. PICK w \in ChangeRecord, new \in Triggers, left \in SUBSET Triggers :
          w = walk /\ new = cur /\ left = due
    BY <2>2
  <2>4. walk' = [w EXCEPT !.cur = new, !.due = left]
    BY <2>1, <2>3
  <2> QED  BY <2>3, <2>4 DEF ChangeRecord
<1>16. walk' \in WalkType /\ WalkInv' /\ walk'.op = "change"
  <2>1. walk'.cur # Null => walk'.cur \in Range(triglist'[walk.obj])
    BY <1>11, <1>15
  <2>2. \A t \in walk'.due : /\ t.who \in Alarms => alarm'[t.who] = alarm[t.who]
                             /\ t.who \notin Alarms => await'[t.who] = await[t.who]
                             /\ walk'.cur # Null
                             /\ Ahead(walk'.cur, t, triglist'[walk.obj])
    <3> HIDE DEF cur, due
    <3> QED  BY <1>12, <1>13, <1>15
  <2>3. UNCHANGED <<counter, fence>> /\ walk'.due \subseteq walk.due
    BY <1>6, <1>14, <1>15
  <2> HIDE DEF cur, due, next
  <2> QED  BY <1>0, <1>1, <1>15, <2>1, <2>2, <2>3, ChangeGoesOn
<1> HIDE DEF cur, next, list
<1>17. TypeOK'
  <2>1. await' \in [Clients -> Seq(Condition) \cup Seq([obj : Fences])]
    BY <1>1, <1>6, AwaitOverType
  <2>2. ignored' \subseteq Clients /\ UNCHANGED <<counter, fence, alarm, closing>>
    BY <1>1, <1>6 DEF TypeOK
  <2> QED  BY <1>1, <1>7, <1>16, <2>1, <2>2 DEF TypeOK
<1>18. QuietInv'
  <2> SUFFICES ASSUME NEW p \in Objects, NEW t \in Watching(p)', Pressing(t, p)'
               PROVE  /\ walk'.op \in {"change", "fence"} /\ walk'.obj = p
                      /\ walk'.op = "change" => t \in walk'.due
    BY DEF QuietInv
  <2>1. t \in Watching(p) /\ t.who # c /\ Pressing(t, p)
    BY <1>1, <1>6, PressingAfterAwait
  <2>2. walk.obj = p /\ t \in walk.due
    BY <1>0, <1>1, <2>1 DEF QuietInv
  <2> QED  BY <1>15, <1>16, <2>1, <2>2
<1>19. AlarmsAdvance'
  BY <1>1, <1>6 DEF AlarmsAdvance
<1>20. IgnoredWhileWaiting'
  BY <1>1, <1>6 DEF IgnoredWhileWaiting, TypeOK
<1> QED  BY <1>7, <1>16, <1>17, <1>18, <1>19, <1>20 DEF SyncInv

(* An alarm goes off: it stays on the list, and it has been moved on.      *)
LEMMA ChangeFiresAlarm ==
  ASSUME SyncInv, WalkChange, walk.cur.who \notin Clients,
         IsTrue(walk.cur, walk.obj, walk.oldval, counter[walk.obj])
  PROVE  SyncInv'
<1>0. walk.op = "change" /\ walk.cur # Null /\ UNCHANGED <<counter, fence, closing>>
  BY DEF WalkChange
<1>1. TypeOK /\ ListsInv /\ WalkInv /\ QuietInv /\ AlarmsAdvance /\ IgnoredWhileWaiting
  BY DEF SyncInv
<1>2. walk \in [op : {"change"}, obj : Counters, cur : Triggers,
                oldval : Value, due : SUBSET Triggers]
  BY <1>0, <1>1, WalkTypes
<1> PICK o \in Counters, cur \in Triggers : o = walk.obj /\ cur = walk.cur
  BY <1>2
<1>3. /\ o \in Objects /\ ListOf(triglist[o], Watching(o)) /\ Null \notin Range(triglist[o])
      /\ Range(triglist[o]) = Watching(o)
  BY <1>0, <1>1, <1>2, ListsDuringChange DEF Objects
<1>4. cur \in Range(triglist[o])
      /\ \A t \in walk.due : Ahead(cur, t, triglist[o])
  BY <1>0, <1>1 DEF WalkInv, DueAhead
<1> DEFINE a == cur.who
           al == AlarmFired(alarm[a])
           next == After(cur, triglist[o])
           due == walk.due \ {cur}
<1>5. /\ a \in Alarms /\ cur = Trigger(a, 0)
      /\ alarm[a] # None /\ alarm[a].sync = o
  BY <1>1, <1>3, <1>4, Watches
<1>6. /\ alarm' = [alarm EXCEPT ![a] = al]
      /\ UNCHANGED <<await, ignored, triglist>>
  BY DEF WalkChange, Fire
<1>7. alarm[a] \in AlarmRecord /\ Consistent(alarm[a]) /\ counter[o] \in Value
  <2>1. alarm[a] \in AlarmRecord /\ Consistent(alarm[a])
    BY <1>1, <1>5 DEF TypeOK, AlarmsAdvance, Consistent
  <2>2. counter[o] # None
    BY <1>0, <1>1, <1>2 DEF WalkInv, WalkObject, Exists
  <2> QED  BY <1>1, <2>1, <2>2 DEF TypeOK
<1> HIDE DEF a
<1>8. /\ al \in AlarmRecord /\ al.sync = alarm[a].sync /\ Consistent(al)
      /\ ~GoesOff(al, counter[o])
  <2>1. alarm[a].sync # None
    BY <1>3, <1>5, SyncAssumption
  <2> QED  BY <1>5, <1>7, <2>1, AlarmFiredProperties
<1> HIDE DEF al
<1>9. al # None /\ al.sync = o
  BY <1>5, <1>8, SyncAssumption
<1>10. \A p : Watching(p)' = Watching(p)
  BY <1>1, <1>5, <1>6, <1>8, <1>9, AlarmStays
<1>11. /\ next = Null \/ next \in Range(triglist[o])
       /\ \A t : t # cur /\ Ahead(cur, t, triglist[o]) =>
                   next # Null /\ Ahead(next, t, triglist[o])
  BY <1>3, <1>4, AheadAfter
<1>12. next \in Triggers
  <2>1. Null \in Triggers
    BY DEF Null, Trigger, Triggers
  <2>2. \A t \in Range(triglist[o]) : t \in Triggers
    BY <1>3 DEF ListOf, Range
  <2> QED  BY <1>11, <2>1, <2>2
<1> HIDE DEF next
<1>13. Resume(next, triglist'[o]) = next
  BY <1>6, <1>11 DEF Resume
<1>14. /\ walk' \in ChangeRecord /\ walk'.obj = walk.obj /\ walk'.oldval = walk.oldval
       /\ walk'.due = due /\ walk'.cur = next
  <2>1. walk' = [walk EXCEPT !.cur = Resume(next, triglist'[o]), !.due = due]
    BY <1>0, <1>2 DEF WalkChange, next
  <2>2. walk' = [walk EXCEPT !.cur = next, !.due = due]
    BY <1>13, <2>1
  <2>3. walk \in ChangeRecord /\ due \in SUBSET Triggers
    BY <1>2 DEF ChangeRecord
  <2> HIDE DEF due
  <2>4. PICK w \in ChangeRecord, new \in Triggers, left \in SUBSET Triggers :
          w = walk /\ new = next /\ left = due
    BY <1>12, <2>3
  <2>5. walk' = [w EXCEPT !.cur = new, !.due = left]
    BY <2>2, <2>4
  <2> QED  BY <2>4, <2>5 DEF ChangeRecord
<1>15. ASSUME NEW t \in due PROVE t \in Watching(o) /\ t.who # a /\ Ahead(next, t, triglist[o])
                                  /\ next # Null
  <2>1. t \in walk.due /\ t # cur
    OBVIOUS
  <2>2. Ahead(cur, t, triglist[o])
    BY <1>4, <2>1
  <2>3. t \in Watching(o)
    BY <1>3, <2>2 DEF Ahead, Range
  <2>4. t.who # a
    BY <1>1, <1>5, <2>1, <2>3, AlarmWatches
  <2> QED  BY <1>11, <2>1, <2>2, <2>3, <2>4
<1>16. walk' \in WalkType /\ WalkInv' /\ walk'.op = "change"
  <2>1. walk'.cur # Null => walk'.cur \in Range(triglist'[walk.obj])
    BY <1>6, <1>11, <1>14
  <2>2. \A t \in walk'.due : /\ t.who \in Alarms => alarm'[t.who] = alarm[t.who]
                             /\ t.who \notin Alarms => await'[t.who] = await[t.who]
                             /\ walk'.cur # Null
                             /\ Ahead(walk'.cur, t, triglist'[walk.obj])
    <3> HIDE DEF due
    <3> QED  BY <1>1, <1>6, <1>14, <1>15 DEF TypeOK
  <2>3. UNCHANGED <<counter, fence>> /\ walk'.due \subseteq walk.due
    BY <1>0, <1>14
  <2> HIDE DEF due
  <2> QED  BY <1>0, <1>1, <1>14, <2>1, <2>2, <2>3, ChangeGoesOn
<1>17. TypeOK'
  <2>1. alarm' \in [Alarms -> AlarmRecord \cup {None}]
    BY <1>1, <1>6, <1>8 DEF TypeOK
  <2>2. UNCHANGED <<counter, fence, closing, await, ignored, triglist>>
    BY <1>0, <1>6
  <2> QED  BY <1>1, <1>16, <2>1, <2>2 DEF TypeOK
<1>18. ListsInv'
  BY <1>0, <1>1, <1>6, <1>10, <1>16 DEF ListsInv, ListOf, Exists
<1>19. QuietInv'
  <2> SUFFICES ASSUME NEW p \in Objects, NEW t \in Watching(p)', Pressing(t, p)'
               PROVE  /\ walk'.op \in {"change", "fence"} /\ walk'.obj = p
                      /\ walk'.op = "change" => t \in walk'.due
    BY DEF QuietInv
  <2>1. UNCHANGED <<counter, fence, await>> /\ al \in AlarmRecord \cup {None}
        /\ (al # None /\ al.sync # None => ~GoesOff(al, counter[al.sync]))
    BY <1>0, <1>6, <1>8, <1>9
  <2>2. t \in Watching(p) /\ t.who # a /\ Pressing(t, p)
    BY <1>1, <1>5, <1>6, <2>1, PressingAfterAlarm
  <2>3. walk.obj = p /\ t \in walk.due
    BY <1>0, <1>1, <2>2 DEF QuietInv
  <2>4. t # cur
    BY <1>5, <2>2, TriggerParts
  <2> QED  BY <1>14, <1>16, <2>3, <2>4
<1>20. AlarmsAdvance'
  BY <1>1, <1>5, <1>6, <1>8 DEF AlarmsAdvance, Consistent, TypeOK
<1>21. IgnoredWhileWaiting'
  BY <1>0, <1>1, <1>6 DEF IgnoredWhileWaiting
<1> QED  BY <1>16, <1>17, <1>18, <1>19, <1>20, <1>21 DEF SyncInv

LEMMA WalkChangeKeeps ==
  ASSUME SyncInv, WalkChange
  PROVE  SyncInv'
<1>1. CASE IsTrue(walk.cur, walk.obj, walk.oldval, counter[walk.obj])
           /\ walk.cur.who \in Clients
  BY <1>1, ChangeFiresClient
<1>2. CASE IsTrue(walk.cur, walk.obj, walk.oldval, counter[walk.obj])
           /\ walk.cur.who \notin Clients
  BY <1>2, ChangeFiresAlarm
<1>3. CASE ~IsTrue(walk.cur, walk.obj, walk.oldval, counter[walk.obj])
  <2>1. /\ walk.op = "change" /\ walk.cur # Null
        /\ walk' = [walk EXCEPT !.cur = After(walk.cur, triglist[walk.obj])]
        /\ UNCHANGED <<counter, fence, triglist, await, alarm, ignored, closing>>
    BY <1>3 DEF WalkChange
  <2> QED  BY <1>3, <2>1, ChangePassesBy
<1> QED  BY <1>1, <1>2, <1>3

(* Nothing that waits changes, nor any list.                               *)
LEMMA WaitingSame ==
  ASSUME ListsInv, AlarmsAdvance, UNCHANGED <<triglist, await, alarm>>,
         \A o \in Objects : triglist[o] = << >> \/ (Exists(o)' /\ Null \notin Range(triglist[o]))
  PROVE  /\ ListsInv' /\ AlarmsAdvance'
         /\ \A o : Watching(o)' = Watching(o)
<1>1. \A o : Watching(o)' = Watching(o)
  BY WatchingSame
<1>2. \A o \in Objects : ListOf(triglist[o], Watching(o)) /\ triglist'[o] = triglist[o]
  BY DEF ListsInv
<1>3. \A o \in Objects : triglist[o] = << >> => Null \notin Range(triglist[o])
  BY DEF Range
<1>4. \A o \in Objects : ~Exists(o)' => Watching(o)' = {}
  <2>1. Range(<< >>) = {}
    BY DEF Range
  <2> QED  BY <1>1, <1>2, <2>1 DEF ListOf
<1>5. ListsInv'
  BY <1>1, <1>2, <1>3, <1>4, ListsInvPrimed
<1>6. AlarmsAdvance'
  BY DEF AlarmsAdvance
<1> QED  BY <1>1, <1>5, <1>6

(* A walk ends: nothing is due any more.                                   *)
LEMMA ChangeEndsKeeps ==
  ASSUME SyncInv, ChangeEnds
  PROVE  SyncInv'
<1>1. TypeOK /\ ListsInv /\ WalkInv /\ QuietInv /\ AlarmsAdvance /\ IgnoredWhileWaiting
  BY DEF SyncInv
<1>2. /\ walk.op = "change" /\ walk.cur = Null /\ walk' = NoWalk /\ walk'.op = "none"
      /\ UNCHANGED <<counter, fence, triglist, await, alarm, ignored, closing>>
  BY DEF ChangeEnds, NoWalk
<1>3. walk.due = {}
  BY <1>1, <1>2 DEF WalkInv, DueAhead
<1>4. TypeOK'
  BY <1>1, <1>2 DEF TypeOK, WalkType
<1>5. \A o \in Objects : triglist[o] = << >> \/ (Exists(o)' /\ Null \notin Range(triglist[o]))
  BY <1>1, <1>2 DEF ListsInv, Exists
<1>6. ListsInv' /\ AlarmsAdvance' /\ \A o : Watching(o)' = Watching(o)
  BY <1>1, <1>2, <1>5, WaitingSame
<1>7. WalkInv'
  BY <1>2 DEF WalkInv, WalkObject, DueAhead
<1>8. QuietInv'
  <2> SUFFICES ASSUME NEW o \in Objects, NEW t \in Watching(o)', Pressing(t, o)' PROVE FALSE
    BY DEF QuietInv
  <2>1. t \in Watching(o) /\ Pressing(t, o)
    BY <1>2, <1>6, PressingSame
  <2> QED  BY <1>1, <1>2, <1>3, <2>1 DEF QuietInv
<1>9. IgnoredWhileWaiting'
  BY <1>1, <1>2 DEF IgnoredWhileWaiting
<1> QED  BY <1>4, <1>6, <1>7, <1>8, <1>9 DEF SyncInv

(* The clients that wait for a fence are attended to one after the other.  *)
LEMMA WalkFenceKeeps ==
  ASSUME SyncInv, WalkFence
  PROVE  SyncInv'
<1>1. TypeOK /\ ListsInv /\ WalkInv /\ QuietInv /\ AlarmsAdvance /\ IgnoredWhileWaiting
  BY DEF SyncInv
<1>2. /\ walk.op = "fence" /\ UNCHANGED <<counter, fence, closing>>
  BY DEF WalkFence
<1>3. walk.obj \in Fences /\ fence[walk.obj] = TRUE
  BY <1>1, <1>2, WalkTypes DEF WalkInv, WalkObject
<1> PICK f \in Fences : f = walk.obj
  BY <1>3
<1>4. /\ f \in Objects /\ f \notin Counters /\ ListOf(triglist[f], Watching(f))
      /\ Null \notin Range(triglist[f]) /\ Range(triglist[f]) = Watching(f)
  BY <1>1, <1>2, SyncAssumption, ListsDuringChange DEF Objects
<1>5. \A t \in Watching(f) : t.who \in Clients /\ t.who \notin Alarms
  <2> TAKE t \in Watching(f)
  <2>1. \A a \in Alarms : alarm[a] # None => alarm[a].sync \in Counters \cup {None}
    BY <1>1 DEF TypeOK, AlarmRecord
  <2>2. f # None
    BY <1>4, SyncAssumption
  <2> QED  BY <1>1, <1>4, <2>1, <2>2, Watches
<1> DEFINE true == {i \in DOMAIN triglist[f] : IsTrue(triglist[f][i], f, 0, fence[f])}
<1>6. CASE true = {}
  <2>1. walk' = NoWalk /\ walk'.op = "none" /\ UNCHANGED <<triglist, await, alarm, ignored>>
    BY <1>6 DEF WalkFence, NoWalk
  <2>2. TypeOK'
    BY <1>1, <1>2, <2>1 DEF TypeOK, WalkType
  <2>3. \A o \in Objects : triglist[o] = << >> \/ (Exists(o)' /\ Null \notin Range(triglist[o]))
    BY <1>1, <1>2 DEF ListsInv, Exists
  <2>4. ListsInv' /\ AlarmsAdvance' /\ \A o : Watching(o)' = Watching(o)
    BY <1>1, <2>1, <2>3, WaitingSame
  <2>5. WalkInv'
    BY <2>1 DEF WalkInv, WalkObject, DueAhead
  <2>6. QuietInv'
    <3> SUFFICES ASSUME NEW o \in Objects, NEW t \in Watching(o)', Pressing(t, o)' PROVE FALSE
      BY DEF QuietInv
    <3>1. t \in Watching(o) /\ Pressing(t, o)
      BY <1>2, <2>1, <2>4, PressingSame
    <3>2. o = f
      BY <1>1, <3>1 DEF QuietInv
    <3>3. PICK i \in DOMAIN triglist[f] : triglist[f][i] = t
      BY <1>4, <3>1, <3>2 DEF Range
    <3>4. IsTrue(t, f, 0, fence[f])
      BY <1>4, <3>1, <3>2 DEF Pressing
    <3> QED  BY <1>6, <3>3, <3>4
  <2>7. IgnoredWhileWaiting'
    BY <1>1, <1>2, <2>1 DEF IgnoredWhileWaiting
  <2> QED  BY <2>2, <2>4, <2>5, <2>6, <2>7 DEF SyncInv
<1>7. CASE true # {}
  <2>1. true \in SUBSET Nat
    BY <1>4 DEF ListOf
  <2>2. Min(true) \in true
    <3> HIDE DEF true
    <3> QED  BY <1>7, <2>1, MinProperties
  <2>3. PICK t \in Watching(f) : t = triglist[f][Min(true)]
    <3> DEFINE i == Min(true)
    <3>1. i \in DOMAIN triglist[f]
      BY <2>2
    <3> HIDE DEF i
    <3>2. triglist[f][i] \in Watching(f)
      BY <1>4, <3>1 DEF Range
    <3> QED  BY <3>2 DEF i
  <2>4. Fire(t) /\ UNCHANGED walk
    BY <1>7, <2>3 DEF WalkFence
  <2> PICK c \in Clients : c = t.who
    BY <1>5
  <2>5. /\ await' = [await EXCEPT ![c] = << >>] /\ ignored' = ignored \ {c}
        /\ UNCHANGED alarm /\ triglist' = ListsWithout(c, None)
    BY <2>4 DEF Fire, AwaitFired
  <2> HIDE DEF true
  <2>6. UNCHANGED <<counter, fence, alarm>> /\ walk.op # "destroy"
    BY <1>2, <2>5
  <2>7. ListsInv' /\ triglist' \in [Objects -> Seq(Triggers)]
    BY <1>1, <2>5, <2>6, AwaitFreed
  <2>8. TypeOK'
    <3>1. await' \in [Clients -> Seq(Condition) \cup Seq([obj : Fences])]
      BY <1>1, <2>5, AwaitOverType
    <3>2. ignored' \subseteq Clients
      BY <1>1, <2>5 DEF TypeOK
    <3> QED  BY <1>1, <1>2, <2>4, <2>5, <2>7, <3>1, <3>2 DEF TypeOK
  <2>9. WalkInv'
    BY <1>1, <1>2, <2>4 DEF WalkInv, WalkObject, DueAhead, Exists
  <2>10. QuietInv'
    <3> SUFFICES ASSUME NEW p \in Objects, NEW u \in Watching(p)', Pressing(u, p)'
                 PROVE  /\ walk'.op \in {"change", "fence"} /\ walk'.obj = p
                        /\ walk'.op = "change" => u \in walk'.due
      BY DEF QuietInv
    <3>1. u \in Watching(p) /\ Pressing(u, p)
      BY <1>1, <2>5, <2>6, PressingAfterAwait
    <3> QED  BY <1>1, <2>4, <3>1 DEF QuietInv
  <2>11. AlarmsAdvance'
    BY <1>1, <2>5 DEF AlarmsAdvance
  <2>12. IgnoredWhileWaiting'
    BY <1>1, <1>2, <2>5 DEF IgnoredWhileWaiting, TypeOK
  <2> QED  BY <2>7, <2>8, <2>9, <2>10, <2>11, <2>12 DEF SyncInv
<1> QED  BY <1>6, <1>7

---------------------------------------------------------------------------
(* The walk through the list of an object that is destroyed.               *)

(* Nothing presses as long as an object is being destroyed, and as long as *)
(* nothing walks.                                                          *)
LEMMA QuietMeans ==
  ASSUME QuietInv, walk.op \notin {"change", "fence"}, NEW o \in Objects, NEW t \in Watching(o)
  PROVE  ~Pressing(t, o)
BY DEF QuietInv

LEMMA DestroyWalk ==
  ASSUME SyncInv, WalkDestroy
  PROVE  /\ walk.op = "destroy" /\ walk.obj \in Objects /\ Exists(walk.obj)
         /\ \A p \in Objects : ListOf(triglist[p], Watching(p))
         /\ \A p \in Objects : p # walk.obj => Null \notin Range(triglist[p])
         /\ UNCHANGED closing
<1>1. walk.op = "destroy" /\ UNCHANGED closing
  BY DEF WalkDestroy
<1>2. TypeOK /\ ListsInv /\ WalkInv
  BY DEF SyncInv
<1>3. walk.obj \in Objects
  BY <1>1, <1>2, WalkTypes
<1> QED  BY <1>1, <1>2, <1>3 DEF ListsInv, WalkInv, WalkObject

(* A place where a trigger was that is gone.                               *)
LEMMA DestroySkips ==
  ASSUME SyncInv, WalkDestroy, triglist[walk.obj] # << >>, Head(triglist[walk.obj]) = Null,
         triglist' = [triglist EXCEPT ![walk.obj] = Tail(triglist[walk.obj])],
         UNCHANGED <<counter, fence, await, alarm, ignored, walk>>
  PROVE  SyncInv'
<1>1. TypeOK /\ ListsInv /\ WalkInv /\ QuietInv /\ AlarmsAdvance /\ IgnoredWhileWaiting
  BY DEF SyncInv
<1> PICK o \in Objects : o = walk.obj
  BY DestroyWalk
<1>2. /\ walk.op = "destroy" /\ Exists(o) /\ UNCHANGED closing
      /\ \A p \in Objects : ListOf(triglist[p], Watching(p))
      /\ \A p \in Objects : p # o => Null \notin Range(triglist[p])
  BY DestroyWalk
<1>3. /\ triglist'[o] = Tail(triglist[o])
      /\ \A p \in Objects : p # o => triglist'[p] = triglist[p]
  BY <1>1 DEF TypeOK
<1>4. \A p : Watching(p)' = Watching(p)
  BY WatchingSame
<1>5. ListOf(triglist'[o], Watching(o))
  <2>1. ListOf(Tail(triglist[o]), Watching(o) \ {Head(triglist[o])})
    BY <1>2, TailListOf
  <2>2. Null \notin Watching(o)
    BY <1>2 DEF ListOf
  <2>3. Watching(o) \ {Head(triglist[o])} = Watching(o)
    BY <2>2
  <2> QED  BY <1>3, <2>1, <2>3
<1>6. \A p \in Objects : ListOf(triglist'[p], Watching(p)')
  BY <1>2, <1>3, <1>4, <1>5
<1>7. \A p \in Objects : Null \in Range(triglist'[p]) => walk'.op = "destroy" /\ walk'.obj = p
  BY <1>2, <1>3
<1>8. \A p \in Objects : ~Exists(p)' => Watching(p)' = {} /\ Null \notin Range(triglist'[p])
  <2> TAKE p \in Objects
  <2> HAVE ~Exists(p)'
  <2>1. ~Exists(p) /\ p # o
    BY <1>2 DEF Exists
  <2> QED  BY <1>1, <1>3, <1>4, <2>1, NothingListed
<1>9. ListsInv'
  BY <1>6, <1>7, <1>8, ListsInvPrimed
<1>10. triglist' \in [Objects -> Seq(Triggers)]
  <2>1. Tail(triglist[o]) \in Seq(Triggers)
    BY <1>3, <1>5 DEF ListOf
  <2> QED  BY <1>1, <2>1 DEF TypeOK
<1>11. TypeOK'
  BY <1>1, <1>2, <1>10 DEF TypeOK
<1>12. WalkInv'
  BY <1>1, <1>2 DEF WalkInv, WalkObject, DueAhead, Exists
<1>13. QuietInv'
  <2> SUFFICES ASSUME NEW p \in Objects, NEW t \in Watching(p)', Pressing(t, p)' PROVE FALSE
    BY DEF QuietInv
  <2>1. t \in Watching(p) /\ Pressing(t, p)
    BY <1>4, PressingSame
  <2> QED  BY <1>1, <1>2, <2>1, QuietMeans
<1>14. AlarmsAdvance' /\ IgnoredWhileWaiting'
  BY <1>1, <1>2 DEF AlarmsAdvance, IgnoredWhileWaiting
<1> QED  BY <1>9, <1>11, <1>12, <1>13, <1>14 DEF SyncInv

(* A client waited for the object: what else it waited for is Null.        *)
LEMMA DestroyFiresClient ==
  ASSUME SyncInv, WalkDestroy, NEW c \in Clients, AwaitCounterDestroyed(walk.obj, c)
  PROVE  SyncInv'
<1>1. TypeOK /\ ListsInv /\ WalkInv /\ QuietInv /\ AlarmsAdvance /\ IgnoredWhileWaiting
  BY DEF SyncInv
<1> PICK o \in Objects : o = walk.obj
  BY DestroyWalk
<1>2. /\ walk.op = "destroy" /\ Exists(o) /\ UNCHANGED closing
      /\ \A p \in Objects : ListOf(triglist[p], Watching(p))
      /\ \A p \in Objects : p # o => Null \notin Range(triglist[p])
  BY DestroyWalk
<1>3. /\ await' = [await EXCEPT ![c] = << >>] /\ ignored' = ignored \ {c} /\ UNCHANGED alarm
      /\ UNCHANGED <<counter, fence, walk>>
      /\ triglist[o] # << >> /\ Head(triglist[o]).who = c
      /\ triglist' = [ListsWithout(c, o) EXCEPT ![o] = Tail(ListsWithout(c, o)[o])]
  BY DEF AwaitCounterDestroyed, AwaitFired
<1> DEFINE nulled == Nulled(triglist[o], c)
<1>4. /\ triglist'[o] = Tail(nulled)
      /\ \A p \in Objects : p # o => triglist'[p] = Keep(triglist[p], Others(triglist[p], c))
  BY <1>3 DEF ListsWithout, Nulled
<1>5. \A p : Watching(p)' = {t \in Watching(p) : t.who # c}
  BY <1>1, <1>3, AwaitOver
<1>6. ListOf(nulled, {t \in Watching(o) : t.who # c})
  BY <1>2, NulledListOf
<1>7. nulled # << >> /\ Head(nulled) = Null
  <2>1. triglist[o] \in Seq(Triggers) /\ triglist[o] # << >>
    BY <1>2, <1>3 DEF ListOf
  <2>2. Head(triglist[o]) = triglist[o][1] /\ 1 \in DOMAIN triglist[o]
    BY <2>1
  <2>3. 1 \in DOMAIN nulled /\ nulled[1] = Null
    BY <1>3, <2>2 DEF Nulled
  <2> HIDE DEF nulled
  <2>4. nulled \in Seq(Triggers)
    BY <1>6 DEF ListOf
  <2> QED  BY <2>3, <2>4
<1> HIDE DEF nulled
<1>8. ListOf(triglist'[o], {t \in Watching(o) : t.who # c})
  <2> DEFINE left == {t \in Watching(o) : t.who # c}
  <2>1. ListOf(Tail(nulled), left \ {Head(nulled)})
    <3> HIDE DEF left
    <3> QED  BY <1>6, <1>7, TailListOf DEF left
  <2>2. Null \notin Watching(o)
    BY <1>2 DEF ListOf
  <2>3. left \ {Head(nulled)} = left
    BY <1>7, <2>2
  <2> QED  BY <1>4, <2>1, <2>3
<1>9. \A p \in Objects : p # o => ListOf(triglist'[p], {t \in Watching(p) : t.who # c})
                                /\ Null \notin Range(triglist'[p])
  <2> SUFFICES ASSUME NEW p \in Objects, p # o
               PROVE  ListOf(triglist'[p], {t \in Watching(p) : t.who # c})
                      /\ Null \notin Range(triglist'[p])
    OBVIOUS
  <2>1. /\ triglist'[p] = Keep(triglist[p], Others(triglist[p], c))
        /\ ListOf(triglist[p], Watching(p)) /\ Null \notin Range(triglist[p])
    BY <1>2, <1>4
  <2> QED  BY <2>1, KeepListOf
<1>10. \A p \in Objects : ListOf(triglist'[p], Watching(p)')
  BY <1>5, <1>8, <1>9
<1>11. \A p \in Objects : Null \in Range(triglist'[p]) => walk'.op = "destroy" /\ walk'.obj = p
  BY <1>2, <1>3, <1>9
<1>12. \A p \in Objects : ~Exists(p)' => Watching(p)' = {} /\ Null \notin Range(triglist'[p])
  <2> TAKE p \in Objects
  <2> HAVE ~Exists(p)'
  <2>1. ~Exists(p) /\ p # o
    BY <1>2, <1>3 DEF Exists
  <2> QED  BY <1>1, <1>5, <1>9, <2>1, NothingListed
<1>13. ListsInv'
  BY <1>10, <1>11, <1>12, ListsInvPrimed
<1>14. triglist' \in [Objects -> Seq(Triggers)]
  <2>1. \A p \in Objects : triglist'[p] \in Seq(Triggers)
    BY <1>10 DEF ListOf
  <2>2. triglist' = [p \in Objects |-> triglist'[p]]
    BY <1>3 DEF ListsWithout
  <2> QED  BY <2>1, <2>2
<1>15. TypeOK'
  <2>1. await' \in [Clients -> Seq(Condition) \cup Seq([obj : Fences])]
    BY <1>1, <1>3, AwaitOverType
  <2>2. ignored' \subseteq Clients
    BY <1>1, <1>3 DEF TypeOK
  <2> QED  BY <1>1, <1>2, <1>3, <1>14, <2>1, <2>2 DEF TypeOK
<1>16. WalkInv'
  BY <1>1, <1>2, <1>3 DEF WalkInv, WalkObject, DueAhead, Exists
<1>17. QuietInv'
  <2> SUFFICES ASSUME NEW p \in Objects, NEW t \in Watching(p)', Pressing(t, p)' PROVE FALSE
    BY DEF QuietInv
  <2>1. t \in Watching(p) /\ Pressing(t, p)
    <3>1. UNCHANGED <<counter, fence, alarm>>
      BY <1>3
    <3> QED  BY <1>1, <1>3, <3>1, PressingAfterAwait
  <2> QED  BY <1>1, <1>2, <2>1, QuietMeans
<1>18. AlarmsAdvance'
  BY <1>1, <1>3 DEF AlarmsAdvance
<1>19. IgnoredWhileWaiting'
  BY <1>1, <1>2, <1>3 DEF IgnoredWhileWaiting, TypeOK
<1> QED  BY <1>13, <1>15, <1>16, <1>17, <1>18, <1>19 DEF SyncInv

(* An alarm was on the counter: it is inactive, and has no counter.        *)
LEMMA DestroyFiresAlarm ==
  ASSUME SyncInv, WalkDestroy,
         NEW a \in Alarms, AlarmCounterDestroyed(walk.obj, a),
         NEW al \in AlarmRecord, al.sync = None, Consistent(al),
         alarm' = [alarm EXCEPT ![a] = al]
  PROVE  SyncInv'
<1>1. TypeOK /\ ListsInv /\ WalkInv /\ QuietInv /\ AlarmsAdvance /\ IgnoredWhileWaiting
  BY DEF SyncInv
<1> PICK o \in Objects : o = walk.obj
  BY DestroyWalk
<1>2. /\ walk.op = "destroy" /\ Exists(o) /\ UNCHANGED closing
      /\ \A p \in Objects : ListOf(triglist[p], Watching(p))
      /\ \A p \in Objects : p # o => Null \notin Range(triglist[p])
  BY DestroyWalk
<1>3. /\ triglist'[o] = Tail(triglist[o])
      /\ \A p \in Objects : p # o => triglist'[p] = triglist[p]
      /\ triglist[o] # << >> /\ a = Head(triglist[o]).who
      /\ UNCHANGED <<counter, fence, await, ignored, walk>>
      /\ triglist' = [triglist EXCEPT ![o] = Tail(triglist[o])]
  BY <1>1 DEF AlarmCounterDestroyed, TypeOK
<1>4. Head(triglist[o]) = Trigger(a, 0) /\ alarm[a] # None /\ alarm[a].sync = o
  <2>1. triglist[o] \in Seq(Triggers) /\ triglist[o] # << >>
    BY <1>2, <1>3 DEF ListOf
  <2>2. Head(triglist[o]) \in Range(triglist[o])
    <3>1. Head(triglist[o]) = triglist[o][1] /\ 1 \in DOMAIN triglist[o]
      BY <2>1
    <3> QED  BY <3>1 DEF Range
  <2>3. Head(triglist[o]) # Null
    BY <1>3, SyncAssumption, TriggerParts DEF Null
  <2>4. Head(triglist[o]) \in Watching(o)
    BY <1>2, <2>2, <2>3 DEF ListOf
  <2> QED  BY <1>1, <1>3, <2>4, Watches, SyncAssumption
<1>5. \A p \in Objects : \A t : t \in Watching(p)' <=> t \in Watching(p) /\ t.who # a
  <2>1. al # None
    BY SyncAssumption
  <2>2. \A p \in Objects : al.sync # p
    BY SyncAssumption
  <2> TAKE p \in Objects
  <2> TAKE t
  <2>3. await' = await
    BY <1>3
  <2>4. t \in Watching(p)' <=>
          \/ t \in Watching(p) /\ t.who # a
          \/ al # None /\ al.sync = p /\ t = Trigger(a, 0)
    BY <1>1, <2>3, AlarmChanged
  <2> QED  BY <2>2, <2>4
<1>6. Watching(o)' = Watching(o) \ {Head(triglist[o])}
  <2>1. \A t \in Watching(o) : t.who = a <=> t = Trigger(a, 0)
    BY <1>1, AlarmWatches, TriggerParts
  <2> QED  BY <1>4, <1>5, <2>1
<1>7. \A p \in Objects : p # o => Watching(p)' = Watching(p)
  <2>1. \A p \in Objects : p # o => \A t \in Watching(p) : t.who # a
    BY <1>1, <1>4, AlarmWatches
  <2> QED  BY <1>5, <2>1
<1>8. ListOf(triglist'[o], Watching(o)')
  <2>1. ListOf(Tail(triglist[o]), Watching(o) \ {Head(triglist[o])})
    BY <1>2, <1>3, TailListOf
  <2> QED  BY <1>3, <1>6, <2>1
<1>9. \A p \in Objects : ListOf(triglist'[p], Watching(p)')
  BY <1>2, <1>3, <1>7, <1>8
<1>10. \A p \in Objects : Null \in Range(triglist'[p]) => walk'.op = "destroy" /\ walk'.obj = p
  BY <1>2, <1>3
<1>11. \A p \in Objects : ~Exists(p)' => Watching(p)' = {} /\ Null \notin Range(triglist'[p])
  <2> TAKE p \in Objects
  <2> HAVE ~Exists(p)'
  <2>1. ~Exists(p) /\ p # o
    BY <1>2, <1>3 DEF Exists
  <2> QED  BY <1>1, <1>3, <1>7, <2>1, NothingListed
<1>12. ListsInv'
  BY <1>9, <1>10, <1>11, ListsInvPrimed
<1>13. triglist' \in [Objects -> Seq(Triggers)]
  <2>1. Tail(triglist[o]) \in Seq(Triggers)
    BY <1>3, <1>8 DEF ListOf
  <2> QED  BY <1>1, <1>3, <2>1 DEF TypeOK
<1>14. TypeOK'
  <2>1. alarm' \in [Alarms -> AlarmRecord \cup {None}]
    BY <1>1 DEF TypeOK
  <2> QED  BY <1>1, <1>2, <1>3, <1>13, <2>1 DEF TypeOK
<1>15. WalkInv'
  BY <1>1, <1>2, <1>3 DEF WalkInv, WalkObject, DueAhead, Exists
<1>16. QuietInv'
  <2> SUFFICES ASSUME NEW p \in Objects, NEW t \in Watching(p)', Pressing(t, p)' PROVE FALSE
    BY DEF QuietInv
  <2>1. UNCHANGED <<counter, fence, await>> /\ al \in AlarmRecord \cup {None}
        /\ (al # None /\ al.sync # None => ~GoesOff(al, counter[al.sync]))
    BY <1>3
  <2>2. t \in Watching(p) /\ Pressing(t, p)
    BY <1>1, <2>1, PressingAfterAlarm
  <2> QED  BY <1>1, <1>2, <2>2, QuietMeans
<1>17. AlarmsAdvance'
  BY <1>1 DEF AlarmsAdvance, Consistent, TypeOK
<1>18. IgnoredWhileWaiting'
  BY <1>1, <1>2, <1>3 DEF IgnoredWhileWaiting
<1> QED  BY <1>12, <1>14, <1>15, <1>16, <1>17, <1>18 DEF SyncInv

(* Nothing looks at the object any more: it is gone.                       *)
LEMMA DestroyEnds ==
  ASSUME SyncInv, WalkDestroy, triglist[walk.obj] = << >>,
         counter' = [k \in Counters |-> IF k = walk.obj THEN None ELSE counter[k]],
         fence' = [f \in Fences |-> IF f = walk.obj THEN None ELSE fence[f]],
         walk' = NoWalk, UNCHANGED <<triglist, await, alarm, ignored>>
  PROVE  SyncInv'
<1>1. TypeOK /\ ListsInv /\ WalkInv /\ QuietInv /\ AlarmsAdvance /\ IgnoredWhileWaiting
  BY DEF SyncInv
<1> PICK o \in Objects : o = walk.obj
  BY DestroyWalk
<1>2. /\ walk.op = "destroy" /\ UNCHANGED closing
      /\ \A p \in Objects : ListOf(triglist[p], Watching(p))
      /\ \A p \in Objects : p # o => Null \notin Range(triglist[p])
  BY DestroyWalk
<1>3. walk'.op = "none"
  BY DEF NoWalk
<1>4. /\ \A k \in Counters : k # o => counter'[k] = counter[k]
      /\ \A f \in Fences : f # o => fence'[f] = fence[f]
  OBVIOUS
<1>5. Watching(o) = {}
  <2>1. Range(<< >>) = {}
    BY DEF Range
  <2> QED  BY <1>2, <2>1 DEF ListOf
<1>6. \A p \in Objects : triglist[p] = << >> \/ (Exists(p)' /\ Null \notin Range(triglist[p]))
  <2> TAKE p \in Objects
  <2>1. CASE p = o
    BY <2>1
  <2>2. CASE p # o /\ Exists(p)
    <3>1. Exists(p)'
      BY <1>4, <2>2 DEF Exists, Objects
    <3> QED  BY <1>2, <2>2, <3>1
  <2>3. CASE ~Exists(p)
    BY <1>1, <2>3 DEF ListsInv
  <2> QED  BY <2>1, <2>2, <2>3
<1>7. ListsInv' /\ AlarmsAdvance' /\ \A p : Watching(p)' = Watching(p)
  BY <1>1, <1>6, WaitingSame
<1>8. TypeOK'
  <2>1. counter' \in [Counters -> Value \cup {None}] /\ fence' \in [Fences -> BOOLEAN \cup {None}]
    BY <1>1 DEF TypeOK
  <2> QED  BY <1>1, <1>2, <2>1 DEF TypeOK, WalkType
<1>9. WalkInv'
  BY <1>3 DEF WalkInv, WalkObject, DueAhead
<1>10. QuietInv'
  <2> SUFFICES ASSUME NEW p \in Objects, NEW t \in Watching(p)', Pressing(t, p)' PROVE FALSE
    BY DEF QuietInv
  <2>1. t \in Watching(p) /\ p # o
    BY <1>5, <1>7
  <2>2. (p \in Counters => counter'[p] = counter[p]) /\ (p \notin Counters => fence'[p] = fence[p])
    BY <1>4, <2>1 DEF Objects
  <2>3. Pressing(t, p)
    BY <2>2, PressingSame
  <2> QED  BY <1>1, <1>2, <2>1, <2>3, QuietMeans
<1>11. IgnoredWhileWaiting'
  BY <1>1, <1>2 DEF IgnoredWhileWaiting
<1> QED  BY <1>7, <1>8, <1>9, <1>10, <1>11 DEF SyncInv

LEMMA WalkDestroyKeeps ==
  ASSUME SyncInv, WalkDestroy
  PROVE  SyncInv'
<1>1. TypeOK /\ ListsInv /\ AlarmsAdvance
  BY DEF SyncInv
<1>2. CASE NullPassed(walk.obj)
  BY <1>2, DestroySkips DEF NullPassed
<1>3. ASSUME NEW c \in Clients, AwaitCounterDestroyed(walk.obj, c) PROVE SyncInv'
  BY <1>3, DestroyFiresClient
<1>4. ASSUME NEW a \in Alarms, AlarmCounterDestroyed(walk.obj, a) PROVE SyncInv'
  <2> DEFINE al == [alarm[a] EXCEPT !.state = "Inactive", !.sync = None]
             o == walk.obj
             t == Head(triglist[o])
  <2>1. alarm[a] \in AlarmRecord /\ Consistent(alarm[a])
    <3>1. t \in Watching(o)
      <4>1. ListOf(triglist[o], Watching(o)) /\ triglist[o] # << >> /\ t.who = a
        BY <1>4, DestroyWalk DEF AlarmCounterDestroyed
      <4>2. triglist[o] \in Seq(Triggers)
        BY <4>1 DEF ListOf
      <4>3. t = triglist[o][1] /\ 1 \in DOMAIN triglist[o]
        BY <4>1, <4>2
      <4>4. t \in Range(triglist[o])
        BY <4>3 DEF Range
      <4>5. t # Null
        BY <4>1, SyncAssumption, TriggerParts DEF Null
      <4> HIDE DEF t
      <4> QED  BY <4>1, <4>4, <4>5 DEF ListOf
    <3>2. t.who = a
      BY <1>4 DEF AlarmCounterDestroyed
    <3> HIDE DEF t
    <3>3. alarm[a] # None
      BY <1>1, <3>1, <3>2, Watches, SyncAssumption
    <3> QED  BY <1>1, <3>3 DEF TypeOK, AlarmsAdvance, Consistent
  <2>2. al \in AlarmRecord /\ al.sync = None /\ Consistent(al)
    BY <2>1 DEF AlarmRecord, Consistent
  <2>3. alarm' = [alarm EXCEPT ![a] = al]
    BY <1>4, Zenon DEF AlarmCounterDestroyed
  <2> HIDE DEF al
  <2> QED  BY <1>4, <2>2, <2>3, DestroyFiresAlarm
<1>5. CASE ObjectFreed(walk.obj)
  BY <1>5, DestroyEnds DEF ObjectFreed
<1> QED  BY <1>2, <1>3, <1>4, <1>5 DEF WalkDestroy

---------------------------------------------------------------------------
(* Requests that only look at a counter or a fence.                        *)

LEMMA IdleMeans ==
  ASSUME SyncInv, walk = NoWalk
  PROVE  /\ TypeOK /\ ListsInv /\ WalkInv /\ QuietInv /\ AlarmsAdvance /\ IgnoredWhileWaiting
         /\ walk.op = "none"
         /\ \A o \in Objects : Null \notin Range(triglist[o])
         /\ \A o \in Objects : triglist[o] = << >> \/ (Exists(o) /\ Null \notin Range(triglist[o]))
         /\ \A o \in Objects : ~Exists(o) => Watching(o) = {}
         /\ \A o \in Objects : \A t \in Watching(o) : ~Pressing(t, o)
<1>1. TypeOK /\ ListsInv /\ WalkInv /\ QuietInv /\ AlarmsAdvance /\ IgnoredWhileWaiting
  BY DEF SyncInv
<1>2. walk.op = "none"
  BY DEF NoWalk
<1>3. \A o \in Objects : Null \notin Range(triglist[o])
  BY <1>1, <1>2 DEF ListsInv
<1>4. \A o \in Objects : triglist[o] = << >> \/ (Exists(o) /\ Null \notin Range(triglist[o]))
  BY <1>1, <1>3 DEF ListsInv
<1>5. \A o \in Objects : ~Exists(o) => Watching(o) = {}
  BY <1>1, NothingListed
<1>6. \A o \in Objects : \A t \in Watching(o) : ~Pressing(t, o)
  BY <1>1, <1>2, QuietMeans
<1> QED  BY <1>1, <1>2, <1>3, <1>4, <1>5, <1>6

(* An object is created, or changes in a way that nothing waits for.       *)
LEMMA ObjectChanges ==
  ASSUME SyncInv, walk = NoWalk, UNCHANGED <<triglist, await, alarm, walk>>, TypeOK',
         IgnoredWhileWaiting',
         \A o \in Objects : Exists(o) => Exists(o)',
         \A o \in Objects : \A t \in Watching(o) : ~Pressing(t, o)'
  PROVE  SyncInv'
<1>1. ListsInv' /\ AlarmsAdvance' /\ \A o : Watching(o)' = Watching(o)
  BY IdleMeans, WaitingSame
<1>2. WalkInv'
  BY IdleMeans DEF WalkInv, WalkObject, DueAhead
<1>3. QuietInv'
  BY <1>1 DEF QuietInv
<1> QED  BY <1>1, <1>2, <1>3 DEF SyncInv

LEMMA CreateCounterKeeps ==
  ASSUME SyncInv, NEW k \in Counters, NEW v \in NewValues, CreateCounter(k, v)
  PROVE  SyncInv'
<1>1. /\ walk = NoWalk /\ counter[k] = None /\ counter' = [counter EXCEPT ![k] = v]
      /\ UNCHANGED <<fence, triglist, await, alarm, ignored, closing, walk>>
  BY DEF CreateCounter, Idle
<1>2. TypeOK /\ IgnoredWhileWaiting
  BY DEF SyncInv
<1>3. v \in Value
  BY SyncAssumption
<1>4. /\ counter'[k] = v
      /\ \A l \in Counters : l # k => counter'[l] = counter[l]
  BY <1>1, <1>2 DEF TypeOK
<1>5. \A o \in Objects : Exists(o) => Exists(o)'
  BY <1>1, <1>3, <1>4, SyncAssumption DEF Exists
<1>6. \A o \in Objects : \A t \in Watching(o) : ~Pressing(t, o)'
  <2> TAKE o \in Objects
  <2> TAKE t \in Watching(o)
  <2>1. Exists(o)
    BY <1>1, IdleMeans
  <2>2. o # k
    BY <1>1, <2>1 DEF Exists
  <2>3. Pressing(t, o)' <=> Pressing(t, o)
    BY <1>1, <1>4, <2>2, PressingSame
  <2> QED  BY <1>1, <2>3, IdleMeans
<1>7. TypeOK' /\ IgnoredWhileWaiting'
  BY <1>1, <1>2, <1>3 DEF TypeOK, IgnoredWhileWaiting
<1> QED  BY <1>1, <1>5, <1>6, <1>7, ObjectChanges

LEMMA CreateFenceKeeps ==
  ASSUME SyncInv, NEW f \in Fences, NEW triggered \in BOOLEAN, CreateFence(f, triggered)
  PROVE  SyncInv'
<1>1. /\ walk = NoWalk /\ fence[f] = None /\ fence' = [fence EXCEPT ![f] = triggered]
      /\ UNCHANGED <<counter, triglist, await, alarm, ignored, closing, walk>>
  BY DEF CreateFence, Idle
<1>2. TypeOK /\ IgnoredWhileWaiting
  BY DEF SyncInv
<1>3. /\ fence'[f] = triggered /\ f \notin Counters
      /\ \A g \in Fences : g # f => fence'[g] = fence[g]
  BY <1>1, <1>2, SyncAssumption DEF TypeOK
<1>4. \A o \in Objects : Exists(o) => Exists(o)'
  BY <1>1, <1>3 DEF Exists, Objects
<1>5. \A o \in Objects : \A t \in Watching(o) : ~Pressing(t, o)'
  <2> TAKE o \in Objects
  <2> TAKE t \in Watching(o)
  <2>1. Exists(o)
    BY <1>1, IdleMeans
  <2>2. o # f
    BY <1>1, <1>3, <2>1 DEF Exists
  <2>3. o \notin Counters => fence'[o] = fence[o]
    BY <1>3, <2>2 DEF Objects
  <2>4. Pressing(t, o)' <=> Pressing(t, o)
    BY <1>1, <2>3, PressingSame
  <2> QED  BY <1>1, <2>4, IdleMeans
<1>6. TypeOK' /\ IgnoredWhileWaiting'
  BY <1>1, <1>2 DEF TypeOK, IgnoredWhileWaiting
<1> QED  BY <1>1, <1>4, <1>5, <1>6, ObjectChanges

(* A fence that is not triggered is nothing to anybody.                    *)
LEMMA ResetFenceKeeps ==
  ASSUME SyncInv, NEW f \in Fences, ResetFence(f)
  PROVE  SyncInv'
<1>1. /\ walk = NoWalk /\ fence[f] = TRUE /\ fence' = [fence EXCEPT ![f] = FALSE]
      /\ UNCHANGED <<counter, triglist, await, alarm, ignored, closing, walk>>
  BY DEF ResetFence, Requesting, Idle
<1>2. TypeOK /\ IgnoredWhileWaiting
  BY DEF SyncInv
<1>3. /\ fence'[f] = FALSE /\ f \notin Counters
      /\ \A g \in Fences : g # f => fence'[g] = fence[g]
  BY <1>1, <1>2, SyncAssumption DEF TypeOK
<1>4. \A o \in Objects : Exists(o) => Exists(o)'
  BY <1>1, <1>3, SyncAssumption DEF Exists, Objects
<1>5. \A o \in Objects : \A t \in Watching(o) : ~Pressing(t, o)'
  <2> TAKE o \in Objects
  <2> TAKE t \in Watching(o)
  <2>1. CASE o = f
    <3>1. t.who \notin Alarms
      <4>1. \A a \in Alarms : alarm[a] # None => alarm[a].sync \in Counters \cup {None}
        BY <1>2 DEF TypeOK, AlarmRecord
      <4>2. f # None
        BY SyncAssumption DEF Objects
      <4> QED  BY <1>2, <1>3, <2>1, <4>1, <4>2, Watches
    <3> QED  BY <1>3, <2>1, <3>1 DEF Pressing, IsTrue
  <2>2. CASE o # f
    <3>1. o \notin Counters => fence'[o] = fence[o]
      BY <1>3, <2>2 DEF Objects
    <3>2. Pressing(t, o)' <=> Pressing(t, o)
      BY <1>1, <3>1, PressingSame
    <3> QED  BY <1>1, <3>2, IdleMeans
  <2> QED  BY <2>1, <2>2
<1>6. TypeOK' /\ IgnoredWhileWaiting'
  BY <1>1, <1>2 DEF TypeOK, IgnoredWhileWaiting
<1> QED  BY <1>1, <1>4, <1>5, <1>6, ObjectChanges

(* The clients that wait for the fence are attended to next.               *)
LEMMA TriggerFenceKeeps ==
  ASSUME SyncInv, NEW f \in Fences, TriggerFence(f)
  PROVE  SyncInv'
<1>1. /\ walk = NoWalk /\ fence[f] # None /\ fence' = [fence EXCEPT ![f] = TRUE]
      /\ walk' = [op |-> "fence", obj |-> f]
      /\ UNCHANGED <<counter, triglist, await, alarm, ignored, closing>>
  BY DEF TriggerFence, Requesting, Idle
<1>2. TypeOK /\ ListsInv /\ QuietInv /\ AlarmsAdvance /\ IgnoredWhileWaiting
  BY DEF SyncInv
<1>3. /\ fence'[f] = TRUE /\ f \notin Counters
      /\ \A g \in Fences : g # f => fence'[g] = fence[g]
  BY <1>1, <1>2, SyncAssumption DEF TypeOK
<1>4. walk'.op = "fence" /\ walk'.obj = f
  BY <1>1
<1>5. \A o \in Objects : Exists(o) => Exists(o)'
  BY <1>1, <1>3, SyncAssumption DEF Exists, Objects
<1>6. ListsInv' /\ AlarmsAdvance' /\ \A o : Watching(o)' = Watching(o)
  BY <1>1, <1>2, <1>5, IdleMeans, WaitingSame
<1>7. WalkInv'
  <2>1. f \in Objects
    BY DEF Objects
  <2> QED  BY <1>1, <1>3, <1>4, SyncAssumption DEF WalkInv, WalkObject, DueAhead, Exists
<1>8. QuietInv'
  <2> SUFFICES ASSUME NEW o \in Objects, NEW t \in Watching(o)', Pressing(t, o)'
               PROVE  o = f
    BY <1>4 DEF QuietInv
  <2> SUFFICES ASSUME o # f PROVE FALSE
    OBVIOUS
  <2>1. o \notin Counters => fence'[o] = fence[o]
    BY <1>3 DEF Objects
  <2>2. t \in Watching(o) /\ Pressing(t, o)
    BY <1>1, <1>6, <2>1, PressingSame
  <2> QED  BY <1>1, <2>2, IdleMeans
<1>9. TypeOK'
  BY <1>1, <1>2 DEF TypeOK, WalkType
<1>10. IgnoredWhileWaiting'
  BY <1>1, <1>2 DEF IgnoredWhileWaiting
<1> QED  BY <1>6, <1>7, <1>8, <1>9, <1>10 DEF SyncInv

LEMMA StartDestroyKeeps ==
  ASSUME SyncInv, walk = NoWalk, NEW o \in Objects, Exists(o), StartDestroy(o)
  PROVE  SyncInv'
<1>1. /\ walk' = [op |-> "destroy", obj |-> o]
      /\ UNCHANGED <<counter, fence, triglist, await, alarm, ignored, closing>>
  BY DEF StartDestroy
<1>2. TypeOK /\ ListsInv /\ QuietInv /\ AlarmsAdvance /\ IgnoredWhileWaiting
  BY DEF SyncInv
<1>3. walk'.op = "destroy" /\ walk'.obj = o
  BY <1>1
<1>4. \A p \in Objects : Exists(p) <=> Exists(p)'
  BY <1>1 DEF Exists
<1>5. ListsInv' /\ AlarmsAdvance' /\ \A p : Watching(p)' = Watching(p)
  BY <1>1, <1>2, <1>4, IdleMeans, WaitingSame
<1>6. WalkInv'
  BY <1>1, <1>3 DEF WalkInv, WalkObject, DueAhead, Exists
<1>7. QuietInv'
  <2> SUFFICES ASSUME NEW p \in Objects, NEW t \in Watching(p)', Pressing(t, p)' PROVE FALSE
    BY DEF QuietInv
  <2>1. t \in Watching(p) /\ Pressing(t, p)
    BY <1>1, <1>5, PressingSame
  <2> QED  BY <2>1, IdleMeans
<1>8. TypeOK'
  BY <1>1, <1>2 DEF TypeOK, WalkType
<1>9. IgnoredWhileWaiting'
  BY <1>1, <1>2 DEF IgnoredWhileWaiting
<1> QED  BY <1>5, <1>6, <1>7, <1>8, <1>9 DEF SyncInv

(* SyncChangeCounter: what is true is due.                                 *)
LEMMA StartChangeKeeps ==
  ASSUME SyncInv, walk = NoWalk, NEW k \in Counters, counter[k] # None,
         NEW val \in Value, StartChange(k, val)
  PROVE  SyncInv'
<1> DEFINE list == triglist[k]
           due == {t \in Range(list) : Active(t) /\ IsTrue(t, k, counter[k], val)}
<1>1. /\ counter' = [counter EXCEPT ![k] = val]
      /\ walk' = [op |-> "change", obj |-> k, cur |-> FirstOf(list),
                  oldval |-> counter[k], due |-> due]
      /\ UNCHANGED <<fence, triglist, await, alarm, ignored, closing>>
  BY DEF StartChange
<1>2. TypeOK /\ ListsInv /\ QuietInv /\ AlarmsAdvance /\ IgnoredWhileWaiting
  BY DEF SyncInv
<1>3. /\ counter'[k] = val /\ k \in Objects
      /\ \A l \in Counters : l # k => counter'[l] = counter[l]
  BY <1>1, <1>2 DEF TypeOK, Objects
<1> HIDE DEF due
<1>4. /\ walk'.op = "change" /\ walk'.obj = k /\ walk'.cur = FirstOf(list)
      /\ walk'.oldval = counter[k] /\ walk'.due = due
  BY <1>1
<1>5. \A o \in Objects : Exists(o) => Exists(o)'
  BY <1>1, <1>3, SyncAssumption DEF Exists
<1>6. ListsInv' /\ AlarmsAdvance' /\ \A o : Watching(o)' = Watching(o)
  BY <1>1, <1>2, <1>5, IdleMeans, WaitingSame
<1>7. list \in Seq(Triggers) /\ Null \notin Range(list) /\ Range(list) = Watching(k)
  BY <1>2, <1>3, IdleMeans DEF ListsInv, ListOf
<1>8. due \subseteq Range(list)
  BY DEF due
<1>9. WalkInv'
  <2>1. WalkObject'
    BY <1>3, <1>4, SyncAssumption DEF WalkObject, Exists
  <2>2. FirstOf(list) # Null => FirstOf(list) \in Range(list)
    BY <1>7, AheadOfFirst
  <2>3. ASSUME NEW t \in due
        PROVE  /\ t # Null /\ FirstOf(list) # Null /\ Ahead(FirstOf(list), t, list)
               /\ IsTrue(t, k, counter[k], val)
    <3>1. t \in Range(list) /\ IsTrue(t, k, counter[k], val)
      BY DEF due
    <3>2. Ahead(FirstOf(list), t, list)
      BY <1>7, <3>1, AheadOfFirst
    <3>3. FirstOf(list) \in Range(list)
      BY <3>2 DEF Ahead, Range
    <3> QED  BY <1>7, <3>1, <3>2, <3>3
  <2>4. DueAhead'
    BY <1>1, <1>3, <1>4, <2>2, <2>3 DEF DueAhead, IsTrue, Ahead
  <2> QED  BY <2>1, <2>4 DEF WalkInv
<1>10. QuietInv'
  <2> SUFFICES ASSUME NEW o \in Objects, NEW t \in Watching(o)', Pressing(t, o)'
               PROVE  o = k /\ t \in due
    BY <1>4 DEF QuietInv
  <2>1. t \in Watching(o)
    BY <1>6
  <2>2. CASE o # k
    <3>1. Pressing(t, o)
      BY <1>1, <1>3, <2>2, PressingSame
    <3> QED  BY <2>1, <3>1, IdleMeans
  <2>3. CASE o = k
    <3>1. t \in Range(list)
      BY <1>7, <2>1, <2>3
    <3>2. Active(t)
      BY <1>1 DEF Pressing, Active
    <3>3. IsTrue(t, k, counter[k], val)
      <4>1. k \notin Fences
        BY SyncAssumption
      <4>2. CASE t.who \in Alarms
        <5>1. alarm[t.who].check \in ComparisonTypes
              /\ CheckTrigger(alarm[t.who].check, alarm[t.who].value, val, val)
          BY <1>1, <1>3, <2>3, <4>2 DEF Pressing, IsTrue
        <5> QED  BY <4>2, <5>1, ComparisonIgnoresOld DEF IsTrue
      <4>3. CASE t.who \notin Alarms
        <5>1. await[t.who][t.nr].testType \in ComparisonTypes
              /\ CheckTrigger(await[t.who][t.nr].testType, await[t.who][t.nr].value, val, val)
          BY <1>1, <1>3, <2>3, <4>1, <4>3 DEF Pressing, IsTrue
        <5> QED  BY <4>1, <4>3, <5>1, ComparisonIgnoresOld DEF IsTrue
      <4> QED  BY <4>2, <4>3
    <3> QED  BY <2>3, <3>1, <3>2, <3>3 DEF due
  <2> QED  BY <2>2, <2>3
<1>11. TypeOK'
  <2>1. Null \in Triggers
    BY DEF Null, Trigger, Triggers
  <2>2. FirstOf(list) \in Triggers /\ due \in SUBSET Triggers
    <3>1. \A t \in Range(list) : t \in Triggers
      BY <1>7 DEF Range
    <3> QED  BY <1>7, <1>8, <2>1, <3>1, AheadOfFirst
  <2>3. counter[k] \in Value
    BY <1>2 DEF TypeOK
  <2>4. walk' \in WalkType
    BY <1>1, <2>2, <2>3 DEF WalkType
  <2> QED  BY <1>1, <1>2, <2>4 DEF TypeOK
<1>12. IgnoredWhileWaiting'
  BY <1>1, <1>2 DEF IgnoredWhileWaiting
<1> QED  BY <1>6, <1>9, <1>10, <1>11, <1>12 DEF SyncInv

---------------------------------------------------------------------------
(* Requests of a client that waits.                                        *)

(* A client begins to wait for what does not hold.                         *)
LEMMA AwaitStarts ==
  ASSUME SyncInv, Idle, NEW c \in Clients, c \notin ignored,
         NEW conds \in Seq(Condition) \cup Seq([obj : Fences]), conds # << >>,
         \A i \in DOMAIN conds : conds[i].obj \in Objects /\ Exists(conds[i].obj),
         \A i \in DOMAIN conds : conds[i].obj \in Fences => ~fence[conds[i].obj],
         \A i \in DOMAIN conds : conds[i].obj \in Counters =>
           ~CheckTrigger(conds[i].testType, conds[i].value,
                         counter[conds[i].obj], counter[conds[i].obj]),
         await' = [await EXCEPT ![c] = conds],
         ignored' = ignored \cup {c},
         triglist' = ListsWith(c, conds),
         UNCHANGED <<counter, fence, alarm, closing, walk>>
  PROVE  SyncInv'
<1>1. TypeOK /\ ListsInv /\ WalkInv /\ QuietInv /\ AlarmsAdvance /\ IgnoredWhileWaiting
  BY DEF SyncInv
<1>2. walk = NoWalk /\ walk.op = "none" /\ closing = None
  BY IdleMeans DEF Idle
<1>3. await[c] = << >>
  BY <1>1, <1>2, SyncAssumption DEF IgnoredWhileWaiting
<1> DEFINE mine(o) == {i \in DOMAIN conds : conds[i].obj = o}
           put(o) == {Trigger(c, i) : i \in mine(o)}
<1>4. \A o : /\ Watching(o)' = Watching(o) \cup put(o)
             /\ \A t \in Watching(o) : t.who # c
  BY <1>1, <1>3, AwaitBegins
<1>5. ASSUME NEW o \in Objects
      PROVE  ListOf(triglist'[o], Watching(o)') /\ Null \notin Range(triglist'[o])
  <2> DEFINE K == mine(o)
             n == Cardinality(K)
             new == [j \in 1..n |-> Trigger(c, Nth(K, n + 1 - j))]
  <2>1. K \in SUBSET Nat /\ IsFiniteSet(K)
    <3>1. DOMAIN conds = 1..Len(conds) /\ Len(conds) \in Nat
      OBVIOUS
    <3>2. IsFiniteSet(DOMAIN conds)
      BY <3>1, FS_Interval
    <3>3. K \subseteq DOMAIN conds
      OBVIOUS
    <3> QED  BY <3>1, <3>2, <3>3, FS_Subset
  <2> HIDE DEF K
  <2>2. /\ n \in Nat
        /\ \A j \in 1..n : Nth(K, j) \in K /\ Rank(K, Nth(K, j)) = j
        /\ \A i \in K : Rank(K, i) \in 1..n /\ Nth(K, Rank(K, i)) = i
    BY <2>1, NthProperties
  <2> HIDE DEF n
  <2>3. \A j \in 1..n : n + 1 - j \in 1..n /\ Nth(K, n + 1 - j) \in Nat
    <3> TAKE j \in 1..n
    <3>1. n + 1 - j \in 1..n
      BY <2>2
    <3> QED  BY <2>1, <2>2, <3>1
  <2>4. new \in Seq(Triggers) /\ DOMAIN new = 1..n
    <3>1. \A j \in 1..n : Trigger(c, Nth(K, n + 1 - j)) \in Triggers
      BY <2>3 DEF Trigger, Triggers
    <3> QED  BY <2>2, <3>1
  <2>5. \A i, j \in DOMAIN new : new[i] = new[j] => i = j
    <3> TAKE i, j \in DOMAIN new
    <3> HAVE new[i] = new[j]
    <3>1. i \in 1..n /\ j \in 1..n
      BY <2>4
    <3>2. new[i] = Trigger(c, Nth(K, n + 1 - i)) /\ new[j] = Trigger(c, Nth(K, n + 1 - j))
      BY <3>1
    <3>3. Nth(K, n + 1 - i) = Nth(K, n + 1 - j)
      BY <3>2, TriggerParts
    <3>4. n + 1 - i \in 1..n /\ n + 1 - j \in 1..n
      BY <2>3, <3>1
    <3>5. n + 1 - i = n + 1 - j
      BY <2>2, <3>3, <3>4
    <3> QED  BY <2>2, <3>1, <3>5
  <2>6. Range(new) = put(o)
    <3>1. ASSUME NEW t \in Range(new) PROVE t \in {Trigger(c, i) : i \in K}
      <4>1. PICK j \in 1..n : t = Trigger(c, Nth(K, n + 1 - j))
        BY <2>4 DEF Range
      <4>2. Nth(K, n + 1 - j) \in K
        BY <2>2, <2>3
      <4> QED  BY <4>1, <4>2
    <3>2. ASSUME NEW i \in K PROVE Trigger(c, i) \in Range(new)
      <4> DEFINE j == n + 1 - Rank(K, i)
      <4>1. Rank(K, i) \in 1..n /\ Nth(K, Rank(K, i)) = i
        BY <2>2
      <4>2. j \in 1..n /\ n + 1 - j = Rank(K, i)
        BY <2>2, <4>1
      <4>3. j \in DOMAIN new /\ new[j] = Trigger(c, Nth(K, n + 1 - j))
        BY <2>4, <4>2
      <4> HIDE DEF j, new
      <4>4. new[j] = Trigger(c, i)
        BY <4>1, <4>2, <4>3
      <4> QED  BY <4>3, <4>4 DEF Range
    <3> HIDE DEF new
    <3>3. Range(new) = {Trigger(c, i) : i \in K}
      BY <3>1, <3>2
    <3> QED  BY <3>3 DEF K
  <2>7. triglist'[o] = new \o triglist[o]
    BY DEF ListsWith, K, n
  <2> HIDE DEF new
  <2>8. /\ Null \notin Range(new)
        /\ Range(new) \cap Watching(o) = {}
    <3>1. \A t \in Range(new) : t.who = c
      BY <2>6, TriggerParts
    <3>2. Null.who # c
      BY SyncAssumption, TriggerParts DEF Null
    <3> QED  BY <1>4, <3>1, <3>2
  <2>9. ListOf(triglist[o], Watching(o)) /\ Null \notin Range(triglist[o])
    BY <1>1, <1>2, IdleMeans DEF ListsInv
  <2>10. /\ ListOf(new \o triglist[o], Watching(o) \cup Range(new))
         /\ Null \in Range(new \o triglist[o]) => Null \in Range(triglist[o])
    BY <2>4, <2>5, <2>8, <2>9, PutListOf
  <2> QED  BY <1>4, <2>6, <2>7, <2>9, <2>10
<1>6. \A o \in Objects : ~Exists(o)' => Watching(o)' = {}
  <2> TAKE o \in Objects
  <2> HAVE ~Exists(o)'
  <2>1. ~Exists(o)
    BY DEF Exists
  <2>2. Watching(o) = {} /\ mine(o) = {}
    BY <1>2, <2>1, IdleMeans
  <2> QED  BY <1>4, <2>2
<1>7. ListsInv'
  BY <1>5, <1>6, ListsInvPrimed
<1>8. TypeOK'
  <2>1. \A o \in Objects : triglist'[o] \in Seq(Triggers)
    BY <1>5 DEF ListOf
  <2>2. triglist' = [o \in Objects |-> triglist'[o]]
    BY DEF ListsWith
  <2>3. triglist' \in [Objects -> Seq(Triggers)]
    BY <2>1, <2>2
  <2>4. await' \in [Clients -> Seq(Condition) \cup Seq([obj : Fences])]
    BY <1>1 DEF TypeOK
  <2>5. ignored' \subseteq Clients
    BY <1>1 DEF TypeOK
  <2> QED  BY <1>1, <2>3, <2>4, <2>5 DEF TypeOK
<1>9. WalkInv'
  BY <1>2 DEF WalkInv, WalkObject, DueAhead
<1>10. QuietInv'
  <2> SUFFICES ASSUME NEW o \in Objects, NEW t \in Watching(o)', Pressing(t, o)' PROVE FALSE
    BY DEF QuietInv
  <2>1. /\ await'[c] = conds
        /\ \A d \in Clients : d # c => await'[d] = await[d]
    BY <1>1 DEF TypeOK
  <2>2. CASE t \in Watching(o)
    <3>1. t.who # c /\ (t.who \notin Alarms => t.who \in Clients)
      BY <1>1, <1>4, <2>2, Watches
    <3>2. t.who \notin Alarms => await'[t.who] = await[t.who]
      BY <2>1, <3>1
    <3>3. Pressing(t, o)
      BY <3>2, PressingSame
    <3> QED  BY <1>2, <2>2, <3>3, IdleMeans
  <2>3. CASE t \in put(o)
    <3>1. PICK i \in DOMAIN conds : conds[i].obj = o /\ t = Trigger(c, i)
      BY <2>3
    <3>2. t.who = c /\ t.nr = i /\ c \notin Alarms
      BY <3>1, SyncAssumption, TriggerParts
    <3>3. CASE o \in Counters
      <4>1. o \notin Fences
        BY <3>3, SyncAssumption
      <4>2. CheckTrigger(conds[i].testType, conds[i].value, counter[o], counter[o])
        BY <2>1, <3>2, <3>3, <4>1 DEF Pressing, IsTrue
      <4> QED  BY <3>1, <3>3, <4>2
    <3>4. CASE o \notin Counters
      <4>1. o \in Fences
        BY <3>4 DEF Objects
      <4>2. fence[o]
        BY <3>2, <3>4, <4>1 DEF Pressing, IsTrue
      <4> QED  BY <3>1, <4>1, <4>2
    <3> QED  BY <3>3, <3>4
  <2> QED  BY <1>4, <2>2, <2>3
<1>11. AlarmsAdvance'
  BY <1>1 DEF AlarmsAdvance
<1>12. IgnoredWhileWaiting'
  BY <1>1 DEF IgnoredWhileWaiting, TypeOK
<1> QED  BY <1>7, <1>8, <1>9, <1>10, <1>11, <1>12 DEF SyncInv

LEMMA AwaitKeeps ==
  ASSUME SyncInv, NEW c \in Clients, NEW request \in Awaits, Await(c, request)
  PROVE  SyncInv'
<1> DEFINE test(cond) == cond.value +
             (IF cond.valueType = "Relative" THEN counter[cond.obj] ELSE 0)
           conds == [i \in DOMAIN request |->
                       [request[i] EXCEPT !.value = test(request[i])]]
           holds == \E i \in DOMAIN conds :
                      CheckTrigger(conds[i].testType, conds[i].value,
                                   counter[conds[i].obj], counter[conds[i].obj])
<1>1. /\ Idle /\ c \notin ignored
      /\ \A i \in DOMAIN request : counter[request[i].obj] # None
      /\ \A i \in DOMAIN request : ~Overflows(test(request[i]))
      /\ StartAwait(c, conds, holds)
  BY Zenon DEF Await
<1>2. request \in Seq(Condition) /\ request # << >>
  BY SyncAssumption
<1>3. \A i \in DOMAIN request :
        /\ conds[i] \in Condition
        /\ conds[i].obj = request[i].obj
  <2> TAKE i \in DOMAIN request
  <2>1. request[i] \in Condition
    BY <1>2
  <2>2. test(request[i]) \in Value
    BY <1>1 DEF Overflows
  <2> HIDE DEF test
  <2>3. conds[i] = [request[i] EXCEPT !.value = test(request[i])]
    OBVIOUS
  <2> QED  BY <2>1, <2>2, <2>3 DEF Condition
<1>4. conds \in Seq(Condition) /\ DOMAIN conds = DOMAIN request /\ conds # << >>
  <2>1. \A i \in DOMAIN request : conds[i] \in Condition
    BY <1>3
  <2>2. DOMAIN request = 1..Len(request) /\ Len(request) \in Nat \ {0}
    BY <1>2
  <2>3. conds = [i \in 1..Len(request) |-> conds[i]]
    BY <2>2
  <2> HIDE DEF conds
  <2>4. conds \in Seq(Condition)
    BY <2>1, <2>2, <2>3
  <2>5. Len(conds) = Len(request)
    BY <2>2, <2>3
  <2> QED  BY <2>2, <2>3, <2>4, <2>5
<1>5. \A i \in DOMAIN conds : /\ conds[i].obj \in Counters /\ conds[i].obj \in Objects
                              /\ conds[i].obj \notin Fences /\ Exists(conds[i].obj)
  <2> TAKE i \in DOMAIN conds
  <2>1. conds[i] \in Condition /\ counter[conds[i].obj] # None
    BY <1>1, <1>3, <1>4
  <2> HIDE DEF conds
  <2>2. conds[i].obj \in Counters
    BY <2>1 DEF Condition
  <2> QED  BY <2>1, <2>2, SyncAssumption DEF Objects, Exists
<1> HIDE DEF conds
<1>6. /\ await' = [await EXCEPT ![c] = conds] /\ ignored' = ignored \cup {c}
      /\ triglist' = ListsWith(c, conds)
      /\ UNCHANGED <<counter, fence, alarm, closing, walk>>
      /\ ~holds
  BY <1>1 DEF StartAwait
<1>7. \A i \in DOMAIN conds : conds[i].obj \in Counters =>
           ~CheckTrigger(conds[i].testType, conds[i].value,
                         counter[conds[i].obj], counter[conds[i].obj])
  BY <1>6
<1> QED  BY <1>1, <1>4, <1>5, <1>6, <1>7, AwaitStarts

LEMMA AwaitFenceKeeps ==
  ASSUME SyncInv, NEW c \in Clients, NEW fences \in FenceAwaits, AwaitFence(c, fences)
  PROVE  SyncInv'
<1> DEFINE conds == [i \in DOMAIN fences |-> [obj |-> fences[i]]]
           holds == \E i \in DOMAIN fences : fence[fences[i]]
<1>1. /\ Idle /\ c \notin ignored
      /\ \A i \in DOMAIN fences : fence[fences[i]] # None
      /\ StartAwait(c, conds, holds)
  BY Zenon DEF AwaitFence
<1>2. fences \in Seq(Fences) /\ fences # << >>
  BY SyncAssumption
<1>3. \A i \in DOMAIN fences :
        conds[i] \in [obj : Fences] /\ conds[i].obj = fences[i] /\ fences[i] \in Fences
  BY <1>2
<1>4. conds \in Seq([obj : Fences]) /\ DOMAIN conds = DOMAIN fences /\ conds # << >>
  <2>1. DOMAIN fences = 1..Len(fences) /\ Len(fences) \in Nat \ {0}
    BY <1>2
  <2>2. conds = [i \in 1..Len(fences) |-> conds[i]]
    BY <2>1
  <2>3. \A i \in 1..Len(fences) : conds[i] \in [obj : Fences]
    BY <1>3, <2>1
  <2> HIDE DEF conds
  <2>4. conds \in Seq([obj : Fences])
    BY <2>1, <2>2, <2>3
  <2>5. Len(conds) = Len(fences)
    BY <2>1, <2>2
  <2> QED  BY <2>1, <2>2, <2>4, <2>5
<1>5. \A i \in DOMAIN conds : /\ conds[i].obj \in Fences /\ conds[i].obj \in Objects
                              /\ conds[i].obj \notin Counters /\ Exists(conds[i].obj)
                              /\ conds[i].obj = fences[i]
  <2> TAKE i \in DOMAIN conds
  <2>1. conds[i].obj = fences[i] /\ fences[i] \in Fences /\ fence[fences[i]] # None
    BY <1>1, <1>3, <1>4
  <2> HIDE DEF conds
  <2> QED  BY <2>1, SyncAssumption DEF Objects, Exists
<1> HIDE DEF conds
<1>6. /\ await' = [await EXCEPT ![c] = conds] /\ ignored' = ignored \cup {c}
      /\ triglist' = ListsWith(c, conds)
      /\ UNCHANGED <<counter, fence, alarm, closing, walk>>
      /\ ~holds
  BY <1>1 DEF StartAwait
<1>7. \A i \in DOMAIN conds : conds[i].obj \in Fences => ~fence[conds[i].obj]
  BY <1>4, <1>5, <1>6
<1>8. \A i \in DOMAIN conds : conds[i].obj \in Counters =>
           ~CheckTrigger(conds[i].testType, conds[i].value,
                         counter[conds[i].obj], counter[conds[i].obj])
  BY <1>5
<1> QED  BY <1>1, <1>4, <1>5, <1>6, <1>7, <1>8, AwaitStarts

---------------------------------------------------------------------------
(* Requests about alarms.                                                  *)

(* SyncChangeAlarmAttributes leaves an alarm that is consistent, on no     *)
(* counter or on one that exists.                                          *)
LEMMA WithAttributesProperties ==
  ASSUME TypeOK, NEW al \in AlarmRecord, Consistent(al),
         NEW r \in AlarmRequests, WithAttributes(al, r).ok
  PROVE  LET new == WithAttributes(al, r).alarm
         IN  /\ new \in AlarmRecord
             /\ Consistent(new)
             /\ new.sync # None => counter[new.sync] \in Value
<1> DEFINE type == Given(r, "testType", al.type)
           delta == Given(r, "delta", al.delta)
           sync == Given(r, "counter", al.sync)
           valueType == Given(r, "valueType", al.valueType)
           wait == Given(r, "value", al.wait)
           mismatch == /\ DOMAIN r \cap {"delta", "testType"} # {}
                       /\ ~DeltaMatches(type, delta)
           stored == [al EXCEPT !.type = type, !.delta = delta,
                                !.valueType = valueType, !.wait = wait]
           unknown == sync # None /\ counter[sync] = None
           revalued == DOMAIN r \cap {"valueType", "value"} # {}
           relative == stored.valueType = "Relative"
           test == IF ~revalued THEN al.value
                   ELSE IF relative THEN stored.wait + counter[sync] ELSE stored.wait
           check == SelectedCheck(al, r)
           new == [stored EXCEPT !.value = test, !.sync = sync,
                                 !.state = "Active", !.check = check]
           bad == unknown \/ (revalued /\ relative /\ sync = None)
           result ==
             IF mismatch THEN [ok |-> FALSE, alarm |-> al]
             ELSE IF bad THEN [ok |-> FALSE, alarm |-> stored]
             ELSE IF Overflows(test)
             THEN [ok |-> FALSE, alarm |-> [stored EXCEPT !.value = Wrapped(test)]]
             ELSE [ok |-> TRUE, alarm |-> new]
<1>1. WithAttributes(al, r) = result
  BY DEF WithAttributes
<1>2. /\ type \in TestType /\ delta \in Value /\ sync \in Counters \cup {None}
      /\ valueType \in ValueType /\ wait \in Value /\ check = type
  BY AlarmRequestAssumption DEF Given, AlarmRecord, SelectedCheck, Consistent
<1>3. DeltaMatches(type, delta) \/ mismatch
  BY DEF Given, Consistent
<1> HIDE DEF type, delta, sync, valueType, wait, check, test, mismatch, bad
<1>4. stored \in AlarmRecord
  BY <1>2 DEF AlarmRecord
<1>5. ~mismatch /\ ~bad /\ ~Overflows(test) /\ WithAttributes(al, r).alarm = new
  <2> HIDE DEF stored, new
  <2>1. result.ok
    BY <1>1
  <2>2. ~mismatch
    BY <2>1
  <2>3. ~bad
    BY <2>1, <2>2
  <2>4. ~Overflows(test)
    BY <2>1, <2>2, <2>3
  <2> QED  BY <1>1, <2>2, <2>3, <2>4
<1>6. new \in AlarmRecord /\ Consistent(new) /\ new.sync = sync
  <2>1. test \in Value
    BY <1>5 DEF Overflows
  <2>2. DeltaMatches(type, delta)
    BY <1>3, <1>5
  <2>3. stored.type = type /\ stored.delta = delta
    BY DEF AlarmRecord
  <2> HIDE DEF stored
  <2>4. new \in AlarmRecord
    BY <1>2, <1>4, <2>1 DEF AlarmRecord
  <2>5. new.check = check /\ new.type = stored.type /\ new.delta = stored.delta /\ new.sync = sync
    BY <1>4 DEF AlarmRecord
  <2> HIDE DEF new
  <2> QED  BY <1>2, <2>2, <2>3, <2>4, <2>5 DEF Consistent
<1>7. sync # None => counter[sync] \in Value
  <2>1. ~(sync # None /\ counter[sync] = None)
    BY <1>5 DEF bad
  <2> QED  BY <1>2, <2>1 DEF TypeOK
<1> HIDE DEF new
<1> QED  BY <1>5, <1>6, <1>7

LEMMA NewAlarmProperties == NewAlarm \in AlarmRecord /\ Consistent(NewAlarm)
<1>1. 0 \in Value /\ 1 \in Value
  BY ValueBounds
<1>2. DeltaMatches("PositiveComparison", 1)
  BY DEF DeltaMatches, PositiveTypes, NegativeTypes
<1> QED
  BY <1>1, <1>2 DEF NewAlarm, AlarmRecord, Consistent, TestType, PositiveTypes, ValueType

(* An alarm is created, changes or is freed, and does not go off then.     *)
LEMMA AlarmIsChanged ==
  ASSUME SyncInv, walk = NoWalk, NEW a \in Alarms, NEW al \in AlarmRecord \cup {None},
         alarm' = [alarm EXCEPT ![a] = al],
         UNCHANGED <<counter, fence, await, ignored, closing, walk>>,
         NEW to, to = IF al = None THEN None ELSE al.sync,
         to # None => counter[to] # None,
         triglist' = ListsMoved(a, CounterOf(a), to),
         al # None => Consistent(al),
         al # None /\ al.sync # None => ~GoesOff(al, counter[al.sync])
  PROVE  SyncInv'
<1>1. TypeOK /\ ListsInv /\ WalkInv /\ AlarmsAdvance /\ IgnoredWhileWaiting
      /\ walk.op = "none"
  BY IdleMeans
<1>2. to # None => to \in Objects /\ Exists(to)
  <2>1. al # None => al.sync \in Counters \cup {None}
    BY DEF AlarmRecord
  <2> QED  BY <2>1 DEF Objects, Exists
<1>3. /\ ListsInv'
      /\ triglist' \in [Objects -> Seq(Triggers)]
      /\ alarm' \in [Alarms -> AlarmRecord \cup {None}]
  BY <1>1, <1>2, AlarmMoves
<1>4. TypeOK'
  BY <1>1, <1>3 DEF TypeOK
<1>5. WalkInv'
  BY <1>1 DEF WalkInv, WalkObject, DueAhead
<1>6. QuietInv'
  <2> SUFFICES ASSUME NEW o \in Objects, NEW t \in Watching(o)', Pressing(t, o)' PROVE FALSE
    BY DEF QuietInv
  <2>1. t \in Watching(o) /\ Pressing(t, o)
    BY <1>1, PressingAfterAlarm
  <2> QED  BY <2>1, IdleMeans
<1>7. AlarmsAdvance'
  <2>1. /\ alarm'[a] = al
        /\ \A b \in Alarms : b # a => alarm'[b] = alarm[b]
    BY <1>1 DEF TypeOK
  <2> QED  BY <1>1, <2>1 DEF AlarmsAdvance, Consistent
<1>8. IgnoredWhileWaiting'
  BY <1>1 DEF IgnoredWhileWaiting
<1> QED  BY <1>3, <1>4, <1>5, <1>6, <1>7, <1>8 DEF SyncInv

LEMMA HoldsNowMeans ==
  ASSUME NEW al \in AlarmRecord, al.sync # None, ~HoldsNow(al)
  PROVE  ~GoesOff(al, counter[al.sync])
BY DEF HoldsNow, GoesOff

(* ProcSyncCreateAlarm, ProcSyncChangeAlarm: an alarm whose trigger holds  *)
(* has gone off before the request is over.                                *)
LEMMA GoneOff ==
  ASSUME NEW al \in AlarmRecord, Consistent(al),
         al.sync # None => counter[al.sync] \in Value, NEW fires \in BOOLEAN,
         al.sync # None /\ HoldsNow(al) => fires
  PROVE  LET new == IF fires THEN AlarmFired(al) ELSE al
         IN  /\ new \in AlarmRecord /\ new.sync = al.sync /\ Consistent(new)
             /\ new.sync # None => ~GoesOff(new, counter[new.sync])
<1>1. CASE fires
  BY <1>1, AlarmFiredProperties
<1>2. CASE ~fires
  BY <1>2, HoldsNowMeans
<1> QED  BY <1>1, <1>2

LEMMA CreateAlarmKeeps ==
  ASSUME SyncInv, NEW a \in Alarms, NEW r \in AlarmRequests, CreateAlarm(a, r)
  PROVE  SyncInv'
<1> DEFINE with == WithAttributes(NewAlarm, r)
           al == with.alarm
           off == [al EXCEPT !.state = "Inactive"]
           new == IF al.sync = None THEN off
                  ELSE IF HoldsNow(al) THEN AlarmFired(al) ELSE al
<1>1. /\ walk = NoWalk /\ alarm[a] = None /\ with.ok
      /\ alarm' = [alarm EXCEPT ![a] = new]
      /\ triglist' = ListsMoved(a, None, al.sync)
      /\ UNCHANGED <<counter, fence, await, ignored, closing, walk>>
  BY DEF CreateAlarm, Idle
<1>2. TypeOK
  BY DEF SyncInv
<1>3. al \in AlarmRecord /\ Consistent(al) /\ (al.sync # None => counter[al.sync] \in Value)
  <2>1. with.ok
    BY <1>1
  <2> QED  BY <1>2, <2>1, NewAlarmProperties, WithAttributesProperties
<1> HIDE DEF with
<1>4. /\ new \in AlarmRecord /\ new.sync = al.sync /\ Consistent(new)
      /\ new.sync # None => ~GoesOff(new, counter[new.sync])
  <2>1. CASE al.sync = None
    <3>1. off \in AlarmRecord /\ off.sync = al.sync /\ Consistent(off)
      BY <1>3 DEF AlarmRecord, Consistent
    <3> HIDE DEF off, al
    <3> QED  BY <2>1, <3>1
  <2>2. CASE al.sync # None
    <3> HIDE DEF al, off
    <3> DEFINE fires == HoldsNow(al)
    <3>1. fires \in BOOLEAN
      BY DEF HoldsNow
    <3>2. new = IF fires THEN AlarmFired(al) ELSE al
      BY <2>2
    <3> HIDE DEF new
    <3>3. fires <=> HoldsNow(al)
      OBVIOUS
    <3> HIDE DEF fires
    <3> QED  BY <1>3, <3>1, <3>2, <3>3, GoneOff
  <2> QED  BY <2>1, <2>2
<1>5. new # None /\ CounterOf(a) = None
  BY <1>1, <1>4, SyncAssumption DEF CounterOf
<1>6. al.sync # None => counter[al.sync] # None
  BY <1>3, SyncAssumption
<1> HIDE DEF new, al
<1> QED  BY <1>1, <1>4, <1>5, <1>6, AlarmIsChanged

LEMMA ChangeAlarmKeeps ==
  ASSUME SyncInv, NEW a \in Alarms, NEW r \in AlarmRequests, ChangeAlarm(a, r)
  PROVE  SyncInv'
<1> DEFINE with == WithAttributes(alarm[a], r)
           al == with.alarm
           fires == al.sync = None \/ HoldsNow(al)
           new == IF fires THEN AlarmFired(al) ELSE al
<1>1. /\ walk = NoWalk /\ alarm[a] # None /\ with.ok
      /\ alarm' = [alarm EXCEPT ![a] = new]
      /\ triglist' = ListsMoved(a, alarm[a].sync, al.sync)
      /\ UNCHANGED <<counter, fence, await, ignored, closing, walk>>
  BY DEF ChangeAlarm, Requesting, Idle
<1>2. TypeOK
  BY DEF SyncInv
<1>3. al \in AlarmRecord /\ Consistent(al) /\ (al.sync # None => counter[al.sync] \in Value)
  <2>1. with.ok
    BY <1>1
  <2>2. alarm[a] \in AlarmRecord
    BY <1>1, <1>2 DEF TypeOK
  <2>3. Consistent(alarm[a])
    BY <1>1 DEF SyncInv, AlarmsAdvance, Consistent
  <2> QED  BY <1>2, <2>1, <2>2, <2>3, WithAttributesProperties
<1> HIDE DEF with, al
<1>4. /\ new \in AlarmRecord /\ new.sync = al.sync /\ Consistent(new)
      /\ new.sync # None => ~GoesOff(new, counter[new.sync])
  <2>1. fires \in BOOLEAN /\ (al.sync # None /\ HoldsNow(al) => fires)
    BY DEF HoldsNow
  <2> HIDE DEF fires
  <2> QED  BY <1>3, <2>1, GoneOff
<1> HIDE DEF new
<1>5. new # None /\ CounterOf(a) = alarm[a].sync
  BY <1>1, <1>4, SyncAssumption DEF CounterOf
<1>6. al.sync # None => counter[al.sync] # None
  BY <1>3, SyncAssumption
<1> QED  BY <1>1, <1>4, <1>5, <1>6, AlarmIsChanged

LEMMA FreeAlarmKeeps ==
  ASSUME SyncInv, walk = NoWalk, NEW a \in Alarms, FreeAlarm(a), UNCHANGED closing
  PROVE  SyncInv'
<1>1. /\ alarm[a] # None /\ triglist' = ListsMoved(a, alarm[a].sync, None)
      /\ alarm' = [alarm EXCEPT ![a] = None]
      /\ UNCHANGED <<counter, fence, await, ignored, walk>>
  BY DEF FreeAlarm
<1>2. CounterOf(a) = alarm[a].sync
  BY <1>1 DEF CounterOf
<1> QED  BY <1>1, <1>2, AlarmIsChanged

---------------------------------------------------------------------------
(* A client goes away.                                                     *)

(* Its Await is freed; as it is closing it may stay ignored.               *)
LEMMA FreeAwaitKeeps ==
  ASSUME SyncInv, walk = NoWalk, closing \in Clients,
         await' = [await EXCEPT ![closing] = << >>],
         triglist' = ListsWithout(closing, None),
         UNCHANGED <<counter, fence, alarm, ignored, closing, walk>>
  PROVE  SyncInv'
<1>0. PICK c \in Clients : c = closing
  OBVIOUS
<1>1. /\ TypeOK /\ ListsInv /\ WalkInv /\ AlarmsAdvance /\ IgnoredWhileWaiting
      /\ walk.op = "none"
  BY IdleMeans
<1>2. /\ await' = [await EXCEPT ![c] = << >>] /\ triglist' = ListsWithout(c, None)
      /\ walk.op # "destroy" /\ UNCHANGED <<counter, fence, alarm>>
  BY <1>0, <1>1
<1>3. ListsInv' /\ triglist' \in [Objects -> Seq(Triggers)]
  BY <1>1, <1>2, AwaitFreed
<1>4. TypeOK'
  BY <1>1, <1>2, <1>3, AwaitOverType DEF TypeOK
<1>5. WalkInv'
  BY <1>1 DEF WalkInv, WalkObject, DueAhead
<1>6. QuietInv'
  <2> SUFFICES ASSUME NEW o \in Objects, NEW t \in Watching(o)', Pressing(t, o)' PROVE FALSE
    BY DEF QuietInv
  <2>1. t \in Watching(o) /\ Pressing(t, o)
    BY <1>1, <1>2, PressingAfterAwait
  <2> QED  BY <2>1, IdleMeans
<1>7. AlarmsAdvance'
  BY <1>1 DEF AlarmsAdvance
<1>8. IgnoredWhileWaiting'
  <2>1. \A d \in Clients : d # c => await'[d] = await[d]
    BY <1>1, <1>2 DEF TypeOK
  <2> QED  BY <1>0, <1>1, <2>1 DEF IgnoredWhileWaiting
<1> QED  BY <1>3, <1>4, <1>5, <1>6, <1>7, <1>8 DEF SyncInv

(* Only who is ignored and who is closing changes.                         *)
LEMMA ClosingChanges ==
  ASSUME SyncInv, walk = NoWalk, UNCHANGED <<counter, fence, triglist, await, alarm, walk>>,
         ignored' \subseteq Clients, closing' \in Clients \cup {None}, IgnoredWhileWaiting'
  PROVE  SyncInv'
<1>1. TypeOK'
  BY DEF SyncInv, TypeOK
<1>2. \A o \in Objects : Exists(o) => Exists(o)'
  BY DEF Exists
<1>3. \A o \in Objects : \A t \in Watching(o) : ~Pressing(t, o)'
  BY IdleMeans, PressingSame
<1> QED  BY <1>1, <1>2, <1>3, ObjectChanges

LEMMA CloseDownClientKeeps ==
  ASSUME SyncInv, NEW c \in Clients, CloseDownClient(c)
  PROVE  SyncInv'
<1>1. /\ walk = NoWalk /\ closing = None /\ closing' = c
      /\ UNCHANGED <<counter, fence, triglist, await, alarm, ignored, walk>>
  BY DEF CloseDownClient, Idle
<1>2. TypeOK /\ IgnoredWhileWaiting
  BY DEF SyncInv
<1>3. IgnoredWhileWaiting'
  BY <1>1, <1>2, SyncAssumption DEF IgnoredWhileWaiting
<1>4. ignored' \subseteq Clients /\ closing' \in Clients \cup {None}
  BY <1>1, <1>2 DEF TypeOK
<1> QED  BY <1>1, <1>3, <1>4, ClosingChanges

(* FreeClientResources: at the end nothing of the client is left, and it   *)
(* neither waits nor is ignored.                                           *)
LEMMA FreeClientResourceKeeps ==
  ASSUME SyncInv, FreeClientResource
  PROVE  SyncInv'
<1>1. closing \in Clients /\ walk = NoWalk /\ TypeOK /\ IgnoredWhileWaiting
  BY DEF FreeClientResource, SyncInv, TypeOK
<1> DEFINE objects == {o \in Objects : Owner[o] = closing /\ Exists(o)}
           alarms == {a \in Alarms : Owner[a] = closing /\ alarm[a] # None}
<1>2. CASE \E o \in objects : StartDestroy(o)
  BY <1>1, <1>2, StartDestroyKeeps
<1>3. CASE \E a \in alarms : FreeAlarm(a) /\ UNCHANGED closing
  BY <1>1, <1>3, FreeAlarmKeeps
<1>4. CASE /\ await' = [await EXCEPT ![closing] = << >>]
           /\ triglist' = ListsWithout(closing, None)
           /\ UNCHANGED <<counter, fence, alarm, ignored, closing, walk>>
  BY <1>1, <1>4, FreeAwaitKeeps
<1>5. CASE /\ await[closing] = << >> /\ closing' = None /\ ignored' = ignored \ {closing}
           /\ UNCHANGED <<counter, fence, triglist, await, alarm, walk>>
  <2>1. IgnoredWhileWaiting'
    BY <1>1, <1>5, SyncAssumption DEF IgnoredWhileWaiting, TypeOK
  <2>2. ignored' \subseteq Clients /\ closing' \in Clients \cup {None}
    BY <1>1, <1>5 DEF TypeOK
  <2> QED  BY <1>1, <1>5, <2>1, <2>2, ClosingChanges
<1> QED  BY <1>2, <1>3, <1>4, <1>5, Zenon DEF FreeClientResource

---------------------------------------------------------------------------
(* Theorems.                                                               *)

LEMMA SyncInvInitially == Init => SyncInv
<1> SUFFICES ASSUME Init PROVE SyncInv
  OBVIOUS
<1>1. TypeOK
  <2>1. << >> \in Seq(Triggers) /\ << >> \in Seq(Condition)
    OBVIOUS
  <2> QED  BY <2>1 DEF Init, TypeOK, WalkType
<1>2. \A o \in Objects : Watching(o) = {}
  <2> TAKE o \in Objects
  <2>1. \A t : t \notin Watching(o)
    BY WatchingIs DEF Init
  <2> QED  BY <2>1
<1>3. \A o \in Objects : triglist[o] = << >>
  BY DEF Init
<1>4. ListOf(<< >>, {}) /\ Null \notin Range(<< >>)
  BY DEF ListOf, Range
<1>5. ListsInv
  BY <1>2, <1>3, <1>4 DEF ListsInv
<1>6. walk.op = "none"
  BY DEF Init, NoWalk
<1>7. WalkInv
  BY <1>6 DEF WalkInv, WalkObject, DueAhead
<1>8. QuietInv
  BY <1>2 DEF QuietInv
<1>9. AlarmsAdvance /\ IgnoredWhileWaiting
  BY DEF Init, AlarmsAdvance, IgnoredWhileWaiting
<1> QED  BY <1>1, <1>5, <1>7, <1>8, <1>9 DEF SyncInv

LEMMA SetOrChangeCounterKeeps ==
  ASSUME SyncInv, NEW k \in Counters, NEW v,
         \/ v \in NewValues /\ SetCounter(k, v)
         \/ v \in Increments /\ ChangeCounter(k, v)
  PROVE  SyncInv'
<1>1. CASE v \in NewValues /\ SetCounter(k, v)
  BY <1>1, StartChangeKeeps, SyncAssumption DEF SetCounter, Requesting, Idle
<1>2. CASE v \in Increments /\ ChangeCounter(k, v)
  BY <1>2, StartChangeKeeps DEF ChangeCounter, Requesting, Idle, Overflows
<1> QED  BY <1>1, <1>2

LEMMA RequestKeeps ==
  ASSUME SyncInv, Request
  PROVE  SyncInv'
<1>1. CASE \E k \in Counters, v \in NewValues : CreateCounter(k, v) \/ SetCounter(k, v)
  BY <1>1, CreateCounterKeeps, SetOrChangeCounterKeeps
<1>2. CASE \E k \in Counters, v \in Increments : ChangeCounter(k, v)
  BY <1>2, SetOrChangeCounterKeeps
<1>3. CASE \E o \in Objects : Destroy(o)
  BY <1>3, StartDestroyKeeps DEF Destroy, Requesting, Idle
<1>4. CASE \E f \in Fences : \E t \in BOOLEAN : CreateFence(f, t)
  BY <1>4, CreateFenceKeeps
<1>5. CASE \E f \in Fences : TriggerFence(f) \/ ResetFence(f)
  BY <1>5, TriggerFenceKeeps, ResetFenceKeeps
<1>6. CASE \E c \in Clients : \/ \E r \in Awaits : Await(c, r)
                              \/ \E r \in FenceAwaits : AwaitFence(c, r)
                              \/ CloseDownClient(c)
  BY <1>6, AwaitKeeps, AwaitFenceKeeps, CloseDownClientKeeps
<1>7. CASE \E a \in Alarms :
             \/ DestroyAlarm(a)
             \/ \E r \in AlarmRequests : CreateAlarm(a, r) \/ ChangeAlarm(a, r)
  <2>1. ASSUME NEW a \in Alarms, DestroyAlarm(a) PROVE SyncInv'
    BY <2>1, FreeAlarmKeeps DEF DestroyAlarm, Requesting, Idle
  <2> QED  BY <1>7, <2>1, CreateAlarmKeeps, ChangeAlarmKeeps
<1> QED  BY <1>1, <1>2, <1>3, <1>4, <1>5, <1>6, <1>7 DEF Request

LEMMA SyncInvKept == SyncInv /\ [Next]_vars => SyncInv'
<1> SUFFICES ASSUME SyncInv, [Next]_vars PROVE SyncInv'
  OBVIOUS
<1>1. CASE Walk
  BY <1>1, WalkChangeKeeps, ChangeEndsKeeps, WalkFenceKeeps, WalkDestroyKeeps DEF Walk
<1>2. CASE FreeClientResource
  BY <1>2, FreeClientResourceKeeps
<1>3. CASE Request
  BY <1>3, RequestKeeps
<1>4. CASE UNCHANGED vars
  <2>1. UNCHANGED <<counter, fence, triglist, await, alarm, ignored, closing, walk>>
    BY <1>4 DEF vars
  <2>2. TypeOK' /\ AlarmsAdvance' /\ IgnoredWhileWaiting'
    BY <2>1 DEF SyncInv, TypeOK, AlarmsAdvance, IgnoredWhileWaiting
  <2>3. \A o : Watching(o)' = Watching(o) /\ (Exists(o)' <=> Exists(o))
    BY <2>1, WatchingSame DEF Exists
  <2>4. ListsInv'
    BY <2>1, <2>3 DEF SyncInv, ListsInv, ListOf
  <2>5. WalkInv'
    BY <2>1 DEF SyncInv, WalkInv, WalkObject, DueAhead, Exists, IsTrue, Ahead
  <2>6. QuietInv'
    BY <2>1, <2>3, PressingSame DEF SyncInv, QuietInv
  <2> QED  BY <2>2, <2>4, <2>5, <2>6 DEF SyncInv
<1> QED  BY <1>1, <1>2, <1>3, <1>4 DEF Next

(* The invariant: the lists, the walk and what waits agree in every state. *)
THEOREM SyncInvHolds == Spec => []SyncInv
BY SyncInvInitially, SyncInvKept, PTL DEF Spec

(* FreeAwait, FreeAlarm, FreeCounter and miSyncDestroyFence: each list has *)
(* exactly the triggers that look at its object, each once, and no pointer *)
(* to an Await or alarm that has been freed.                               *)
THEOREM TriggersAreListed == Spec => []TriggersListed
<1>1. SyncInv => TriggersListed
  BY DEF SyncInv, ListsInv, ListOf, TriggersListed
<1> QED  BY <1>1, SyncInvHolds, PTL

(* SyncChangeCounter goes on with a node that is still on the list, and    *)
(* has fired all that is due when it is through.                           *)
THEOREM ChangesFireAll == Spec => []ChangesFire
<1>1. SyncInv => ChangesFire
  <2> SUFFICES ASSUME SyncInv PROVE ChangesFire
    OBVIOUS
  <2>1. DueAhead
    BY DEF SyncInv, WalkInv
  <2>2. WalksOnList
    BY <2>1 DEF DueAhead, WalksOnList
  <2>3. AllDueFire
    BY <2>1 DEF DueAhead, AllDueFire
  <2> QED  BY <2>2, <2>3 DEF ChangesFire
<1> QED  BY <1>1, SyncInvHolds, PTL

(* A condition of a client that holds is a trigger that is pressing.       *)
LEMMA WaitsForNothingTrue ==
  ASSUME SyncInv, walk = NoWalk, NEW c \in Clients, NEW i \in DOMAIN await[c]
  PROVE  LET cond == await[c][i]
         IN  IF cond.obj \in Fences THEN ~fence[cond.obj]
             ELSE cond.testType \in ComparisonTypes =>
                    ~CheckTrigger(cond.testType, cond.value, counter[cond.obj],
                                  counter[cond.obj])
<1> DEFINE t == Trigger(c, i)
           o == await[c][i].obj
<1>1. t.who = c /\ t.nr = i /\ c \notin Alarms /\ t # Null
  BY SyncAssumption, TriggerParts DEF Null
<1>2. t \in Watching(o)
  BY WatchingIs
<1>3. o \in Objects
  <2>1. await[c] \in Seq(Condition) \/ await[c] \in Seq([obj : Fences])
    BY DEF SyncInv, TypeOK
  <2> DEFINE conds == await[c]
  <2> HIDE DEF conds
  <2>2. \A S : conds \in Seq(S) => \A j \in DOMAIN conds : conds[j] \in S
    OBVIOUS
  <2>3. await[c][i] \in Condition \/ await[c][i] \in [obj : Fences]
    BY <2>1, <2>2 DEF conds
  <2> QED  BY <2>3 DEF Condition, Objects
<1>4. ~Pressing(t, o)
  BY <1>2, <1>3, IdleMeans
<1> HIDE DEF t
<1>5. CASE o \in Fences
  BY <1>1, <1>4, <1>5, SyncAssumption DEF Pressing, Active, IsTrue
<1>6. CASE o \notin Fences
  BY <1>1, <1>3, <1>4, <1>6 DEF Pressing, Active, IsTrue, Objects
<1> QED  BY <1>5, <1>6

(* SyncAwaitTriggerFired, FreeAwait: a client is ignored as long as it     *)
(* waits, and once no request is being carried out no client waits for a   *)
(* comparison that is true or a fence that is triggered.                   *)
THEOREM NobodyWaits == Spec => []NobodyWaitsInVain
<1>1. SyncInv => NobodyWaitsInVain
  <2> SUFFICES ASSUME SyncInv PROVE NobodyWaitsInVain
    OBVIOUS
  <2>1. NoneWaitsForTrue
    BY WaitsForNothingTrue DEF NoneWaitsForTrue
  <2>2. IgnoredWhileWaiting
    BY DEF SyncInv
  <2> QED  BY <2>1, <2>2 DEF NobodyWaitsInVain
<1> QED  BY <1>1, SyncInvHolds, PTL

(* SyncAlarmTriggerFired, SyncChangeAlarmAttributes: an active alarm is    *)
(* ahead of its counter, and its delta leads away from what it tests.      *)
THEOREM AlarmsAreReady == Spec => []AlarmsReady
<1>1. SyncInv => AlarmsReady
  <2> SUFFICES ASSUME SyncInv PROVE AlarmsReady
    OBVIOUS
  <2>1. ASSUME walk = NoWalk, NEW a \in Alarms, alarm[a] # None,
               alarm[a].state = "Active", alarm[a].check \in ComparisonTypes,
               HoldsNow(alarm[a])
        PROVE  FALSE
    <3> DEFINE t == Trigger(a, 0)
               k == alarm[a].sync
    <3>1. t.who = a /\ t # Null
      BY SyncAssumption, TriggerParts DEF Null
    <3>2. k \in Counters
      BY <2>1 DEF SyncInv, TypeOK, AlarmRecord, HoldsNow
    <3>3. t \in Watching(k)
      BY <2>1, WatchingIs
    <3>4. ~Pressing(t, k)
      BY <2>1, <3>2, <3>3, IdleMeans DEF Objects
    <3> HIDE DEF t
    <3> QED  BY <2>1, <3>1, <3>2, <3>4 DEF Pressing, Active, IsTrue, HoldsNow
  <2>2. AlarmsAhead
    BY <2>1 DEF AlarmsAhead
  <2> QED  BY <2>2 DEF SyncInv, AlarmsReady
<1> QED  BY <1>1, SyncInvHolds, PTL

---------------------------------------------------------------------------
(* The system counters: SyncTime.                                          *)

(* A watcher's trigger is as it was asked for, but for its value and       *)
(* whether it is still active.                                             *)
AskedFor(trigger, r) ==
  /\ trigger.counter = r.counter /\ trigger.type = r.testType
  /\ trigger.check = r.testType /\ trigger.delta = r.delta
  /\ trigger.await = r.await

WatchersOK(ws) ==
  /\ ws \in [Watchers -> TriggerRecord \cup {None}]
  /\ \A w \in Watchers : ws[w] # None => \E r \in Asks[w] : AskedFor(ws[w], r)

TimeInv == TimeTypeOK /\ WatchersOK(watcher)

(* What the handlers of the code do not cover, see README: positive        *)
(* transitions; alarms that are true when they are created; and two        *)
(* watchers of the idle time.                                              *)
NoPositiveTransitions ==
  \A w \in Watchers : \A r \in Asks[w] : r.testType # "PositiveTransition"

AlarmsBeginAhead ==
  \A w \in Watchers : \A r \in Asks[w] :
    r.testType = "PositiveComparison" /\ ~r.await =>
      r.valueType = "Relative" /\ r.value > 0

OneIdleWatcher ==
  \A w, x \in Watchers : \A r \in Asks[w], q \in Asks[x] :
    r.counter = "IDLETIME" /\ q.counter = "IDLETIME" => w = x

(* A trigger that waits for a counter to increase.                         *)
WaitsFor(trigger, k) ==
  /\ trigger # None /\ trigger.counter = k
  /\ trigger.state = "Active" /\ trigger.type = "PositiveComparison"

(* The brackets of each counter announce what is waited for: for the time, *)
(* whatever is still to come; for the idle time, exactly it.               *)
TimeAnnounced(b, ws) ==
  \A w \in Watchers : WaitsFor(ws[w], "SERVERTIME") /\ now < ws[w].value =>
    b.greater # None /\ b.greater <= ws[w].value

IdleAnnounced(b, ws) ==
  \A w \in Watchers : WaitsFor(ws[w], "IDLETIME") =>
    b = [less |-> None, greater |-> ws[w].value]

AnnouncedInv ==
  /\ value["SERVERTIME"] <= now
  /\ TimeAnnounced(bracket["SERVERTIME"], watcher)
  /\ IdleAnnounced(bracket["IDLETIME"], watcher)

---------------------------------------------------------------------------
(* Greatest and least values, and the brackets.                            *)

LEMMA ValuesAreInt == Value \in SUBSET Int /\ None \notin Value
BY ValueBounds, SyncTimeAssumption

LEMMA MinOfValues ==
  ASSUME NEW S \in SUBSET Value, S # {}
  PROVE  Min(S) \in S /\ \A y \in S : Min(S) <= y
<1> DEFINE T == {x + Limit : x \in S}
<1>1. /\ Limit \in Nat
      /\ \A x \in S : x \in Int /\ x + Limit \in Nat
  BY ValueBounds
<1>2. T \in SUBSET Nat /\ T # {}
  BY <1>1
<1>3. PICK t \in T : \A u \in T : t <= u
  BY <1>2, LeastExists
<1>4. PICK x \in S : t = x + Limit
  OBVIOUS
<1>5. \A y \in S : x <= y
  BY <1>1, <1>3, <1>4
<1> QED  BY <1>5 DEF Min

LEMMA MaxOfValues ==
  ASSUME NEW S \in SUBSET Value, S # {}
  PROVE  Max(S) \in S /\ \A y \in S : y <= Max(S)
<1> DEFINE T == {Limit - x : x \in S}
<1>1. /\ Limit \in Nat
      /\ \A x \in S : x \in Int /\ Limit - x \in Nat
  BY ValueBounds
<1>2. T \in SUBSET Nat /\ T # {}
  BY <1>1
<1>3. PICK t \in T : \A u \in T : t <= u
  BY <1>2, LeastExists
<1>4. PICK x \in S : t = Limit - x
  OBVIOUS
<1>5. \A y \in S : y <= x
  <2> SUFFICES ASSUME NEW y \in S PROVE y <= x
    OBVIOUS
  <2>1. Limit - x <= Limit - y
    BY <1>3, <1>4
  <2>2. x \in Int /\ y \in Int
    BY <1>1
  <2> QED  BY <1>1, <2>1, <2>2
<1> QED  BY <1>5 DEF Max

Brackets == [less : Value \cup {None}, greater : Value \cup {None}]

LEMMA BracketsType ==
  ASSUME NEW k, NEW v, NEW ws, WatchersOK(ws)
  PROVE  ComputeBracketValues(k, v, ws) \in Brackets
<1> DEFINE looked == {w \in Listed(k, ws) : Looked(k, ws[w].type)}
           above == {ws[w].value : w \in
                 {x \in looked : \/ v < ws[x].value
                                 \/ v = ws[x].value
                                    /\ ws[x].type = "PositiveTransition"}}
           below == {ws[w].value : w \in
                 {x \in looked : \/ v > ws[x].value
                                 \/ v = ws[x].value
                                    /\ ws[x].type = "NegativeTransition"}}
<1>1. \A w \in looked : ws[w].value \in Value
  BY DEF Listed, WatchersOK, TriggerRecord
<1>2. above \in SUBSET Value /\ below \in SUBSET Value
  BY <1>1
<1>3. ComputeBracketValues(k, v, ws) =
        [less |-> IF below = {} THEN None ELSE Max(below),
         greater |-> IF above = {} THEN None ELSE Min(above)]
  BY DEF ComputeBracketValues
<1> HIDE DEF above, below
<1>4. below # {} => Max(below) \in Value
  BY <1>2, MaxOfValues
<1>5. above # {} => Min(above) \in Value
  BY <1>2, MinOfValues
<1> QED  BY <1>3, <1>4, <1>5 DEF Brackets

(* A trigger of SERVERTIME that is still to come is not beyond the upper   *)
(* bracket.                                                                *)
LEMMA TimeBracket ==
  ASSUME NEW v \in Value, NEW ws, WatchersOK(ws), NEW w \in Watchers,
         WaitsFor(ws[w], "SERVERTIME"), v < ws[w].value
  PROVE  LET b == ComputeBracketValues("SERVERTIME", v, ws)
         IN  b.greater # None /\ b.greater <= ws[w].value
<1> DEFINE looked == {x \in Listed("SERVERTIME", ws) : Looked("SERVERTIME", ws[x].type)}
           above == {ws[y].value : y \in
                 {x \in looked : \/ v < ws[x].value
                                 \/ v = ws[x].value
                                    /\ ws[x].type = "PositiveTransition"}}
<1>1. \A x \in looked : ws[x].value \in Value
  BY DEF Listed, WatchersOK, TriggerRecord
<1>2. above \in SUBSET Value
  BY <1>1
<1>3. w \in looked
  BY DEF Listed, Looked, WaitsFor
<1>4. ws[w].value \in above
  BY <1>3
<1>5. ComputeBracketValues("SERVERTIME", v, ws).greater =
        IF above = {} THEN None ELSE Min(above)
  BY DEF ComputeBracketValues
<1> HIDE DEF above
<1>6. Min(above) \in Value /\ Min(above) <= ws[w].value
  BY <1>2, <1>4, MinOfValues
<1> QED  BY <1>4, <1>5, <1>6, ValuesAreInt

(* A trigger of IDLETIME that is still to come is the upper bracket, and   *)
(* there is no lower one, when no other watcher waits for the idle time.   *)
LEMMA IdleBracket ==
  ASSUME NEW v \in Value, NEW ws, WatchersOK(ws), OneIdleWatcher, NEW w \in Watchers,
         WaitsFor(ws[w], "IDLETIME"), v < ws[w].value
  PROVE  ComputeBracketValues("IDLETIME", v, ws) =
           [less |-> None, greater |-> ws[w].value]
<1> DEFINE looked == {x \in Listed("IDLETIME", ws) : Looked("IDLETIME", ws[x].type)}
           above == {ws[y].value : y \in
                 {x \in looked : \/ v < ws[x].value
                                 \/ v = ws[x].value
                                    /\ ws[x].type = "PositiveTransition"}}
           below == {ws[y].value : y \in
                 {x \in looked : \/ v > ws[x].value
                                 \/ v = ws[x].value
                                    /\ ws[x].type = "NegativeTransition"}}
<1>1. \A x \in Listed("IDLETIME", ws) : x = w
  BY DEF Listed, WatchersOK, AskedFor, OneIdleWatcher, WaitsFor
<1>2. w \in looked
  BY DEF Listed, Looked, WaitsFor
<1>3. looked = {w}
  BY <1>1, <1>2
<1>4. v \in Int /\ ws[w].value \in Int
  BY ValuesAreInt DEF WaitsFor, WatchersOK, TriggerRecord
<1> HIDE DEF looked
<1>5. above = {ws[w].value} /\ below = {}
  BY <1>3, <1>4
<1>6. Min({ws[w].value}) = ws[w].value
  BY <1>4 DEF Min
<1>7. ComputeBracketValues("IDLETIME", v, ws) =
        [less |-> IF below = {} THEN None ELSE Max(below),
         greater |-> IF above = {} THEN None ELSE Min(above)]
  BY DEF ComputeBracketValues, looked
<1> HIDE DEF above, below
<1> QED  BY <1>5, <1>6, <1>7

---------------------------------------------------------------------------
(* What happens to the watchers when a counter changes.                    *)

LEMMA TriggerIs ==
  ASSUME NEW trigger \in TriggerRecord
  PROVE  /\ trigger.check \in TestType /\ trigger.type \in TestType
         /\ trigger.value \in Value /\ trigger.delta \in Value
         /\ trigger.state \in {"Active", "Inactive"}
         /\ trigger.counter \in SystemCounters /\ trigger.await \in BOOLEAN
BY DEF TriggerRecord

(* A watcher that fires is gone, inactive or moved on.                     *)
LEMMA FiredProperties ==
  ASSUME NEW trigger \in TriggerRecord, NEW v, NEW r, AskedFor(trigger, r)
  PROVE  LET new == Fired(trigger, v)
         IN  new = None \/ (/\ new \in TriggerRecord
                            /\ AskedFor(new, r)
                            /\ new.counter = trigger.counter)
<1> DEFINE next == MovedOn(trigger.check, trigger.value, trigger.delta, v)
           off == [trigger EXCEPT !.state = "Inactive"]
           moved == [trigger EXCEPT !.value = next]
<1>1. CASE trigger.await
  BY <1>1 DEF Fired
<1>2. CASE ~trigger.await
  <2>1. Fired(trigger, v) = AlarmAfter(trigger, v)
    BY <1>2 DEF Fired
  <2>2. off \in TriggerRecord /\ AskedFor(off, r) /\ off.counter = trigger.counter
    BY DEF TriggerRecord, AskedFor
  <2>3. ~Overflows(next) =>
          moved \in TriggerRecord /\ AskedFor(moved, r) /\ moved.counter = trigger.counter
    <3> HIDE DEF next
    <3> QED  BY DEF TriggerRecord, AskedFor, Overflows
  <2>4. \/ AlarmAfter(trigger, v) = trigger
        \/ AlarmAfter(trigger, v) = off
        \/ AlarmAfter(trigger, v) = moved /\ ~Overflows(next)
    BY DEF AlarmAfter
  <2> HIDE DEF next, off, moved
  <2> QED  BY <2>1, <2>2, <2>3, <2>4
<1> QED  BY <1>1, <1>2

(* An alarm that has waited for a value of v is moved beyond it, or ends.  *)
LEMMA FiredAhead ==
  ASSUME NEW trigger \in TriggerRecord, NEW v \in Value, NEW old,
         NEW r, AskedFor(trigger, r), NEW k,
         Holds(trigger, old, v), WaitsFor(Fired(trigger, v), k)
  PROVE  v < Fired(trigger, v).value
<1> DEFINE next == MovedOn(trigger.check, trigger.value, trigger.delta, v)
           new == Fired(trigger, v)
<1>1. new # None /\ new.state = "Active" /\ new.type = "PositiveComparison"
  BY DEF WaitsFor
<1>2. ~trigger.await /\ new = AlarmAfter(trigger, v)
  BY <1>1 DEF Fired
<1>3. trigger.state = "Active"
  <2>1. trigger.state # "Active" => new = trigger
    BY <1>2 DEF AlarmAfter
  <2> QED  BY <1>1, <2>1
<1>4. ~((trigger.delta = 0 /\ trigger.type \in ComparisonTypes) \/ Overflows(next))
  <2>1. [trigger EXCEPT !.state = "Inactive"].state = "Inactive"
    BY DEF TriggerRecord
  <2> HIDE DEF next
  <2> SUFFICES ASSUME (trigger.delta = 0 /\ trigger.type \in ComparisonTypes) \/ Overflows(next)
               PROVE  FALSE
    OBVIOUS
  <2>2. AlarmAfter(trigger, v) = [trigger EXCEPT !.state = "Inactive"]
    BY <1>3 DEF AlarmAfter, next
  <2> QED  BY <1>1, <1>2, <2>1, <2>2
<1>5. new = [trigger EXCEPT !.value = next]
  BY <1>2, <1>3, <1>4 DEF AlarmAfter
<1>6. new.value = next /\ new.type = trigger.type
  <2> HIDE DEF next, new
  <2> QED  BY <1>5 DEF TriggerRecord
<1>7. trigger.check = "PositiveComparison" /\ trigger.type = "PositiveComparison"
  BY <1>1, <1>6 DEF AskedFor
<1>8. next \in Value /\ ~CheckTrigger(trigger.check, next, v, v)
  <2>1. trigger.delta # 0 \/ trigger.check \notin ComparisonTypes
    BY <1>4, <1>7
  <2>2. Overflows(next) \/ (next \in Value /\ ~CheckTrigger(trigger.check, next, v, v))
    BY <2>1, TriggerIs, MovedOnProperties
  <2> QED  BY <1>4, <2>2
<1>9. v \in Int /\ next \in Int
  BY <1>8, ValuesAreInt
<1> HIDE DEF next, new
<1>10. ~(v >= next)
  BY <1>7, <1>8 DEF CheckTrigger
<1> QED  BY <1>6, <1>9, <1>10 DEF new

(* SyncChangeCounter.                                                      *)
LEMMA ChangedCounter ==
  ASSUME NEW s, WatchersOK(s.watcher), NEW k, NEW v \in Value
  PROVE  LET new == ChangeSystemCounter(k, s, v)
         IN  /\ new.value = v
             /\ WatchersOK(new.watcher)
             /\ new.bracket \in Brackets
             /\ new.bracket = ComputeBracketValues(k, v, new.watcher)
             /\ \A w \in Watchers : WaitsFor(new.watcher[w], k) =>
                  v < new.watcher[w].value
             /\ \A w \in Watchers : \A other : other # k =>
                  (WaitsFor(new.watcher[w], other) => new.watcher[w] = s.watcher[w])
<1> DEFINE new == ChangeSystemCounter(k, s, v)
           fires(w) == w \in Listed(k, s.watcher) /\ Holds(s.watcher[w], s.value, v)
           ws == [w \in Watchers |-> IF fires(w) THEN Fired(s.watcher[w], v) ELSE s.watcher[w]]
<1>1. new = [value |-> v, watcher |-> ws, bracket |-> ComputeBracketValues(k, v, ws)]
  BY DEF ChangeSystemCounter
<1>2. \A w \in Watchers : s.watcher[w] # None =>
        s.watcher[w] \in TriggerRecord /\ \E r \in Asks[w] : AskedFor(s.watcher[w], r)
  BY DEF WatchersOK
<1>3. \A w \in Watchers : fires(w) => s.watcher[w] # None /\ s.watcher[w].counter = k
  BY DEF Listed
<1>4. \A w \in Watchers : ws[w] # None =>
        /\ ws[w] \in TriggerRecord
        /\ ws[w].counter = s.watcher[w].counter
        /\ \E r \in Asks[w] : AskedFor(ws[w], r)
  <2> SUFFICES ASSUME NEW w \in Watchers, ws[w] # None
               PROVE  /\ ws[w] \in TriggerRecord
                      /\ ws[w].counter = s.watcher[w].counter
                      /\ \E r \in Asks[w] : AskedFor(ws[w], r)
    OBVIOUS
  <2>1. CASE fires(w)
    <3>1. s.watcher[w] \in TriggerRecord
      BY <1>2, <1>3, <2>1
    <3>2. PICK r \in Asks[w] : AskedFor(s.watcher[w], r)
      BY <1>2, <1>3, <2>1
    <3>3. ws[w] = Fired(s.watcher[w], v)
      BY <2>1
    <3> HIDE DEF ws
    <3> QED  BY <3>1, <3>2, <3>3, FiredProperties
  <2>2. CASE ~fires(w)
    <3>1. ws[w] = s.watcher[w]
      BY <2>2
    <3> HIDE DEF ws
    <3> QED  BY <1>2, <3>1
  <2> QED  BY <2>1, <2>2
<1>5. WatchersOK(ws)
  <2>1. ws \in [Watchers -> TriggerRecord \cup {None}]
    BY <1>4
  <2> HIDE DEF ws
  <2> QED  BY <1>4, <2>1 DEF WatchersOK
<1>6. \A w \in Watchers : WaitsFor(ws[w], k) => v < ws[w].value
  <2> SUFFICES ASSUME NEW w \in Watchers, WaitsFor(ws[w], k)
               PROVE  v < ws[w].value
    OBVIOUS
  <2>0. ws[w] # None /\ ws[w].counter = k /\ ws[w].type = "PositiveComparison"
    BY DEF WaitsFor
  <2>1. CASE fires(w)
    <3>1. s.watcher[w] \in TriggerRecord
      BY <1>2, <1>3, <2>1
    <3>2. PICK r \in Asks[w] : AskedFor(s.watcher[w], r)
      BY <1>2, <1>3, <2>1
    <3>3. ws[w] = Fired(s.watcher[w], v)
      BY <2>1
    <3> HIDE DEF ws
    <3>4. Holds(s.watcher[w], s.value, v)
      BY <2>1
    <3>5. WaitsFor(Fired(s.watcher[w], v), k)
      BY <3>3
    <3> QED  BY <3>1, <3>2, <3>3, <3>4, <3>5, FiredAhead
  <2>2. CASE ~fires(w)
    <3>1. ws[w] = s.watcher[w]
      BY <2>2
    <3> HIDE DEF ws
    <3>2. ~Holds(s.watcher[w], s.value, v)
      BY <2>0, <2>2, <3>1 DEF Listed
    <3>3. s.watcher[w] \in TriggerRecord /\ s.watcher[w].check = "PositiveComparison"
      BY <1>2, <2>0, <3>1 DEF AskedFor
    <3>4. ~(v >= s.watcher[w].value)
      BY <3>2, <3>3 DEF Holds, CheckTrigger
    <3>5. v \in Int /\ s.watcher[w].value \in Int
      BY <3>3, TriggerIs, ValuesAreInt
    <3> QED  BY <3>1, <3>4, <3>5
  <2> QED  BY <2>1, <2>2
<1>7. \A w \in Watchers : \A other : other # k /\ WaitsFor(ws[w], other) => ws[w] = s.watcher[w]
  <2> SUFFICES ASSUME NEW w \in Watchers, NEW other, other # k, WaitsFor(ws[w], other)
               PROVE  ws[w] = s.watcher[w]
    OBVIOUS
  <2>1. ws[w] # None /\ ws[w].counter = other
    BY DEF WaitsFor
  <2>2. s.watcher[w].counter # k
    <3> HIDE DEF ws
    <3> QED  BY <1>4, <2>1
  <2>3. ~fires(w)
    BY <1>3, <2>2
  <2> QED  BY <2>3
<1> HIDE DEF ws
<1>8. new.value = v /\ new.watcher = ws /\ new.bracket = ComputeBracketValues(k, v, ws)
  BY <1>1
<1> HIDE DEF new
<1> QED  BY <1>5, <1>6, <1>7, <1>8, BracketsType DEF new

---------------------------------------------------------------------------
(* The wakeup handlers.                                                    *)

(* A counter with its brackets and the watchers, as the handlers pass it   *)
(* on.                                                                     *)
CounterOK(s) ==
  /\ s \in [value : Value, bracket : Brackets,
            watcher : [Watchers -> TriggerRecord \cup {None}]]
  /\ WatchersOK(s.watcher)

(* The times are values of the counters.                                   *)
LEMMA TimesAreValues ==
  ASSUME TimeTypeOK
  PROVE  /\ now \in Value /\ now - last \in Value /\ 0 \in Value
         /\ now \in Nat /\ last \in Nat /\ last <= now
         /\ \A k \in SystemCounters : QueryValue(k) \in Value
<1>1. /\ now \in Int /\ last \in Int /\ MaxTime \in Int /\ Limit \in Int
      /\ 0 <= last /\ last <= now /\ now <= MaxTime /\ MaxTime < Limit
  BY SyncTimeAssumption, LimitAssumption DEF TimeTypeOK
<1>2. now \in Value /\ now - last \in Value /\ 0 \in Value
  BY <1>1, ValueBounds
<1> QED  BY <1>1, <1>2 DEF QueryValue

LEMMA CounterIsOK ==
  ASSUME TimeInv, NEW k \in SystemCounters
  PROVE  CounterOK(Counter(k))
BY DEF TimeInv, TimeTypeOK, CounterOK, Counter, WatchersOK, Brackets

LEMMA ChangedIsOK ==
  ASSUME NEW s, WatchersOK(s.watcher), NEW k, NEW v \in Value
  PROVE  CounterOK(ChangeSystemCounter(k, s, v))
<1> DEFINE new == ChangeSystemCounter(k, s, v)
<1>1. new = [value |-> new.value, watcher |-> new.watcher, bracket |-> new.bracket]
  BY DEF ChangeSystemCounter
<1>2. /\ new.value = v /\ WatchersOK(new.watcher) /\ new.bracket \in Brackets
  BY ChangedCounter
<1>3. new.watcher \in [Watchers -> TriggerRecord \cup {None}]
  BY <1>2 DEF WatchersOK
<1> HIDE DEF new
<1> QED  BY <1>1, <1>2, <1>3 DEF CounterOK, new

(* IdleTimeCheckBrackets keeps announcing what is waited for, and leaves   *)
(* alone what waits for the time.                                          *)
LEMMA CheckedBrackets ==
  ASSUME NEW s, CounterOK(s), NEW v \in Value
  PROVE  LET new == CheckBrackets(s, v)
         IN  /\ CounterOK(new)
             /\ OneIdleWatcher /\ IdleAnnounced(s.bracket, s.watcher)
                  => IdleAnnounced(new.bracket, new.watcher)
             /\ \A w \in Watchers : WaitsFor(new.watcher[w], "SERVERTIME")
                  => new.watcher[w] = s.watcher[w]
<1> DEFINE new == CheckBrackets(s, v)
<1>1. CASE Reached(s.bracket, v)
  <2>1. new = ChangeSystemCounter("IDLETIME", s, v) /\ WatchersOK(s.watcher)
    BY <1>1 DEF CheckBrackets, CounterOK
  <2> HIDE DEF new
  <2>2. CounterOK(new)
    BY <2>1, ChangedIsOK
  <2>3. /\ WatchersOK(new.watcher)
        /\ new.bracket = ComputeBracketValues("IDLETIME", v, new.watcher)
        /\ \A w \in Watchers : WaitsFor(new.watcher[w], "IDLETIME")
             => v < new.watcher[w].value
        /\ \A w \in Watchers : WaitsFor(new.watcher[w], "SERVERTIME")
             => new.watcher[w] = s.watcher[w]
    BY <2>1, ChangedCounter
  <2>4. OneIdleWatcher => IdleAnnounced(new.bracket, new.watcher)
    BY <2>3, IdleBracket DEF IdleAnnounced
  <2> QED  BY <2>2, <2>3, <2>4 DEF new
<1>2. CASE ~Reached(s.bracket, v)
  <2>1. new = [s EXCEPT !.value = v]
    BY <1>2 DEF CheckBrackets
  <2>2. s \in [value : Value, bracket : Brackets,
               watcher : [Watchers -> TriggerRecord \cup {None}]]
    BY DEF CounterOK
  <2> HIDE DEF new
  <2>3. new.bracket = s.bracket /\ new.watcher = s.watcher
        /\ new \in [value : Value, bracket : Brackets,
                    watcher : [Watchers -> TriggerRecord \cup {None}]]
    BY <2>1, <2>2
  <2> QED  BY <2>3 DEF CounterOK, new
<1> QED  BY <1>1, <1>2

(* The wakeup handlers, one after the other.                               *)
LEMMA WakeupIs ==
  ASSUME WakeupHandler
  PROVE  LET server == ServertimeWakeup(Counter("SERVERTIME"))
             idle0 == IdleTimeWakeupReset(
                        [Counter("IDLETIME") EXCEPT !.watcher = server.watcher])
             idle == IdleTimeWakeup(idle0)
         IN  /\ poll' = Busy
             /\ reset' = (reset /\ bracket["IDLETIME"] = NoBracket)
             /\ value' = [SERVERTIME |-> server.value, IDLETIME |-> idle.value]
             /\ bracket' = [SERVERTIME |-> server.bracket, IDLETIME |-> idle.bracket]
             /\ watcher' = idle.watcher
             /\ now' = now /\ last' = last
BY DEF WakeupHandler

LEMMA WakeupStep ==
  ASSUME TimeInv, WakeupHandler
  PROVE  TimeInv' /\ (OneIdleWatcher /\ AnnouncedInv => AnnouncedInv')
<1> DEFINE s0 == Counter("SERVERTIME")
           server == ServertimeWakeup(s0)
           s1 == [Counter("IDLETIME") EXCEPT !.watcher = server.watcher]
           idle0 == IdleTimeWakeupReset(s1)
           idle == IdleTimeWakeup(idle0)
<1>1. /\ poll' = Busy
      /\ reset' = (reset /\ bracket["IDLETIME"] = NoBracket)
      /\ value' = [SERVERTIME |-> server.value, IDLETIME |-> idle.value]
      /\ bracket' = [SERVERTIME |-> server.bracket, IDLETIME |-> idle.bracket]
      /\ watcher' = idle.watcher
      /\ now' = now /\ last' = last
  BY WakeupIs
<1>2. /\ now \in Value /\ now - last \in Value /\ 0 \in Value
  BY TimesAreValues DEF TimeInv
<1>3. /\ CounterOK(s0) /\ CounterOK(Counter("IDLETIME"))
      /\ Counter("IDLETIME").bracket = bracket["IDLETIME"]
      /\ s0.bracket = bracket["SERVERTIME"] /\ s0.value = value["SERVERTIME"]
      /\ s0.watcher = watcher
  <2>1. CounterOK(s0) /\ CounterOK(Counter("IDLETIME"))
    BY CounterIsOK DEF SystemCounters
  <2> QED  BY <2>1 DEF Counter
<1> HIDE DEF s0
<1>4. /\ CounterOK(server)
      /\ value["SERVERTIME"] <= now => server.value <= now
      /\ TimeAnnounced(s0.bracket, s0.watcher)
           => TimeAnnounced(server.bracket, server.watcher)
      /\ \A w \in Watchers : WaitsFor(server.watcher[w], "IDLETIME")
           => server.watcher[w] = watcher[w]
  <2>1. CASE server = ChangeSystemCounter("SERVERTIME", s0, now)
    <3> HIDE DEF server
    <3>1. WatchersOK(s0.watcher)
      BY <1>3 DEF CounterOK
    <3>2. CounterOK(server)
      BY <1>2, <2>1, <3>1, ChangedIsOK
    <3>3. /\ server.value = now
          /\ WatchersOK(server.watcher)
          /\ server.bracket = ComputeBracketValues("SERVERTIME", now, server.watcher)
      BY <1>2, <2>1, <3>1, ChangedCounter
    <3>6. \A w \in Watchers : WaitsFor(server.watcher[w], "IDLETIME")
            => server.watcher[w] = s0.watcher[w]
      <4>1. \A w \in Watchers : \A other : other # "SERVERTIME" =>
              (WaitsFor(server.watcher[w], other) => server.watcher[w] = s0.watcher[w])
        BY <1>2, <2>1, <3>1, ChangedCounter
      <4>2. "IDLETIME" # "SERVERTIME"
        OBVIOUS
      <4> QED  BY <4>1, <4>2
    <3>4. TimeAnnounced(server.bracket, server.watcher)
      BY <1>2, <3>3, TimeBracket DEF TimeAnnounced
    <3>5. now <= now
      BY <1>2, ValuesAreInt
    <3> QED  BY <1>3, <3>2, <3>3, <3>4, <3>5, <3>6
  <2>2. CASE server = s0
    <3> HIDE DEF server
    <3> QED  BY <1>3, <2>2
  <2> QED  BY <2>1, <2>2 DEF ServertimeWakeup
<1> HIDE DEF server
<1>5. /\ CounterOK(s1)
      /\ s1.bracket = bracket["IDLETIME"] /\ s1.watcher = server.watcher
  <2> DEFINE c == Counter("IDLETIME")
             W == [Watchers -> TriggerRecord \cup {None}]
  <2>1. c \in [value : Value, bracket : Brackets, watcher : W]
        /\ server.watcher \in W /\ WatchersOK(server.watcher)
        /\ c.bracket = bracket["IDLETIME"]
    BY <1>3, <1>4 DEF CounterOK
  <2>2. s1 = [c EXCEPT !.watcher = server.watcher]
    OBVIOUS
  <2> HIDE DEF c, W, s1
  <2>3. /\ s1 \in [value : Value, bracket : Brackets, watcher : W]
        /\ s1.bracket = bracket["IDLETIME"] /\ s1.watcher = server.watcher
    BY <2>1, <2>2
  <2> QED  BY <2>1, <2>3 DEF CounterOK, W
<1> HIDE DEF s1
<1>6. /\ CounterOK(idle0)
      /\ OneIdleWatcher /\ IdleAnnounced(s1.bracket, s1.watcher)
           => IdleAnnounced(idle0.bracket, idle0.watcher)
      /\ \A w \in Watchers : WaitsFor(idle0.watcher[w], "SERVERTIME")
           => idle0.watcher[w] = s1.watcher[w]
  <2>1. idle0 = CheckBrackets(s1, 0) \/ idle0 = s1
    BY DEF IdleTimeWakeupReset
  <2> HIDE DEF idle0
  <2> QED  BY <1>2, <1>5, <2>1, CheckedBrackets
<1> HIDE DEF idle0
<1>7. /\ CounterOK(idle)
      /\ OneIdleWatcher /\ IdleAnnounced(idle0.bracket, idle0.watcher)
           => IdleAnnounced(idle.bracket, idle.watcher)
      /\ \A w \in Watchers : WaitsFor(idle.watcher[w], "SERVERTIME")
           => idle.watcher[w] = idle0.watcher[w]
  <2>1. idle = CheckBrackets(idle0, now - last) \/ idle = idle0
    BY DEF IdleTimeWakeup
  <2> HIDE DEF idle
  <2> QED  BY <1>2, <1>6, <2>1, CheckedBrackets
<1> HIDE DEF idle
<1>8. TimeInv'
  <2>1. /\ server.value \in Value /\ idle.value \in Value
        /\ server.bracket \in Brackets /\ idle.bracket \in Brackets
        /\ WatchersOK(idle.watcher)
    BY <1>4, <1>7 DEF CounterOK
  <2>2. value' \in [SystemCounters -> Value] /\ bracket' \in [SystemCounters -> Brackets]
    BY <1>1, <2>1 DEF SystemCounters
  <2>3. WatchersOK(watcher')
    BY <1>1, <2>1
  <2>4. /\ now \in 0..MaxTime /\ last \in 0..now /\ reset \in BOOLEAN
    BY DEF TimeInv, TimeTypeOK
  <2>5. reset' \in BOOLEAN /\ poll' \in {Busy, Never} \cup Nat
    BY <1>1, <2>4
  <2>6. now' \in 0..MaxTime /\ last' \in 0..now'
    BY <1>1, <2>4
  <2>7. watcher' \in [Watchers -> TriggerRecord \cup {None}]
    BY <2>3 DEF WatchersOK
  <2>8. bracket' \in [SystemCounters -> [less : Value \cup {None},
                                         greater : Value \cup {None}]]
    BY <2>2 DEF Brackets
  <2>9. WatchersOK(watcher)'
    BY <2>3 DEF WatchersOK
  <2> QED  BY <2>2, <2>5, <2>6, <2>7, <2>8, <2>9 DEF TimeInv, TimeTypeOK
<1>9. ASSUME OneIdleWatcher, AnnouncedInv PROVE AnnouncedInv'
  <2>1. /\ value'["SERVERTIME"] = server.value
        /\ bracket'["SERVERTIME"] = server.bracket
        /\ bracket'["IDLETIME"] = idle.bracket
    BY <1>1
  <2>2. /\ value["SERVERTIME"] <= now
        /\ TimeAnnounced(bracket["SERVERTIME"], watcher)
        /\ IdleAnnounced(bracket["IDLETIME"], watcher)
    BY <1>9 DEF AnnouncedInv
  <2>3. IdleAnnounced(s1.bracket, s1.watcher)
    BY <1>4, <1>5, <2>2 DEF IdleAnnounced
  <2>4. IdleAnnounced(idle.bracket, idle.watcher)
    BY <1>6, <1>7, <1>9, <2>3
  <2>5. TimeAnnounced(server.bracket, server.watcher)
    BY <1>3, <1>4, <2>2
  <2>6. \A w \in Watchers : WaitsFor(idle.watcher[w], "SERVERTIME")
          => idle.watcher[w] = server.watcher[w]
    BY <1>5, <1>6, <1>7
  <2>7. TimeAnnounced(server.bracket, idle.watcher)
    BY <2>5, <2>6 DEF TimeAnnounced
  <2>8. value'["SERVERTIME"] <= now'
    BY <1>1, <1>4, <2>1, <2>2
  <2>9. TimeAnnounced(bracket["SERVERTIME"], watcher)'
    BY <1>1, <2>1, <2>7 DEF TimeAnnounced
  <2>10. IdleAnnounced(bracket["IDLETIME"], watcher)'
    BY <1>1, <2>1, <2>4 DEF IdleAnnounced
  <2> QED  BY <2>8, <2>9, <2>10 DEF AnnouncedInv
<1> QED  BY <1>8, <1>9

---------------------------------------------------------------------------
(* Each step keeps the types, and what is waited for announced.            *)

LEMMA TimeInitInv == TimeInit => TimeInv /\ AnnouncedInv /\ PollInTime
<1> SUFFICES ASSUME TimeInit PROVE TimeInv /\ AnnouncedInv /\ PollInTime
  OBVIOUS
<1>1. /\ now = 0 /\ last = 0 /\ reset = FALSE /\ poll = -1
      /\ value = [k \in SystemCounters |-> 0]
      /\ bracket = [k \in SystemCounters |-> [less |-> None, greater |-> None]]
      /\ watcher = [w \in Watchers |-> None]
  BY DEF TimeInit, Busy, NoBracket
<1>2. 0 \in Value /\ MaxTime \in Nat
  BY ValueBounds, SyncTimeAssumption
<1>3. \A w \in Watchers : watcher[w] = None
  BY <1>1
<1>4. WatchersOK(watcher)
  BY <1>1, <1>3 DEF WatchersOK
<1>5. TimeTypeOK
  <2>1. now \in 0..MaxTime /\ last \in 0..now
    BY <1>1, <1>2
  <2>2. value \in [SystemCounters -> Value]
    BY <1>1, <1>2
  <2>3. bracket \in [SystemCounters -> [less : Value \cup {None},
                                        greater : Value \cup {None}]]
    BY <1>1
  <2>4. watcher \in [Watchers -> TriggerRecord \cup {None}]
    BY <1>4 DEF WatchersOK
  <2>5. poll = Busy
    BY <1>1 DEF Busy
  <2> QED  BY <1>1, <2>1, <2>2, <2>3, <2>4, <2>5 DEF TimeTypeOK
<1>6. AnnouncedInv
  <2>1. value["SERVERTIME"] <= now
    BY <1>1 DEF SystemCounters
  <2> QED  BY <1>3, <2>1 DEF AnnouncedInv, TimeAnnounced, IdleAnnounced, WaitsFor
<1>7. PollInTime
  BY <1>1 DEF PollInTime, Busy
<1> QED  BY <1>4, <1>5, <1>6, <1>7 DEF TimeInv

(* What a request puts into the list.                                      *)
Asked(r, test) ==
  [check |-> r.testType, type |-> r.testType, value |-> test, delta |-> r.delta,
   state |-> "Active", counter |-> r.counter, await |-> r.await]

LEMMA StartIs ==
  ASSUME NEW w, NEW r, StartWatching(w, r)
  PROVE  LET k == r.counter
             v == QueryValue(k)
         IN  /\ poll = Busy /\ poll' = poll /\ now' = now /\ last' = last
             /\ value' = [value EXCEPT ![k] = v]
             /\ \E test \in TestValue(r, v) :
                  LET trigger == Asked(r, test)
                      listed == [watcher EXCEPT ![w] = trigger]
                      fired == [watcher EXCEPT ![w] = Fired(trigger, v)]
                      new == ComputeBracketValues(k, v, listed)
                      holds == Holds(trigger, v, v)
                  IN  /\ watcher' = IF holds THEN fired ELSE listed
                      /\ bracket' = [bracket EXCEPT ![k] =
                                       IF holds /\ r.await
                                       THEN ComputeBracketValues(k, v, fired) ELSE new]
                      /\ reset' = ResetAfter(k, new)
BY DEF StartWatching, Asked

LEMMA RequestsAre ==
  ASSUME NEW w \in Watchers, NEW r \in Asks[w]
  PROVE  /\ r.counter \in SystemCounters /\ r.testType \in TestType
         /\ r.valueType \in {"Absolute", "Relative"}
         /\ r.value \in Value /\ r.delta \in Value /\ r.await \in BOOLEAN
BY SyncTimeAssumption

LEMMA StartStep ==
  ASSUME TimeInv, NEW w \in Watchers, NEW r \in Asks[w], StartWatching(w, r)
  PROVE  TimeInv' /\ (OneIdleWatcher /\ AlarmsBeginAhead /\ AnnouncedInv => AnnouncedInv')
<1> DEFINE k == r.counter
           v == QueryValue(k)
<1>1. PICK test \in TestValue(r, v) :
        LET trigger == Asked(r, test)
            listed == [watcher EXCEPT ![w] = trigger]
            fired == [watcher EXCEPT ![w] = Fired(trigger, v)]
            new == ComputeBracketValues(k, v, listed)
            holds == Holds(trigger, v, v)
        IN  /\ watcher' = IF holds THEN fired ELSE listed
            /\ bracket' = [bracket EXCEPT ![k] =
                             IF holds /\ r.await
                             THEN ComputeBracketValues(k, v, fired) ELSE new]
            /\ reset' = ResetAfter(k, new)
  BY StartIs
<1>2. /\ poll = Busy /\ poll' = poll /\ now' = now /\ last' = last
      /\ value' = [value EXCEPT ![k] = v]
  BY StartIs
<1> DEFINE trigger == Asked(r, test)
           listed == [watcher EXCEPT ![w] = trigger]
           fired == [watcher EXCEPT ![w] = Fired(trigger, v)]
           new == ComputeBracketValues(k, v, listed)
           holds == Holds(trigger, v, v)
<1>3. /\ k \in SystemCounters /\ r.testType \in TestType
      /\ r.valueType \in {"Absolute", "Relative"}
      /\ r.value \in Value /\ r.delta \in Value /\ r.await \in BOOLEAN
  BY RequestsAre
<1>4. /\ v \in Value /\ TimeTypeOK /\ WatchersOK(watcher)
  BY <1>3, TimesAreValues DEF TimeInv
<1> HIDE DEF v
<1>5. /\ test \in Value
      /\ r.valueType = "Relative" => test = v + r.value
  BY DEF TestValue, Overflows
<1>6. /\ trigger \in TriggerRecord /\ AskedFor(trigger, r) /\ trigger.counter = k
      /\ trigger.value = test /\ trigger.check = r.testType
  BY <1>3, <1>5 DEF Asked, TriggerRecord, AskedFor
<1>7. trigger.await = r.await
  BY DEF Asked
<1> HIDE DEF trigger
<1>8. WatchersOK(listed)
  BY <1>4, <1>6 DEF WatchersOK
<1>9. WatchersOK(fired)
  <2>1. Fired(trigger, v) = None \/ (Fired(trigger, v) \in TriggerRecord
                                     /\ AskedFor(Fired(trigger, v), r)
                                     /\ Fired(trigger, v).counter = k)
    BY <1>6, FiredProperties
  <2> QED  BY <1>4, <2>1 DEF WatchersOK
<1>10. /\ \A x \in Watchers : x # w => listed[x] = watcher[x] /\ fired[x] = watcher[x]
       /\ listed[w] = trigger /\ fired[w] = Fired(trigger, v)
  BY <1>4 DEF WatchersOK
<1>11. /\ ComputeBracketValues(k, v, listed) \in Brackets
       /\ ComputeBracketValues(k, v, fired) \in Brackets
  BY <1>8, <1>9, BracketsType
<1>12. /\ watcher' = IF holds THEN fired ELSE listed
       /\ bracket' = [bracket EXCEPT ![k] =
                        IF holds /\ r.await
                        THEN ComputeBracketValues(k, v, fired) ELSE new]
       /\ reset' = ResetAfter(k, new)
  BY <1>1 DEF trigger
<1> HIDE DEF listed, fired
<1>13. TimeInv'
  <2>1. WatchersOK(watcher')
    BY <1>8, <1>9, <1>12
  <2>2. value' \in [SystemCounters -> Value]
    BY <1>2, <1>4 DEF TimeTypeOK
  <2>3. bracket' \in [SystemCounters -> Brackets]
    <3>1. bracket \in [SystemCounters -> Brackets]
      BY <1>4 DEF TimeTypeOK, Brackets
    <3> QED  BY <1>11, <1>12, <3>1
  <2>4. reset' \in BOOLEAN
    <3>1. reset \in BOOLEAN
      BY <1>4 DEF TimeTypeOK
    <3> QED  BY <1>12, <3>1 DEF ResetAfter
  <2>5. /\ now' \in 0..MaxTime /\ last' \in 0..now' /\ poll' \in {Busy, Never} \cup Nat
    BY <1>2, <1>4 DEF TimeTypeOK
  <2>6. watcher' \in [Watchers -> TriggerRecord \cup {None}]
    BY <2>1 DEF WatchersOK
  <2>7. bracket' \in [SystemCounters -> [less : Value \cup {None},
                                         greater : Value \cup {None}]]
    BY <2>3 DEF Brackets
  <2>8. WatchersOK(watcher)'
    BY <2>1 DEF WatchersOK
  <2> QED  BY <2>2, <2>4, <2>5, <2>6, <2>7, <2>8 DEF TimeInv, TimeTypeOK
<1>14. ASSUME OneIdleWatcher, AlarmsBeginAhead, AnnouncedInv PROVE AnnouncedInv'
  \* what is waited for is listed, and if it is new, still to come
  <2>1. \A x \in Watchers : \A c : WaitsFor(watcher'[x], c) =>
          /\ watcher'[x] = IF holds /\ r.await THEN fired[x] ELSE listed[x]
          /\ x = w => ~holds
    <3> SUFFICES ASSUME NEW x \in Watchers, NEW c, WaitsFor(watcher'[x], c)
                 PROVE  /\ watcher'[x] = IF holds /\ r.await THEN fired[x] ELSE listed[x]
                        /\ x = w => ~holds
      OBVIOUS
    <3>1. CASE x = w /\ holds
      <4>1. watcher'[x] = Fired(trigger, v)
        BY <1>10, <1>12, <3>1
      <4>2. ~r.await
        BY <1>7, <4>1 DEF Fired, WaitsFor
      <4>3. r.testType = "PositiveComparison"
        <5>1. Fired(trigger, v) # None /\ Fired(trigger, v).type = "PositiveComparison"
          BY <4>1 DEF WaitsFor
        <5> QED  BY <1>6, <5>1, FiredProperties DEF AskedFor
      <4>4. test = v + r.value /\ r.value > 0
        BY <1>5, <1>14, <4>2, <4>3 DEF AlarmsBeginAhead
      <4>5. v >= test
        BY <1>6, <3>1, <4>3 DEF Holds, CheckTrigger
      <4>6. v \in Int /\ r.value \in Int
        BY <1>3, <1>4, ValuesAreInt
      <4> QED  BY <4>4, <4>5, <4>6
    <3>2. CASE x # w \/ ~holds
      BY <1>10, <1>12, <3>2
    <3> QED  BY <3>1, <3>2
  <2>2. \A c : WaitsFor(watcher'[w], c) => c = k /\ watcher'[w].value = test /\ v < test
    <3> SUFFICES ASSUME NEW c, WaitsFor(watcher'[w], c)
                 PROVE  c = k /\ watcher'[w].value = test /\ v < test
      OBVIOUS
    <3>1. ~holds /\ watcher'[w] = trigger
      BY <1>10, <2>1
    <3>2. trigger.counter = c /\ trigger.type = "PositiveComparison"
      BY <3>1 DEF WaitsFor
    <3>3. trigger.check = "PositiveComparison"
      BY <1>6, <3>2 DEF AskedFor
    <3>4. ~(v >= test)
      BY <1>6, <3>1, <3>3 DEF Holds, CheckTrigger
    <3>5. v \in Int /\ test \in Int
      BY <1>4, <1>5, ValuesAreInt
    <3> QED  BY <1>6, <3>1, <3>2, <3>4, <3>5
  <2> DEFINE seen == IF holds /\ r.await THEN fired ELSE listed
  <2>3. /\ WatchersOK(seen)
        /\ \A x \in Watchers : \A c : WaitsFor(watcher'[x], c) => watcher'[x] = seen[x]
        /\ \A x \in Watchers : x # w => watcher'[x] = watcher[x]
    BY <1>8, <1>9, <1>10, <1>12, <2>1
  <2>4. bracket' = [bracket EXCEPT ![k] = ComputeBracketValues(k, v, seen)]
    BY <1>12
  <2> HIDE DEF seen
  <2>5. /\ value \in [SystemCounters -> Value] /\ DOMAIN bracket = SystemCounters
        /\ DOMAIN value = SystemCounters
    BY <1>4 DEF TimeTypeOK
  <2>6. /\ value["SERVERTIME"] <= now
        /\ TimeAnnounced(bracket["SERVERTIME"], watcher)
        /\ IdleAnnounced(bracket["IDLETIME"], watcher)
    BY <1>14 DEF AnnouncedInv
  <2>7. CASE k = "SERVERTIME"
    <3>1. v = now
      BY <2>7 DEF v, QueryValue
    <3>2. now \in Int
      BY <1>4, <3>1, ValuesAreInt
    <3>3. value'["SERVERTIME"] = now
      BY <1>2, <2>5, <2>7, <3>1 DEF SystemCounters
    <3>4. bracket'["SERVERTIME"] = ComputeBracketValues("SERVERTIME", now, seen)
          /\ bracket'["IDLETIME"] = bracket["IDLETIME"]
      BY <2>4, <2>5, <2>7, <3>1 DEF SystemCounters
    <3>5. TimeAnnounced(bracket'["SERVERTIME"], watcher')
      <4> SUFFICES ASSUME NEW x \in Watchers, WaitsFor(watcher'[x], "SERVERTIME"),
                          now < watcher'[x].value
                   PROVE  /\ bracket'["SERVERTIME"].greater # None
                          /\ bracket'["SERVERTIME"].greater <= watcher'[x].value
        BY DEF TimeAnnounced
      <4>1. watcher'[x] = seen[x]
        BY <2>3
      <4>2. now \in Value /\ WaitsFor(seen[x], "SERVERTIME") /\ now < seen[x].value
        BY <1>4, <3>1, <4>1
      <4> QED  BY <2>3, <3>4, <4>1, <4>2, TimeBracket
    <3>6. IdleAnnounced(bracket'["IDLETIME"], watcher')
      <4> SUFFICES ASSUME NEW x \in Watchers, WaitsFor(watcher'[x], "IDLETIME")
                   PROVE  bracket'["IDLETIME"] = [less |-> None, greater |-> watcher'[x].value]
        BY DEF IdleAnnounced
      <4>1. x # w
        BY <2>2, <2>7
      <4> QED  BY <2>3, <2>6, <3>4, <4>1 DEF IdleAnnounced
    <3>7. AnnouncedInv'
      <4>1. TimeAnnounced(bracket["SERVERTIME"], watcher)'
        BY <1>2, <3>5 DEF TimeAnnounced
      <4>2. IdleAnnounced(bracket["IDLETIME"], watcher)'
        BY <3>6 DEF IdleAnnounced
      <4> QED  BY <1>2, <3>2, <3>3, <4>1, <4>2 DEF AnnouncedInv
    <3> QED  BY <3>7
  <2>8. CASE k = "IDLETIME"
    <3>1. value'["SERVERTIME"] = value["SERVERTIME"]
          /\ bracket'["SERVERTIME"] = bracket["SERVERTIME"]
          /\ bracket'["IDLETIME"] = ComputeBracketValues("IDLETIME", v, seen)
      BY <1>2, <2>4, <2>5, <2>8 DEF SystemCounters
    <3>2. TimeAnnounced(bracket'["SERVERTIME"], watcher')
      <4> SUFFICES ASSUME NEW x \in Watchers, WaitsFor(watcher'[x], "SERVERTIME"),
                          now < watcher'[x].value
                   PROVE  /\ bracket'["SERVERTIME"].greater # None
                          /\ bracket'["SERVERTIME"].greater <= watcher'[x].value
        BY DEF TimeAnnounced
      <4>1. x # w
        BY <2>2, <2>8
      <4> QED  BY <2>3, <2>6, <3>1, <4>1 DEF TimeAnnounced
    <3>3. IdleAnnounced(bracket'["IDLETIME"], watcher')
      <4> SUFFICES ASSUME NEW x \in Watchers, WaitsFor(watcher'[x], "IDLETIME")
                   PROVE  bracket'["IDLETIME"] = [less |-> None, greater |-> watcher'[x].value]
        BY DEF IdleAnnounced
      <4>1. x = w
        <5>1. WaitsFor(seen[x], "IDLETIME")
          BY <2>3
        <5>2. PICK q \in Asks[x] : AskedFor(seen[x], q)
          BY <2>3, <5>1 DEF WatchersOK, WaitsFor
        <5>3. q.counter = "IDLETIME"
          BY <5>1, <5>2 DEF AskedFor, WaitsFor
        <5> QED  BY <1>14, <2>8, <5>3 DEF OneIdleWatcher
      <4>2. v < watcher'[w].value
        BY <2>2, <4>1
      <4>3. watcher'[w] = seen[w] /\ WaitsFor(seen[w], "IDLETIME") /\ v < seen[w].value
        BY <2>3, <4>1, <4>2
      <4> QED  BY <1>4, <1>14, <2>3, <3>1, <4>1, <4>3, IdleBracket
    <3>4. AnnouncedInv'
      <4>1. TimeAnnounced(bracket["SERVERTIME"], watcher)'
        BY <1>2, <3>2 DEF TimeAnnounced
      <4>2. IdleAnnounced(bracket["IDLETIME"], watcher)'
        BY <3>3 DEF IdleAnnounced
      <4> QED  BY <1>2, <2>6, <3>1, <4>1, <4>2 DEF AnnouncedInv
    <3> QED  BY <3>4
  <2> QED  BY <1>3, <2>7, <2>8 DEF SystemCounters
<1> QED  BY <1>13, <1>14

LEMMA StopStep ==
  ASSUME TimeInv, NEW w \in Watchers, StopWatching(w)
  PROVE  TimeInv' /\ (OneIdleWatcher /\ AnnouncedInv => AnnouncedInv')
<1> DEFINE k == watcher[w].counter
           left == [watcher EXCEPT ![w] = None]
<1>1. /\ poll = Busy /\ watcher[w] # None
      /\ watcher' = left
      /\ bracket' = [bracket EXCEPT ![k] = ComputeBracketValues(k, value[k], left)]
      /\ now' = now /\ last' = last /\ reset' = reset /\ value' = value /\ poll' = poll
  BY DEF StopWatching
<1>2. /\ TimeTypeOK /\ WatchersOK(watcher)
      /\ bracket \in [SystemCounters -> Brackets]
      /\ value \in [SystemCounters -> Value]
      /\ now \in Value
  BY TimesAreValues DEF TimeInv, TimeTypeOK, Brackets
<1>3. WatchersOK(left)
  BY <1>2 DEF WatchersOK
<1>4. /\ left[w] = None
      /\ \A x \in Watchers : x # w => left[x] = watcher[x]
  BY <1>2 DEF WatchersOK
<1>5. k \in SystemCounters
  BY <1>1, <1>2 DEF WatchersOK, TriggerRecord
<1>6. ComputeBracketValues(k, value[k], left) \in Brackets
  BY <1>3, BracketsType
<1>7. \A x \in Watchers : \A c : WaitsFor(left[x], c) => x # w /\ left[x] = watcher[x]
  BY <1>4 DEF WaitsFor
<1> HIDE DEF left
<1>8. TimeInv'
  <2>1. bracket' \in [SystemCounters -> Brackets]
    BY <1>1, <1>2, <1>6
  <2>2. bracket' \in [SystemCounters -> [less : Value \cup {None},
                                         greater : Value \cup {None}]]
    BY <2>1 DEF Brackets
  <2>3. WatchersOK(watcher)' /\ watcher' \in [Watchers -> TriggerRecord \cup {None}]
    BY <1>1, <1>3 DEF WatchersOK
  <2> QED  BY <1>1, <1>2, <2>2, <2>3 DEF TimeInv, TimeTypeOK
<1>9. ASSUME OneIdleWatcher, AnnouncedInv PROVE AnnouncedInv'
  <2>1. /\ value["SERVERTIME"] <= now
        /\ TimeAnnounced(bracket["SERVERTIME"], watcher)
        /\ IdleAnnounced(bracket["IDLETIME"], watcher)
    BY <1>9 DEF AnnouncedInv
  <2>2. TimeAnnounced(bracket'["SERVERTIME"], left)
    <3>1. CASE k = "SERVERTIME"
      <4>1. bracket'["SERVERTIME"] =
              ComputeBracketValues("SERVERTIME", value["SERVERTIME"], left)
        BY <1>1, <1>2, <1>5, <3>1
      <4>2. value["SERVERTIME"] \in Value
        BY <1>2, <1>5, <3>1
      <4> SUFFICES ASSUME NEW x \in Watchers, WaitsFor(left[x], "SERVERTIME"),
                          now < left[x].value
                   PROVE  /\ bracket'["SERVERTIME"].greater # None
                          /\ bracket'["SERVERTIME"].greater <= left[x].value
        BY DEF TimeAnnounced
      <4>3. left[x].value \in Value
        BY <1>3 DEF WatchersOK, WaitsFor, TriggerRecord
      <4>4. value["SERVERTIME"] < left[x].value
        <5>1. now \in Int /\ value["SERVERTIME"] \in Int /\ left[x].value \in Int
          BY <1>2, <4>2, <4>3, ValuesAreInt
        <5>2. value["SERVERTIME"] <= now /\ now < left[x].value
          BY <2>1
        <5> HIDE DEF k
        <5> QED  BY <5>1, <5>2
      <4> QED  BY <1>3, <4>1, <4>2, <4>4, TimeBracket
    <3>2. CASE k # "SERVERTIME"
      <4>1. bracket'["SERVERTIME"] = bracket["SERVERTIME"]
        BY <1>1, <1>2, <3>2 DEF SystemCounters
      <4> QED  BY <1>7, <2>1, <4>1 DEF TimeAnnounced
    <3> QED  BY <3>1, <3>2
  <2>3. IdleAnnounced(bracket'["IDLETIME"], left)
    <3> SUFFICES ASSUME NEW x \in Watchers, WaitsFor(left[x], "IDLETIME")
                 PROVE  bracket'["IDLETIME"] = [less |-> None, greater |-> left[x].value]
      BY DEF IdleAnnounced
    <3>1. x # w /\ left[x] = watcher[x] /\ WaitsFor(watcher[x], "IDLETIME")
      BY <1>7
    <3>2. watcher[x] # None /\ watcher[x].counter = "IDLETIME"
      BY <3>1 DEF WaitsFor
    <3>3. k # "IDLETIME"
      <4>1. PICK q \in Asks[x] : AskedFor(watcher[x], q)
        BY <1>2, <3>2 DEF WatchersOK
      <4>2. PICK r \in Asks[w] : AskedFor(watcher[w], r)
        BY <1>1, <1>2 DEF WatchersOK
      <4> QED  BY <1>9, <3>1, <3>2, <4>1, <4>2 DEF OneIdleWatcher, AskedFor
    <3>4. bracket'["IDLETIME"] = bracket["IDLETIME"]
      BY <1>1, <1>2, <3>3 DEF SystemCounters
    <3> QED  BY <2>1, <3>1, <3>4 DEF IdleAnnounced
  <2>4. TimeAnnounced(bracket["SERVERTIME"], watcher)'
    BY <1>1, <2>2 DEF TimeAnnounced
  <2>5. IdleAnnounced(bracket["IDLETIME"], watcher)'
    BY <1>1, <2>3 DEF IdleAnnounced
  <2> QED  BY <1>1, <2>1, <2>4, <2>5 DEF AnnouncedInv
<1> QED  BY <1>8, <1>9

(* How long the poll takes is a natural number, and no longer than until   *)
(* each bracket.                                                           *)
LEMMA DelaysAreNatural ==
  ASSUME TimeInv
  PROVE  (ServertimeDelays \cup IdleTimeDelays) \in SUBSET Nat
<1>1. /\ now \in Nat /\ last \in Nat /\ last <= now
  BY TimesAreValues DEF TimeInv
<1>2. /\ bracket["SERVERTIME"].greater \in Int \cup {None}
      /\ bracket["IDLETIME"].greater \in Int \cup {None}
  <2>1. /\ bracket["SERVERTIME"].greater \in Value \cup {None}
        /\ bracket["IDLETIME"].greater \in Value \cup {None}
    BY DEF TimeInv, TimeTypeOK, SystemCounters
  <2> QED  BY <2>1, ValuesAreInt
<1>3. \A d \in ServertimeDelays : d \in Nat
  BY <1>1, <1>2 DEF ServertimeDelays
<1>4. \A d \in IdleTimeDelays : d \in Nat
  BY <1>1, <1>2 DEF IdleTimeDelays
<1> QED  BY <1>3, <1>4

LEMMA BlockStep ==
  ASSUME TimeInv, BlockHandler
  PROVE  /\ TimeInv'
         /\ AnnouncedInv => AnnouncedInv'
         /\ NoPositiveTransitions /\ AnnouncedInv => PollInTime'
<1> DEFINE delays == ServertimeDelays \cup IdleTimeDelays
<1>1. /\ poll = Busy
      /\ poll' = IF delays = {} THEN Never ELSE now + Min(delays)
      /\ now' = now /\ last' = last /\ reset' = reset /\ value' = value
      /\ bracket' = bracket /\ watcher' = watcher
  BY DEF BlockHandler
<1>2. delays \in SUBSET Nat
  BY DelaysAreNatural
<1>3. /\ now \in Nat /\ last \in Nat /\ last <= now
  BY TimesAreValues DEF TimeInv
<1> HIDE DEF delays
<1>4. delays # {} => Min(delays) \in Nat /\ \A d \in delays : Min(delays) <= d
  BY <1>2, MinProperties
<1>5. poll' \in {Never} \cup Nat
  BY <1>1, <1>3, <1>4
<1>6. TimeInv'
  <2>1. WatchersOK(watcher)'
    BY <1>1 DEF TimeInv, WatchersOK
  <2>2. TimeTypeOK'
    BY <1>1, <1>5 DEF TimeInv, TimeTypeOK
  <2> QED  BY <2>1, <2>2 DEF TimeInv
<1>7. ASSUME AnnouncedInv PROVE AnnouncedInv'
  BY <1>1, <1>7 DEF AnnouncedInv, TimeAnnounced, IdleAnnounced
<1>8. ASSUME NoPositiveTransitions, AnnouncedInv PROVE PollInTime'
  <2> SUFFICES ASSUME NEW w \in Watchers, IsActive(w),
                      watcher[w].type \in PositiveTypes, now < DueAt(w)
               PROVE  poll' <= DueAt(w)
    BY <1>1 DEF PollInTime, IsActive, DueAt
  <2>1. /\ watcher[w] \in TriggerRecord /\ watcher[w] # None
        /\ watcher[w].state = "Active"
    BY DEF IsActive, TimeInv, TimeTypeOK
  <2>2. PICK r \in Asks[w] : AskedFor(watcher[w], r)
    BY <2>1 DEF TimeInv, WatchersOK
  <2>3. watcher[w].type = "PositiveComparison"
    BY <1>8, <2>2 DEF NoPositiveTransitions, AskedFor, PositiveTypes
  <2>4. watcher[w].value \in Int /\ watcher[w].counter \in SystemCounters
    BY <2>1, TriggerIs, ValuesAreInt
  <2>5. CASE watcher[w].counter = "SERVERTIME"
    <3>1. DueAt(w) = watcher[w].value
      BY <2>4, <2>5 DEF DueAt
    <3>2. WaitsFor(watcher[w], "SERVERTIME") /\ now < watcher[w].value
      BY <2>1, <2>3, <2>5, <3>1 DEF WaitsFor
    <3> DEFINE next == bracket["SERVERTIME"].greater
    <3>3. next # None /\ next <= watcher[w].value
      BY <1>8, <3>2 DEF AnnouncedInv, TimeAnnounced
    <3>4. next \in Int
      <4>1. next \in Value \cup {None}
        BY DEF TimeInv, TimeTypeOK, SystemCounters
      <4> QED  BY <3>3, <4>1, ValuesAreInt
    <3>5. (IF now >= next THEN 0 ELSE next - now) \in delays
      BY <3>3 DEF delays, ServertimeDelays
    <3> HIDE DEF next
    <3>6. poll' = now + Min(delays) /\ Min(delays) \in Nat
          /\ Min(delays) <= (IF now >= next THEN 0 ELSE next - now)
      BY <1>1, <1>4, <3>5
    <3> QED  BY <1>3, <2>4, <3>1, <3>2, <3>3, <3>4, <3>6
  <2>6. CASE watcher[w].counter = "IDLETIME"
    <3>1. DueAt(w) = watcher[w].value + last
      BY <2>4, <2>6 DEF DueAt
    <3>2. now - last < watcher[w].value
      BY <1>3, <2>4, <3>1
    <3>3. WaitsFor(watcher[w], "IDLETIME")
      BY <2>1, <2>3, <2>6 DEF WaitsFor
    <3>4. bracket["IDLETIME"] = [less |-> None, greater |-> watcher[w].value]
      BY <1>8, <3>3 DEF AnnouncedInv, IdleAnnounced
    <3>5. bracket["IDLETIME"].less = None
          /\ bracket["IDLETIME"].greater = watcher[w].value /\ watcher[w].value # None
      BY <2>4, <3>4, SyncTimeAssumption
    <3>6. IdleTimeDelays = {watcher[w].value - (now - last)}
      BY <3>2, <3>5 DEF IdleTimeDelays
    <3>7. (watcher[w].value - (now - last)) \in delays
      BY <3>6 DEF delays
    <3>8. poll' = now + Min(delays) /\ Min(delays) \in Nat
          /\ Min(delays) <= watcher[w].value - (now - last)
      BY <1>1, <1>4, <3>7
    <3> QED  BY <1>3, <2>4, <3>1, <3>8
  <2> QED  BY <2>4, <2>5, <2>6 DEF SystemCounters
<1> QED  BY <1>6, <1>7, <1>8

(* Reading a counter, input, and time.                                     *)
LEMMA QueryStep ==
  ASSUME TimeInv, NEW k \in SystemCounters, QueryCounter(k)
  PROVE  TimeInv' /\ (AnnouncedInv => AnnouncedInv')
<1>1. /\ poll = Busy /\ value' = [value EXCEPT ![k] = QueryValue(k)]
      /\ now' = now /\ last' = last /\ reset' = reset /\ bracket' = bracket
      /\ watcher' = watcher /\ poll' = poll
  BY DEF QueryCounter
<1>2. QueryValue(k) \in Value /\ now \in Nat
  BY TimesAreValues DEF TimeInv
<1>3. TimeInv'
  <2>1. WatchersOK(watcher)'
    BY <1>1 DEF TimeInv, WatchersOK
  <2>2. value' \in [SystemCounters -> Value]
    BY <1>1, <1>2 DEF TimeInv, TimeTypeOK
  <2>3. TimeTypeOK'
    BY <1>1, <2>2 DEF TimeInv, TimeTypeOK
  <2> QED  BY <2>1, <2>3 DEF TimeInv
<1>4. ASSUME AnnouncedInv PROVE AnnouncedInv'
  <2>1. value["SERVERTIME"] <= now /\ "SERVERTIME" \in DOMAIN value
    BY <1>4 DEF AnnouncedInv, TimeInv, TimeTypeOK, SystemCounters
  <2>2. value'["SERVERTIME"] <= now
    <3>1. CASE k = "SERVERTIME"
      BY <1>1, <1>2, <2>1, <3>1 DEF QueryValue
    <3>2. CASE k # "SERVERTIME"
      BY <1>1, <2>1, <3>2
    <3> QED  BY <3>1, <3>2
  <2> QED  BY <1>1, <1>4, <2>2 DEF AnnouncedInv, TimeAnnounced, IdleAnnounced
<1> QED  BY <1>3, <1>4

LEMMA NoticeStep ==
  ASSUME TimeInv, NoticeTime
  PROVE  TimeInv' /\ (AnnouncedInv => AnnouncedInv')
<1>1. /\ poll = Busy /\ last' = now /\ reset' = TRUE /\ now' = now /\ value' = value
      /\ bracket' = bracket /\ watcher' = watcher /\ poll' = poll
  BY DEF NoticeTime
<1>2. TimeInv'
  <2>1. WatchersOK(watcher)'
    BY <1>1 DEF TimeInv, WatchersOK
  <2>2. last' \in 0..now'
    BY <1>1, TimesAreValues DEF TimeInv
  <2>3. TimeTypeOK'
    BY <1>1, <2>2 DEF TimeInv, TimeTypeOK
  <2> QED  BY <2>1, <2>3 DEF TimeInv
<1>3. ASSUME AnnouncedInv PROVE AnnouncedInv'
  BY <1>1, <1>3 DEF AnnouncedInv, TimeAnnounced, IdleAnnounced
<1> QED  BY <1>2, <1>3

LEMMA TickStep ==
  ASSUME TimeInv, Tick
  PROVE  /\ TimeInv'
         /\ AnnouncedInv => AnnouncedInv'
         /\ PollInTime => PollInTime'
<1>1. /\ now < MaxTime /\ now' = now + 1
      /\ last' = last /\ reset' = reset /\ value' = value
      /\ bracket' = bracket /\ watcher' = watcher /\ poll' = poll
  BY DEF Tick
<1>2. now \in Nat /\ last \in 0..now /\ MaxTime \in Nat
  BY TimesAreValues, SyncTimeAssumption DEF TimeInv, TimeTypeOK
<1>3. TimeInv'
  <2>1. WatchersOK(watcher)'
    BY <1>1 DEF TimeInv, WatchersOK
  <2>2. now' \in 0..MaxTime /\ last' \in 0..now'
    BY <1>1, <1>2
  <2>3. TimeTypeOK'
    BY <1>1, <2>2 DEF TimeInv, TimeTypeOK
  <2> QED  BY <2>1, <2>3 DEF TimeInv
<1>4. \A w \in Watchers : watcher[w] # None => watcher[w].value \in Int
  <2>1. \A w \in Watchers : watcher[w] # None => watcher[w] \in TriggerRecord
    BY DEF TimeInv, TimeTypeOK
  <2> QED  BY <2>1, TriggerIs, ValuesAreInt
<1>5. ASSUME AnnouncedInv PROVE AnnouncedInv'
  <2>1. value["SERVERTIME"] \in Int
    BY ValuesAreInt DEF TimeInv, TimeTypeOK, SystemCounters
  <2>2. value'["SERVERTIME"] <= now'
    BY <1>1, <1>2, <1>5, <2>1 DEF AnnouncedInv
  <2>3. TimeAnnounced(bracket["SERVERTIME"], watcher)'
    <3>1. TimeAnnounced(bracket["SERVERTIME"], watcher)
      BY <1>5 DEF AnnouncedInv
    <3>2. \A w \in Watchers : WaitsFor(watcher[w], "SERVERTIME") /\ now' < watcher[w].value
            => now < watcher[w].value
      BY <1>1, <1>2, <1>4 DEF WaitsFor
    <3> QED  BY <1>1, <3>1, <3>2 DEF TimeAnnounced
  <2>4. IdleAnnounced(bracket["IDLETIME"], watcher)'
    BY <1>1, <1>5 DEF AnnouncedInv, IdleAnnounced
  <2> QED  BY <2>2, <2>3, <2>4 DEF AnnouncedInv
<1>6. ASSUME PollInTime PROVE PollInTime'
  <2>1. \A w \in Watchers : IsActive(w) => DueAt(w) \in Int
    BY <1>2, <1>4 DEF IsActive, DueAt
  <2>2. \A w \in Watchers : IsActive(w) /\ now' < DueAt(w) => now < DueAt(w)
    BY <1>1, <1>2, <2>1
  <2> QED  BY <1>1, <1>6, <2>2 DEF PollInTime, IsActive, DueAt
<1> QED  BY <1>3, <1>5, <1>6

---------------------------------------------------------------------------
(* The theorems.                                                           *)

LEMMA TimeInvStep ==
  ASSUME TimeInv, [TimeNext]_timeVars
  PROVE  TimeInv'
<1>1. CASE TimesOut
  BY <1>1, WakeupStep DEF TimesOut
<1>2. CASE WokenUp
  BY <1>2, WakeupStep DEF WokenUp
<1>3. CASE BlockHandler
  BY <1>3, BlockStep
<1>4. CASE \E w \in Watchers : \E r \in Asks[w] : StartWatching(w, r)
  BY <1>4, StartStep
<1>5. CASE \E w \in Watchers : StopWatching(w)
  BY <1>5, StopStep
<1>6. CASE \E k \in SystemCounters : QueryCounter(k)
  BY <1>6, QueryStep
<1>7. CASE NoticeTime
  BY <1>7, NoticeStep
<1>8. CASE Tick
  BY <1>8, TickStep
<1>9. CASE UNCHANGED timeVars
  BY <1>9 DEF timeVars, TimeInv, TimeTypeOK, WatchersOK
<1> QED  BY <1>1, <1>2, <1>3, <1>4, <1>5, <1>6, <1>7, <1>8, <1>9 DEF TimeNext

LEMMA AnnouncedStep ==
  ASSUME OneIdleWatcher, AlarmsBeginAhead, TimeInv, AnnouncedInv, [TimeNext]_timeVars
  PROVE  AnnouncedInv'
<1>1. CASE TimesOut
  BY <1>1, WakeupStep DEF TimesOut
<1>2. CASE WokenUp
  BY <1>2, WakeupStep DEF WokenUp
<1>3. CASE BlockHandler
  BY <1>3, BlockStep
<1>4. CASE \E w \in Watchers : \E r \in Asks[w] : StartWatching(w, r)
  BY <1>4, StartStep
<1>5. CASE \E w \in Watchers : StopWatching(w)
  BY <1>5, StopStep
<1>6. CASE \E k \in SystemCounters : QueryCounter(k)
  BY <1>6, QueryStep
<1>7. CASE NoticeTime
  BY <1>7, NoticeStep
<1>8. CASE Tick
  BY <1>8, TickStep
<1>9. CASE UNCHANGED timeVars
  BY <1>9 DEF timeVars, AnnouncedInv, TimeAnnounced, IdleAnnounced
<1> QED  BY <1>1, <1>2, <1>3, <1>4, <1>5, <1>6, <1>7, <1>8, <1>9 DEF TimeNext

LEMMA PollInTimeStep ==
  ASSUME NoPositiveTransitions, TimeInv, AnnouncedInv, PollInTime, [TimeNext]_timeVars
  PROVE  PollInTime'
<1>1. CASE WakeupHandler
  BY <1>1, WakeupIs DEF PollInTime
<1>2. CASE BlockHandler
  BY <1>2, BlockStep
<1>3. CASE \E w \in Watchers : \E r \in Asks[w] : StartWatching(w, r)
  BY <1>3, StartIs DEF PollInTime
<1>4. CASE \E w \in Watchers : StopWatching(w)
  BY <1>4 DEF StopWatching, PollInTime
<1>5. CASE \E k \in SystemCounters : QueryCounter(k)
  BY <1>5 DEF QueryCounter, PollInTime
<1>6. CASE NoticeTime
  BY <1>6 DEF NoticeTime, PollInTime
<1>7. CASE Tick
  BY <1>7, TickStep
<1>8. CASE UNCHANGED timeVars
  BY <1>8 DEF timeVars, PollInTime, IsActive, DueAt
<1> QED  BY <1>1, <1>2, <1>3, <1>4, <1>5, <1>6, <1>7, <1>8 DEF TimeNext, TimesOut, WokenUp

(* SyncInitTrigger and SyncAlarmTriggerFired keep the test values, and so  *)
(* the brackets of SyncComputeBracketValues, within the 64 bits, and the   *)
(* delays of the block handlers are not negative.                          *)
THEOREM SystemCountersTypeCorrect == TimeSpec => []TimeTypeOK
<1>1. TimeInit => TimeInv
  BY TimeInitInv
<1>2. TimeInv /\ [TimeNext]_timeVars => TimeInv'
  BY TimeInvStep
<1>3. TimeInv => TimeTypeOK
  BY DEF TimeInv
<1> QED  BY <1>1, <1>2, <1>3, PTL DEF TimeSpec

(* ServertimeBlockHandler and IdleTimeBlockHandler shorten the poll for    *)
(* every comparison that waits for its counter to increase, under the      *)
(* conditions in which the brackets announce them all.                     *)
THEOREM SleepsInTime ==
  ASSUME NoPositiveTransitions, AlarmsBeginAhead, OneIdleWatcher
  PROVE  TimeSpec => []PollInTime
<1>1. TimeInit => TimeInv /\ AnnouncedInv /\ PollInTime
  BY TimeInitInv
<1>2. TimeInv /\ [TimeNext]_timeVars => TimeInv'
  BY TimeInvStep
<1>3. TimeInv /\ AnnouncedInv /\ [TimeNext]_timeVars => AnnouncedInv'
  BY AnnouncedStep
<1>4. TimeInv /\ AnnouncedInv /\ PollInTime /\ [TimeNext]_timeVars => PollInTime'
  BY PollInTimeStep
<1> QED  BY <1>1, <1>2, <1>3, <1>4, PTL DEF TimeSpec
=============================================================================
