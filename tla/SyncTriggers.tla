---------------------------- MODULE SyncTriggers ----------------------------
(***************************************************************************)
(* The values and the trigger tests of the Sync extension,                 *)
(* Xext/sync/sync.c: 64 bit values with checked arithmetic, the four test  *)
(* types, and how far an alarm that has gone off is moved on.              *)
(***************************************************************************)
EXTENDS Integers, FiniteSets, FiniteSetsExt

CONSTANTS
  Limit,   \* bound: the least value that is too large, 2^63 in the code
  None     \* what is no object, value or trigger

ASSUME LimitAssumption == Limit \in Nat \ {0, 1}   \* 1 is a delta

MaxValue == Limit - 1
MinValue == -Limit
Value == MinValue..MaxValue

(* checked_int64_add: the sum modulo 2^64, as a signed value, and whether  *)
(* it overflows.                                                           *)
Wrapped(v) == ((v - MinValue) % (2 * Limit)) + MinValue
Overflows(v) == v \notin Value

PositiveTypes == {"PositiveTransition", "PositiveComparison"}
NegativeTypes == {"NegativeTransition", "NegativeComparison"}
ComparisonTypes == {"PositiveComparison", "NegativeComparison"}
TestType == PositiveTypes \cup NegativeTypes

(* The four SyncCheckTrigger functions for counters, called when the value *)
(* of the counter has changed from oldval.                                 *)
CheckTrigger(type, test, oldval, value) ==
  \/ type = "PositiveComparison" /\ value >= test
  \/ type = "NegativeComparison" /\ value <= test
  \/ type = "PositiveTransition" /\ oldval < test /\ value >= test
  \/ type = "NegativeTransition" /\ oldval > test /\ value <= test

(* The sign of delta agrees with the test type.                            *)
DeltaMatches(type, delta) ==
  /\ type \in PositiveTypes => delta >= 0
  /\ type \in NegativeTypes => delta <= 0

(* The loop of SyncAlarmTriggerFired: delta is added, at least once, until *)
(* the trigger is false or the sum overflows.  Steps has a member as long  *)
(* as the loop ends.                                                       *)
Steps(check, test, delta, value) ==
  {n \in 1..(2 * Limit) : \/ Overflows(test + n * delta)
                     \/ ~CheckTrigger(check, test + n * delta, value, value)}

(* Variant: delta is added once.                                           *)
MovedOnOnce(check, test, delta, value) == test + delta

MovedOn(check, test, delta, value) ==
  test + Min(Steps(check, test, delta, value)) * delta

(* SyncAlarmTriggerFired: an alarm on a counter after it has gone off.     *)
AlarmAfter(al, value) ==
  LET next == MovedOn(al.check, al.value, al.delta, value)
  IN  IF al.state # "Active" THEN al
      ELSE IF (al.delta = 0 /\ al.type \in ComparisonTypes) \/ Overflows(next)
      THEN [al EXCEPT !.state = "Inactive"]
      ELSE [al EXCEPT !.value = next]
=============================================================================
