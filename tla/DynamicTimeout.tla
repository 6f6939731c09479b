--------------------------- MODULE DynamicTimeout ---------------------------
(* Timeouts that adapt to the durations of the operations they bound          *)
(* (dynamic-timeouts.go): callers log durations into a small array, and the   *)
(* caller that fills it computes the next timeout.  The index of a slot is    *)
(* taken by an atomic addition before the mutex that guards the array.        *)
EXTENDS Integers, FiniteSets

CONSTANTS Callers,
          LogSize,             \* dynamicTimeoutLogSize, 16 in the code
          Durations,           \* durations of operations that succeeded
          FirstTimeout, Minimum,
          MaxTimeout,          \* maxDynamicTimeout
          MaxLogged            \* bound on the operations logged

ASSUME DynamicTimeoutAssumption ==
  /\ IsFiniteSet(Callers)
  /\ LogSize \in Nat \ {0} /\ MaxLogged \in Nat
  /\ Durations \subseteq Nat
  /\ {FirstTimeout, Minimum, MaxTimeout} \subseteq Nat \ {0}
  /\ Minimum <= FirstTimeout /\ FirstTimeout <= MaxTimeout

Failure == -1      \* maxDuration in the log
Slots == 0..LogSize - 1
Logs == [Slots -> Durations \cup {0, Failure}]
FreshLog == [i \in Slots |-> 0]
NotLogging == [pc |-> "rest", index |-> 0, dur |-> 0, copy |-> FreshLog, next |-> 0]

VARIABLES timeout, entries, log,
          caller,     \* where each caller is in logEntry
          logged,     \* operations logged
          failures,   \* history: of these, failures
          overtaken   \* history: the array was copied before a slot was filled

timeoutVars == <<timeout, entries, log, caller, logged, failures, overtaken>>

\* Type invariant: every caller has a slot of the array.
TimeoutTypeOK ==
  /\ timeout \in Nat
  /\ entries \in 0..MaxLogged
  /\ log \in Logs
  /\ \A c \in Callers :
       /\ caller[c].pc \in {"rest", "store", "adjust", "set"}
       /\ caller[c].index \in Slots /\ caller[c].dur \in Durations \cup {0, Failure}
       /\ caller[c].copy \in Logs /\ caller[c].next \in Nat
  /\ logged \in 0..MaxLogged /\ failures \in 0..logged
  /\ overtaken \in BOOLEAN

TimeoutInit ==
  /\ timeout = FirstTimeout /\ entries = 0 /\ log = FreshLog
  /\ caller = [c \in Callers |-> NotLogging]
  /\ logged = 0 /\ failures = 0 /\ overtaken = FALSE

\* LogSuccess, LogFailure: the slot is taken; beyond the last slot nothing is
\* logged.
LogEntry(c, dur) ==
  /\ caller[c].pc = "rest" /\ logged < MaxLogged
  /\ logged' = logged + 1
  /\ failures' = IF dur = Failure THEN failures + 1 ELSE failures
  /\ entries' = entries + 1
  /\ caller' = IF entries < LogSize
               THEN [caller EXCEPT ![c] = [NotLogging EXCEPT !.pc = "store", !.index = entries, !.dur = dur]]
               ELSE caller
  /\ UNCHANGED <<timeout, log, overtaken>>

\* Under the mutex; whoever has the last slot copies the array and starts the
\* next round.
StoreEntry(c) ==
  LET last == caller[c].index = LogSize - 1
  IN /\ caller[c].pc = "store"
     /\ log' = [log EXCEPT ![caller[c].index] = caller[c].dur]
     /\ entries' = IF last THEN 0 ELSE entries
     /\ caller' = [caller EXCEPT ![c] = IF last THEN [NotLogging EXCEPT !.pc = "adjust", !.copy = log']
                                        ELSE NotLogging]
     /\ overtaken' = (overtaken \/ (last /\ \E d \in Callers \ {c} : caller[d].pc = "store"))
     /\ UNCHANGED <<timeout, logged, failures>>

-----------------------------------------------------------------------------
(* adjust.                                                                    *)

AtLeast(low, t) == IF t < low THEN low ELSE t
AtMost(high, t) == IF t > high THEN high ELSE t
Longest(mx, copy) ==
  /\ mx = 0 \/ \E i \in Slots : copy[i] = mx
  /\ \A i \in Slots : copy[i] <= mx
Failed(copy) == Cardinality({i \in Slots : copy[i] = Failure})

\* Mutant of Raised: the cap is forgotten.
RaisedNoCap(t) == AtLeast(Minimum, (t * 125) \div 100)

\* By a quarter, up to the cap.
Raised(t) == AtLeast(Minimum, AtMost(MaxTimeout, (t * 125) \div 100))

\* Half way towards 125 % of the longest duration.
Lowered(t, mx) == AtLeast(Minimum, IF mx < t THEN (mx + t) \div 2 ELSE t)

\* More than 33 % failures raise the timeout, fewer than 10 % lower it.
Many(copy) == 100 * Failed(copy) > 33 * LogSize
Few(copy) == 100 * Failed(copy) < 10 * LogSize
SetNext(c, next) == caller' = [caller EXCEPT ![c] = [NotLogging EXCEPT !.pc = "set", !.next = next]]

\* The timeout is loaded and stored by two atomic operations; between the two
\* thresholds it is left alone.
Adjust(c) ==
  LET copy == caller[c].copy
  IN /\ caller[c].pc = "adjust"
     /\ \/ Many(copy) /\ SetNext(c, Raised(timeout))
        \/ /\ Few(copy)
           /\ \E mx \in Durations \cup {0} : Longest(mx, copy) /\ SetNext(c, Lowered(timeout, (mx * 125) \div 100))
        \/ ~Many(copy) /\ ~Few(copy) /\ caller' = [caller EXCEPT ![c] = NotLogging]
     /\ UNCHANGED <<timeout, entries, log, logged, failures, overtaken>>

SetTimeout(c) ==
  /\ caller[c].pc = "set"
  /\ timeout' = caller[c].next
  /\ caller' = [caller EXCEPT ![c] = NotLogging]
  /\ UNCHANGED <<entries, log, logged, failures, overtaken>>

TimeoutNext ==
  \E c \in Callers :
    \/ \E dur \in Durations \cup {Failure} : LogEntry(c, dur)
    \/ StoreEntry(c) \/ Adjust(c) \/ SetTimeout(c)

TimeoutSpec == TimeoutInit /\ [][TimeoutNext]_timeoutVars

-----------------------------------------------------------------------------
(* Properties.                                                                *)

\* The timeout, and one on its way to be stored, is within the minimum and the
\* cap, however the adjustments of two callers interleave.
TimeoutInBounds ==
  /\ timeout \in Minimum..MaxTimeout
  /\ \A c \in Callers : caller[c].pc = "set" => caller[c].next \in Minimum..MaxTimeout

\* As long as nothing failed, slots that are overtaken or left from an earlier
\* round never make the timeout longer than it was at first.
SuccessNeverRaises == failures = 0 => timeout <= FirstTimeout

\* When every operation failed, the timeout is not made shorter, unless the
\* array was once copied before the callers of all its slots had stored.
FailuresNeverLower == failures = logged /\ ~overtaken => timeout >= FirstTimeout

\* The timeout adapts in the right direction and within its bounds, although
\* slots are claimed before the mutex and adjustments interleave.
TimeoutAdapts == TimeoutInBounds /\ SuccessNeverRaises /\ FailuresNeverLower
=============================================================================
