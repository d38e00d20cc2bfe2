------------------------------ MODULE Timespec ------------------------------
(***************************************************************************)
(* The time arithmetic of timespec.c on seconds and nanoseconds.  The      *)
(* other modules count in whole milliseconds; PacketBuffer_proofs shows    *)
(* that what is computed here with carries and borrows is what they        *)
(* compute with plain numbers.                                             *)
(***************************************************************************)
EXTENDS Integers

NsecPerMs == 1000 * 1000
Billion == 1000 * NsecPerMs

\* A struct timespec as clock_gettime fills it in.
Timespec == [sec : Nat, nsec : 0..Billion - 1]

\* The instant a timespec stands for, in nanoseconds; the code has no such number.
Nanos(t) == Billion * t.sec + t.nsec

\* The timespec that timeAddMs and timeSubMs build from their argument.
OfMs(ms) == [sec |-> ms \div 1000, nsec |-> (ms % 1000) * NsecPerMs]

\* timespec_cmp
Cmp(a, b) ==
  CASE a.sec < b.sec -> -1
    [] a.sec > b.sec -> 1
    [] a.sec = b.sec /\ a.nsec < b.nsec -> -1
    [] a.sec = b.sec /\ a.nsec > b.nsec -> 1
    [] OTHER -> 0

\* timeAdd: the loop carries as long as there is a full second.
TimeAdd(t1, t2) ==
  LET nsec == t1.nsec + t2.nsec
  IN  [sec |-> t1.sec + t2.sec + (nsec \div Billion), nsec |-> nsec % Billion]

\* The later minus the earlier of two timespecs, with the borrow.
Difference(later, earlier) ==
  IF later.nsec >= earlier.nsec
  THEN [sec |-> later.sec - earlier.sec, nsec |-> later.nsec - earlier.nsec]
  ELSE [sec |-> (later.sec - earlier.sec) - 1,
        nsec |-> (Billion - earlier.nsec) + later.nsec]

\* timeSub: the distance, and its sign apart from it.
TimeSub(t1, t2) ==
  IF Cmp(t1, t2) < 0
  THEN [sign |-> -1, time |-> Difference(t2, t1)]
  ELSE [sign |-> 1, time |-> Difference(t1, t2)]

\* settime of taskqueue.c: when a task posted at t is due.  The milliseconds may
\* be more than a second's.
SetTime(t, timeout, millisecs) ==
  TimeAdd(t, [sec |-> timeout, nsec |-> millisecs * NsecPerMs])

TimeAddMs(t, ms) == TimeAdd(t, OfMs(ms))

\* timeSubMs keeps the distance and drops the sign.
TimeSubMs(t, ms) == TimeSub(t, OfMs(ms)).time

\* timespec_isnear
IsNear(t1, t2, ms) ==
  \/ Cmp(t2, TimeAddMs(t1, ms)) <= 0 /\ Cmp(t2, t1) >= 0
  \/ Cmp(t2, TimeSubMs(t1, ms)) >= 0 /\ Cmp(t2, t1) <= 0
=============================================================================
