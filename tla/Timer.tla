------------------------------- MODULE Timer -------------------------------
(***************************************************************************)
(* nsleep and usleep (src/timer.c) over the HPET (src/drivers/hpet.c).     *)
(* Both poll the main counter and add up the ticks between two polls; they *)
(* must notice that the counter, or the 32 bits usleep keeps of it, went   *)
(* through zero in between.                                                *)
(***************************************************************************)
EXTENDS Integers

CONSTANTS
    U32, U64,     \* 2^32 and 2^64
    period,       \* hpet_period, in femtoseconds
    FsecPerNsec,  \* 1000000
    NsecPerUsec,  \* 1000
    Requests,     \* what nsleep and usleep are asked for
    MaxStep,      \* the most ticks between two polls: a bound
    LastStart,    \* no sleep begins after this tick: a bound
    MaxCount      \* the counter is followed up to here: a bound

ASSUME TimerAssumption ==
    /\ {U32, U64, period, FsecPerNsec, NsecPerUsec, MaxStep} \subseteq Nat \ {0}
    /\ U32 <= U64 /\ U64 % U32 = 0 /\ MaxStep < U32
    /\ Requests \subseteq Nat
    /\ \A n \in Requests : n * FsecPerNsec * NsecPerUsec + MaxStep * period < U64
    /\ {LastStart, MaxCount} \subseteq Nat

VARIABLES
    count,       \* the ticks since hpet_init set the counter to 0
    hpet_width,  \* hpet_counter_width
    pc, func,    \* nsleep or usleep, while it runs
    request,     \* its argument
    time0,       \* its local variables
    elapsed,
    begin        \* history: the tick it began at

locals == <<pc, func, request, time0, elapsed, begin>>
vars == <<count, hpet_width, locals>>
-----------------------------------------------------------------------------
(* hpet_init stops the counter, sets it to 0 and starts it.                *)
TimerInit ==
    /\ count = 0
    /\ hpet_width \in {32, 64}
    /\ pc = "idle" /\ func = "nsleep" /\ request = 0
    /\ time0 = 0 /\ elapsed = 0 /\ begin = 0

hpet_get_count == count % (IF hpet_width = 64 THEN U64 ELSE U32)

hpet_convert_to_nsec(ticks) == ((ticks * period) % U64) \div FsecPerNsec

(* time0 and time1 are u64 in nsleep and u32 in usleep.                    *)
Word(f) == IF f = "usleep" THEN U32 ELSE U64

now(f) == hpet_get_count % Word(f)

(* 1 << width for an int: the processor takes the shift modulo 32, and     *)
(* width is 32 or 64.                                                      *)
Shifted == 1

(* Variant: what is added is the time and not the difference.              *)
WholeTime(f, time1) == time1

(* What is added to elapsed; for a counter that went through zero the      *)
(* subtraction from 1 << width is one of Word's width.                     *)
Increment(f, time1) ==
    IF time1 < time0 THEN ((Shifted - time1) % Word(f)) + time0
    ELSE time1 - time0

ConvertedElapsed(f, ticks) ==
    IF f = "usleep" THEN hpet_convert_to_nsec(ticks) \div NsecPerUsec
    ELSE hpet_convert_to_nsec(ticks)

sleep(f, n) ==
    /\ pc = "idle" /\ count <= LastStart
    /\ pc' = "sleep" /\ func' = f /\ request' = n
    /\ elapsed' = 0 /\ time0' = now(f)
    /\ begin' = count
    /\ UNCHANGED <<count, hpet_width>>

nsleep(n) == sleep("nsleep", n)
usleep(n) == sleep("usleep", n)

(* Variant: the last difference replaces the sum of the ones before.       *)
Overwrite ==
    LET time1 == now(func)
    IN  /\ pc = "sleep"
        /\ elapsed' = Increment(func, time1) % U64
        /\ time0' = time1
        /\ pc' = IF ConvertedElapsed(func, elapsed') < request
                 THEN "sleep" ELSE "idle"
        /\ UNCHANGED <<count, hpet_width, func, request, begin>>

(* One round of the loop and its test, which "continue" gets to as well.   *)
poll ==
    LET time1 == now(func)
    IN  /\ pc = "sleep"
        /\ elapsed' = (elapsed + Increment(func, time1)) % U64
        /\ time0' = time1
        /\ pc' = IF ConvertedElapsed(func, elapsed') < request
                 THEN "sleep" ELSE "idle"
        /\ UNCHANGED <<count, hpet_width, func, request, begin>>

(* A sleeping processor polls again before the counter is MaxStep further. *)
tick(n) ==
    /\ count + n <= MaxCount
    /\ pc = "sleep" => time0 = now(func)
    /\ count' = count + n
    /\ UNCHANGED <<hpet_width, locals>>

(* The bound: the counter is not followed any further.                     *)
followed == pc = "idle" /\ count > MaxCount - MaxStep /\ UNCHANGED vars

TimerNext ==
    \/ \E n \in Requests : nsleep(n) \/ usleep(n)
    \/ poll
    \/ \E n \in 1 .. MaxStep : tick(n)
    \/ followed

TimerSpec == TimerInit /\ [][TimerNext]_vars

(* The counter counts, and the processor polls it.                         *)
TimerFairSpec == TimerSpec /\ WF_vars(poll) /\ WF_vars(\E n \in 1 .. MaxStep : tick(n))
-----------------------------------------------------------------------------
(* The time asked for is over.                                             *)
Asked == request * FsecPerNsec * (IF func = "usleep" THEN NsecPerUsec ELSE 1)
LongEnough == (count - begin) * period >= Asked

(* What the function reads went through zero since it began.               *)
Wrapped ==
    LET word == IF func = "usleep" \/ hpet_width = 32 THEN U32 ELSE U64
    IN  begin \div word # count \div word

(* While what it reads does not go through zero, a sleep returns at the    *)
(* first poll at which the time asked for is over, and not before, however *)
(* the ticks fall between the polls (nsleep, usleep).                      *)
SleepExact ==
    [][pc = "sleep" /\ poll /\ ~Wrapped => (pc' = "idle" <=> LongEnough)]_vars

(* Every sleep ends, also one the counter goes through zero in.            *)
SleepEnds == pc = "sleep" ~> pc = "idle"

(* "we wait for 10msec after the completion of software reset"             *)
(* (src/drivers/ixgbe.c:680): a sleep lasts as long as it was asked to.    *)
SleepsLongEnough == [][pc = "sleep" /\ pc' = "idle" => LongEnough]_vars
=============================================================================
