----------------------------- MODULE Conversion -----------------------------
(***************************************************************************)
(* Arithmetic that converts times: JRT_MillisecondsToTicks (port_cm7.c)    *)
(* and the 64-bit division of kernel/benchmark.c, which the target has no  *)
(* instruction for.  The widths and the factor 1000 are constants, so that *)
(* every boundary is reached on small numbers.                             *)
(***************************************************************************)
EXTENDS Integers, FiniteSetsExt

CONSTANTS
    MILLI,        \* 1000
    UINT32_MAX,   \* largest single-width number
    WIDE_BITS,    \* 64: bits of a double-width number
    TickRate,     \* values of JRT_TICK_RATE_HZ
    CoreClock,    \* values of JRT_CORE_CLOCK_HZ
    Milliseconds, \* arguments of JRT_MillisecondsToTicks
    PeriodTicks   \* arguments of period_to_cycles

\* 1 << n
PowerOfTwo(n) ==
    LET shift[k \in 0 .. n] == IF k = 0 THEN 1 ELSE 2 * shift[k - 1]
    IN  shift[n]

\* A product of two single-width numbers fits the double width.
ASSUME ConversionAssumption ==
    /\ MILLI \in Nat \ {0}
    /\ UINT32_MAX \in Nat /\ WIDE_BITS \in Nat
    /\ MILLI * MILLI <= UINT32_MAX
    /\ TickRate \subseteq 1 .. UINT32_MAX
    /\ CoreClock \cup Milliseconds \cup PeriodTicks \subseteq 0 .. UINT32_MAX
    /\ UINT32_MAX * UINT32_MAX < PowerOfTwo(WIDE_BITS)

Word(n) == n % (UINT32_MAX + 1)

(* Mutant: the fraction of a tick is cut off.                              *)
MillisecondsToTicksDown(milliseconds, rate) ==
    LET whole_seconds == milliseconds \div MILLI
        whole_ticks == Word(whole_seconds * rate)
        remaining_ticks == Word(((milliseconds % MILLI) * rate) \div MILLI)
    IN  IF \/ whole_seconds > UINT32_MAX \div rate
           \/ whole_ticks > UINT32_MAX - remaining_ticks
        THEN UINT32_MAX
        ELSE whole_ticks + remaining_ticks

JRT_MillisecondsToTicks(milliseconds, rate) ==
    LET whole_seconds == milliseconds \div MILLI
        remaining_milliseconds == milliseconds % MILLI
        whole_ticks == Word(whole_seconds * rate)
        fractional_ticks == Word(remaining_milliseconds * (rate % MILLI))
        remaining_ticks ==
            Word(Word(remaining_milliseconds * (rate \div MILLI))
                 + Word(fractional_ticks + MILLI - 1) \div MILLI)
    IN  IF \/ whole_seconds > UINT32_MAX \div rate
           \/ whole_ticks > UINT32_MAX - remaining_ticks
        THEN UINT32_MAX
        ELSE whole_ticks + remaining_ticks

\* One turn of the loop of divide_u64_u32 on the given bit of the numerator.
DivideStep(numerator, denominator, bit, r) ==
    LET place == PowerOfTwo(bit - 1)
        shifted == (2 * r.remainder + ((numerator \div place) % 2))
                       % PowerOfTwo(WIDE_BITS)
    IN  IF shifted >= denominator
        THEN [quotient |-> r.quotient + place,
              remainder |-> shifted - denominator]
        ELSE [quotient |-> r.quotient, remainder |-> shifted]

divide_u64_u32(numerator, denominator) ==
    LET loop[n \in 0 .. WIDE_BITS] ==
            IF n = 0 THEN [quotient |-> 0, remainder |-> 0]
            ELSE DivideStep(numerator, denominator, WIDE_BITS - n + 1,
                            loop[n - 1])
    IN  loop[WIDE_BITS].quotient

period_to_cycles(period_ticks, clock, rate) ==
    LET period_cycles == divide_u64_u32(period_ticks * clock, rate)
    IN  IF period_cycles <= UINT32_MAX THEN period_cycles ELSE 0

-----------------------------------------------------------------------------
Ceiling(a, b) == (a + b - 1) \div b

\* The least number of ticks that is not shorter, if it fits.
MillisecondsExact ==
    \A ms \in Milliseconds, rate \in TickRate :
        JRT_MillisecondsToTicks(ms, rate) =
            Min({Ceiling(ms * rate, MILLI), UINT32_MAX})

\* The cycles a period contains, if they fit.
PeriodsExact ==
    \A p \in PeriodTicks, clock \in CoreClock, rate \in TickRate :
        LET cycles == (p * clock) \div rate
        IN  period_to_cycles(p, clock, rate) =
                IF cycles > UINT32_MAX THEN 0 ELSE cycles
=============================================================================
