------------------------------ MODULE Resampler ------------------------------
(***************************************************************************)
(* The resampler of the recorded sound: a buffer that is filled from the   *)
(* samples, filtered at the times of the outputs and moved down, until the *)
(* samples are used up.                                                    *)
(*                                                                         *)
(* Times are counted in parts of an input sample, Target to a sample, so   *)
(* that the step between two outputs is the sample rate. What is left out  *)
(* is the rounding of the code's floating-point time. A cell of the buffer *)
(* holds the number of the sample it was filled from, or Zero.             *)
(***************************************************************************)
EXTENDS Integers

CONSTANTS
    Target,         \* TARGET_SAMPLE_RATE (11025)
    Half,           \* whole taps of one wing of the filter, (FILTER_TAPS - 1) / 2
    Phases,         \* FILTER_PHASES (4096)
    Margin,         \* cells beyond the reach of the filter (10)
    MinBuffer,      \* the least size of the buffer (4096)
    Rates,          \* sample rates
    Lengths         \* numbers of samples

ASSUME ResamplerConstants ==
    /\ {Target, Half, Phases} \subseteq Nat \ {0}
    /\ {Margin, MinBuffer} \subseteq Nat /\ Margin >= 2
    /\ Rates \subseteq Nat \ {0} /\ Lengths \subseteq Nat

Zero == -1

VARIABLES
    rate, length,   \* of the recording
    input,          \* the buffer
    inputRead,      \* cells filled
    inputUsed,      \* samples used
    time,           \* of the next output, from the start of the buffer
    endTime,        \* where this round stops
    step,           \* what comes next
    base,           \* history: the samples that have left the buffer
    due             \* history: the time of the next output, from the first sample

vars == <<rate, length, input, inputRead, inputUsed, time, endTime, step, base, due>>

Larger(a, b) == IF a > b THEN a ELSE b
Smaller(a, b) == IF a < b THEN a ELSE b

\* The cells before the first output's: the reach of the filter, which a rate
\* above the target stretches, and a margin.
InputOffset == ((Half + 1) * Larger(rate, Target)) \div Target + Margin
InputSize == Larger(2 * InputOffset + 10, MinBuffer)
Cells == 0 .. InputSize + InputOffset - 1

Floor(t) == t \div Target

\* A rate of zero is refused before.
Init ==
    /\ rate \in Rates /\ length \in Lengths
    /\ input = [i \in Cells |-> Zero]
    /\ inputRead = InputOffset /\ inputUsed = 0
    /\ time = InputOffset * Target /\ endTime = 0
    /\ step = "fill" /\ base = 0 /\ due = 0

Filled(copied) ==
    [i \in Cells |->
       IF i \in inputRead .. inputRead + copied - 1 THEN inputUsed + i - inputRead
       ELSE IF /\ inputUsed + copied = length
               /\ i \in inputRead + copied .. inputRead + copied + InputOffset - 1
       THEN Zero ELSE input[i]]

\* The cells that a round moves on by. At the end the zeros stand in for what
\* the filter would still need.
Count(read, final) == read - IF final THEN InputOffset ELSE 2 * InputOffset

\* The buffer is filled, after the last sample with zeros; outputs are made
\* as far as the filter stays inside it.
Fill ==
    /\ step = "fill"
    /\ LET copied == Smaller(InputSize - inputRead, length - inputUsed)
           final == inputUsed + copied = length
           count == Count(inputRead + copied, final)
       IN  /\ input' = Filled(copied)
           /\ inputUsed' = inputUsed + copied /\ inputRead' = inputRead + copied
           /\ IF count <= 0 THEN step' = "done" /\ UNCHANGED endTime
              ELSE step' = "emit" /\ endTime' = time + count * Target
    /\ UNCHANGED <<rate, length, time, base, due>>

\* The cells that the two wings of the filter read, the left one from the
\* centre down, the right one from the next cell up. The filter has a phase
\* more on the left.
Center == Floor(time)
Reach == Larger(rate, Target)
LeftTap(j) == (time % Target) + j * Target < Half * Reach
RightTap(j) ==
    (Target - (time % Target) + j * Target) * Phases < (Half * Phases - 1) * Reach
LeftCells == {Center - j : j \in {k \in 0 .. Half * Reach : LeftTap(k)}}
RightCells == {Center + 1 + j : j \in {k \in 0 .. Half * Reach : RightTap(k)}}

\* One output.
Emit ==
    /\ step = "emit" /\ time < endTime
    /\ time' = time + rate /\ due' = due + rate
    /\ UNCHANGED <<rate, length, input, inputRead, inputUsed, endTime, step, base>>

\* Mutant: the time is set back by the round, not by what leaves the buffer.
ShiftByRound ==
    /\ step = "emit" /\ time >= endTime
    /\ LET count == Count(inputRead, inputUsed = length)
           moved == count + Floor(time - count * Target) - InputOffset
       IN  /\ time' = time - count * Target
           /\ input' = [i \in Cells |->
                          IF i < inputRead - moved THEN input[i + moved] ELSE input[i]]
           /\ inputRead' = inputRead - moved
           /\ base' = base + moved
    /\ step' = "fill"
    /\ UNCHANGED <<rate, length, inputUsed, endTime, due>>

\* The samples that are done with leave the buffer: those of the round and as
\* many as the time has gone beyond it.
Shift ==
    /\ step = "emit" /\ time >= endTime
    /\ LET count == Count(inputRead, inputUsed = length)
           creep == Floor(time - count * Target) - InputOffset
           moved == count + creep
       IN  /\ time' = time - moved * Target
           /\ input' = [i \in Cells |->
                          IF i < inputRead - moved THEN input[i + moved] ELSE input[i]]
           /\ inputRead' = inputRead - moved
           /\ base' = base + moved
    /\ step' = "fill"
    /\ UNCHANGED <<rate, length, inputUsed, endTime, due>>

Next == Fill \/ Emit \/ Shift

Spec == Init /\ [][Next]_vars

------------------------------- (* Properties *) ----------------------------

SampleAt(s) == IF s \in 0 .. length - 1 THEN s ELSE Zero

\* Whatever has moved down in the buffer, an output is made of the samples
\* around its own time: sample number "due" under the centre of the filter,
\* silence before the first and after the last, nothing left over.
WindowIsRight ==
    step = "emit" /\ time < endTime =>
       /\ time % Target = due % Target
       /\ \A i \in LeftCells \cup RightCells :
             i \in Cells /\ input[i] = SampleAt(Floor(due) + i - Center)

\* The outputs are one every "rate" from the first sample on, up to the last
\* sample and less than one sample beyond, however the recording is cut into
\* rounds. No index of the buffer falls below it on the way.
OutputsFollowInput ==
    /\ step = "done" =>
          /\ due >= length * Target
          /\ due > 0 => due - rate < (length + 1) * Target
    /\ step = "fill" =>
          /\ inputRead \in 0 .. InputSize
          /\ Floor(time) = InputOffset
=============================================================================
