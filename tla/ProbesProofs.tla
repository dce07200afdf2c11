----------------------------- MODULE ProbesProofs -----------------------------
(***************************************************************************)
(* The resampler for every sample rate, every length of a recording and    *)
(* every size of the filter: each output is made of the samples around its *)
(* own time, and the outputs end with the recording.                       *)
(*                                                                         *)
(* The selection for every array and every stream: nth_element puts the    *)
(* element sought in its place, and the bounded buffer keeps the nearest.  *)
(*                                                                         *)
(* The memory of the recognitions after any of them, at any times: which   *)
(* are remembered, how long the DSP sleeps and what is expected next.      *)
(***************************************************************************)
EXTENDS Probes, FiniteSetTheorems, TLAPS

------------------------------ (* Arithmetic *) -----------------------------

LEMMA QuotientIs ==
    ASSUME NEW t \in Int, NEW T \in Nat \ {0}, NEW q \in Int,
           q * T <= t, t < (q + 1) * T
    PROVE  t \div T = q
OBVIOUS

LEMMA QuotientBounds ==
    ASSUME NEW t \in Int, NEW T \in Nat \ {0}
    PROVE  /\ t \div T \in Int
           /\ (t \div T) * T <= t /\ t < (t \div T) * T + T
           /\ t % T = t - (t \div T) * T
OBVIOUS

LEMMA Distribute ==
    ASSUME NEW a \in Int, NEW b \in Int, NEW T \in Int
    PROVE  (a + b) * T = a * T + b * T /\ (a - b) * T = a * T - b * T
OBVIOUS

LEMMA ProductsOrder ==
    ASSUME NEW a \in Int, NEW b \in Int, NEW T \in Nat \ {0}
    PROVE  /\ a < b <=> a * T < b * T
           /\ a <= b <=> a * T <= b * T
OBVIOUS

\* Moving a time by whole samples leaves its phase alone.
LEMMA Shifted ==
    ASSUME NEW t \in Int, NEW T \in Nat \ {0}, NEW b \in Int
    PROVE  (t + b * T) \div T = (t \div T) + b /\ (t + b * T) % T = t % T
<1> DEFINE q == t \div T
<1>1. q \in Int /\ q * T <= t /\ t < q * T + T /\ t % T = t - q * T
  BY QuotientBounds
<1>2. (q + b) * T = q * T + b * T /\ (q + b + 1) * T = q * T + b * T + T
  BY <1>1, Distribute
<1>3. (t + b * T) \div T = q + b
  <2>1. t + b * T \in Int /\ q + b \in Int
    BY <1>1
  <2>2. (q + b) * T <= t + b * T /\ t + b * T < ((q + b) + 1) * T
    BY <1>1, <1>2
  <2> HIDE DEF q
  <2> QED BY <2>1, <2>2, QuotientIs
<1>4. (t + b * T) % T = (t + b * T) - ((t + b * T) \div T) * T
  <2> DEFINE u == t + b * T
  <2>1. u \in Int
    OBVIOUS
  <2> HIDE DEF u
  <2>2. u % T = u - (u \div T) * T
    BY <2>1, QuotientBounds
  <2> QED BY <2>2 DEF u
<1> QED BY <1>1, <1>2, <1>3, <1>4

------------------------- (* The inductive invariant *) ---------------------

Typed ==
    /\ rate \in Nat \ {0} /\ length \in Nat
    /\ inputRead \in 0 .. InputSize /\ inputUsed \in 0 .. length
    /\ {time, endTime, due, base} \subseteq Int
    /\ base >= 0 /\ due >= 0
    /\ step \in {"fill", "emit", "done"}
    /\ DOMAIN input = Cells

\* The two histories tell where the buffer is in the recording.
Located ==
    /\ time + base * Target = due + InputOffset * Target
    /\ inputRead + base = InputOffset + inputUsed

AllUsed == inputUsed = length
RoundLength == Count(inputRead, AllUsed)

\* Where the times are in a round.
Rounds ==
    /\ step = "fill" => /\ InputOffset * Target <= time
                        /\ time < InputOffset * Target + Target
    /\ step = "emit" =>
          LET began == endTime - RoundLength * Target
          IN  /\ RoundLength > 0
              /\ InputOffset * Target <= began
              /\ began < InputOffset * Target + Target
              /\ began <= time /\ time < endTime + rate

\* The cells up to here hold the samples they should.
KnownCells == inputRead + IF step = "emit" /\ AllUsed THEN InputOffset ELSE 0
Contents ==
    \A i \in Cells : i < KnownCells => input[i] = SampleAt(i - InputOffset + base)

\* The last output was not beyond the samples used so far.
Outputs ==
    /\ due > 0 => due - rate < inputUsed * Target + Target
    /\ step = "done" => due >= length * Target

IInv == Typed /\ Located /\ Rounds /\ Contents /\ Outputs

--------------------------- (* The size of the buffer *) --------------------

\* The margin before the first output is larger than the reach of the filter
\* and than the step between two outputs.
LEMMA Sizes ==
    ASSUME rate \in Nat \ {0}
    PROVE  /\ InputOffset \in Nat /\ InputSize \in Nat
           /\ InputOffset >= 2 /\ InputSize >= 2 * InputOffset + 10
           /\ rate + Target < InputOffset * Target
           /\ \A j \in Nat : j * Target < Half * Reach => j + 2 <= InputOffset
<1> DEFINE R == Larger(rate, Target)
           P == (Half + 1) * R
           Q == P \div Target
<1>1. /\ Target \in Nat \ {0} /\ Half \in Nat \ {0} /\ Margin \in Nat /\ Margin >= 2
      /\ MinBuffer \in Nat
  BY ResamplerConstants
<1>2. R \in Nat \ {0} /\ R >= rate /\ R >= Target /\ Reach = R
  BY <1>1 DEF Larger, Reach
<1>3. P \in Nat /\ P = Half * R + R
  BY <1>1, <1>2
<1>4. Half * R >= R
  BY <1>1, <1>2
<1> HIDE DEF R, P
<1>5. Q \in Int /\ Q * Target <= P /\ P < Q * Target + Target
  <2>1. P \in Int /\ Target \in Nat \ {0}
    BY <1>1, <1>3
  <2> QED BY <2>1, QuotientBounds
<1>6. Q >= 1
  <2>1. Q * Target + Target = (Q + 1) * Target /\ 1 * Target = Target
    BY <1>1, <1>5, Distribute
  <2>2. 1 * Target < (Q + 1) * Target
    BY <1>1, <1>2, <1>3, <1>4, <1>5, <2>1
  <2>3. 1 < Q + 1
    BY <1>1, <1>5, <2>2, ProductsOrder
  <2> QED BY <2>3, <1>5
<1>7. InputOffset = Q + Margin
  BY DEF InputOffset, R, P
<1>8. InputOffset \in Nat /\ InputOffset >= 2
  BY <1>1, <1>5, <1>6, <1>7
<1>9. InputSize \in Nat /\ InputSize >= 2 * InputOffset + 10
  BY <1>1, <1>8 DEF InputSize, Larger
<1>10. InputOffset * Target = Q * Target + Margin * Target /\ Margin * Target >= 2 * Target
  BY <1>1, <1>5, <1>7, Distribute, ProductsOrder
<1> HIDE DEF Q
<1>11. rate + Target < InputOffset * Target
  BY <1>1, <1>2, <1>3, <1>4, <1>5, <1>10
<1>12. ASSUME NEW j \in Nat, j * Target < Half * Reach
       PROVE  j + 2 <= InputOffset
  <2>1. j * Target < Q * Target + Target
    BY <1>1, <1>2, <1>3, <1>5, <1>12
  <2>2. Q * Target + Target = (Q + 1) * Target
    BY <1>1, <1>5, Distribute
  <2>3. j < Q + 1
    BY <1>1, <1>5, <2>1, <2>2, ProductsOrder
  <2> QED BY <1>1, <1>5, <1>7, <2>3
<1> QED BY <1>8, <1>9, <1>11, <1>12

\* What every step needs to know of the sizes.
LEMMA Constants ==
    ASSUME Typed
    PROVE  /\ Target \in Nat \ {0} /\ Half \in Nat \ {0} /\ Phases \in Nat \ {0}
           /\ InputOffset \in Nat /\ InputSize \in Nat
           /\ InputOffset >= 2 /\ InputSize >= 2 * InputOffset + 10
           /\ rate + Target < InputOffset * Target
<1>1. rate \in Nat \ {0}
  BY DEF Typed
<1>2. Target \in Nat \ {0} /\ Half \in Nat \ {0} /\ Phases \in Nat \ {0}
  BY ResamplerConstants
<1> QED BY <1>1, <1>2, Sizes

----------------------------- (* The first state *) -------------------------

LEMMA InitIsRight == Init => IInv
<1> SUFFICES ASSUME Init PROVE IInv
  OBVIOUS
<1>1. rate \in Nat \ {0} /\ length \in Nat /\ Target \in Nat \ {0}
  BY ResamplerConstants DEF Init
<1>2. /\ InputOffset \in Nat /\ InputSize \in Nat
      /\ InputOffset >= 2 /\ InputSize >= 2 * InputOffset + 10
  BY <1>1, Sizes
<1>3. InputOffset * Target \in Int
  BY <1>1, <1>2
<1>4. Typed
  BY <1>1, <1>2, <1>3 DEF Init, Typed
<1>5. Located
  BY <1>1, <1>2, <1>3 DEF Init, Located
<1>6. Rounds
  BY <1>1, <1>3 DEF Init, Rounds
<1>7. Contents
  BY <1>1, <1>2 DEF Init, Contents, KnownCells, SampleAt, Cells
<1>8. Outputs
  BY <1>1 DEF Init, Outputs
<1> QED BY <1>4, <1>5, <1>6, <1>7, <1>8 DEF IInv

------------------------------- (* The steps *) -----------------------------

LEMMA FillIsRight == IInv /\ Fill => IInv'
<1> SUFFICES ASSUME IInv, Fill PROVE IInv'
  OBVIOUS
<1> DEFINE copied == Smaller(InputSize - inputRead, length - inputUsed)
           final == inputUsed + copied = length
           count == Count(inputRead + copied, final)
           O == InputOffset
<1>1. /\ Target \in Nat \ {0} /\ O \in Nat /\ InputSize \in Nat
      /\ O >= 2 /\ InputSize >= 2 * O + 10
  BY Constants DEF IInv
<1>2. /\ length \in Nat /\ inputRead \in 0 .. InputSize /\ inputUsed \in 0 .. length
      /\ time \in Int /\ due \in Nat /\ base \in Nat
  BY DEF IInv, Typed
<1>3. /\ copied \in Nat /\ inputRead + copied \in 0 .. InputSize
      /\ inputUsed + copied \in 0 .. length
  BY <1>1, <1>2 DEF Smaller
<1>4. ~ final => inputRead + copied = InputSize
  BY <1>1, <1>2 DEF Smaller
<1>5. /\ step = "fill" /\ input' = Filled(copied)
      /\ inputUsed' = inputUsed + copied /\ inputRead' = inputRead + copied
      /\ UNCHANGED <<rate, length, time, base, due>>
  BY DEF Fill
<1>6. \/ count <= 0 /\ step' = "done" /\ UNCHANGED endTime
      \/ count > 0 /\ step' = "emit" /\ endTime' = time + count * Target
  <2>1. count \in Int
    BY <1>1, <1>2, <1>3 DEF Count
  <2> QED BY <2>1 DEF Fill
<1>7. O' = O /\ InputSize' = InputSize /\ Cells' = Cells
  BY <1>5 DEF InputOffset, InputSize, Cells
<1>8. AllUsed' <=> final
  BY <1>5 DEF AllUsed
<1>9. RoundLength' = count
  BY <1>5, <1>7, <1>8 DEF RoundLength, Count
<1>10. count \in Int
  BY <1>1, <1>2, <1>3 DEF Count
<1> DEFINE turn == count * Target
           OT == O * Target
<1>11. turn \in Int /\ OT \in Int
  BY <1>1, <1>10
<1>12. Located'
  <2>1. /\ time + base * Target = due + OT
        /\ inputRead + base = O + inputUsed
    BY DEF IInv, Located
  <2> HIDE DEF copied
  <2>2. inputRead' + base' = O' + inputUsed'
    BY <1>1, <1>2, <1>3, <1>5, <1>7, <2>1
  <2>3. time' + base' * Target = due' + O' * Target
    BY <1>5, <1>7, <2>1
  <2> QED BY <2>2, <2>3 DEF Located
<1>13. Typed'
  <2> HIDE DEF copied
  <2>1. endTime' \in Int
    <3>1. endTime \in Int
      BY DEF IInv, Typed
    <3> HIDE DEF count
    <3> QED BY <1>2, <1>6, <1>11, <3>1
  <2>2. DOMAIN input' = Cells'
    BY <1>5, <1>7 DEF Filled
  <2>3. rate' \in Nat \ {0}
    BY <1>5 DEF IInv, Typed
  <2>4. step' \in {"fill", "emit", "done"}
    BY <1>6
  <2> QED BY <1>2, <1>3, <1>5, <1>7, <2>1, <2>2, <2>3, <2>4 DEF Typed
<1>14. Rounds'
  <2>1. step' # "fill"
    BY <1>6
  <2>2. ASSUME step' = "emit"
        PROVE  LET began == endTime' - RoundLength' * Target
               IN  /\ RoundLength' > 0
                   /\ O' * Target <= began
                   /\ began < O' * Target + Target
                   /\ began <= time' /\ time' < endTime' + rate'
    <3>1. count > 0 /\ endTime' = time + turn
      BY <1>6, <2>2
    <3>2. OT <= time /\ time < OT + Target
      BY <1>5 DEF IInv, Rounds
    <3>3. turn > 0
      <4>1. 0 * Target < count * Target /\ 0 * Target = 0
        BY <1>1, <1>10, <3>1, ProductsOrder
      <4> QED BY <4>1
    <3>4. RoundLength' * Target = turn /\ O' * Target = OT
      BY <1>7, <1>9
    <3>5. rate' \in Nat \ {0} /\ time' = time
      BY <1>5 DEF IInv, Typed
    <3> HIDE DEF turn, OT, count, O
    <3>6. endTime' - turn = time
      BY <1>2, <1>11, <3>1
    <3>7. time' < endTime' + rate'
      <4>1. time \in Int /\ turn \in Int /\ rate' \in Int /\ rate' > 0
        BY <1>2, <1>11, <3>5
      <4>2. time' = time /\ endTime' = time + turn
        BY <3>1, <3>5
      <4>3. \A a, b, c \in Int : b > 0 /\ c > 0 => a < a + b + c
        OBVIOUS
      <4>4. time < time + turn + rate'
        BY <4>1, <4>3, <3>3
      <4> QED BY <4>2, <4>4
    <3> QED BY <1>2, <1>9, <3>1, <3>2, <3>4, <3>5, <3>6, <3>7
  <2> QED BY <2>1, <2>2 DEF Rounds
<1>15. Contents'
  <2> SUFFICES ASSUME NEW i \in Cells, i < KnownCells'
               PROVE  input'[i] = SampleAt(i - O + base)'
    BY <1>7 DEF Contents
  <2> HIDE DEF copied
  <2>1. i \in Nat /\ inputRead + base = O + inputUsed
    BY <1>1 DEF Cells, IInv, Located
  <2>2. \A s : SampleAt(s)' = SampleAt(s)
    BY <1>5 DEF SampleAt
  <2>3. SampleAt(i - O + base)' = SampleAt(i - O + base)
    BY <1>5, <1>7 DEF SampleAt
  <2>4. input'[i] =
          IF i \in inputRead .. inputRead + copied - 1 THEN inputUsed + i - inputRead
          ELSE IF /\ final
                  /\ i \in inputRead + copied .. inputRead + copied + O - 1
          THEN Zero ELSE input[i]
    BY <1>5 DEF Filled
  <2>5. CASE i < inputRead
    <3>1. input'[i] = input[i]
      BY <1>1, <1>2, <1>3, <2>1, <2>4, <2>5
    <3>2. i < KnownCells
      BY <1>5, <1>2, <2>1, <2>5 DEF KnownCells
    <3> QED BY <2>3, <3>1, <3>2 DEF IInv, Contents
  <2>6. CASE i >= inputRead /\ i < inputRead + copied
    <3>1. input'[i] = inputUsed + i - inputRead
      BY <1>1, <1>2, <1>3, <2>1, <2>4, <2>6
    <3>2. inputUsed + i - inputRead = i - O + base
      BY <1>1, <1>2, <2>1
    <3>3. i - O + base \in 0 .. length - 1
      BY <1>1, <1>2, <1>3, <2>1, <2>6
    <3> QED BY <2>3, <3>1, <3>2, <3>3 DEF SampleAt
  <2>7. CASE i >= inputRead + copied
    <3>1. final /\ i < inputRead + copied + O
      BY <1>1, <1>2, <1>3, <1>5, <1>7, <1>8, <2>1, <2>7 DEF KnownCells
    <3>2. input'[i] = Zero
      BY <1>1, <1>2, <1>3, <2>1, <2>4, <2>7, <3>1
    <3>3. i - O + base >= length
      BY <1>1, <1>2, <1>3, <2>1, <2>7, <3>1
    <3>4. SampleAt(i - O + base) = Zero
      BY <1>1, <1>2, <2>1, <3>3 DEF SampleAt
    <3> QED BY <2>3, <3>2, <3>4
  <2> QED BY <1>2, <1>3, <2>1, <2>5, <2>6, <2>7
<1>16. Outputs'
  <2> HIDE DEF copied
  <2>1. inputUsed * Target <= inputUsed' * Target
    <3>1. inputUsed <= inputUsed' /\ inputUsed \in Int /\ inputUsed' \in Int
      BY <1>2, <1>3, <1>5
    <3> QED BY <1>1, <3>1, ProductsOrder
  <2>2. inputUsed * Target \in Int /\ inputUsed' * Target \in Int
    BY <1>1, <1>2, <1>3, <1>5
  <2>3. due' > 0 => due' - rate' < inputUsed' * Target + Target
    <3>1. due > 0 => due - rate < inputUsed * Target + Target
      BY DEF IInv, Outputs
    <3>2. rate \in Int
      BY DEF IInv, Typed
    <3> QED BY <1>1, <1>2, <1>5, <2>1, <2>2, <3>1, <3>2
  <2>4. ASSUME step' = "done" PROVE due' >= length' * Target
    <3>1. count <= 0
      BY <1>6, <2>4
    <3>2. final
      BY <1>1, <1>4, <3>1 DEF Count
    <3>3. inputRead + copied <= O
      BY <1>1, <1>2, <1>3, <3>1, <3>2 DEF Count
    <3>4. base >= length
      <4>1. inputRead + base = O + inputUsed
        BY DEF IInv, Located
      <4> QED BY <1>1, <1>2, <1>3, <3>2, <3>3, <4>1
    <3>5. length * Target <= base * Target
      BY <1>1, <1>2, <3>4, ProductsOrder
    <3>6. time + base * Target = due + OT /\ OT <= time
      BY <1>5 DEF IInv, Located, Rounds
    <3>7. base * Target \in Int /\ length * Target \in Int
      BY <1>1, <1>2
    <3> HIDE DEF OT
    <3> QED BY <1>2, <1>5, <1>11, <3>5, <3>6, <3>7
  <2> QED BY <2>3, <2>4 DEF Outputs
<1> QED BY <1>12, <1>13, <1>14, <1>15, <1>16 DEF IInv

LEMMA EmitIsRight == IInv /\ Emit => IInv'
<1> SUFFICES ASSUME IInv, Emit PROVE IInv'
  OBVIOUS
<1> DEFINE O == InputOffset
           OT == O * Target
           round == RoundLength * Target
<1>1. /\ Target \in Nat \ {0} /\ O \in Nat /\ InputSize \in Nat
      /\ O >= 2 /\ InputSize >= 2 * O + 10
  BY Constants DEF IInv
<1>2. /\ length \in Nat /\ inputRead \in 0 .. InputSize /\ inputUsed \in 0 .. length
      /\ {time, endTime} \subseteq Int /\ due \in Nat /\ base \in Nat
      /\ rate \in Nat \ {0}
  BY DEF IInv, Typed
<1>3. /\ step = "emit" /\ step' = "emit" /\ time < endTime
      /\ time' = time + rate /\ due' = due + rate
      /\ UNCHANGED <<rate, length, input, inputRead, inputUsed, endTime, base>>
  BY DEF Emit
<1>4. /\ O' = O /\ InputSize' = InputSize /\ Cells' = Cells
      /\ RoundLength' = RoundLength /\ KnownCells' = KnownCells
  BY <1>3 DEF InputOffset, InputSize, Cells, RoundLength, Count, AllUsed, KnownCells
<1>5. /\ time + base * Target = due + OT
      /\ inputRead + base = O + inputUsed
  BY DEF IInv, Located
<1>6. /\ RoundLength > 0 /\ OT <= endTime - round
      /\ endTime - round < OT + Target
      /\ endTime - round <= time /\ time < endTime + rate
  BY <1>3 DEF IInv, Rounds
<1>7. RoundLength \in Int /\ RoundLength <= inputUsed - base
  BY <1>1, <1>2, <1>5 DEF RoundLength, Count
<1>8. /\ OT \in Int /\ round \in Int /\ base * Target \in Int
      /\ inputUsed * Target \in Int
  BY <1>1, <1>2, <1>7
<1>9. round + base * Target <= inputUsed * Target
  <2>1. RoundLength * Target <= (inputUsed - base) * Target
    BY <1>1, <1>2, <1>7, ProductsOrder
  <2>2. (inputUsed - base) * Target = inputUsed * Target - base * Target
    BY <1>1, <1>2, Distribute
  <2> HIDE DEF OT
  <2> QED BY <1>8, <2>1, <2>2
<1>10. Typed'
  BY <1>2, <1>3, <1>4 DEF IInv, Typed
<1>11. Located'
  <2>1. O' * Target = OT /\ base' * Target = base * Target
    BY <1>3, <1>4
  <2> HIDE DEF OT
  <2>2. time' + base' * Target = due' + O' * Target
    BY <1>2, <1>3, <1>5, <1>8, <2>1
  <2> QED BY <1>3, <1>4, <1>5, <2>2 DEF Located
<1>12. Rounds'
  <2>1. O' * Target = OT /\ RoundLength' * Target = round
    BY <1>4
  <2> HIDE DEF OT, round
  <2>2. endTime' - round <= time' /\ time' < endTime' + rate'
    BY <1>2, <1>3, <1>6, <1>8
  <2> QED BY <1>3, <1>4, <1>6, <2>1, <2>2 DEF Rounds
<1>13. Contents'
  <2>1. \A s : SampleAt(s)' = SampleAt(s)
    BY <1>3 DEF SampleAt
  <2> QED BY <1>3, <1>4 DEF IInv, Contents, SampleAt
<1>14. Outputs'
  <2> HIDE DEF OT, round
  <2>1. due < inputUsed * Target + Target
    BY <1>1, <1>2, <1>3, <1>5, <1>6, <1>8, <1>9
  <2>2. due' - rate' = due
    BY <1>2, <1>3
  <2>3. inputUsed' * Target = inputUsed * Target
    BY <1>3
  <2> QED BY <1>3, <2>1, <2>2, <2>3 DEF Outputs
<1> QED BY <1>10, <1>11, <1>12, <1>13, <1>14 DEF IInv

\* What leaves the buffer is less than what is in it.
LEMMA ShiftIsRight == IInv /\ Shift => IInv'
<1> SUFFICES ASSUME IInv, Shift PROVE IInv'
  OBVIOUS
<1> DEFINE O == InputOffset
           OT == O * Target
           count == RoundLength
           round == count * Target
           over == time - round
           f == Floor(over)
           creep == f - O
           moved == count + creep
<1>1. /\ Target \in Nat \ {0} /\ O \in Nat /\ InputSize \in Nat
      /\ O >= 2 /\ InputSize >= 2 * O + 10 /\ rate + Target < OT
  BY Constants DEF IInv
<1>2. /\ length \in Nat /\ inputRead \in 0 .. InputSize /\ inputUsed \in 0 .. length
      /\ {time, endTime} \subseteq Int /\ due \in Nat /\ base \in Nat
      /\ rate \in Nat \ {0}
  BY DEF IInv, Typed
<1>3. /\ step = "emit" /\ step' = "fill" /\ time >= endTime
      /\ time' = time - moved * Target
      /\ input' = [i \in Cells |->
                     IF i < inputRead - moved THEN input[i + moved] ELSE input[i]]
      /\ inputRead' = inputRead - moved /\ base' = base + moved
      /\ UNCHANGED <<rate, length, inputUsed, endTime, due>>
  BY DEF Shift, RoundLength, AllUsed
<1>4. O' = O /\ InputSize' = InputSize /\ Cells' = Cells
  BY <1>3 DEF InputOffset, InputSize, Cells
<1>5. /\ time + base * Target = due + OT
      /\ inputRead + base = O + inputUsed
  BY DEF IInv, Located
<1>6. /\ count > 0 /\ OT <= endTime - round
      /\ endTime - round < OT + Target
      /\ time < endTime + rate
  BY <1>3 DEF IInv, Rounds
<1>7. count \in Int /\ count <= inputRead - O
  BY <1>1, <1>2 DEF RoundLength, Count
<1>8. OT \in Int /\ round \in Int /\ over \in Int
  BY <1>1, <1>2, <1>7
<1>9. OT <= over /\ over < OT + OT
  <2> HIDE DEF OT, round
  <2> QED BY <1>1, <1>2, <1>3, <1>6, <1>8
<1>10. f \in Int /\ f * Target <= over /\ over < f * Target + Target
  <2> HIDE DEF over
  <2> QED BY <1>1, <1>8, QuotientBounds DEF Floor
<1>11. O <= f /\ f < O + O
  <2> DEFINE fT == f * Target
  <2>1. f * Target + Target = (f + 1) * Target
    BY <1>1, <1>10, Distribute
  <2>2. (O + O) * Target = OT + OT
    BY <1>1, Distribute
  <2>3. fT \in Int
    BY <1>1, <1>10
  <2> HIDE DEF f, over
  <2>4. O * Target < (f + 1) * Target /\ f * Target < (O + O) * Target
    <3>1. OT < fT + Target /\ fT < OT + OT
      <4> HIDE DEF OT
      <4> QED BY <1>1, <1>8, <1>9, <1>10, <2>3
    <3> QED BY <2>1, <2>2, <3>1
  <2>5. O < f + 1 /\ f < O + O
    BY <1>1, <1>10, <2>4, ProductsOrder
  <2> QED BY <1>1, <1>10, <2>5
<1> HIDE DEF f
<1>12. /\ creep \in Nat /\ moved \in Nat /\ moved <= inputRead
       /\ inputRead - moved \in 0 .. InputSize
  BY <1>1, <1>2, <1>6, <1>7, <1>10, <1>11
<1>13. moved * Target = round + f * Target - OT
  <2>1. moved * Target = count * Target + (f - O) * Target
    BY <1>1, <1>7, <1>10, Distribute
  <2>2. (f - O) * Target = f * Target - O * Target
    BY <1>1, <1>10, Distribute
  <2> DEFINE fT == f * Target
  <2>3. fT \in Int
    BY <1>1, <1>10
  <2> HIDE DEF OT
  <2> QED BY <1>8, <2>1, <2>2, <2>3 DEF OT
<1> DEFINE fT == f * Target
           gone == moved * Target
<1>14. fT \in Int /\ gone \in Int
  BY <1>1, <1>10, <1>12
<1>15. time' = time - gone /\ gone = round + fT - OT
  BY <1>3, <1>13
<1>16. Typed'
  <2>1. time' \in Int
    <3> HIDE DEF gone
    <3> QED BY <1>2, <1>14, <1>15
  <2> HIDE DEF moved
  <2>2. DOMAIN input' = Cells'
    BY <1>3, <1>4
  <2>3. base' \in Nat
    BY <1>2, <1>3, <1>12
  <2> QED BY <1>2, <1>3, <1>4, <1>12, <2>1, <2>2, <2>3 DEF Typed
<1>17. Located'
  <2>1. (base + moved) * Target = base * Target + gone
    BY <1>1, <1>2, <1>12, Distribute
  <2>2. base * Target \in Int
    BY <1>1, <1>2
  <2>3. O' * Target = OT /\ base' * Target = base * Target + gone
    BY <1>3, <1>4, <2>1
  <2> HIDE DEF moved, gone, OT
  <2>4. time' + base' * Target = due' + O' * Target
    BY <1>2, <1>3, <1>5, <1>8, <1>14, <1>15, <2>2, <2>3
  <2>5. inputRead' + base' = O' + inputUsed'
    BY <1>1, <1>2, <1>3, <1>4, <1>5, <1>12
  <2> QED BY <2>4, <2>5 DEF Located
<1>18. Rounds'
  <2>1. OT <= time' /\ time' < OT + Target
    <3>1. time - round = over
      OBVIOUS
    <3>2. fT <= over /\ over < fT + Target
      BY <1>10
    <3> HIDE DEF OT, round, gone, fT, over
    <3> QED BY <1>1, <1>2, <1>8, <1>14, <1>15, <3>1, <3>2
  <2> QED BY <1>3, <1>4, <2>1 DEF Rounds
<1>19. Contents'
  <2> SUFFICES ASSUME NEW i \in Cells, i < KnownCells'
               PROVE  input'[i] = SampleAt(i - O + base)'
    BY <1>4 DEF Contents
  <2> HIDE DEF moved
  <2>1. i \in Nat /\ i < inputRead - moved
    BY <1>1, <1>2, <1>3, <1>12 DEF Cells, KnownCells
  <2>2. PICK k \in Cells : k = i + moved
    BY <1>1, <1>2, <1>12, <2>1 DEF Cells
  <2>3. input'[i] = input[k]
    BY <1>3, <2>1, <2>2
  <2>4. k < KnownCells
    BY <1>1, <1>2, <1>12, <2>1, <2>2 DEF KnownCells
  <2>5. input[k] = SampleAt(k - O + base)
    BY <2>4 DEF IInv, Contents
  <2>6. SampleAt(i - O + base)' = SampleAt(i - O + (base + moved))
    BY <1>3, <1>4 DEF SampleAt
  <2>7. i - O + (base + moved) = k - O + base
    BY <1>1, <1>2, <1>12, <2>1, <2>2
  <2> QED BY <2>3, <2>5, <2>6, <2>7
<1>20. Outputs'
  BY <1>3 DEF IInv, Outputs
<1> QED BY <1>16, <1>17, <1>18, <1>19, <1>20 DEF IInv

\* The whole invariant, in every state of every run.
THEOREM Invariance == Spec => []IInv
<1>1. IInv /\ [Next]_vars => IInv'
  <2> SUFFICES ASSUME IInv, [Next]_vars PROVE IInv'
    OBVIOUS
  <2>1. CASE Fill
    BY <2>1, FillIsRight
  <2>2. CASE Emit
    BY <2>2, EmitIsRight
  <2>3. CASE Shift
    BY <2>3, ShiftIsRight
  <2>4. CASE UNCHANGED vars
    BY <2>4 DEF vars, IInv, Typed, Located, Rounds, Contents, Outputs, KnownCells,
       RoundLength, AllUsed, Count, SampleAt, Cells, InputSize, InputOffset
  <2> QED BY <2>1, <2>2, <2>3, <2>4 DEF Next
<1> QED BY <1>1, InitIsRight, PTL DEF Spec

----------------------------- (* What follows *) ----------------------------

\* A tap of the right wing is inside the reach of the left one.
LEMMA RightIsNearer ==
    ASSUME Typed, NEW j \in Nat, RightTap(j)
    PROVE  j * Target < Half * Reach
<1> DEFINE near == j * Target
           far == Half * Reach
           a == Target - (time % Target) + near
<1>1. /\ Target \in Nat \ {0} /\ Half \in Nat \ {0} /\ Phases \in Nat \ {0}
      /\ time \in Int
  BY Constants DEF Typed
<1>2. Reach \in Nat \ {0}
  BY <1>1 DEF Typed, Reach, Larger
<1>3. near \in Nat /\ far \in Nat /\ a \in Int /\ near < a
  BY <1>1, <1>2
<1>4. (Half * Phases - 1) * Reach = far * Phases - Reach
  <2>1. Half * Phases \in Int /\ 1 * Reach = Reach
    BY <1>1, <1>2
  <2>2. (Half * Phases - 1) * Reach = (Half * Phases) * Reach - 1 * Reach
    BY <1>2, <2>1, Distribute
  <2>3. (Half * Phases) * Reach = far * Phases
    BY <1>1, <1>2
  <2> QED BY <2>1, <2>2, <2>3
<1>5. a * Phases < far * Phases
  <2>1. a * Phases < (Half * Phases - 1) * Reach
    BY DEF RightTap
  <2> DEFINE p == a * Phases
             q == far * Phases
  <2>2. p \in Int /\ q \in Int
    BY <1>1, <1>3
  <2>3. p < q - Reach
    BY <1>4, <2>1
  <2> HIDE DEF p, q
  <2>4. p < q
    BY <1>2, <2>2, <2>3
  <2> QED BY <2>4 DEF p, q
<1> HIDE DEF a, near, far
<1>6. a < far
  BY <1>1, <1>3, <1>5, ProductsOrder
<1>7. near < far
  BY <1>3, <1>6
<1> QED BY <1>7 DEF near, far

LEMMA WindowFollows == IInv => WindowIsRight
<1> SUFFICES ASSUME IInv, step = "emit", time < endTime
             PROVE  /\ time % Target = due % Target
                    /\ \A i \in LeftCells \cup RightCells :
                          i \in Cells /\ input[i] = SampleAt(Floor(due) + i - Center)
  BY DEF WindowIsRight
<1> DEFINE O == InputOffset
           OT == O * Target
           count == RoundLength
           round == count * Target
<1>1. /\ Target \in Nat \ {0} /\ O \in Nat /\ InputSize \in Nat /\ O >= 2
      /\ \A j \in Nat : j * Target < Half * Reach => j + 2 <= O
  BY Constants, Sizes DEF IInv, Typed
<1>2. /\ inputRead \in 0 .. InputSize /\ {time, endTime} \subseteq Int
      /\ due \in Nat /\ base \in Nat /\ rate \in Nat \ {0}
  BY DEF IInv, Typed
<1>3. /\ count > 0 /\ OT <= endTime - round /\ endTime - round < OT + Target
      /\ endTime - round <= time
  BY DEF IInv, Rounds
<1>4. count \in Int /\ KnownCells = count + O + O
  BY <1>1, <1>2 DEF RoundLength, Count, KnownCells
<1>5. OT \in Int /\ round \in Int
  BY <1>1, <1>4
<1>6. due = time + (base - O) * Target
  <2>1. time + base * Target = due + OT
    BY DEF IInv, Located
  <2>2. (base - O) * Target = base * Target - OT
    BY <1>1, <1>2, Distribute
  <2> DEFINE bT == base * Target
             mT == (base - O) * Target
  <2>3. bT \in Int /\ time + bT = due + OT /\ mT = bT - OT
    BY <1>1, <1>2, <2>1, <2>2
  <2> HIDE DEF OT, bT, mT
  <2>4. due = time + mT
    BY <1>2, <1>5, <2>3
  <2> QED BY <2>4 DEF mT
<1>7. Floor(due) = Center + (base - O) /\ due % Target = time % Target
  <2>1. base - O \in Int /\ time \in Int
    BY <1>1, <1>2
  <2>2. /\ (time + (base - O) * Target) \div Target = (time \div Target) + (base - O)
        /\ (time + (base - O) * Target) % Target = time % Target
    BY <1>1, <2>1, Shifted
  <2> QED BY <1>6, <2>2 DEF Floor, Center
<1>8. Center \in Int /\ O <= Center /\ Center <= O + count
  <2> DEFINE c == time \div Target
             cT == c * Target
  <2>1. c \in Int /\ cT <= time /\ time < cT + Target
    BY <1>1, <1>2, QuotientBounds
  <2>2. cT + Target = (c + 1) * Target
    BY <1>1, <2>1, Distribute
  <2>3. OT + round + Target = (O + count + 1) * Target
    <3>1. (O + count) * Target = OT + round
      BY <1>1, <1>4, Distribute
    <3>2. ((O + count) + 1) * Target = (O + count) * Target + 1 * Target
      BY <1>1, <1>4, Distribute
    <3> QED BY <1>1, <3>1, <3>2
  <2>4. cT \in Int
    BY <1>1, <2>1
  <2>5. OT < cT + Target /\ cT < OT + round + Target
    <3> HIDE DEF OT, round, c, cT
    <3> QED BY <1>1, <1>2, <1>3, <1>5, <2>1, <2>4
  <2> HIDE DEF c
  <2>6. O < c + 1 /\ c < O + count + 1
    BY <1>1, <1>4, <2>1, <2>2, <2>3, <2>5, ProductsOrder
  <2>7. c \in Int /\ O <= c /\ c <= O + count
    BY <1>1, <1>4, <2>1, <2>6
  <2> QED BY <2>7 DEF c, Center, Floor
<1>9. ASSUME NEW i \in LeftCells \cup RightCells
      PROVE  i \in Int /\ 0 <= i /\ i < KnownCells
  <2>1. CASE i \in LeftCells
    <3>1. PICK j \in 0 .. Half * Reach : i = Center - j /\ LeftTap(j)
      BY <2>1 DEF LeftCells
    <3>2. j \in Nat
      OBVIOUS
    <3>3. j * Target < Half * Reach
      <4>1. time % Target \in Nat /\ j * Target \in Int
        BY <1>1, <1>2, <3>2
      <4>2. Half * Reach \in Int
        BY <1>1, <1>2, ResamplerConstants DEF Reach, Larger
      <4>3. (time % Target) + j * Target < Half * Reach
        BY <3>1 DEF LeftTap
      <4> QED BY <4>1, <4>2, <4>3
    <3>4. j + 2 <= O
      BY <1>1, <3>2, <3>3
    <3> QED BY <1>1, <1>3, <1>4, <1>8, <3>1, <3>2, <3>4
  <2>2. CASE i \in RightCells
    <3>1. PICK j \in 0 .. Half * Reach : i = Center + 1 + j /\ RightTap(j)
      BY <2>2 DEF RightCells
    <3>2. j \in Nat
      OBVIOUS
    <3>3. j * Target < Half * Reach
      BY <3>1, <3>2, RightIsNearer DEF IInv
    <3>4. j + 2 <= O
      BY <1>1, <3>2, <3>3
    <3> QED BY <1>1, <1>3, <1>4, <1>8, <3>1, <3>2, <3>4
  <2> QED BY <2>1, <2>2
<1>10. ASSUME NEW i \in LeftCells \cup RightCells
       PROVE  i \in Cells /\ input[i] = SampleAt(Floor(due) + i - Center)
  <2>1. i \in Int /\ 0 <= i /\ i < KnownCells
    BY <1>9
  <2>2. KnownCells <= InputSize + O /\ KnownCells \in Int
    BY <1>1, <1>2 DEF KnownCells
  <2>3. i \in Cells
    BY <1>1, <2>1, <2>2 DEF Cells
  <2>4. input[i] = SampleAt(i - O + base)
    BY <2>1, <2>3 DEF IInv, Contents
  <2>5. Floor(due) + i - Center = i - O + base
    BY <1>1, <1>2, <1>7, <1>8, <2>1
  <2> QED BY <2>3, <2>4, <2>5
<1> QED BY <1>7, <1>10

LEMMA OutputsFollow == IInv => OutputsFollowInput
<1> SUFFICES ASSUME IInv PROVE OutputsFollowInput
  OBVIOUS
<1>1. /\ Target \in Nat \ {0} /\ InputOffset \in Nat
      /\ inputRead \in 0 .. InputSize /\ inputUsed \in 0 .. length
      /\ length \in Nat /\ time \in Int /\ due \in Nat /\ rate \in Nat \ {0}
  BY Constants DEF IInv, Typed
<1>2. due > 0 => due - rate < (length + 1) * Target
  <2>1. inputUsed * Target <= length * Target
    BY <1>1, ProductsOrder
  <2>2. (length + 1) * Target = length * Target + Target
    <3>1. (length + 1) * Target = length * Target + 1 * Target
      BY <1>1, Distribute
    <3> QED BY <1>1, <3>1
  <2>3. due > 0 => due - rate < inputUsed * Target + Target
    BY DEF IInv, Outputs
  <2>4. inputUsed * Target \in Int /\ length * Target \in Int
    BY <1>1
  <2> QED BY <1>1, <2>1, <2>2, <2>3, <2>4
<1>3. step = "fill" => Floor(time) = InputOffset
  <2> SUFFICES ASSUME step = "fill" PROVE Floor(time) = InputOffset
    OBVIOUS
  <2>1. InputOffset * Target <= time /\ time < InputOffset * Target + Target
    BY DEF IInv, Rounds
  <2>2. (InputOffset + 1) * Target = InputOffset * Target + 1 * Target
    BY <1>1, Distribute
  <2>3. time < (InputOffset + 1) * Target
    BY <1>1, <2>1, <2>2
  <2> QED BY <1>1, <2>1, <2>3, QuotientIs DEF Floor
<1> QED BY <1>1, <1>2, <1>3 DEF OutputsFollowInput, IInv, Outputs

\* Each output of the resampler is made of the samples around its own time, for
\* every rate, length and size of the filter; the buffer is never read outside.
THEOREM WindowCorrect == Spec => []WindowIsRight
BY Invariance, WindowFollows, PTL

\* The outputs end with the recording, neither before its last sample nor more
\* than a sample beyond, and no count of the buffer falls below it.
THEOREM OutputsCorrect == Spec => []OutputsFollowInput
BY Invariance, OutputsFollow, PTL

------------------------ (* Loops and least numbers *) ----------------------

\* A function into the parts of a finite set takes a value that no other
\* value is strictly within.
LEMMA SmallestSet ==
  ASSUME NEW all, IsFiniteSet(all), NEW T, T # {}, NEW f \in [T -> SUBSET all]
  PROVE  \E x \in T : \A y \in T : ~(f[y] \subseteq f[x] /\ f[y] # f[x])
<1> DEFINE sets == {f[x] : x \in T}
<1>1. IsWellFoundedOn(StrictSubsetOrdering(all), FiniteSubsetsOf(all))
  BY FS_StrictSubsetOrderingWellFounded
<1>2. FiniteSubsetsOf(all) = SUBSET all
  BY FS_FiniteSubsetsOfFinite
<1>3. sets \subseteq FiniteSubsetsOf(all) /\ sets # {}
  BY <1>2
<1>4. PICK m \in sets : \A s \in sets : <<s, m>> \notin StrictSubsetOrdering(all)
  BY <1>1, <1>3, WFMin
<1>5. PICK x \in T : m = f[x]
  BY <1>4
<1>6. ASSUME NEW y \in T, f[y] \subseteq f[x], f[y] # f[x]
      PROVE  FALSE
  <2>1. <<f[y], f[x]>> \in StrictSubsetOrdering(all)
    BY <1>6 DEF StrictSubsetOrdering
  <2> QED
    BY <1>4, <1>5, <2>1
<1> QED
  BY <1>6

\* A set of numbers has a least one. It stands for induction below.
LEMMA LeastOf ==
  ASSUME NEW T, T \subseteq Nat, T # {}
  PROVE  \E x \in T : \A y \in T : x <= y
<1>1. PICK n \in T : TRUE
  OBVIOUS
<1> DEFINE low == {x \in T : x <= n}
           f == [x \in low |-> 1 .. x]
<1>2. low # {} /\ n \in Nat /\ low \subseteq Nat
  <2>1. n \in Nat /\ n <= n
    OBVIOUS
  <2> QED
    BY <2>1
<1>3. f \in [low -> SUBSET (1 .. n)]
  BY <1>2
<1>4. PICK x \in low : \A y \in low : ~(f[y] \subseteq f[x] /\ f[y] # f[x])
  <2>1. \A m \in Int : IsFiniteSet(1 .. m)
    BY FS_Interval
  <2>2. IsFiniteSet(1 .. n)
    BY <2>1, <1>2
  <2> DEFINE all == 1 .. n
  <2> HIDE DEF f, low, all
  <2>3. IsFiniteSet(all) /\ f \in [low -> SUBSET all] /\ low # {}
    BY <2>2, <1>2, <1>3 DEF all
  <2> QED
    BY ONLY <2>3, SmallestSet
<1>5. ASSUME NEW y \in low, y < x PROVE FALSE
  <2>1. f[y] \subseteq f[x] /\ x \in f[x] /\ x \notin f[y]
    BY <1>2, <1>5
  <2> QED
    BY <2>1, <1>4
<1>6. \A y \in T : x <= y
  BY <1>1, <1>2, <1>5
<1> QED
  BY <1>6

\* A finite set has an element with the least value.
LEMMA LeastValue ==
  ASSUME NEW S, IsFiniteSet(S), S # {}, NEW v \in [S -> Int]
  PROVE  \E x \in S : \A y \in S : v[x] <= v[y]
<1> DEFINE f == [x \in S |-> {y \in S : v[y] < v[x]}]
<1>1. f \in [S -> SUBSET S]
  OBVIOUS
<1>2. PICK x \in S : \A y \in S : ~(f[y] \subseteq f[x] /\ f[y] # f[x])
  <2> HIDE DEF f
  <2> QED
    BY <1>1, SmallestSet
<1>3. ASSUME NEW y \in S, v[y] < v[x] PROVE FALSE
  <2>1. f[y] \subseteq f[x] /\ y \in f[x] /\ y \notin f[y]
    BY <1>3
  <2> QED
    BY <2>1, <1>2
<1>4. \A y \in S : v[x] <= v[y]
  BY <1>3
<1> QED
  BY <1>4

LEMMA MinOf ==
  ASSUME NEW T, T \subseteq Nat, T # {}
  PROVE  Min(T) \in T /\ \A y \in T : Min(T) <= y
<1>1. \E x \in T : \A y \in T : x <= y
  BY LeastOf
<1> QED
  BY <1>1 DEF Min

LEMMA MaxOf ==
  ASSUME NEW b \in Nat, NEW T, T \subseteq 0 .. b, T # {}
  PROVE  Max(T) \in T /\ \A y \in T : y <= Max(T)
<1> DEFINE R == {b - x : x \in T}
<1>1. R \subseteq Nat /\ R # {}
  <2>1. \A x \in T : x \in 0 .. b
    OBVIOUS
  <2>2. \A x \in T : b - x \in Nat
    BY <2>1
  <2> QED
    BY <2>2
<1>2. PICK r \in R : \A y \in R : r <= y
  <2> HIDE DEF R
  <2> QED
    BY <1>1, LeastOf
<1>3. PICK x \in T : r = b - x
  OBVIOUS
<1>4. ASSUME NEW y \in T PROVE y <= x
  <2>1. b - y \in R /\ y \in 0 .. b /\ x \in 0 .. b
    BY <1>4
  <2> QED
    BY <2>1, <1>2, <1>3
<1>5. \E z \in T : \A y \in T : z >= y
  <2>1. \A y \in T : x >= y
    BY <1>4
  <2> QED
    BY <2>1
<1>6. Max(T) \in T /\ \A y \in T : Max(T) >= y
  BY <1>5 DEF Max
<1> QED
  BY <1>6

\* A run passes through the sets that its steps lead to.
LEMMA RunThrough ==
  ASSUME NEW n \in Nat, NEW X, NEW I \in [0 .. n -> SUBSET X], NEW f, f[0] \in I[0],
         \A k \in 1 .. n : f[k - 1] \in I[k - 1] => f[k] \in I[k]
  PROVE  \A k \in 0 .. n : f[k] \in I[k]
<1> DEFINE Bad == {k \in 0 .. n : f[k] \notin I[k]}
<1>1. SUFFICES ASSUME Bad # {} PROVE FALSE
  OBVIOUS
<1>2. PICK j \in Bad : \A y \in Bad : j <= y
  <2>1. Bad \subseteq Nat
    OBVIOUS
  <2> HIDE DEF Bad
  <2> QED
    BY <2>1, <1>1, LeastOf
<1>3. j \in 0 .. n /\ j # 0
  OBVIOUS
<1>4. j \in 1 .. n /\ j - 1 \in 0 .. n /\ j - 1 \notin Bad
  BY <1>2, <1>3
<1> QED
  BY <1>4

\* A loop runs, whatever its steps are.
IsRun(f, n, start, move) ==
    f = [k \in 0 .. n |-> IF k = 0 THEN start ELSE move[f[k - 1]]]

LEMMA LoopRuns ==
  ASSUME NEW n \in Nat, NEW move, NEW start
  PROVE  \E f : IsRun(f, n, start, move)
<1> USE DEF IsRun
<1> DEFINE Runs(i, f) == IsRun(f, i, start, move)
           Bad == {i \in 0 .. n : ~ \E f : Runs(i, f)}
<1>1. SUFFICES ASSUME Bad # {} PROVE FALSE
  <2>1. n \in 0 .. n
    OBVIOUS
  <2> QED
    BY <2>1
<1>2. PICK m \in Bad : \A y \in Bad : m <= y
  <2>1. Bad \subseteq Nat
    OBVIOUS
  <2> HIDE DEF Bad
  <2> QED
    BY <2>1, <1>1, LeastOf
<1>3. m \in Nat
  OBVIOUS
<1>4. m # 0
  <2>1. SUFFICES ASSUME m = 0 PROVE FALSE
    OBVIOUS
  <2> DEFINE f == [k \in 0 .. 0 |-> start]
  <2>2. Runs(0, f)
    OBVIOUS
  <2>3. 0 \notin Bad
    BY <2>2
  <2> QED
    BY <2>1, <2>3
<1>5. m - 1 \in 0 .. n /\ m - 1 \notin Bad
  <2>1. m \in 0 .. n
    OBVIOUS
  <2> HIDE DEF Bad
  <2> QED
    BY <2>1, <1>2, <1>4
<1>6. PICK f : Runs(m - 1, f)
  BY <1>5
<1> DEFINE g == [k \in 0 .. m |-> IF k = m THEN move[f[m - 1]] ELSE f[k]]
<1>7. \A k \in 0 .. m : g[k] = IF k = 0 THEN start ELSE move[g[k - 1]]
  <2> SUFFICES ASSUME NEW k \in 0 .. m PROVE g[k] = IF k = 0 THEN start ELSE move[g[k - 1]]
    OBVIOUS
  <2>1. CASE k = m
    <3>1. g[k] = move[f[m - 1]] /\ g[m - 1] = f[m - 1]
      BY <2>1, <1>3, <1>4
    <3> QED
      BY <3>1, <2>1, <1>4
  <2>2. CASE k # m
    <3>1. k \in 0 .. m - 1 /\ g[k] = f[k]
      BY <2>2, <1>3
    <3>2. f[k] = IF k = 0 THEN start ELSE move[f[k - 1]]
      BY <3>1, <1>6
    <3>3. k # 0 => k - 1 \in 0 .. m - 1 /\ g[k - 1] = f[k - 1]
      BY <3>1, <1>3
    <3> QED
      BY <3>1, <3>2, <3>3
  <2> QED
    BY <2>1, <2>2
<1>8. Runs(m, g)
  <2>1. g = [k \in 0 .. m |-> g[k]]
    OBVIOUS
  <2> HIDE DEF g
  <2> QED
    BY <2>1, <1>7
<1> QED
  <2> HIDE DEF g
  <2> QED
    BY <1>8, <1>2

--------------------------- (* The selection *) ------------------------------

\* Distances are whole numbers.
Comparable(all) == \A x \in all : x[1] \in Int

\* The arrays of n places with exactly these elements.
Arrangements(all, n) ==
    {v \in [0 .. n - 1 -> all] : \A x \in all : \E i \in 0 .. n - 1 : v[i] = x}

\* Between v and w only the window has changed, and has the same elements.
Rearranged(v, w, n, first, last) ==
    /\ \A i \in 0 .. n - 1 : i \notin first .. last - 1 => w[i] = v[i]
    /\ \A i \in first .. last - 1 : \E j \in first .. last - 1 : w[i] = v[j]

\* The places of a window.
Places(n, first, last) == first \in Nat /\ last \in 0 .. n

LEMMA Distances ==
  ASSUME NEW all, Comparable(all), NEW n \in Nat, NEW v \in Arrangements(all, n)
  PROVE  /\ v \in [0 .. n - 1 -> all]
         /\ \A i \in 0 .. n - 1 : v[i] \in all /\ v[i][1] \in Int
BY DEF Comparable, Arrangements

LEMMA SwapIs ==
  ASSUME NEW all, NEW n \in Nat, NEW v \in Arrangements(all, n),
         NEW i \in 0 .. n - 1, NEW j \in 0 .. n - 1
  PROVE  LET w == Swap(v, i, j)
         IN  /\ w \in Arrangements(all, n) /\ w[i] = v[j] /\ w[j] = v[i]
             /\ \A k \in 0 .. n - 1 : k # i /\ k # j => w[k] = v[k]
<1> DEFINE w == Swap(v, i, j)
<1>1. v \in [0 .. n - 1 -> all] /\ \A x \in all : \E k \in 0 .. n - 1 : v[k] = x
  BY DEF Arrangements
<1>2. /\ w \in [0 .. n - 1 -> all] /\ w[i] = v[j] /\ w[j] = v[i]
      /\ \A k \in 0 .. n - 1 : k # i /\ k # j => w[k] = v[k]
  BY <1>1 DEF Swap
<1>3. ASSUME NEW x \in all PROVE \E k \in 0 .. n - 1 : w[k] = x
  <2>1. PICK k \in 0 .. n - 1 : v[k] = x
    BY <1>1
  <2> HIDE DEF w
  <2> QED
    BY <2>1, <1>2
<1> HIDE DEF w
<1>4. w \in Arrangements(all, n)
  BY <1>2, <1>3 DEF Arrangements
<1> QED
  BY <1>2, <1>4 DEF w

LEMMA SwapRearranges ==
  ASSUME NEW all, NEW n \in Nat, NEW v \in Arrangements(all, n),
         NEW first, NEW last, Places(n, first, last),
         NEW i \in first .. last - 1, NEW j \in first .. last - 1
  PROVE  Rearranged(v, Swap(v, i, j), n, first, last)
<1> DEFINE w == Swap(v, i, j)
<1>1. i \in 0 .. n - 1 /\ j \in 0 .. n - 1 /\ \A k \in first .. last - 1 : k \in 0 .. n - 1
  BY DEF Places
<1>2. /\ w[i] = v[j] /\ w[j] = v[i]
      /\ \A k \in 0 .. n - 1 : k # i /\ k # j => w[k] = v[k]
  BY <1>1, SwapIs
<1> HIDE DEF w
<1>3. ASSUME NEW k \in first .. last - 1 PROVE \E l \in first .. last - 1 : w[k] = v[l]
  BY <1>1, <1>2
<1>4. Rearranged(v, w, n, first, last)
  BY <1>2, <1>3 DEF Rearranged
<1> QED
  BY <1>4 DEF w

LEMMA RearrangedNot ==
  ASSUME NEW v, NEW n, NEW first, NEW last
  PROVE  Rearranged(v, v, n, first, last)
BY DEF Rearranged

LEMMA RearrangedTwice ==
  ASSUME NEW u, NEW v, NEW w, NEW n, NEW first, NEW last,
         Rearranged(u, v, n, first, last), Rearranged(v, w, n, first, last)
  PROVE  Rearranged(u, w, n, first, last)
<1>1. \A i \in 0 .. n - 1 : i \notin first .. last - 1 => w[i] = u[i]
  BY DEF Rearranged
<1>2. ASSUME NEW i \in first .. last - 1 PROVE \E j \in first .. last - 1 : w[i] = u[j]
  <2>1. PICK j \in first .. last - 1 : w[i] = v[j]
    BY DEF Rearranged
  <2>2. PICK k \in first .. last - 1 : v[j] = u[k]
    BY DEF Rearranged
  <2> QED
    BY <2>1, <2>2
<1> QED
  BY <1>1, <1>2 DEF Rearranged

\* What a swap leaves.
Swapped(v, w, n, i, j) ==
    /\ w[i] = v[j] /\ w[j] = v[i]
    /\ \A k \in 0 .. n - 1 : k # i /\ k # j => w[k] = v[k]

\* One swap more.
LEMMA SwappedToo ==
  ASSUME NEW all, NEW n \in Nat, NEW u, NEW v \in Arrangements(all, n),
         NEW first, NEW last, Places(n, first, last), Rearranged(u, v, n, first, last),
         NEW i \in first .. last - 1, NEW j \in first .. last - 1
  PROVE  /\ Swap(v, i, j) \in Arrangements(all, n)
         /\ Rearranged(u, Swap(v, i, j), n, first, last)
         /\ Swapped(v, Swap(v, i, j), n, i, j)
<1>1. i \in 0 .. n - 1 /\ j \in 0 .. n - 1
  BY DEF Places
<1>2. Rearranged(v, Swap(v, i, j), n, first, last)
  BY SwapRearranges
<1>3. Rearranged(u, Swap(v, i, j), n, first, last)
  BY <1>2, RearrangedTwice
<1> QED
  BY <1>1, <1>3, SwapIs DEF Swapped

--------------------------- (* Short windows *) -----------------------------

\* Three places in order.
LEMMA SortThreeOrders ==
  ASSUME NEW all, Comparable(all), NEW n \in Nat, NEW v \in Arrangements(all, n),
         NEW first, NEW last, Places(n, first, last),
         NEW left \in first .. last - 1, NEW middle \in first .. last - 1,
         NEW right \in first .. last - 1, left < middle, middle < right
  PROVE  LET w == SortThree(v, left, middle, right).v
         IN  /\ w \in Arrangements(all, n) /\ Rearranged(v, w, n, first, last)
             /\ w[left][1] <= w[middle][1] /\ w[middle][1] <= w[right][1]
<1> DEFINE Right(w) == /\ w \in Arrangements(all, n) /\ Rearranged(v, w, n, first, last)
                       /\ w[left][1] <= w[middle][1] /\ w[middle][1] <= w[right][1]
           r == SortThree(v, left, middle, right)
<1>1. /\ left \in 0 .. n - 1 /\ middle \in 0 .. n - 1 /\ right \in 0 .. n - 1
      /\ left # middle /\ middle # right /\ left # right
  BY DEF Places
<1>2. v[left][1] \in Int /\ v[middle][1] \in Int /\ v[right][1] \in Int
  BY <1>1, Distances
<1>3. Rearranged(v, v, n, first, last)
  BY RearrangedNot
<1> DEFINE a == Swap(v, middle, right)
           b == Swap(a, left, middle)
           c == Swap(v, left, right)
           d == Swap(v, left, middle)
           e == Swap(d, middle, right)
<1>4. /\ a \in Arrangements(all, n) /\ Rearranged(v, a, n, first, last)
      /\ Swapped(v, a, n, middle, right)
  BY <1>3, SwappedToo
<1>5. /\ c \in Arrangements(all, n) /\ Rearranged(v, c, n, first, last)
      /\ Swapped(v, c, n, left, right)
  BY <1>3, SwappedToo
<1>6. /\ d \in Arrangements(all, n) /\ Rearranged(v, d, n, first, last)
      /\ Swapped(v, d, n, left, middle)
  BY <1>3, SwappedToo
<1>7. /\ b \in Arrangements(all, n) /\ Rearranged(v, b, n, first, last)
      /\ Swapped(a, b, n, left, middle)
  <2> HIDE DEF a
  <2> QED
    BY <1>4, SwappedToo
<1>8. /\ e \in Arrangements(all, n) /\ Rearranged(v, e, n, first, last)
      /\ Swapped(d, e, n, middle, right)
  <2> HIDE DEF d
  <2> QED
    BY <1>6, SwappedToo
<1>9. r.v = IF ~Less(v[middle], v[left])
            THEN IF ~Less(v[right], v[middle]) THEN v
                 ELSE IF Less(a[middle], a[left]) THEN b ELSE a
            ELSE IF Less(v[right], v[middle]) THEN c
                 ELSE IF Less(d[right], d[middle]) THEN e ELSE d
  BY DEF SortThree
<1> HIDE DEF a, b, c, d, e, r
<1>10. Right(r.v)
  <2>1. CASE ~Less(v[middle], v[left]) /\ ~Less(v[right], v[middle])
    BY <2>1, <1>2, <1>3, <1>9 DEF Less
  <2>2. CASE ~Less(v[middle], v[left]) /\ Less(v[right], v[middle])
    BY <2>2, <1>1, <1>2, <1>4, <1>7, <1>9 DEF Less, Swapped
  <2>3. CASE Less(v[middle], v[left]) /\ Less(v[right], v[middle])
    BY <2>3, <1>1, <1>2, <1>5, <1>9 DEF Less, Swapped
  <2>4. CASE Less(v[middle], v[left]) /\ ~Less(v[right], v[middle])
    BY <2>4, <1>1, <1>2, <1>6, <1>8, <1>9 DEF Less, Swapped
  <2> QED
    BY <2>1, <2>2, <2>3, <2>4
<1> QED
  BY <1>10 DEF r

\* A window that ascends, one whose first places hold nothing further than the
\* others, and one with the right element in a place.
Ascends(w, first, last) ==
    \A i \in first .. last - 1, j \in first .. last - 1 : i <= j => w[i][1] <= w[j][1]
Divided(w, first, at, last) ==
    \A i \in first .. at - 1, j \in at .. last - 1 : w[i][1] <= w[j][1]
PlacedIn(w, first, last, nth) ==
    \A i \in first .. last - 1 : IF i < nth THEN w[i][1] <= w[nth][1] ELSE w[nth][1] <= w[i][1]

LEMMA AscendsPlaced ==
  ASSUME NEW w, NEW first \in Nat, NEW last \in Nat, Ascends(w, first, last),
         NEW nth \in first .. last - 1
  PROVE  PlacedIn(w, first, last, nth)
BY DEF Ascends, PlacedIn

\* Neighbours in order are enough.
LEMMA InOrderAscends ==
  ASSUME NEW all, Comparable(all), NEW n \in Nat, NEW v \in Arrangements(all, n),
         NEW first \in Nat, NEW last \in 0 .. n, InOrder(v, first, last)
  PROVE  Ascends(v, first, last)
<1>1. \A i \in first .. last - 1 : i \in 0 .. n - 1
  OBVIOUS
<1>2. \A i \in 0 .. n - 1 : v[i][1] \in Int
  BY Distances
<1>3. \A i \in first .. last - 2 : v[i][1] <= v[i + 1][1]
  <2> SUFFICES ASSUME NEW i \in first .. last - 2 PROVE v[i][1] <= v[i + 1][1]
    OBVIOUS
  <2>1. i \in 0 .. n - 1 /\ i + 1 \in 0 .. n - 1
    OBVIOUS
  <2>2. ~(v[i + 1][1] < v[i][1])
    BY DEF InOrder, Less
  <2> QED
    BY <2>1, <2>2, <1>2
<1>4. SUFFICES ASSUME NEW i \in first .. last - 1
               PROVE  \A j \in first .. last - 1 : i <= j => v[i][1] <= v[j][1]
  BY DEF Ascends
<1> DEFINE Bad == {j \in first .. last - 1 : i <= j /\ ~(v[i][1] <= v[j][1])}
<1>5. SUFFICES ASSUME Bad # {} PROVE FALSE
  OBVIOUS
<1>6. PICK j \in Bad : \A y \in Bad : j <= y
  <2>1. Bad \subseteq Nat
    OBVIOUS
  <2> HIDE DEF Bad
  <2> QED
    BY <2>1, <1>5, LeastOf
<1>7. j \in first .. last - 1 /\ i <= j /\ ~(v[i][1] <= v[j][1])
  OBVIOUS
<1>8. j # i
  BY <1>1, <1>2, <1>7
<1>9. j - 1 \in first .. last - 2 /\ i <= j - 1 /\ j - 1 \notin Bad
  <2> HIDE DEF Bad
  <2>1. j - 1 \in first .. last - 2 /\ i <= j - 1
    BY <1>7, <1>8
  <2>2. ~(j <= j - 1)
    BY <1>7
  <2> QED
    BY <2>1, <2>2, <1>6
<1>10. v[i][1] <= v[j - 1][1] /\ v[j - 1][1] <= v[j][1]
  <2>1. (j - 1) + 1 = j
    BY <1>7
  <2> QED
    BY <2>1, <1>9, <1>3
<1>11. v[i][1] \in Int /\ v[j - 1][1] \in Int /\ v[j][1] \in Int
  BY <1>1, <1>2, <1>7, <1>9
<1> QED
  BY <1>7, <1>10, <1>11

\* What a place of the selection sort receives.
SmallestFrom(w, p, last) ==
    Min({i \in p .. last - 1 : \A j \in p .. last - 1 : ~Less(w[j], w[i])})

LEMMA SmallestIs ==
  ASSUME NEW all, Comparable(all), NEW n \in Nat, NEW w \in Arrangements(all, n),
         NEW last \in 0 .. n, NEW p \in 0 .. last - 1
  PROVE  LET s == SmallestFrom(w, p, last)
         IN  s \in p .. last - 1 /\ \A j \in p .. last - 1 : w[s][1] <= w[j][1]
<1> DEFINE S == p .. last - 1
           d == [i \in S |-> w[i][1]]
           T == {i \in S : \A j \in S : ~Less(w[j], w[i])}
<1>1. IsFiniteSet(S) /\ S # {}
  <2>1. IsFiniteSet(p .. last - 1)
    BY FS_Interval
  <2>2. p \in S
    OBVIOUS
  <2> QED
    BY <2>1, <2>2
<1>2. \A i \in S : w[i][1] \in Int
  <2>1. \A i \in S : i \in 0 .. n - 1
    OBVIOUS
  <2> QED
    BY <2>1, Distances
<1>3. d \in [S -> Int]
  BY <1>2
<1>4. PICK x \in S : \A y \in S : d[x] <= d[y]
  <2> HIDE DEF S, d
  <2> QED
    BY <1>1, <1>3, LeastValue
<1>5. x \in T
  <2> SUFFICES ASSUME NEW j \in S PROVE ~Less(w[j], w[x])
    OBVIOUS
  <2>1. w[x][1] <= w[j][1] /\ w[x][1] \in Int /\ w[j][1] \in Int
    BY <1>2, <1>4
  <2> QED
    BY <2>1 DEF Less
<1>6. T \subseteq Nat /\ T # {}
  BY <1>5
<1>7. Min(T) \in T
  <2> HIDE DEF T
  <2> QED
    BY <1>6, MinOf
<1>8. SmallestFrom(w, p, last) = Min(T)
  BY DEF SmallestFrom
<1>9. ASSUME NEW s \in T PROVE s \in S /\ \A j \in S : w[s][1] <= w[j][1]
  BY <1>2 DEF Less
<1> QED
  <2> HIDE DEF T, d
  <2> QED
    BY <1>7, <1>8, <1>9

\* The selection sort leaves an ascending window.
LEMMA SelectionSortAscends ==
  ASSUME NEW all, Comparable(all), NEW n \in Nat, NEW v \in Arrangements(all, n),
         NEW first \in Nat, NEW last \in 0 .. n, first < last
  PROVE  /\ SelectionSort(v, first, last) \in Arrangements(all, n)
         /\ Rearranged(v, SelectionSort(v, first, last), n, first, last)
         /\ Ascends(SelectionSort(v, first, last), first, last)
<1> DEFINE m == last - 1 - first
           X == [v : Arrangements(all, n), at : first .. last - 1]
           Sorted(s) == /\ Rearranged(v, s.v, n, first, last)
                        /\ \A i \in first .. s.at - 1, j \in first .. last - 1 :
                              i <= j => s.v[i][1] <= s.v[j][1]
           I == [k \in 0 .. m |-> {s \in X : s.at = first + k /\ Sorted(s)}]
           begin == [v |-> v, at |-> first]
           Step(s) == [v |-> Swap(s.v, s.at, SmallestFrom(s.v, s.at, last)), at |-> s.at + 1]
           Runs(f) == f = [k \in 0 .. m |-> IF k = 0 THEN begin ELSE Step(f[k - 1])]
<1>1. m \in Nat /\ Places(n, first, last)
  BY DEF Places
<1>2. I \in [0 .. m -> SUBSET X]
  OBVIOUS
<1>3. begin \in I[0]
  <2>1. begin \in X /\ begin.at = first + 0 /\ 0 \in 0 .. m
    BY <1>1
  <2>2. Sorted(begin)
    BY RearrangedNot
  <2> QED
    BY <2>1, <2>2
<1>4. ASSUME NEW k \in 1 .. m, NEW s \in I[k - 1] PROVE Step(s) \in I[k]
  <2>1. k - 1 \in 0 .. m /\ k \in 0 .. m
    OBVIOUS
  <2>2. /\ s.v \in Arrangements(all, n) /\ s.at = first + (k - 1) /\ s = [v |-> s.v, at |-> s.at]
        /\ Sorted(s)
    BY <2>1
  <2>3. s.at \in first .. last - 2 /\ s.at \in first .. last - 1 /\ s.at \in 0 .. last - 1
    BY <2>2, <1>1
  <2> DEFINE p == s.at
             q == SmallestFrom(s.v, p, last)
             w == Swap(s.v, p, q)
  <2> HIDE DEF I, Sorted, X, m
  <2>4. q \in p .. last - 1 /\ \A j \in p .. last - 1 : s.v[q][1] <= s.v[j][1]
    BY <2>2, <2>3, SmallestIs
  <2>5. q \in first .. last - 1
    BY <2>3, <2>4
  <2>6. /\ w \in Arrangements(all, n) /\ Rearranged(v, w, n, first, last)
        /\ Swapped(s.v, w, n, p, q)
    <3>1. Rearranged(v, s.v, n, first, last)
      BY <2>2 DEF Sorted
    <3> HIDE DEF p, q
    <3>2. p \in first .. last - 1
      BY <2>3 DEF p
    <3> QED
      BY <3>1, <3>2, <2>2, <2>5, <1>1, SwappedToo
  <2> DEFINE u == s.v
  <2>7. \A i \in first .. p - 1, j \in first .. last - 1 : i <= j => u[i][1] <= u[j][1]
    BY <2>2 DEF Sorted
  <2> HIDE DEF p, q, w, u
  <2>8. p \in first .. last - 2 /\ q \in p .. last - 1
        /\ \A j \in p .. last - 1 : u[q][1] <= u[j][1]
    BY <2>3, <2>4 DEF p, u
  <2>9. w[p] = u[q] /\ w[q] = u[p] /\ \A i \in 0 .. n - 1 : i # p /\ i # q => w[i] = u[i]
    BY <2>6 DEF Swapped, u
  <2>10. ASSUME NEW i \in first .. p, NEW j \in first .. last - 1, i <= j
         PROVE  w[i][1] <= w[j][1]
    <3>1. PICK l \in first .. last - 1 : w[j] = u[l] /\ (j >= p => l >= p) /\ (j < p => l = j)
      <4>1. j \in 0 .. n - 1 /\ j \in first .. last - 1 /\ p \in first .. last - 1
            /\ q \in first .. last - 1 /\ q >= p
        BY <2>8
      <4>2. CASE j = p
        BY <4>1, <4>2, <2>9
      <4>3. CASE j = q
        BY <4>1, <4>3, <2>9
      <4>4. CASE j # p /\ j # q
        BY <4>1, <4>4, <2>9
      <4> QED
        BY <4>2, <4>3, <4>4
    <3>2. CASE i = p
      <4>1. l \in p .. last - 1
        BY <3>1, <3>2, <2>8, <2>10
      <4> QED
        BY <4>1, <3>1, <3>2, <2>8, <2>9
    <3>3. CASE i < p
      <4>1. i \in 0 .. n - 1 /\ i # p /\ i # q /\ i \in first .. p - 1
        BY <3>3, <2>8
      <4>2. w[i] = u[i]
        BY <4>1, <2>9
      <4>3. i <= l
        BY <3>1, <3>3, <2>8, <2>10
      <4> QED
        BY <4>1, <4>2, <4>3, <3>1, <2>7
    <3> QED
      BY <3>2, <3>3, <2>8
  <2>11. Step(s) = [v |-> w, at |-> p + 1]
    BY DEF w, p, q
  <2>12. p + 1 = first + k /\ p + 1 \in first .. last - 1 /\ (p + 1) - 1 = p
    BY <2>2, <2>8 DEF p
  <2> HIDE DEF Step
  <2>13. Step(s) \in X /\ Step(s).at = first + k /\ Step(s).v = w /\ Step(s).at - 1 = p
    BY <2>6, <2>11, <2>12 DEF X
  <2>14. Sorted(Step(s))
    BY <2>6, <2>10, <2>13 DEF Sorted
  <2> QED
    BY <2>1, <2>13, <2>14 DEF I
<1> DEFINE move == [s \in X |-> Step(s)]
<1>5. \A k \in 1 .. m : k - 1 \in 0 .. m /\ \A s \in I[k - 1] : s \in X /\ move[s] = Step(s)
  <2> HIDE DEF Step, m
  <2> QED
    BY <1>1, <1>2
<1>6. \E f : Runs(f)
  <2> HIDE DEF I, X, Step, begin, m, move
  <2>0. PICK f : IsRun(f, m, begin, move)
    BY <1>1, LoopRuns
  <2>1. f = [k \in 0 .. m |-> IF k = 0 THEN begin ELSE move[f[k - 1]]]
    BY <2>0 DEF IsRun
  <2>2. f[0] \in I[0]
    BY <2>1, <1>1, <1>3
  <2>3. \A k \in 1 .. m : f[k - 1] \in I[k - 1] => f[k] \in I[k]
    BY <2>1, <1>4, <1>5
  <2>4. \A k \in 0 .. m : f[k] \in I[k]
    BY ONLY <1>1, <1>2, <2>2, <2>3, RunThrough
  <2>5. \A k \in 0 .. m : k # 0 => move[f[k - 1]] = Step(f[k - 1])
    <3> SUFFICES ASSUME NEW k \in 0 .. m, k # 0 PROVE move[f[k - 1]] = Step(f[k - 1])
      OBVIOUS
    <3>1. k \in 1 .. m /\ k - 1 \in 0 .. m
      BY <1>1
    <3> QED
      BY <3>1, <2>4, <1>5
  <2> QED
    BY <2>1, <2>5, Zenon
<1>7. PICK f : Runs(f) /\ SelectionSort(v, first, last) = f[m].v
  <2> HIDE DEF I, X, move
  <2>1. \E f : Runs(f) /\ Loop(begin, Step, m) = f[m]
    BY <1>6 DEF Loop
  <2>2. SelectionSort(v, first, last) = Loop(begin, Step, m).v
    BY Zenon DEF SelectionSort, SmallestFrom
  <2> HIDE DEF begin, Step, m
  <2> QED
    BY <2>1, <2>2
<1>8. f[m] \in I[m]
  <2> HIDE DEF I, X, Step, begin, m, move
  <2>1. f[0] \in I[0] /\ \A k \in 1 .. m : f[k] = Step(f[k - 1])
    BY <1>1, <1>3, <1>7
  <2>2. \A k \in 0 .. m : f[k] \in I[k]
    BY <2>1, <1>1, <1>2, <1>4, RunThrough, Zenon
  <2> QED
    BY <2>2, <1>1
<1>9. f[m].v \in Arrangements(all, n) /\ f[m].at = last - 1 /\ Sorted(f[m])
  <2>1. m \in 0 .. m /\ first + m = last - 1
    BY <1>1
  <2> HIDE DEF Sorted, m
  <2> QED
    BY <1>8, <2>1
<1> DEFINE w == f[m].v
<1>10. Ascends(w, first, last)
  <2> SUFFICES ASSUME NEW i \in first .. last - 1, NEW j \in first .. last - 1, i <= j
               PROVE  w[i][1] <= w[j][1]
    BY DEF Ascends
  <2>1. \A a \in first .. last - 2, b \in first .. last - 1 : a <= b => w[a][1] <= w[b][1]
    BY <1>9
  <2> HIDE DEF w
  <2>2. CASE i = last - 1
    <3>1. i = j /\ i \in 0 .. n - 1
      BY <2>2
    <3>2. w[i][1] \in Int
      BY <3>1, <1>9, Distances DEF w
    <3> QED
      BY <3>1, <3>2
  <2>3. CASE i # last - 1
    BY <2>1, <2>3
  <2> QED
    BY <2>2, <2>3
<1> QED
  BY <1>7, <1>9, <1>10, Zenon

LEMMA SizeIs ==
  ASSUME NEW all, NEW n \in Nat, NEW v \in Arrangements(all, n)
  PROVE  Size(v) = n
<1>1. DOMAIN v = 0 .. n - 1
  BY DEF Arrangements
<1>2. Cardinality(0 .. n - 1) = IF 0 > n - 1 THEN 0 ELSE (n - 1) - 0 + 1
  BY FS_Interval
<1> QED
  BY <1>1, <1>2 DEF Size

--------------------------- (* The exchanges *) -----------------------------

(***************************************************************************)
(* The exchanges of both partitions: elements of "low" go to the left, the *)
(* others to the right.  p is the pivot, at s.middle; when it is low, it   *)
(* is the first of the window, which is not touched.                       *)
(***************************************************************************)
Windows(all, n) ==
    [v : Arrangements(all, n), left : 0 .. n, right : 0 .. n, middle : 0 .. n,
     swaps : Nat, met : BOOLEAN]

Crossing(n, v, first, last, low, p, s) ==
    /\ Rearranged(v, s.v, n, first, last)
    /\ s.left \in first + 1 .. last - 1 /\ s.right \in first + 1 .. last - 1
    /\ s.middle \in first .. last - 1 /\ s.v[s.middle] = p
    /\ p \in low => s.middle = first
    /\ \A i \in first .. s.left - 1 : s.v[i] \in low
    /\ s.met => \A i \in s.left .. last - 1 : s.v[i] \notin low
    /\ ~s.met => s.left <= s.right /\ \A i \in s.right .. last - 1 : s.v[i] \notin low

\* The places where the scans stop.
UpStop(s, n, low) == Min({i \in s.left .. n - 1 : s.v[i] \notin low})
DownStop(s, low) == Max({i \in 0 .. s.right - 1 : s.v[i] \in low})
CrossOnce(s, n, low) == Exchange(s, UpStop(s, n, low), DownStop(s, low))

LEMMA StopsAre ==
  ASSUME NEW n \in Nat, NEW v, NEW first \in Nat, NEW last \in 0 .. n, NEW low, NEW p, NEW s,
         Crossing(n, v, first, last, low, p, s), ~s.met
  PROVE  /\ UpStop(s, n, low) \in s.left .. s.right /\ s.v[UpStop(s, n, low)] \notin low
         /\ \A i \in s.left .. UpStop(s, n, low) - 1 : s.v[i] \in low
         /\ DownStop(s, low) \in s.left - 1 .. s.right - 1 /\ s.v[DownStop(s, low)] \in low
         /\ \A i \in DownStop(s, low) + 1 .. s.right - 1 : s.v[i] \notin low
<1> DEFINE L == s.left
           R == s.right
           w == s.v
           Ups == {i \in L .. n - 1 : w[i] \notin low}
           Downs == {i \in 0 .. R - 1 : w[i] \in low}
<1>1. /\ L \in first + 1 .. last - 1 /\ R \in first + 1 .. last - 1 /\ L <= R
      /\ \A i \in first .. L - 1 : w[i] \in low
      /\ \A i \in R .. last - 1 : w[i] \notin low
  BY DEF Crossing
<1>2. UpStop(s, n, low) = Min(Ups) /\ DownStop(s, low) = Max(Downs)
  BY DEF UpStop, DownStop
<1> HIDE DEF L, R, w
<1>3. R \in Ups /\ Ups \subseteq Nat
  BY <1>1
<1>4. L - 1 \in Downs /\ Downs \subseteq 0 .. R - 1 /\ R - 1 \in Nat
  BY <1>1
<1>5. Min(Ups) \in Ups /\ \A y \in Ups : Min(Ups) <= y
  <2> HIDE DEF Ups
  <2> QED
    BY <1>3, MinOf
<1>6. Max(Downs) \in Downs /\ \A y \in Downs : y <= Max(Downs)
  <2> HIDE DEF Downs
  <2>1. Downs # {}
    BY <1>4
  <2> DEFINE b == R - 1
  <2>2. b \in Nat /\ Downs \subseteq 0 .. b
    BY <1>4
  <2> HIDE DEF b
  <2> QED
    BY <2>1, <2>2, MaxOf
<1> DEFINE l == Min(Ups)
           r == Max(Downs)
<1>7. l \in L .. R /\ w[l] \notin low /\ l \in L .. n - 1
  BY <1>1, <1>3, <1>5
<1>8. r \in L - 1 .. R - 1 /\ w[r] \in low
  BY <1>1, <1>4, <1>6
<1>9. ASSUME NEW i \in L .. l - 1 PROVE w[i] \in low
  <2>1. i \in L .. n - 1 /\ ~(l <= i)
    <3> HIDE DEF l
    <3> QED
      BY <1>1, <1>7
  <2> QED
    BY <2>1, <1>5
<1>10. ASSUME NEW i \in r + 1 .. R - 1 PROVE w[i] \notin low
  <2>1. i \in 0 .. R - 1 /\ ~(i <= r)
    <3> HIDE DEF r
    <3> QED
      BY <1>1, <1>8
  <2> QED
    BY <2>1, <1>6
<1> QED
  BY <1>2, <1>7, <1>8, <1>9, <1>10 DEF L, R, w

\* One exchange, or the end of them.
LEMMA CrossStep ==
  ASSUME NEW all, NEW n \in Nat, NEW v \in Arrangements(all, n),
         NEW first \in Nat, NEW last \in 0 .. n, NEW low, NEW p,
         NEW s \in Windows(all, n), Crossing(n, v, first, last, low, p, s), ~s.met
  PROVE  /\ CrossOnce(s, n, low) \in Windows(all, n)
         /\ Crossing(n, v, first, last, low, p, CrossOnce(s, n, low))
         /\ \/ CrossOnce(s, n, low).met
            \/ CrossOnce(s, n, low).right - CrossOnce(s, n, low).left < s.right - s.left
<1> DEFINE l == UpStop(s, n, low)
           r == DownStop(s, low)
           t == CrossOnce(s, n, low)
           L == s.left
           R == s.right
           u == s.v
<1>1. /\ l \in L .. R /\ u[l] \notin low
      /\ \A i \in L .. l - 1 : u[i] \in low
      /\ r \in L - 1 .. R - 1 /\ u[r] \in low
      /\ \A i \in r + 1 .. R - 1 : u[i] \notin low
  BY StopsAre
<1>2. /\ Rearranged(v, u, n, first, last) /\ u \in Arrangements(all, n)
      /\ L \in first + 1 .. last - 1 /\ R \in first + 1 .. last - 1 /\ L <= R
      /\ s.middle \in first .. last - 1 /\ u[s.middle] = p
      /\ p \in low => s.middle = first
      /\ \A i \in first .. L - 1 : u[i] \in low
      /\ \A i \in R .. last - 1 : u[i] \notin low
  BY DEF Crossing, Windows
<1>3. s = [v |-> u, left |-> L, right |-> R, middle |-> s.middle, swaps |-> s.swaps, met |-> s.met]
      /\ s.swaps \in Nat /\ s.middle \in 0 .. n
  BY DEF Windows
<1> DEFINE mid == s.middle
<1> HIDE DEF l, r, t, L, R, u, mid
<1>4. l \in first + 1 .. last - 1 /\ l \in 0 .. n /\ l + 1 \in 0 .. n
       /\ R \in 0 .. n /\ r \in 0 .. n
  BY <1>1, <1>2
<1>5. CASE l >= r
  <2>1. t = [s EXCEPT !.left = l, !.met = TRUE]
    BY <1>5 DEF t, l, r, CrossOnce, Exchange
  <2>2. t = [v |-> u, left |-> l, right |-> R, middle |-> mid, swaps |-> s.swaps, met |-> TRUE]
    <3>1. s \in [v : Arrangements(all, n), left : 0 .. n, right : 0 .. n, middle : 0 .. n,
                  swaps : Nat, met : BOOLEAN]
      BY DEF Windows
    <3>2. s.v = u /\ s.right = R /\ s.middle = mid
      BY DEF u, R, mid
    <3> QED
      BY <2>1, <3>1, <3>2
  <2>3. t \in Windows(all, n)
    BY <2>2, <1>2, <1>3, <1>4 DEF Windows, mid
  <2>4. ASSUME NEW i \in first .. l - 1 PROVE u[i] \in low
    <3>1. i \in first .. L - 1 \/ i \in L .. l - 1
      BY <1>1, <1>2
    <3> QED
      BY <3>1, <1>1, <1>2
  <2>5. ASSUME NEW i \in l .. last - 1 PROVE u[i] \notin low
    <3>1. l # r
      BY <1>1
    <3>2. i \in r + 1 .. R - 1 \/ i \in R .. last - 1
      BY <3>1, <1>1, <1>2, <1>5
    <3> QED
      BY <3>2, <1>1, <1>2
  <2>6. Crossing(n, v, first, last, low, p, t)
    BY <2>2, <2>4, <2>5, <1>2, <1>4 DEF Crossing, mid
  <2>7. t.met
    BY <2>2
  <2> QED
    BY <2>3, <2>6, <2>7 DEF t
<1>6. CASE l < r
  <2> DEFINE w == Swap(u, l, r)
             moved == IF mid = l THEN r ELSE mid
  <2>1. t = [s EXCEPT !.v = w, !.left = l + 1, !.right = r, !.middle = moved, !.swaps = @ + 1]
    BY <1>1, <1>2, <1>6 DEF t, l, r, CrossOnce, Exchange, u, mid
  <2>2. t = [v |-> w, left |-> l + 1, right |-> r, middle |-> moved, swaps |-> s.swaps + 1,
             met |-> s.met]
    BY <2>1, <1>3
  <2>3. l \in first .. last - 1 /\ r \in first .. last - 1 /\ Places(n, first, last)
    BY <1>1, <1>2, <1>6 DEF Places
  <2>4. /\ w \in Arrangements(all, n) /\ Rearranged(v, w, n, first, last)
        /\ Swapped(u, w, n, l, r)
    BY <2>3, <1>2, SwappedToo
  <2> HIDE DEF w
  <2>5. w[l] = u[r] /\ w[r] = u[l] /\ \A k \in 0 .. n - 1 : k # l /\ k # r => w[k] = u[k]
    BY <2>4 DEF Swapped
  <2>6. moved \in first .. last - 1 /\ w[moved] = p /\ (p \in low => moved = first)
    <3>1. mid \in first .. last - 1 /\ u[mid] = p /\ (p \in low => mid = first)
      BY <1>2 DEF mid
    <3>2. mid # r
      <4>1. p \in low => mid < r
        BY <3>1, <1>1, <1>2, <1>4, <1>6
      <4>2. p \notin low => mid # r
        BY <3>1, <1>1
      <4>3. r \in Int
        BY <1>4
      <4> QED
        BY <4>1, <4>2, <4>3, <3>1
    <3>3. mid = l => p \notin low
      BY <3>1, <1>4
    <3>4. CASE mid = l
      BY <3>4, <3>1, <3>3, <2>3, <2>5
    <3>5. CASE mid # l
      BY <3>5, <3>1, <3>2, <2>5
    <3> QED
      BY <3>4, <3>5
  <2> HIDE DEF moved
  <2>7. l + 1 \in first + 1 .. last - 1 /\ r \in first + 1 .. last - 1 /\ l + 1 <= r
        /\ r \in 0 .. n /\ moved \in 0 .. n
    BY <1>1, <1>2, <1>4, <1>6, <2>6
  <2>8. t \in Windows(all, n)
    BY <2>2, <2>4, <2>7, <1>3, <1>4 DEF Windows
  <2>9. ASSUME NEW i \in first .. (l + 1) - 1 PROVE w[i] \in low
    <3>1. i \in 0 .. n - 1 /\ i # r /\ (i \in first .. L - 1 \/ i \in L .. l - 1 \/ i = l)
      BY <1>1, <1>2, <1>6
    <3> QED
      BY <3>1, <2>5, <1>1, <1>2
  <2>10. ASSUME NEW i \in r .. last - 1 PROVE w[i] \notin low
    <3>1. i \in 0 .. n - 1 /\ i # l /\ (i = r \/ i \in r + 1 .. R - 1 \/ i \in R .. last - 1)
      BY <1>1, <1>2, <1>6
    <3> QED
      BY <3>1, <2>5, <1>1, <1>2
  <2>11. ~t.met
    BY <2>2
  <2>12. Crossing(n, v, first, last, low, p, t)
    BY <2>2, <2>4, <2>6, <2>7, <2>9, <2>10, <2>11 DEF Crossing
  <2>13. t.right - t.left < R - L
    BY <2>2, <1>1, <1>2
  <2> QED
    BY <2>8, <2>12, <2>13 DEF t, R, L
<1> QED
  BY <1>1, <1>2, <1>5, <1>6

\* All of them: the two sides have met at the end.
LEMMA CrossRuns ==
  ASSUME NEW all, NEW n \in Nat, NEW v \in Arrangements(all, n),
         NEW first \in Nat, NEW last \in 0 .. n, NEW low, NEW p,
         NEW start \in Windows(all, n), Crossing(n, v, first, last, low, p, start),
         first < last, NEW f, f[0] = start,
         \A k \in 1 .. last - first :
            f[k - 1] \in Windows(all, n) /\ Crossing(n, v, first, last, low, p, f[k - 1]) =>
               f[k] = IF f[k - 1].met THEN f[k - 1] ELSE CrossOnce(f[k - 1], n, low)
  PROVE  /\ \A k \in 0 .. last - first :
               f[k] \in Windows(all, n) /\ Crossing(n, v, first, last, low, p, f[k])
         /\ f[last - first].met
<1> DEFINE m == last - first
           X == Windows(all, n)
           Good(s) == Crossing(n, v, first, last, low, p, s)
           I == [k \in 0 .. m |-> {s \in X : Good(s) /\ (s.met \/ s.right - s.left + k < m)}]
<1>1. m \in Nat /\ m > 0 /\ I \in [0 .. m -> SUBSET X]
  OBVIOUS
<1>2. \A s \in X : Good(s) => s.left \in Int /\ s.right \in Int /\ s.met \in BOOLEAN
                              /\ (~s.met => s.left <= s.right) /\ s.right - s.left < m
  <2> SUFFICES ASSUME NEW s \in X, Good(s)
               PROVE s.left \in Int /\ s.right \in Int /\ s.met \in BOOLEAN
                              /\ (~s.met => s.left <= s.right) /\ s.right - s.left < m
    OBVIOUS
  <2>1. s.left \in first + 1 .. last - 1 /\ s.right \in first + 1 .. last - 1
        /\ (~s.met => s.left <= s.right)
    BY DEF Crossing
  <2>2. s.met \in BOOLEAN
    BY DEF Windows
  <2> QED
    BY <2>1, <2>2
<1> HIDE DEF X, Good, m
<1>3. f[0] \in I[0]
  <2>1. start \in X /\ Good(start) /\ 0 \in 0 .. m
    BY <1>1 DEF X, Good
  <2>2. start.right - start.left + 0 < m
    BY <2>1, <1>1, <1>2
  <2> QED
    BY <2>1, <2>2
<1>4. ASSUME NEW k \in 1 .. m, f[k - 1] \in I[k - 1] PROVE f[k] \in I[k]
  <2>1. k - 1 \in 0 .. m /\ k \in 0 .. m
    BY <1>1
  <2> DEFINE s == f[k - 1]
  <2>2. s \in X /\ Good(s) /\ (s.met \/ s.right - s.left + (k - 1) < m)
    BY <2>1, <1>4
  <2>3. f[k] = IF s.met THEN s ELSE CrossOnce(s, n, low)
    BY <2>2 DEF X, Good, m
  <2> HIDE DEF s
  <2>4. CASE s.met
    BY <2>1, <2>2, <2>3, <2>4
  <2>5. CASE ~s.met
    <3> DEFINE t == CrossOnce(s, n, low)
    <3>1. t \in X /\ Good(t) /\ (t.met \/ t.right - t.left < s.right - s.left)
      BY <2>2, <2>5, CrossStep DEF X, Good
    <3> HIDE DEF t
    <3>2. t.met \/ t.right - t.left + k < m
      <4>1. t.left \in Int /\ t.right \in Int /\ s.left \in Int /\ s.right \in Int
        BY <3>1, <2>2, <1>2
      <4> QED
        BY <4>1, <3>1, <2>2, <2>5, <2>1, <1>1
    <3>3. f[k] = t
      BY <2>3, <2>5 DEF t
    <3> QED
      BY <3>1, <3>2, <3>3, <2>1
  <2> QED
    BY <2>4, <2>5
<1>5. \A k \in 0 .. m : f[k] \in I[k]
  <2> HIDE DEF I
  <2> QED
    BY <1>1, <1>3, <1>4, RunThrough
<1>6. \A k \in 0 .. m : f[k] \in X /\ Good(f[k]) /\ (f[k].met \/ f[k].right - f[k].left + k < m)
  BY <1>5
<1>7. f[m].met
  <2>1. f[m] \in X /\ Good(f[m]) /\ (f[m].met \/ f[m].right - f[m].left + m < m)
    BY <1>1, <1>6
  <2> QED
    BY <2>1, <1>1, <1>2
<1> QED
  BY <1>6, <1>7 DEF X, Good, m

\* The partition around an element in the middle.
CrossRound(s) ==
    Exchange(s, ScanUp(s.v, s.left, LAMBDA x : ~Less(x, s.v[s.middle])),
             ScanDown(s.v, s.right - 1, LAMBDA x : Less(x, s.v[s.middle])))

LEMMA CrossScans ==
  ASSUME NEW all, Comparable(all), NEW n \in Nat, NEW v \in Arrangements(all, n),
         NEW first \in Nat, NEW last \in 0 .. n, NEW low, NEW p,
         low = {x \in all : x[1] < p[1]}, NEW s \in Windows(all, n),
         Crossing(n, v, first, last, low, p, s)
  PROVE  CrossRound(s) = CrossOnce(s, n, low)
<1>1. /\ s.left \in first + 1 .. last - 1 /\ s.right \in first + 1 .. last - 1
      /\ s.v[s.middle] = p /\ s.v \in Arrangements(all, n)
  BY DEF Crossing, Windows
<1>2. Size(s.v) = n
  BY <1>1, SizeIs
<1>3. \A i \in 0 .. n - 1 : s.v[i] \in all /\ s.v[i][1] \in Int
  BY <1>1, Distances
<1>4. p \in all /\ p[1] \in Int
  <2>1. s.middle \in 0 .. n - 1
    BY DEF Crossing
  <2> QED
    BY <2>1, <1>1, <1>3
<1>5. {i \in s.left .. Size(s.v) - 1 : ~Less(s.v[i], s.v[s.middle])}
      = {i \in s.left .. n - 1 : s.v[i] \notin low}
  <2>1. ASSUME NEW i \in s.left .. n - 1
        PROVE  ~Less(s.v[i], s.v[s.middle]) <=> s.v[i] \notin low
    <3>1. i \in 0 .. n - 1
      BY <1>1
    <3> QED
      BY <3>1, <1>1, <1>3, <1>4 DEF Less
  <2> QED
    BY <2>1, <1>2
<1>6. {i \in 0 .. s.right - 1 : Less(s.v[i], s.v[s.middle])}
      = {i \in 0 .. s.right - 1 : s.v[i] \in low}
  <2>1. ASSUME NEW i \in 0 .. s.right - 1
        PROVE  Less(s.v[i], s.v[s.middle]) <=> s.v[i] \in low
    <3>1. i \in 0 .. n - 1
      BY <1>1
    <3> QED
      BY <3>1, <1>1, <1>3, <1>4 DEF Less
  <2> QED
    BY <2>1
<1>7. ScanUp(s.v, s.left, LAMBDA x : ~Less(x, s.v[s.middle])) = UpStop(s, n, low)
  BY <1>5 DEF ScanUp, UpStop
<1>8. ScanDown(s.v, s.right - 1, LAMBDA x : Less(x, s.v[s.middle])) = DownStop(s, low)
  BY <1>6 DEF ScanDown, DownStop
<1> QED
  BY <1>7, <1>8 DEF CrossOnce, CrossRound

LEMMA CrossMeets ==
  ASSUME NEW all, Comparable(all), NEW n \in Nat, NEW v \in Arrangements(all, n),
         NEW first \in Nat, NEW last \in 0 .. n, first < last, NEW low, NEW p,
         low = {x \in all : x[1] < p[1]}, NEW start \in Windows(all, n),
         Crossing(n, v, first, last, low, p, start)
  PROVE  /\ Cross(start, last - first) \in Windows(all, n)
         /\ Crossing(n, v, first, last, low, p, Cross(start, last - first))
         /\ Cross(start, last - first).met
<1> DEFINE m == last - first
           X == Windows(all, n)
           Good(s) == s \in X /\ Crossing(n, v, first, last, low, p, s)
           Step(s) == IF s.met THEN s ELSE CrossRound(s)
           Once(s) == IF s.met THEN s ELSE CrossOnce(s, n, low)
           move == [s \in X |-> Step(s)]
           Runs(f) == f = [k \in 0 .. m |-> IF k = 0 THEN start ELSE Step(f[k - 1])]
<1>1. m \in Nat /\ m > 0
  OBVIOUS
<1>2. ASSUME NEW s, Good(s) PROVE s \in X /\ Step(s) = Once(s)
  BY <1>2, CrossScans
<1>3. ASSUME NEW f, f[0] = start, \A k \in 1 .. m : Good(f[k - 1]) => f[k] = Once(f[k - 1])
      PROVE  (\A k \in 0 .. m : Good(f[k])) /\ f[m].met
  <2>1. \A k \in 1 .. last - first :
            f[k - 1] \in Windows(all, n) /\ Crossing(n, v, first, last, low, p, f[k - 1]) =>
               f[k] = IF f[k - 1].met THEN f[k - 1] ELSE CrossOnce(f[k - 1], n, low)
    BY <1>3
  <2>2. /\ \A k \in 0 .. last - first :
               f[k] \in Windows(all, n) /\ Crossing(n, v, first, last, low, p, f[k])
        /\ f[last - first].met
    <3> HIDE DEF m, X, Good, Step, Once, move, Runs
    <3> QED
      BY <2>1, <1>3, CrossRuns
  <2> QED
    BY <2>2
<1>4. \E f : Runs(f)
  <2> HIDE DEF m, X, Good, Step, Once
  <2>1. PICK f : IsRun(f, m, start, move)
    <3> HIDE DEF move
    <3> QED
      BY <1>1, LoopRuns
  <2>2. f = [k \in 0 .. m |-> IF k = 0 THEN start ELSE move[f[k - 1]]]
    BY <2>1 DEF IsRun
  <2>3. \A k \in 1 .. m : Good(f[k - 1]) => f[k] = Once(f[k - 1])
    <3> SUFFICES ASSUME NEW k \in 1 .. m, Good(f[k - 1]) PROVE f[k] = Once(f[k - 1])
      OBVIOUS
    <3>1. f[k] = move[f[k - 1]]
      BY <2>2, <1>1
    <3>2. f[k - 1] \in X /\ Step(f[k - 1]) = Once(f[k - 1])
      BY <1>2
    <3> QED
      BY <3>1, <3>2
  <2>4. f[0] = start
    BY <2>2, <1>1
  <2>5. \A k \in 0 .. m : Good(f[k])
    BY <2>3, <2>4, <1>3
  <2>6. \A k \in 0 .. m : k # 0 => move[f[k - 1]] = Step(f[k - 1])
    <3> SUFFICES ASSUME NEW k \in 0 .. m, k # 0 PROVE move[f[k - 1]] = Step(f[k - 1])
      OBVIOUS
    <3>1. k - 1 \in 0 .. m
      BY <1>1
    <3>2. f[k - 1] \in X
      BY <3>1, <2>5, <1>2
    <3> QED
      BY <3>2
  <2>7. f = [k \in 0 .. m |-> IF k = 0 THEN start ELSE Step(f[k - 1])]
    <3> HIDE DEF move
    <3> QED
      BY <2>2, <2>6
  <2> QED
    BY <2>7
<1>5. PICK f : Runs(f) /\ Cross(start, last - first) = f[m]
  <2> HIDE DEF X, Good, Once, move
  <2> QED
    BY <1>4 DEF Cross, CrossRound, Loop
<1>6. (\A k \in 0 .. m : Good(f[k])) /\ f[m].met
  <2> HIDE DEF X, Good, Step, Once, move, m
  <2>1. f[0] = start /\ \A k \in 1 .. m : f[k] = Step(f[k - 1])
    BY <1>1, <1>5
  <2>2. \A k \in 1 .. m : Good(f[k - 1]) => f[k] = Once(f[k - 1])
    BY <2>1, <1>2
  <2> QED
    BY <2>1, <2>2, <1>3
<1>7. Good(f[m]) /\ f[m].met
  BY <1>1, <1>6
<1> QED
  BY <1>5, <1>7

\* The partition around the first element, which is low itself.
CrossEqualRound(s, first) ==
    Exchange(s, ScanUp(s.v, s.left, LAMBDA x : Less(s.v[first], x)),
             ScanDown(s.v, s.right - 1, LAMBDA x : ~Less(s.v[first], x)))

LEMMA CrossEqualScans ==
  ASSUME NEW all, Comparable(all), NEW n \in Nat, NEW v \in Arrangements(all, n),
         NEW first \in Nat, NEW last \in 0 .. n, NEW low, NEW p,
         low = {x \in all : ~(p[1] < x[1])}, NEW s \in Windows(all, n),
         Crossing(n, v, first, last, low, p, s)
  PROVE  CrossEqualRound(s, first) = CrossOnce(s, n, low)
<1>1. /\ s.left \in first + 1 .. last - 1 /\ s.right \in first + 1 .. last - 1
      /\ s.v[s.middle] = p /\ s.v \in Arrangements(all, n)
  BY DEF Crossing, Windows
<1>2. Size(s.v) = n
  BY <1>1, SizeIs
<1>3. \A i \in 0 .. n - 1 : s.v[i] \in all /\ s.v[i][1] \in Int
  BY <1>1, Distances
<1>4. p \in all /\ p[1] \in Int
  <2>1. s.middle \in 0 .. n - 1
    BY DEF Crossing
  <2> QED
    BY <2>1, <1>1, <1>3
<1>5. s.middle = first
  <2>1. p \in low
    BY <1>4
  <2> QED
    BY <2>1 DEF Crossing
<1>6. {i \in s.left .. Size(s.v) - 1 : Less(s.v[first], s.v[i])}
      = {i \in s.left .. n - 1 : s.v[i] \notin low}
  <2>1. ASSUME NEW i \in s.left .. n - 1
        PROVE  Less(s.v[first], s.v[i]) <=> s.v[i] \notin low
    <3>1. i \in 0 .. n - 1
      BY <1>1
    <3> QED
      BY <3>1, <1>1, <1>3, <1>4, <1>5 DEF Less
  <2> QED
    BY <2>1, <1>2
<1>7. {i \in 0 .. s.right - 1 : ~Less(s.v[first], s.v[i])}
      = {i \in 0 .. s.right - 1 : s.v[i] \in low}
  <2>1. ASSUME NEW i \in 0 .. s.right - 1
        PROVE  ~Less(s.v[first], s.v[i]) <=> s.v[i] \in low
    <3>1. i \in 0 .. n - 1
      BY <1>1
    <3> QED
      BY <3>1, <1>1, <1>3, <1>4, <1>5 DEF Less
  <2> QED
    BY <2>1
<1>8. ScanUp(s.v, s.left, LAMBDA x : Less(s.v[first], x)) = UpStop(s, n, low)
  BY <1>6 DEF ScanUp, UpStop
<1>9. ScanDown(s.v, s.right - 1, LAMBDA x : ~Less(s.v[first], x)) = DownStop(s, low)
  BY <1>7 DEF ScanDown, DownStop
<1> QED
  BY <1>8, <1>9 DEF CrossOnce, CrossEqualRound

LEMMA CrossEqualMeets ==
  ASSUME NEW all, Comparable(all), NEW n \in Nat, NEW v \in Arrangements(all, n),
         NEW first \in Nat, NEW last \in 0 .. n, first < last, NEW low, NEW p,
         low = {x \in all : ~(p[1] < x[1])}, NEW start \in Windows(all, n),
         Crossing(n, v, first, last, low, p, start)
  PROVE  /\ CrossEqual(start, first, last - first) \in Windows(all, n)
         /\ Crossing(n, v, first, last, low, p, CrossEqual(start, first, last - first))
         /\ CrossEqual(start, first, last - first).met
<1> DEFINE m == last - first
           X == Windows(all, n)
           Good(s) == s \in X /\ Crossing(n, v, first, last, low, p, s)
           Step(s) == IF s.met THEN s ELSE CrossEqualRound(s, first)
           Once(s) == IF s.met THEN s ELSE CrossOnce(s, n, low)
           move == [s \in X |-> Step(s)]
           Runs(f) == f = [k \in 0 .. m |-> IF k = 0 THEN start ELSE Step(f[k - 1])]
<1>1. m \in Nat /\ m > 0
  OBVIOUS
<1>2. ASSUME NEW s, Good(s) PROVE s \in X /\ Step(s) = Once(s)
  BY <1>2, CrossEqualScans
<1>3. ASSUME NEW f, f[0] = start, \A k \in 1 .. m : Good(f[k - 1]) => f[k] = Once(f[k - 1])
      PROVE  (\A k \in 0 .. m : Good(f[k])) /\ f[m].met
  <2>1. \A k \in 1 .. last - first :
            f[k - 1] \in Windows(all, n) /\ Crossing(n, v, first, last, low, p, f[k - 1]) =>
               f[k] = IF f[k - 1].met THEN f[k - 1] ELSE CrossOnce(f[k - 1], n, low)
    BY <1>3
  <2>2. /\ \A k \in 0 .. last - first :
               f[k] \in Windows(all, n) /\ Crossing(n, v, first, last, low, p, f[k])
        /\ f[last - first].met
    <3> HIDE DEF m, X, Good, Step, Once, move, Runs
    <3> QED
      BY <2>1, <1>3, CrossRuns
  <2> QED
    BY <2>2
<1>4. \E f : Runs(f)
  <2> HIDE DEF m, X, Good, Step, Once
  <2>1. PICK f : IsRun(f, m, start, move)
    <3> HIDE DEF move
    <3> QED
      BY <1>1, LoopRuns
  <2>2. f = [k \in 0 .. m |-> IF k = 0 THEN start ELSE move[f[k - 1]]]
    BY <2>1 DEF IsRun
  <2>3. \A k \in 1 .. m : Good(f[k - 1]) => f[k] = Once(f[k - 1])
    <3> SUFFICES ASSUME NEW k \in 1 .. m, Good(f[k - 1]) PROVE f[k] = Once(f[k - 1])
      OBVIOUS
    <3>1. f[k] = move[f[k - 1]]
      BY <2>2, <1>1
    <3>2. f[k - 1] \in X /\ Step(f[k - 1]) = Once(f[k - 1])
      BY <1>2
    <3> QED
      BY <3>1, <3>2
  <2>4. f[0] = start
    BY <2>2, <1>1
  <2>5. \A k \in 0 .. m : Good(f[k])
    BY <2>3, <2>4, <1>3
  <2>6. \A k \in 0 .. m : k # 0 => move[f[k - 1]] = Step(f[k - 1])
    <3> SUFFICES ASSUME NEW k \in 0 .. m, k # 0 PROVE move[f[k - 1]] = Step(f[k - 1])
      OBVIOUS
    <3>1. k - 1 \in 0 .. m
      BY <1>1
    <3>2. f[k - 1] \in X
      BY <3>1, <2>5, <1>2
    <3> QED
      BY <3>2
  <2>7. f = [k \in 0 .. m |-> IF k = 0 THEN start ELSE Step(f[k - 1])]
    <3> HIDE DEF move
    <3> QED
      BY <2>2, <2>6
  <2> QED
    BY <2>7
<1>5. PICK f : Runs(f) /\ CrossEqual(start, first, last - first) = f[m]
  <2> HIDE DEF X, Good, Once, move
  <2> QED
    BY <1>4 DEF CrossEqual, CrossEqualRound, Loop
<1>6. (\A k \in 0 .. m : Good(f[k])) /\ f[m].met
  <2> HIDE DEF X, Good, Step, Once, move, m
  <2>1. f[0] = start /\ \A k \in 1 .. m : f[k] = Step(f[k - 1])
    BY <1>1, <1>5
  <2>2. \A k \in 1 .. m : Good(f[k - 1]) => f[k] = Once(f[k - 1])
    BY <2>1, <1>2
  <2> QED
    BY <2>1, <2>2, <1>3
<1>7. Good(f[m]) /\ f[m].met
  BY <1>1, <1>6
<1> QED
  BY <1>5, <1>7

----------------------------- (* One round *) -------------------------------

\* What a round owes: the element sought is in its place in the window, or in
\* a smaller window, before which nothing is further and after which nothing
\* is nearer.
Narrowed(all, n, v, s, first, last, nth) ==
    /\ s \in [v : Arrangements(all, n), first : 0 .. n, last : 0 .. n]
    /\ Rearranged(v, s.v, n, first, last)
    /\ \/ s.first = 0 /\ s.last = 0 /\ PlacedIn(s.v, first, last, nth)
       \/ /\ s.first \in first .. nth /\ s.last \in nth + 1 .. last
          /\ s.last - s.first < last - first
          /\ Divided(s.v, first, s.first, last) /\ Divided(s.v, first, s.last, last)

LEMMA DoneNarrowed ==
  ASSUME NEW all, NEW n \in Nat, NEW v, NEW w \in Arrangements(all, n),
         NEW first, NEW last, NEW nth, Rearranged(v, w, n, first, last),
         PlacedIn(w, first, last, nth)
  PROVE  Narrowed(all, n, v, Done(w), first, last, nth)
BY DEF Narrowed, Done

LEMMA WindowNarrowed ==
  ASSUME NEW all, NEW n \in Nat, NEW v, NEW w \in Arrangements(all, n),
         NEW first \in Nat, NEW last \in 0 .. n, NEW nth \in first .. last - 1,
         Rearranged(v, w, n, first, last),
         NEW f \in first .. nth, NEW l \in nth + 1 .. last, l - f < last - first,
         Divided(w, first, f, last), Divided(w, first, l, last)
  PROVE  Narrowed(all, n, v, [v |-> w, first |-> f, last |-> l], first, last, nth)
<1>1. f \in 0 .. n /\ l \in 0 .. n
  OBVIOUS
<1> QED
  BY <1>1 DEF Narrowed

\* The pivot is in its place: the side that holds the place sought is next.
LEMMA NarrowNarrows ==
  ASSUME NEW all, Comparable(all), NEW n \in Nat, NEW v,
         NEW first \in Nat, NEW last \in 0 .. n, NEW nth \in first .. last - 1,
         NEW c, c.v \in Arrangements(all, n), Rearranged(v, c.v, n, first, last),
         c.left \in first .. last - 1, NEW p \in Int, c.v[c.left][1] = p,
         \A i \in first .. c.left - 1 : c.v[i][1] < p,
         \A i \in c.left .. last - 1 : p <= c.v[i][1]
  PROVE  Narrowed(all, n, v, Narrow(c, first, last, nth), first, last, nth)
<1> DEFINE w == c.v
           L == c.left
           r == Narrow(c, first, last, nth)
<1>1. \A i \in first .. last - 1 : w[i][1] \in Int
  <2>1. \A i \in first .. last - 1 : i \in 0 .. n - 1
    OBVIOUS
  <2> QED
    BY <2>1, Distances
<1>2. /\ w \in Arrangements(all, n) /\ Rearranged(v, w, n, first, last)
      /\ L \in first .. last - 1 /\ w[L][1] = p
      /\ \A i \in first .. L - 1 : w[i][1] < p
      /\ \A i \in L .. last - 1 : p <= w[i][1]
  OBVIOUS
<1>3. r = IF nth = L THEN Done(w)
          ELSE IF nth < L
          THEN IF c.swaps = 0 /\ InOrder(w, first, L) THEN Done(w)
               ELSE [v |-> w, first |-> first, last |-> L]
          ELSE IF c.swaps = 0 /\ InOrder(w, L, last) THEN Done(w)
               ELSE [v |-> w, first |-> L + 1, last |-> last]
  BY DEF Narrow
<1>0. SUFFICES Narrowed(all, n, v, r, first, last, nth)
  OBVIOUS
<1> HIDE DEF w, L, r
<1>4. PlacedIn(w, first, last, nth) => Narrowed(all, n, v, Done(w), first, last, nth)
  BY <1>2, DoneNarrowed
<1>5. CASE nth = L
  <2>1. PlacedIn(w, first, last, nth)
    <3> SUFFICES ASSUME NEW i \in first .. last - 1
                 PROVE  IF i < nth THEN w[i][1] <= w[nth][1] ELSE w[nth][1] <= w[i][1]
      BY DEF PlacedIn
    <3>1. CASE i < nth
      <4>1. i \in first .. L - 1
        BY <3>1, <1>5, <1>2
      <4> QED
        BY <4>1, <3>1, <1>1, <1>2, <1>5
    <3>2. CASE ~(i < nth)
      <4>1. i \in L .. last - 1
        BY <3>2, <1>5, <1>2
      <4> QED
        BY <4>1, <3>2, <1>1, <1>2, <1>5
    <3> QED
      BY <3>1, <3>2
  <2> QED
    BY <2>1, <1>3, <1>4, <1>5
<1>6. CASE nth < L
  <2>1. L \in 0 .. n /\ nth \in first .. L - 1
    BY <1>2, <1>6
  <2>2. ASSUME InOrder(w, first, L) PROVE PlacedIn(w, first, last, nth)
    <3>1. Ascends(w, first, L)
      BY <2>1, <2>2, <1>2, InOrderAscends
    <3>2. ASSUME NEW i \in first .. last - 1
          PROVE  IF i < nth THEN w[i][1] <= w[nth][1] ELSE w[nth][1] <= w[i][1]
      <4>1. CASE i < L
        <5>1. i \in first .. L - 1
          BY <4>1, <2>1
        <5> QED
          BY <5>1, <2>1, <3>1 DEF Ascends
      <4>2. CASE ~(i < L)
        <5>1. i \in L .. last - 1 /\ ~(i < nth)
          BY <4>2, <2>1
        <5>2. w[nth][1] < p /\ p <= w[i][1] /\ w[nth][1] \in Int /\ w[i][1] \in Int
          BY <5>1, <2>1, <1>1, <1>2
        <5> QED
          BY <5>1, <5>2
      <4> QED
        BY <4>1, <4>2
    <3> QED
      BY <3>2 DEF PlacedIn
  <2>3. Divided(w, first, L, last)
    <3> SUFFICES ASSUME NEW i \in first .. L - 1, NEW j \in L .. last - 1
                 PROVE  w[i][1] <= w[j][1]
      BY DEF Divided
    <3>1. i \in first .. last - 1 /\ j \in first .. last - 1
      BY <1>2
    <3> QED
      BY <3>1, <1>1, <1>2
  <2>4. Divided(w, first, first, last)
    BY DEF Divided
  <2>5. Narrowed(all, n, v, [v |-> w, first |-> first, last |-> L], first, last, nth)
    <3>1. first \in first .. nth /\ L \in nth + 1 .. last /\ L - first < last - first
      BY <1>2, <1>6
    <3> QED
      BY <3>1, <2>3, <2>4, <1>2, WindowNarrowed
  <2>6. nth # L
    BY <1>6, <2>1
  <2> QED
    BY <2>2, <2>5, <2>6, <1>3, <1>4, <1>6
<1>7. CASE ~(nth < L) /\ nth # L
  <2>1. nth \in L .. last - 1 /\ L \in Nat /\ nth \in L + 1 .. last - 1
    BY <1>2, <1>7
  <2>2. ASSUME InOrder(w, L, last) PROVE PlacedIn(w, first, last, nth)
    <3>1. Ascends(w, L, last)
      BY <2>1, <2>2, <1>2, InOrderAscends
    <3>2. ASSUME NEW i \in first .. last - 1
          PROVE  IF i < nth THEN w[i][1] <= w[nth][1] ELSE w[nth][1] <= w[i][1]
      <4>1. CASE ~(i < L)
        <5>1. i \in L .. last - 1
          BY <4>1, <2>1
        <5> QED
          BY <5>1, <2>1, <3>1 DEF Ascends
      <4>2. CASE i < L
        <5>1. i \in first .. L - 1 /\ i < nth
          BY <4>2, <2>1
        <5>2. w[i][1] < p /\ p <= w[nth][1] /\ w[nth][1] \in Int /\ w[i][1] \in Int
          BY <5>1, <2>1, <1>1, <1>2
        <5> QED
          BY <5>1, <5>2
      <4> QED
        BY <4>1, <4>2
    <3> QED
      BY <3>2 DEF PlacedIn
  <2>3. Divided(w, first, L + 1, last)
    <3> SUFFICES ASSUME NEW i \in first .. (L + 1) - 1, NEW j \in L + 1 .. last - 1
                 PROVE  w[i][1] <= w[j][1]
      BY DEF Divided
    <3>1. i \in first .. last - 1 /\ j \in L .. last - 1 /\ j \in first .. last - 1
          /\ (i \in first .. L - 1 \/ i = L)
      BY <1>2, <2>1
    <3>2. w[i][1] <= p /\ p <= w[j][1]
      BY <3>1, <1>1, <1>2
    <3> QED
      BY <3>1, <3>2, <1>1
  <2>4. Divided(w, first, last, last)
    BY DEF Divided
  <2>5. Narrowed(all, n, v, [v |-> w, first |-> L + 1, last |-> last], first, last, nth)
    <3>1. L + 1 \in first .. nth /\ last \in nth + 1 .. last /\ last - (L + 1) < last - first
      BY <1>2, <2>1
    <3> QED
      BY <3>1, <2>3, <2>4, <1>2, WindowNarrowed
  <2> QED
    BY <2>2, <2>5, <1>3, <1>4, <1>7
<1> QED
  BY <1>5, <1>6, <1>7

\* A partition around the pivot p, from the first exchange to the end.
LEMMA SplitNarrows ==
  ASSUME NEW all, Comparable(all), NEW n \in Nat, NEW v \in Arrangements(all, n),
         NEW first \in Nat, NEW last \in 0 .. n, NEW nth \in first .. last - 1,
         NEW p \in all, NEW start \in Windows(all, n),
         Crossing(n, v, first, last, {x \in all : x[1] < p[1]}, p, start)
  PROVE  Narrowed(all, n, v, Split(start, first, last, nth), first, last, nth)
<1> DEFINE c == Cross(start, last - first)
           low == {x \in all : x[1] < p[1]}
           L == c.left
           M == c.middle
           u == c.v
           d == IF L # M /\ Less(u[M], u[L])
                THEN [c EXCEPT !.v = Swap(u, L, M), !.swaps = @ + 1] ELSE c
<1>1. c \in Windows(all, n) /\ Crossing(n, v, first, last, low, p, c) /\ c.met
  <2>1. first < last
    OBVIOUS
  <2> HIDE DEF low
  <2>2. low = {x \in all : x[1] < p[1]}
    BY DEF low
  <2> QED
    BY <2>1, <2>2, CrossMeets
<1>2. Split(start, first, last, nth) = Narrow(d, first, last, nth)
  BY DEF Split, Settle
<1>3. /\ u \in Arrangements(all, n) /\ Rearranged(v, u, n, first, last)
      /\ L \in first + 1 .. last - 1 /\ M \in first .. last - 1 /\ u[M] = p
      /\ \A i \in first .. L - 1 : u[i] \in low
      /\ \A i \in L .. last - 1 : u[i] \notin low
  <2> HIDE DEF low
  <2> QED
    BY <1>1 DEF Windows, Crossing
<1>4. p[1] \in Int /\ p \notin low
  BY DEF Comparable
<1>5. /\ M \in L .. last - 1 /\ M \in 0 .. n - 1 /\ L \in 0 .. n - 1
      /\ L \in first .. last - 1 /\ Places(n, first, last)
  <2>1. ~(M \in first .. L - 1)
    BY <1>3, <1>4
  <2> HIDE DEF L, M
  <2> QED
    BY <2>1, <1>3 DEF Places
<1>6. \A i \in 0 .. n - 1 : u[i] \in all /\ u[i][1] \in Int
  BY <1>3, Distances
<1> DEFINE w == Swap(u, L, M)
<1>7. CASE L # M /\ Less(u[M], u[L])
  <2>1. c \in [v : Arrangements(all, n), left : 0 .. n, right : 0 .. n, middle : 0 .. n,
               swaps : Nat, met : BOOLEAN]
    BY <1>1 DEF Windows
  <2>2. d.v = w /\ d.left = L
    <3>1. d = [c EXCEPT !.v = w, !.swaps = @ + 1]
      BY <1>7
    <3> HIDE DEF c, d, w
    <3> QED
      BY <2>1, <3>1
  <2> HIDE DEF c, L, M, u, d
  <2>3. w \in Arrangements(all, n) /\ Rearranged(v, w, n, first, last) /\ Swapped(u, w, n, L, M)
    BY <1>3, <1>5, SwappedToo
  <2> HIDE DEF w
  <2>4. w[L] = p /\ w[M] = u[L] /\ \A i \in 0 .. n - 1 : i # L /\ i # M => w[i] = u[i]
    BY <2>3, <1>3 DEF Swapped
  <2>5. ASSUME NEW i \in first .. L - 1 PROVE w[i][1] < p[1]
    <3>1. i \in 0 .. n - 1 /\ i # L /\ i # M
      BY <1>3, <1>5
    <3>2. w[i] \in low
      BY <3>1, <2>4, <1>3
    <3> QED
      BY <3>2
  <2>6. ASSUME NEW i \in L .. last - 1 PROVE p[1] <= w[i][1]
    <3>1. i \in 0 .. n - 1
      BY <1>5
    <3>2. PICK j \in L .. last - 1 : w[i] = u[j]
      BY <3>1, <2>4, <1>3, <1>5
    <3>3. j \in 0 .. n - 1 /\ u[j] \notin low
      BY <1>3, <1>5
    <3>4. u[j] \in all /\ u[j][1] \in Int
      BY <3>3, <1>6
    <3> QED
      BY <3>2, <3>3, <3>4, <1>4
  <2>7. Narrowed(all, n, v, Narrow(d, first, last, nth), first, last, nth)
    <3> HIDE DEF low
    <3> QED
      BY <2>2, <2>3, <2>4, <2>5, <2>6, <1>4, <1>5, NarrowNarrows
  <2> QED
    BY <2>7, <1>2
<1>8. CASE ~(L # M /\ Less(u[M], u[L]))
  <2>1. d = c
    BY <1>8
  <2>2. c.v = u /\ c.left = L
    OBVIOUS
  <2> HIDE DEF c, L, M, u, d
  <2>3. u[L][1] = p[1]
    <3>1. CASE L = M
      BY <3>1, <1>3
    <3>2. CASE L # M
      <4>1. ~(p[1] < u[L][1])
        BY <3>2, <1>3, <1>8 DEF Less
      <4>2. u[L] \in all /\ u[L][1] \in Int /\ u[L] \notin low
        <5> HIDE DEF low
        <5> QED
          BY <1>3, <1>5, <1>6
      <4> QED
        BY <4>1, <4>2, <1>4
    <3> QED
      BY <3>1, <3>2
  <2>4. \A i \in first .. L - 1 : u[i][1] < p[1]
    BY <1>3
  <2>5. ASSUME NEW i \in L .. last - 1 PROVE p[1] <= u[i][1]
    <3>1. i \in 0 .. n - 1 /\ u[i] \notin low
      BY <1>3, <1>5
    <3> QED
      BY <3>1, <1>4, <1>6
  <2>6. Narrowed(all, n, v, Narrow(c, first, last, nth), first, last, nth)
    <3> HIDE DEF low
    <3> QED
      BY <2>2, <2>3, <2>4, <2>5, <1>3, <1>4, <1>5, NarrowNarrows
  <2> QED
    BY <2>1, <2>6, <1>2
<1> QED
  BY <1>7, <1>8

\* Places that hold the least distance in a window, before others.
LEMMA LeastPlaced ==
  ASSUME NEW all, Comparable(all), NEW n \in Nat, NEW w \in Arrangements(all, n),
         NEW first \in Nat, NEW last \in 0 .. n, NEW d \in Int,
         \A i \in first .. last - 1 : d <= w[i][1],
         NEW L \in first .. last, \A i \in first .. L - 1 : w[i][1] = d,
         NEW nth \in first .. L - 1
  PROVE  PlacedIn(w, first, last, nth)
<1>1. \A i \in first .. last - 1 : w[i][1] \in Int
  <2>1. \A i \in first .. last - 1 : i \in 0 .. n - 1
    OBVIOUS
  <2> QED
    BY <2>1, Distances
<1>2. nth \in first .. last - 1 /\ w[nth][1] = d
  OBVIOUS
<1>3. ASSUME NEW i \in first .. last - 1, i < nth PROVE w[i][1] = d
  BY <1>3
<1> QED
  BY <1>1, <1>2, <1>3 DEF PlacedIn

\* The elements of a window are those that were there.
LEMMA StillAtLeast ==
  ASSUME NEW v, NEW w, NEW n, NEW first, NEW last, Rearranged(v, w, n, first, last), NEW d,
         \A i \in first .. last - 1 : d <= v[i][1]
  PROVE  \A i \in first .. last - 1 : d <= w[i][1]
BY DEF Rearranged

\* The partition around equal elements that are the least.
LEMMA SplitEqualNarrows ==
  ASSUME NEW all, Comparable(all), NEW n \in Nat, NEW v \in Arrangements(all, n),
         NEW first \in Nat, NEW last \in 0 .. n, NEW nth \in first .. last - 1,
         NEW u, Rearranged(u, v, n, first, last),
         NEW left \in first + 1 .. last - 1,
         \A i \in first .. last - 1 : v[first][1] <= v[i][1],
         \A i \in first .. left - 1 : v[i][1] = v[first][1],
         Less(v[first], v[last - 1])
  PROVE  Narrowed(all, n, u, SplitEqual(v, first, left, last, nth), first, last, nth)
<1> DEFINE p == v[first]
           d == v[first][1]
           low == {x \in all : ~(p[1] < x[1])}
           start == Window(v, left, last - 1, first, 0)
           c == CrossEqual(start, first, last - first)
<1>1. /\ p \in all /\ d \in Int /\ p \in low
      /\ \A i \in first .. last - 1 : i \in 0 .. n - 1 /\ v[i] \in all /\ v[i][1] \in Int
  <2>1. \A i \in first .. last - 1 : i \in 0 .. n - 1
    OBVIOUS
  <2>2. \A i \in first .. last - 1 : v[i] \in all /\ v[i][1] \in Int
    BY <2>1, Distances
  <2>3. first \in first .. last - 1
    OBVIOUS
  <2>4. p \in all /\ d \in Int
    BY <2>2, <2>3
  <2>5. ~(p[1] < p[1])
    BY <2>4
  <2> QED
    BY <2>1, <2>2, <2>4, <2>5
<1>2. CASE left = last - 1
  <2>1. nth \in first .. left - 1 => PlacedIn(v, first, last, nth)
    <3>1. left \in first .. last
      OBVIOUS
    <3> QED
      BY <3>1, <1>1, LeastPlaced
  <2>2. nth = last - 1 => PlacedIn(v, first, last, nth)
    <3> SUFFICES ASSUME nth = last - 1, NEW i \in first .. last - 1
                 PROVE  IF i < nth THEN v[i][1] <= v[nth][1] ELSE v[nth][1] <= v[i][1]
      BY DEF PlacedIn
    <3>1. d < v[nth][1] /\ v[nth][1] \in Int
      BY <1>1 DEF Less
    <3>2. CASE i < nth
      <4>1. i \in first .. left - 1
        BY <3>2, <1>2
      <4>2. v[i][1] = d
        BY <4>1
      <4> QED
        BY <3>1, <3>2, <4>2, <1>1
    <3>3. CASE ~(i < nth)
      <4>1. i = nth
        BY <3>3
      <4> QED
        BY <4>1, <3>1, <3>3
    <3> QED
      BY <3>2, <3>3
  <2>3. PlacedIn(v, first, last, nth)
    <3>1. nth \in first .. left - 1 \/ nth = last - 1
      BY <1>2
    <3> QED
      BY <3>1, <2>1, <2>2
  <2>4. SplitEqual(v, first, left, last, nth) = Done(v)
    BY <1>2 DEF SplitEqual
  <2> QED
    BY <2>3, <2>4, DoneNarrowed
<1>3. CASE left # last - 1
  <2>1. start = [v |-> v, left |-> left, right |-> last - 1, middle |-> first, swaps |-> 0,
                 met |-> FALSE]
    <3>1. (left >= last - 1) = FALSE
      <4>1. ~(left >= last - 1)
        BY <1>3
      <4> QED
        BY <4>1
    <3> QED
      BY ONLY <3>1 DEF Window
  <2>2. start \in Windows(all, n)
    <3>1. left \in 0 .. n /\ last - 1 \in 0 .. n /\ first \in 0 .. n
      OBVIOUS
    <3> HIDE DEF start
    <3> QED
      BY ONLY <3>1, <2>1, v \in Arrangements(all, n) DEF Windows
  <2>3. ASSUME NEW i \in first .. left - 1 PROVE v[i] \in low
    <3>1. v[i] \in all /\ v[i][1] = d
      BY <1>1
    <3> QED
      BY <3>1, <1>1
  <2>4. ASSUME NEW i \in last - 1 .. last - 1 PROVE v[i] \notin low
    <3>1. i = last - 1 /\ p[1] < v[i][1]
      BY DEF Less
    <3> QED
      BY <3>1
  <2>5. Crossing(n, v, first, last, low, p, start)
    <3>1. Rearranged(v, v, n, first, last)
      BY RearrangedNot
    <3>2. /\ left \in first + 1 .. last - 1 /\ last - 1 \in first + 1 .. last - 1
          /\ first \in first .. last - 1 /\ left <= last - 1
      OBVIOUS
    <3> HIDE DEF start, low
    <3> QED
      BY <3>1, <3>2, <2>1, <2>3, <2>4 DEF Crossing
  <2>6. c \in Windows(all, n) /\ Crossing(n, v, first, last, low, p, c) /\ c.met
    <3>1. first < last /\ low = {x \in all : ~(p[1] < x[1])}
      OBVIOUS
    <3> HIDE DEF low, start, p
    <3> QED
      BY <3>1, <2>2, <2>5, CrossEqualMeets
  <2> DEFINE w == c.v
             L == c.left
  <2>7. /\ w \in Arrangements(all, n) /\ Rearranged(v, w, n, first, last)
        /\ L \in first + 1 .. last - 1
        /\ \A i \in first .. L - 1 : w[i] \in low
        /\ \A i \in L .. last - 1 : w[i] \notin low
    <3> HIDE DEF low, c
    <3> QED
      BY <2>6 DEF Windows, Crossing
  <2>8. SplitEqual(v, first, left, last, nth)
          = IF nth < L THEN Done(w) ELSE [v |-> w, first |-> L, last |-> last]
    BY <1>3 DEF SplitEqual, AfterEqual
  <2> HIDE DEF w, L, c, start
  <2>9. Rearranged(u, w, n, first, last)
    BY <2>7, RearrangedTwice
  <2>10. \A i \in first .. last - 1 : d <= w[i][1] /\ w[i] \in all /\ w[i][1] \in Int
    <3>1. \A i \in first .. last - 1 : d <= w[i][1]
      BY <2>7, StillAtLeast
    <3> QED
      BY <3>1, <2>7, <1>1, Distances
  <2>11. \A i \in first .. L - 1 : w[i][1] = d
    <3> SUFFICES ASSUME NEW i \in first .. L - 1 PROVE w[i][1] = d
      OBVIOUS
    <3>1. i \in first .. last - 1 /\ ~(p[1] < w[i][1])
      BY <2>7
    <3> QED
      BY <3>1, <2>10, <1>1
  <2>12. CASE nth < L
    <3>1. nth \in first .. L - 1 /\ L \in first .. last
      BY <2>7, <2>12
    <3>2. PlacedIn(w, first, last, nth)
      <4> HIDE DEF d
      <4> QED
        BY <3>1, <2>7, <2>10, <2>11, <1>1, LeastPlaced
    <3>3. SplitEqual(v, first, left, last, nth) = Done(w)
      BY <2>8, <2>12
    <3> QED
      BY <3>2, <3>3, <2>7, <2>9, DoneNarrowed
  <2>13. CASE ~(nth < L)
    <3>1. L \in first .. nth /\ last \in nth + 1 .. last /\ last - L < last - first
      BY <2>7, <2>13
    <3>2. Divided(w, first, last, last)
      BY DEF Divided
    <3>3. Divided(w, first, L, last)
      <4> SUFFICES ASSUME NEW i \in first .. L - 1, NEW j \in L .. last - 1
                   PROVE  w[i][1] <= w[j][1]
        BY DEF Divided
      <4>1. j \in first .. last - 1
        BY <2>7
      <4> QED
        BY <4>1, <2>10, <2>11
    <3>4. SplitEqual(v, first, left, last, nth) = [v |-> w, first |-> L, last |-> last]
      BY <2>8, <2>13
    <3>5. Narrowed(all, n, u, [v |-> w, first |-> L, last |-> last], first, last, nth)
      BY <3>1, <3>2, <3>3, <2>7, <2>9, WindowNarrowed
    <3> QED
      BY <3>4, <3>5
  <2> QED
    BY <2>12, <2>13
<1> QED
  BY <1>2, <1>3

\* Nothing in the window is nearer than its first element.
LEMMA EqualRunNarrows ==
  ASSUME NEW all, Comparable(all), NEW n \in Nat, NEW v \in Arrangements(all, n),
         NEW first \in Nat, NEW last \in 0 .. n, NEW nth \in first .. last - 1,
         last - first >= 8, NEW u, Rearranged(u, v, n, first, last),
         \A i \in first .. last - 1 : v[first][1] <= v[i][1]
  PROVE  Narrowed(all, n, u, EqualRun(v, first, last, nth,
                     {i \in first + 1 .. last - 2 : Less(v[first], v[i])}), first, last, nth)
<1> DEFINE larger == {i \in first + 1 .. last - 2 : Less(v[first], v[i])}
           d == v[first][1]
           r == EqualRun(v, first, last, nth, larger)
<1>1. \A i \in first .. last - 1 : i \in 0 .. n - 1 /\ v[i] \in all /\ v[i][1] \in Int
  <2>1. \A i \in first .. last - 1 : i \in 0 .. n - 1
    OBVIOUS
  <2> QED
    BY <2>1, Distances
<1>2. d \in Int /\ first \in first .. last - 1 /\ last - 1 \in first .. last - 1
  BY <1>1
<1>3. \A i \in first .. last - 2 : i \notin larger => v[i][1] = d
  <2> SUFFICES ASSUME NEW i \in first .. last - 2, i \notin larger PROVE v[i][1] = d
    OBVIOUS
  <2>1. i \in first .. last - 1
    OBVIOUS
  <2>2. i = first \/ i \in first + 1 .. last - 2
    OBVIOUS
  <2>3. i = first \/ ~(d < v[i][1])
    BY <2>2 DEF Less
  <2> QED
    BY <2>1, <2>3, <1>1, <1>2
<1>0. SUFFICES Narrowed(all, n, u, r, first, last, nth)
  OBVIOUS
<1>4. CASE Less(v[first], v[last - 1])
  <2>1. r = SplitEqual(v, first, first + 1, last, nth)
    BY <1>4 DEF EqualRun
  <2>2. \A i \in first .. (first + 1) - 1 : v[i][1] = v[first][1]
    OBVIOUS
  <2>3. first + 1 \in first + 1 .. last - 1
    OBVIOUS
  <2> HIDE DEF r, larger
  <2> QED
    BY <2>1, <2>2, <2>3, <1>4, SplitEqualNarrows
<1>5. CASE ~Less(v[first], v[last - 1]) /\ larger = {}
  <2>1. r = Done(v)
    BY <1>5 DEF EqualRun
  <2>2. v[last - 1][1] = d
    BY <1>1, <1>2, <1>5 DEF Less
  <2>3. \A i \in first .. last - 1 : v[i][1] = d
    <3> SUFFICES ASSUME NEW i \in first .. last - 1 PROVE v[i][1] = d
      OBVIOUS
    <3>1. i \in first .. last - 2 \/ i = last - 1
      OBVIOUS
    <3> QED
      BY <3>1, <2>2, <1>3, <1>5
  <2>4. PlacedIn(v, first, last, nth)
    <3>1. last \in first .. last
      OBVIOUS
    <3> HIDE DEF d
    <3>2. \A i \in first .. last - 1 : d <= v[i][1]
      BY <2>3, <1>2
    <3> QED
      BY <3>1, <3>2, <2>3, <1>2, LeastPlaced
  <2> QED
    BY <2>1, <2>4, DoneNarrowed
<1>6. CASE ~Less(v[first], v[last - 1]) /\ larger # {}
  <2> DEFINE q == Min(larger)
             w == Swap(v, q, last - 1)
  <2>1. q \in larger /\ \A y \in larger : q <= y
    <3>1. larger \subseteq Nat
      OBVIOUS
    <3> HIDE DEF larger
    <3> QED
      BY <3>1, <1>6, MinOf
  <2>2. r = SplitEqual(w, first, q + 1, last, nth)
    BY <1>6 DEF EqualRun
  <2> HIDE DEF q, r
  <2>3. q \in first + 1 .. last - 2 /\ q \in first .. last - 1 /\ Less(v[first], v[q])
    BY <2>1
  <2>4. /\ w \in Arrangements(all, n) /\ Rearranged(u, w, n, first, last)
        /\ Rearranged(v, w, n, first, last) /\ Swapped(v, w, n, q, last - 1)
    <3>1. Rearranged(v, v, n, first, last) /\ Places(n, first, last)
      BY RearrangedNot DEF Places
    <3> QED
      BY <3>1, <2>3, <1>2, SwappedToo
  <2> HIDE DEF w, larger
  <2>5. /\ w[q] = v[last - 1] /\ w[last - 1] = v[q]
        /\ \A i \in 0 .. n - 1 : i # q /\ i # last - 1 => w[i] = v[i]
    BY <2>4 DEF Swapped
  <2>6. w[first] = v[first]
    BY <2>3, <2>5, <1>1, <1>2
  <2>7. Less(w[first], w[last - 1])
    BY <2>3, <2>5, <2>6
  <2>8. \A i \in first .. last - 1 : w[first][1] <= w[i][1]
    BY <2>4, <2>6, StillAtLeast
  <2>9. \A i \in first .. (q + 1) - 1 : w[i][1] = w[first][1]
    <3> SUFFICES ASSUME NEW i \in first .. (q + 1) - 1 PROVE w[i][1] = d
      BY <2>6
    <3>1. CASE i = q
      <4>1. ~(d < v[last - 1][1]) /\ d <= v[last - 1][1] /\ v[last - 1][1] \in Int
        BY <1>1, <1>2, <1>6 DEF Less
      <4> QED
        BY <4>1, <3>1, <2>5, <1>2
    <3>2. CASE i # q
      <4>1. i \in first .. last - 2 /\ ~(q <= i) /\ i # last - 1 /\ i \in 0 .. n - 1
        BY <3>2, <2>3
      <4>2. i \notin larger
        BY <4>1, <2>1
      <4> QED
        BY <4>1, <4>2, <3>2, <2>5, <1>3
    <3> QED
      BY <3>1, <3>2
  <2>10. q + 1 \in first + 1 .. last - 1
    BY <2>3
  <2>11. Narrowed(all, n, u, SplitEqual(w, first, q + 1, last, nth), first, last, nth)
    BY <2>4, <2>7, <2>8, <2>9, <2>10, SplitEqualNarrows
  <2> QED
    BY <2>2, <2>11
<1> QED
  BY <1>4, <1>5, <1>6

\* A window as the partition around p starts with it.
LEMMA WindowCrosses ==
  ASSUME NEW all, Comparable(all), NEW n \in Nat, NEW v, NEW w \in Arrangements(all, n),
         NEW first \in Nat, NEW last \in 0 .. n, last - first >= 8,
         Rearranged(v, w, n, first, last), NEW p \in all,
         NEW right \in first + 1 .. last - 1, NEW middle \in first + 1 .. last - 1,
         NEW swaps \in Nat, w[middle] = p, w[first][1] < p[1],
         \A i \in right .. last - 1 : p[1] <= w[i][1],
         NEW low, low = {x \in all : x[1] < p[1]}
  PROVE  /\ Window(w, first + 1, right, middle, swaps) \in Windows(all, n)
         /\ Crossing(n, v, first, last, low, p, Window(w, first + 1, right, middle, swaps))
<1> DEFINE s == Window(w, first + 1, right, middle, swaps)
           left == first + 1
           met == (left >= right)
<1>1. s = [v |-> w, left |-> left, right |-> right, middle |-> middle, swaps |-> swaps, met |-> met]
  BY DEF Window
<1>2. \A i \in first .. last - 1 : i \in 0 .. n - 1 /\ w[i] \in all /\ w[i][1] \in Int
  <2>1. \A i \in first .. last - 1 : i \in 0 .. n - 1
    OBVIOUS
  <2> QED
    BY <2>1, Distances
<1>3. p[1] \in Int /\ p \notin low
  BY DEF Comparable
<1>4. w[first] \in low
  <2>1. first \in first .. last - 1
    OBVIOUS
  <2> QED
    BY <2>1, <1>2
<1>5. \A i \in right .. last - 1 : w[i] \notin low
  <2> SUFFICES ASSUME NEW i \in right .. last - 1, w[i][1] < p[1] PROVE FALSE
    OBVIOUS
  <2>1. i \in first .. last - 1 /\ p[1] <= w[i][1]
    OBVIOUS
  <2> QED
    BY <2>1, <1>2, <1>3
<1>6. /\ left \in 0 .. n /\ right \in 0 .. n /\ middle \in 0 .. n /\ left <= right
      /\ left \in first + 1 .. last - 1 /\ middle \in first .. last - 1
      /\ left - 1 = first
  OBVIOUS
<1>7. met \in BOOLEAN /\ (met => left = right)
  <2>1. met \in BOOLEAN
    OBVIOUS
  <2>2. met => left = right
    BY <1>6
  <2> QED
    BY <2>1, <2>2
<1> HIDE DEF s, left, met
<1>8. s \in Windows(all, n)
  BY ONLY <1>1, <1>6, <1>7, w \in Arrangements(all, n), swaps \in Nat DEF Windows
<1>9. \A i \in first .. left - 1 : w[i] \in low
  BY <1>4, <1>6
<1>10. \A i \in left .. last - 1 : met => w[i] \notin low
  BY <1>5, <1>7
<1>11. Crossing(n, v, first, last, low, p, s)
  BY <1>1, <1>3, <1>5, <1>6, <1>9, <1>10 DEF Crossing
<1> QED
  BY <1>8, <1>11 DEF s

\* A round on a window whose first, middle and last are in order.
LEMMA RoundNarrows ==
  ASSUME NEW all, Comparable(all), NEW n \in Nat, NEW v \in Arrangements(all, n),
         NEW first \in Nat, NEW last \in 0 .. n, NEW nth \in first .. last - 1,
         last - first >= 8, NEW s, s.v \in Arrangements(all, n), s.swaps \in Nat,
         Rearranged(v, s.v, n, first, last), NEW middle \in first + 1 .. last - 2,
         s.v[first][1] <= s.v[middle][1], s.v[middle][1] <= s.v[last - 1][1]
  PROVE  Narrowed(all, n, v, Round(s, first, middle, last, nth), first, last, nth)
<1> DEFINE w == s.v
           p == w[middle]
           below == {j \in first + 1 .. last - 2 : Less(w[j], w[middle])}
           r == Round(s, first, middle, last, nth)
<1>1. \A i \in first .. last - 1 : i \in 0 .. n - 1 /\ w[i] \in all /\ w[i][1] \in Int
  <2>1. \A i \in first .. last - 1 : i \in 0 .. n - 1
    OBVIOUS
  <2> QED
    BY <2>1, Distances
<1>2. /\ first \in first .. last - 1 /\ last - 1 \in first .. last - 1
      /\ middle \in first .. last - 1 /\ middle \in first + 1 .. last - 1
      /\ last - 1 \in first + 1 .. last - 1 /\ Places(n, first, last)
  BY DEF Places
<1>3. p \in all /\ p[1] \in Int /\ w[first][1] <= p[1] /\ p[1] <= w[last - 1][1]
  BY <1>1, <1>2
<1>4. r = IF Less(w[first], w[middle])
          THEN Split(Window(w, first + 1, last - 1, middle, s.swaps), first, last, nth)
          ELSE IF below = {}
          THEN EqualRun(w, first, last, nth, {i \in first + 1 .. last - 2 : Less(w[first], w[i])})
          ELSE Split(Window(Swap(w, first, Max(below)), first + 1, Max(below), middle, s.swaps + 1),
                     first, last, nth)
  BY DEF Round, Guard
<1>0. SUFFICES Narrowed(all, n, v, r, first, last, nth)
  OBVIOUS
<1>5. CASE Less(w[first], w[middle])
  <2> DEFINE start == Window(w, first + 1, last - 1, middle, s.swaps)
  <2>1. \A i \in last - 1 .. last - 1 : p[1] <= w[i][1]
    BY <1>3
  <2>2. start \in Windows(all, n)
         /\ Crossing(n, v, first, last, {x \in all : x[1] < p[1]}, p, start)
    <3>1. w[first][1] < p[1] /\ w[middle] = p /\ w \in Arrangements(all, n)
          /\ Rearranged(v, w, n, first, last)
      BY <1>5 DEF Less
    <3> DEFINE low == {x \in all : x[1] < p[1]}
               swaps == s.swaps
    <3>2. low = {x \in all : x[1] < p[1]} /\ swaps \in Nat
      OBVIOUS
    <3> HIDE DEF w, p, low, swaps
    <3>3. /\ Window(w, first + 1, last - 1, middle, swaps) \in Windows(all, n)
          /\ Crossing(n, v, first, last, low, p, Window(w, first + 1, last - 1, middle, swaps))
      BY <3>1, <3>2, <2>1, <1>2, <1>3, WindowCrosses, ZenonT(30)
    <3> QED
      BY <3>3 DEF low, swaps
  <2>3. Narrowed(all, n, v, Split(start, first, last, nth), first, last, nth)
    <3> HIDE DEF start, p
    <3> QED
      BY <2>2, <1>3, SplitNarrows
  <2> QED
    BY <2>3, <1>4, <1>5
<1>6. CASE ~Less(w[first], w[middle]) /\ below = {}
  <2>1. \A i \in first .. last - 1 : w[first][1] <= w[i][1]
    <3> SUFFICES ASSUME NEW i \in first .. last - 1 PROVE w[first][1] <= w[i][1]
      OBVIOUS
    <3>1. i = first \/ i = last - 1 \/ i \in first + 1 .. last - 2
      OBVIOUS
    <3>2. i \in first + 1 .. last - 2 => ~(w[i][1] < p[1])
      BY <1>6 DEF Less
    <3> HIDE DEF w, p, below
    <3> QED
      BY <3>1, <3>2, <1>1, <1>2, <1>3
  <2>2. Narrowed(all, n, v, EqualRun(w, first, last, nth,
                     {i \in first + 1 .. last - 2 : Less(w[first], w[i])}), first, last, nth)
    <3>1. w \in Arrangements(all, n) /\ Rearranged(v, w, n, first, last)
      OBVIOUS
    <3> HIDE DEF w
    <3> QED
      BY <3>1, <2>1, EqualRunNarrows
  <2> QED
    BY <2>2, <1>4, <1>6
<1>7. CASE ~Less(w[first], w[middle]) /\ below # {}
  <2> DEFINE j == Max(below)
             x == Swap(w, first, j)
             start == Window(x, first + 1, j, middle, s.swaps + 1)
  <2>1. j \in below /\ \A y \in below : y <= j
    <3> DEFINE b == last - 2
    <3>1. b \in Nat /\ below \subseteq 0 .. b
      OBVIOUS
    <3> HIDE DEF below, b
    <3> QED
      BY <3>1, <1>7, MaxOf
  <2>2. r = Split(start, first, last, nth)
    BY <1>4, <1>7
  <2>3. j \in first + 1 .. last - 2 /\ w[j][1] < p[1]
    BY <2>1 DEF Less
  <2>4. \A i \in j + 1 .. last - 2 : ~(w[i][1] < p[1])
    <3> SUFFICES ASSUME NEW i \in j + 1 .. last - 2 PROVE ~(w[i][1] < p[1])
      OBVIOUS
    <3>1. i \in first + 1 .. last - 2 /\ ~(i <= j)
      <4> HIDE DEF j
      <4> QED
        BY <2>3
    <3>2. i \notin below
      BY <2>1, <3>1
    <3> QED
      BY <3>1, <3>2 DEF Less
  <2> HIDE DEF j
  <2>5. w[first][1] = p[1]
    BY <1>1, <1>2, <1>3, <1>7 DEF Less
  <2>6. j \in first .. last - 1 /\ j # middle /\ j # first /\ middle # first
        /\ j \in first + 1 .. last - 1
    BY <2>3, <1>3
  <2>7. /\ x \in Arrangements(all, n) /\ Rearranged(v, x, n, first, last)
        /\ Swapped(w, x, n, first, j)
    <3>1. w \in Arrangements(all, n) /\ Rearranged(v, w, n, first, last)
      OBVIOUS
    <3> HIDE DEF w
    <3> QED
      BY <3>1, <2>6, <1>2, SwappedToo
  <2> HIDE DEF x
  <2>8. /\ x[first] = w[j] /\ x[j] = w[first] /\ x[middle] = p
        /\ \A i \in 0 .. n - 1 : i # first /\ i # j => x[i] = w[i]
    <3>1. /\ x[first] = w[j] /\ x[j] = w[first]
          /\ \A i \in 0 .. n - 1 : i # first /\ i # j => x[i] = w[i]
      BY <2>7 DEF Swapped
    <3>2. middle \in 0 .. n - 1
      BY <1>1, <1>2
    <3> QED
      BY <3>1, <3>2, <2>6
  <2>9. \A i \in j .. last - 1 : p[1] <= x[i][1]
    <3> SUFFICES ASSUME NEW i \in j .. last - 1 PROVE p[1] <= x[i][1]
      OBVIOUS
    <3>1. CASE i = j
      BY <3>1, <2>5, <2>8, <1>3
    <3>2. CASE i = last - 1
      <4>1. i # first /\ i # j /\ i \in 0 .. n - 1
        BY <3>2, <2>3, <1>1, <1>2
      <4> QED
        BY <4>1, <3>2, <2>8, <1>3
    <3>3. CASE i # j /\ i # last - 1
      <4>1. i \in j + 1 .. last - 2 /\ i \in first .. last - 1 /\ i # first
        BY <3>3, <2>3
      <4>2. ~(w[i][1] < p[1]) /\ i \in 0 .. n - 1 /\ w[i][1] \in Int
        BY <4>1, <2>4, <1>1
      <4>3. x[i] = w[i]
        BY <4>1, <4>2, <3>3, <2>8
      <4> HIDE DEF w, p
      <4> QED
        BY <4>2, <4>3, <1>3
    <3> QED
      BY <3>1, <3>2, <3>3
  <2>10. start \in Windows(all, n)
         /\ Crossing(n, v, first, last, {y \in all : y[1] < p[1]}, p, start)
    <3>1. x[first][1] < p[1] /\ s.swaps + 1 \in Nat
      BY <2>3, <2>8
    <3> DEFINE k == s.swaps + 1
    <3>2. k \in Nat
      BY <3>1
    <3> DEFINE low == {y \in all : y[1] < p[1]}
    <3>3. low = {y \in all : y[1] < p[1]}
      OBVIOUS
    <3> HIDE DEF w, p, k, low
    <3>4. /\ Window(x, first + 1, j, middle, k) \in Windows(all, n)
          /\ Crossing(n, v, first, last, low, p, Window(x, first + 1, j, middle, k))
      BY <3>1, <3>2, <3>3, <2>6, <2>7, <2>8, <2>9, <1>2, <1>3, WindowCrosses, ZenonT(30)
    <3> QED
      BY <3>4 DEF low, k
  <2>11. Narrowed(all, n, v, Split(start, first, last, nth), first, last, nth)
    <3> HIDE DEF start, p
    <3> QED
      BY <2>10, <1>3, SplitNarrows
  <2> QED
    BY <2>2, <2>11
<1> QED
  BY <1>5, <1>6, <1>7

\* What a round leaves of the window.
LEMMA SelectNarrows ==
  ASSUME NEW all, Comparable(all), NEW n \in Nat, NEW v \in Arrangements(all, n),
         NEW first \in Nat, NEW last \in 0 .. n, NEW nth \in first .. last - 1
  PROVE  Narrowed(all, n, v, Select(v, first, last, nth), first, last, nth)
<1>1. \A i \in first .. last - 1 : i \in 0 .. n - 1 /\ v[i] \in all /\ v[i][1] \in Int
  <2>1. \A i \in first .. last - 1 : i \in 0 .. n - 1
    OBVIOUS
  <2> QED
    BY <2>1, Distances
<1>2. /\ Rearranged(v, v, n, first, last) /\ Places(n, first, last) /\ nth # last
      /\ last - first \in Nat /\ last - first # 0
      /\ first \in first .. last - 1 /\ last - 1 \in first .. last - 1
  BY RearrangedNot DEF Places
<1> DEFINE r == Select(v, first, last, nth)
           m == last - first
<1>3. SUFFICES Narrowed(all, n, v, r, first, last, nth)
  OBVIOUS
<1>4. CASE m = 1
  <2>1. r = Done(v)
    BY <1>4 DEF Select
  <2>2. PlacedIn(v, first, last, nth)
    <3> SUFFICES ASSUME NEW i \in first .. last - 1
                 PROVE  IF i < nth THEN v[i][1] <= v[nth][1] ELSE v[nth][1] <= v[i][1]
      BY DEF PlacedIn
    <3>1. i = nth /\ v[i][1] \in Int
      BY <1>1, <1>4
    <3> QED
      BY <3>1
  <2> QED
    BY <2>1, <2>2, <1>2, DoneNarrowed
<1>5. CASE m = 2
  <2> DEFINE w == IF Less(v[last - 1], v[first]) THEN Swap(v, first, last - 1) ELSE v
  <2>1. r = Done(w)
    BY <1>2, <1>5 DEF Select
  <2>2. /\ w \in Arrangements(all, n) /\ Rearranged(v, w, n, first, last)
        /\ w[first][1] <= w[last - 1][1]
    <3>1. CASE Less(v[last - 1], v[first])
      <4> DEFINE x == Swap(v, first, last - 1)
      <4>1. /\ x \in Arrangements(all, n) /\ Rearranged(v, x, n, first, last)
            /\ Swapped(v, x, n, first, last - 1)
        BY <1>2, SwappedToo
      <4>2. w = x
        BY <3>1
      <4> HIDE DEF x, w
      <4>3. w[first][1] <= w[last - 1][1]
        BY <4>1, <4>2, <3>1, <1>1, <1>2 DEF Swapped, Less
      <4> QED
        BY <4>1, <4>2, <4>3
    <3>2. CASE ~Less(v[last - 1], v[first])
      <4>1. w = v
        BY <3>2
      <4>2. v[first][1] <= v[last - 1][1]
        BY <3>2, <1>1, <1>2 DEF Less
      <4> QED
        BY <4>1, <4>2, <1>2
    <3> QED
      BY <3>1, <3>2
  <2> HIDE DEF w, r
  <2>3. \A i \in first .. last - 1 : w[i][1] \in Int
    BY <2>2, <1>1, Distances
  <2>4. PlacedIn(w, first, last, nth)
    <3> SUFFICES ASSUME NEW i \in first .. last - 1
                 PROVE  IF i < nth THEN w[i][1] <= w[nth][1] ELSE w[nth][1] <= w[i][1]
      BY DEF PlacedIn
    <3>1. i \in {first, last - 1} /\ nth \in {first, last - 1}
      BY <1>5
    <3> QED
      BY <3>1, <2>2, <2>3, <1>2
  <2> QED
    BY <2>1, <2>2, <2>4, DoneNarrowed
<1>6. CASE m = 3
  <2> DEFINE w == SortThree(v, first, first + 1, last - 1).v
  <2>1. r = Done(w)
    BY <1>2, <1>6 DEF Select
  <2>2. /\ w \in Arrangements(all, n) /\ Rearranged(v, w, n, first, last)
        /\ w[first][1] <= w[first + 1][1] /\ w[first + 1][1] <= w[last - 1][1]
    <3>1. first + 1 \in first .. last - 1 /\ first < first + 1 /\ first + 1 < last - 1
      BY <1>6
    <3> QED
      BY <3>1, <1>2, SortThreeOrders
  <2> HIDE DEF w, r
  <2>3. \A i \in first .. last - 1 : w[i][1] \in Int
    BY <2>2, <1>1, Distances
  <2>4. PlacedIn(w, first, last, nth)
    <3> SUFFICES ASSUME NEW i \in first .. last - 1
                 PROVE  IF i < nth THEN w[i][1] <= w[nth][1] ELSE w[nth][1] <= w[i][1]
      BY DEF PlacedIn
    <3>1. i \in {first, first + 1, last - 1} /\ nth \in {first, first + 1, last - 1}
      BY <1>6
    <3>2. first + 1 \in first .. last - 1
      BY <1>6
    <3> QED
      BY <3>1, <3>2, <2>2, <2>3, <1>2
  <2> QED
    BY <2>1, <2>2, <2>4, DoneNarrowed
<1>7. CASE m \in 4 .. 7
  <2> DEFINE w == SelectionSort(v, first, last)
  <2>1. r = Done(w)
    <3>1. ~(nth = last \/ m \in {0, 1}) /\ ~(m = 2) /\ ~(m = 3) /\ m < 8
      BY <1>2, <1>7
    <3> QED
      BY <3>1 DEF Select
  <2>2. /\ w \in Arrangements(all, n) /\ Rearranged(v, w, n, first, last) /\ Ascends(w, first, last)
    <3>1. first < last
      BY <1>7
    <3> QED
      BY <3>1, SelectionSortAscends
  <2>3. PlacedIn(w, first, last, nth)
    <3>1. last \in Nat
      OBVIOUS
    <3> HIDE DEF w
    <3> QED
      BY <3>1, <2>2, AscendsPlaced
  <2> QED
    BY <2>1, <2>2, <2>3, DoneNarrowed
<1>8. CASE m >= 8
  <2> DEFINE middle == first + m \div 2
             s == SortThree(v, first, middle, last - 1)
  <2>1. r = Round(s, first, middle, last, nth)
    <3>1. ~(nth = last \/ m \in {0, 1}) /\ ~(m = 2) /\ ~(m = 3) /\ ~(m < 8)
      BY <1>2, <1>8
    <3> QED
      BY <3>1 DEF Select
  <2>2. middle \in first + 1 .. last - 2 /\ middle \in first .. last - 1
        /\ first < middle /\ middle < last - 1
    <3>1. m \div 2 \in 1 .. m - 2
      BY <1>2, <1>8
    <3> DEFINE half == m \div 2
    <3> HIDE DEF half
    <3>2. half \in 1 .. (last - first) - 2
      BY <3>1 DEF half
    <3>3. first + half \in first + 1 .. last - 2 /\ first + half \in first .. last - 1
          /\ first < first + half /\ first + half < last - 1
      BY <3>2
    <3> QED
      BY <3>3 DEF half
  <2> HIDE DEF middle, r
  <2>3. /\ s.v \in Arrangements(all, n) /\ Rearranged(v, s.v, n, first, last)
        /\ s.v[first][1] <= s.v[middle][1] /\ s.v[middle][1] <= s.v[last - 1][1]
    BY <2>2, <1>2, SortThreeOrders
  <2>4. s.swaps \in Nat
    BY DEF SortThree
  <2> HIDE DEF s
  <2>5. Narrowed(all, n, v, Round(s, first, middle, last, nth), first, last, nth)
    BY <2>2, <2>3, <2>4, <1>8, RoundNarrows
  <2> QED
    BY <2>1, <2>5
<1>9. m \in Nat /\ m # 0
  BY <1>2
<1>10. m = 1 \/ m = 2 \/ m = 3 \/ m \in 4 .. 7 \/ m >= 8
  <2> HIDE DEF m
  <2> QED
    BY <1>9
<1> QED
  BY <1>4, <1>5, <1>6, <1>7, <1>8, <1>10

---------------------------- (* All rounds *) -------------------------------

\* A loop passes through the sets that its steps lead to.
LEMMA LoopThrough ==
  ASSUME NEW n \in Nat, NEW X, NEW I \in [0 .. n -> SUBSET X], NEW move, NEW start, start \in I[0],
         \A k \in 1 .. n : \A s \in I[k - 1] : move[s] \in I[k]
  PROVE  \E f : IsRun(f, n, start, move) /\ \A k \in 0 .. n : f[k] \in I[k]
<1>1. PICK f : IsRun(f, n, start, move)
  BY LoopRuns
<1>2. f[0] = start /\ \A k \in 1 .. n : f[k] = move[f[k - 1]]
  BY <1>1 DEF IsRun
<1>3. \A k \in 0 .. n : f[k] \in I[k]
  <2>1. \A k \in 1 .. n : f[k - 1] \in I[k - 1] => f[k] \in I[k]
    BY <1>2
  <2> QED
    BY <2>1, <1>2, RunThrough
<1> QED
  BY <1>1, <1>3

\* Dividing a window divides the array, when its ends do.
LEMMA DividedStill ==
  ASSUME NEW n \in Nat, NEW v, NEW w, NEW first \in 0 .. n, NEW last \in first .. n,
         Rearranged(v, w, n, first, last), Divided(v, 0, first, n), Divided(v, 0, last, n),
         NEW at \in first .. last, Divided(w, first, at, last)
  PROVE  Divided(w, 0, at, n)
<1> SUFFICES ASSUME NEW i \in 0 .. at - 1, NEW j \in at .. n - 1 PROVE w[i][1] <= w[j][1]
  BY DEF Divided
<1>1. i \in 0 .. n - 1 /\ j \in 0 .. n - 1
  OBVIOUS
<1>2. \A k \in 0 .. n - 1 : k \notin first .. last - 1 => w[k] = v[k]
  BY DEF Rearranged
<1>3. \A k \in first .. last - 1 : \E l \in first .. last - 1 : w[k] = v[l]
  BY DEF Rearranged
<1>4. CASE i < first
  <2>1. i \in 0 .. first - 1 /\ w[i] = v[i]
    BY <1>1, <1>2, <1>4
  <2>2. PICK l \in first .. n - 1 : w[j] = v[l]
    <3>1. CASE j \in first .. last - 1
      BY <3>1, <1>3
    <3>2. CASE j \notin first .. last - 1
      <4>1. j \in first .. n - 1 /\ w[j] = v[j]
        BY <3>2, <1>1, <1>2
      <4> QED
        BY <4>1
    <3> QED
      BY <3>1, <3>2
  <2> QED
    BY <2>1, <2>2 DEF Divided
<1>5. CASE ~(i < first) /\ j < last
  <2>1. i \in first .. at - 1 /\ j \in at .. last - 1
    BY <1>5
  <2> QED
    BY <2>1 DEF Divided
<1>6. CASE ~(i < first) /\ ~(j < last)
  <2>1. i \in first .. last - 1 /\ j \in last .. n - 1 /\ w[j] = v[j]
    BY <1>1, <1>2, <1>6
  <2>2. PICK l \in first .. last - 1 : w[i] = v[l]
    BY <2>1, <1>3
  <2>3. l \in 0 .. last - 1
    OBVIOUS
  <2> QED
    BY <2>1, <2>2, <2>3 DEF Divided
<1> QED
  BY <1>4, <1>5, <1>6

\* An element in its place in a window is in its place.
LEMMA PlacedStill ==
  ASSUME NEW n \in Nat, NEW v, NEW w, NEW first \in 0 .. n, NEW last \in first .. n,
         Rearranged(v, w, n, first, last), Divided(v, 0, first, n), Divided(v, 0, last, n),
         NEW nth \in first .. last - 1, PlacedIn(w, first, last, nth)
  PROVE  PlacedIn(w, 0, n, nth)
<1> SUFFICES ASSUME NEW i \in 0 .. n - 1
             PROVE  IF i < nth THEN w[i][1] <= w[nth][1] ELSE w[nth][1] <= w[i][1]
  BY DEF PlacedIn
<1>1. PICK l \in first .. last - 1 : w[nth] = v[l]
  BY DEF Rearranged
<1>2. i \notin first .. last - 1 => w[i] = v[i]
  BY DEF Rearranged
<1>3. CASE i < first
  <2>1. i \in 0 .. first - 1 /\ l \in first .. n - 1 /\ i < nth /\ i \notin first .. last - 1
    BY <1>3
  <2> QED
    BY <2>1, <1>1, <1>2 DEF Divided
<1>4. CASE i >= last
  <2>1. i \in last .. n - 1 /\ l \in 0 .. last - 1 /\ ~(i < nth) /\ i \notin first .. last - 1
    BY <1>4
  <2> QED
    BY <2>1, <1>1, <1>2 DEF Divided
<1>5. CASE ~(i < first) /\ ~(i >= last)
  <2>1. i \in first .. last - 1
    BY <1>5
  <2> QED
    BY <2>1 DEF PlacedIn
<1> QED
  BY <1>3, <1>4, <1>5

\* The rounds of the selection, from a window to the next.
SearchState(all, n) == [v : Arrangements(all, n), first : 0 .. n, last : 0 .. n]
Searching(s, n, nth, k) ==
    \/ s.first = 0 /\ s.last = 0 /\ PlacedIn(s.v, 0, n, nth)
    \/ /\ s.first \in 0 .. nth /\ s.last \in nth + 1 .. n /\ (s.last - s.first) + k <= n
       /\ Divided(s.v, 0, s.first, n) /\ Divided(s.v, 0, s.last, n)

LEMMA RoundSearches ==
  ASSUME NEW all, Comparable(all), NEW n \in Nat, NEW nth \in 0 .. n - 1, NEW k \in 1 .. n,
         NEW s \in SearchState(all, n), Searching(s, n, nth, k - 1)
  PROVE  /\ Select(s.v, s.first, s.last, nth) \in SearchState(all, n)
         /\ Searching(Select(s.v, s.first, s.last, nth), n, nth, k)
<1> DEFINE r == Select(s.v, s.first, s.last, nth)
           v == s.v
           f == s.first
           l == s.last
<1>1. v \in Arrangements(all, n) /\ f \in 0 .. n /\ l \in 0 .. n
  BY DEF SearchState
<1>2. CASE f = 0 /\ l = 0 /\ PlacedIn(v, 0, n, nth)
  <2>1. r = [v |-> v, first |-> 0, last |-> 0]
    <3>1. l - f \in {0, 1}
      BY <1>2
    <3> QED
      BY <3>1 DEF Select, Done
  <2> HIDE DEF r, v, f, l
  <2>2. 0 \in 0 .. n
    OBVIOUS
  <2>3. r \in SearchState(all, n)
    BY <2>1, <2>2, <1>1 DEF SearchState
  <2>4. Searching(r, n, nth, k)
    BY <2>1, <1>2 DEF Searching
  <2> QED
    BY <2>3, <2>4 DEF r, v, f, l
<1>3. CASE /\ f \in 0 .. nth /\ l \in nth + 1 .. n /\ (l - f) + (k - 1) <= n
           /\ Divided(v, 0, f, n) /\ Divided(v, 0, l, n)
  <2>1. nth \in f .. l - 1 /\ f \in Nat /\ l \in f .. n
    BY <1>1, <1>3
  <2>2. Narrowed(all, n, v, r, f, l, nth)
    <3> HIDE DEF v, f, l
    <3>1. Narrowed(all, n, v, Select(v, f, l, nth), f, l, nth)
      BY <1>1, <2>1, SelectNarrows
    <3> QED
      BY <3>1 DEF v, f, l
  <2> HIDE DEF r, v, f, l
  <2>3. /\ r \in SearchState(all, n) /\ Rearranged(v, r.v, n, f, l)
        /\ \/ r.first = 0 /\ r.last = 0 /\ PlacedIn(r.v, f, l, nth)
           \/ /\ r.first \in f .. nth /\ r.last \in nth + 1 .. l
              /\ r.last - r.first < l - f
              /\ Divided(r.v, f, r.first, l) /\ Divided(r.v, f, r.last, l)
    BY <2>2 DEF Narrowed, SearchState
  <2>4. CASE r.first = 0 /\ r.last = 0 /\ PlacedIn(r.v, f, l, nth)
    <3>1. PlacedIn(r.v, 0, n, nth)
      BY <2>1, <2>3, <2>4, <1>1, <1>3, PlacedStill
    <3>2. Searching(r, n, nth, k)
      BY <3>1, <2>4 DEF Searching
    <3> QED
      BY <3>2, <2>3 DEF r, v, f, l
  <2>5. CASE /\ r.first \in f .. nth /\ r.last \in nth + 1 .. l
             /\ r.last - r.first < l - f
             /\ Divided(r.v, f, r.first, l) /\ Divided(r.v, f, r.last, l)
    <3>1. r.first \in f .. l /\ r.last \in f .. l
      BY <2>1, <2>5
    <3>2. Divided(r.v, 0, r.first, n)
      BY <3>1, <2>1, <2>3, <2>5, <1>1, <1>3, DividedStill
    <3>3. Divided(r.v, 0, r.last, n)
      BY <3>1, <2>1, <2>3, <2>5, <1>1, <1>3, DividedStill
    <3>4. r.first \in 0 .. nth /\ r.last \in nth + 1 .. n /\ (r.last - r.first) + k <= n
      BY <1>3, <2>5
    <3>5. Searching(r, n, nth, k)
      BY <3>2, <3>3, <3>4 DEF Searching
    <3> QED
      BY <3>5, <2>3 DEF r, v, f, l
  <2> QED
    BY <2>3, <2>4, <2>5
<1> QED
  BY <1>2, <1>3 DEF Searching

\* nth_element puts the element sought in its place, with the same elements.
LEMMA NthElementPlaces ==
  ASSUME NEW all, Comparable(all), NEW n \in Nat, NEW v \in Arrangements(all, n),
         NEW nth \in 0 .. n - 1
  PROVE  /\ NthElement(v, nth) \in Arrangements(all, n)
         /\ PlacedIn(NthElement(v, nth), 0, n, nth)
<1> DEFINE X == SearchState(all, n)
           I == [k \in 0 .. n |-> {s \in X : Searching(s, n, nth, k)}]
           start == [v |-> v, first |-> 0, last |-> n]
           Step(s) == Select(s.v, s.first, s.last, nth)
           move == [s \in X |-> Step(s)]
           Runs(f) == f = [k \in 0 .. n |-> IF k = 0 THEN start ELSE Step(f[k - 1])]
<1>1. I \in [0 .. n -> SUBSET X]
  OBVIOUS
<1>2. start \in I[0]
  <2>1. 0 \in 0 .. n /\ n \in 0 .. n /\ 0 \in 0 .. nth /\ n \in nth + 1 .. n
    OBVIOUS
  <2>2. start \in X
    BY <2>1 DEF SearchState
  <2>3. Divided(v, 0, 0, n) /\ Divided(v, 0, n, n)
    BY DEF Divided
  <2>4. Searching(start, n, nth, 0)
    BY <2>1, <2>3 DEF Searching
  <2> QED
    BY <2>1, <2>2, <2>4
<1>3. ASSUME NEW k \in 1 .. n, NEW s \in I[k - 1] PROVE s \in X /\ Step(s) \in I[k]
  <2>1. k - 1 \in 0 .. n /\ k \in 0 .. n
    OBVIOUS
  <2>2. s \in X /\ Searching(s, n, nth, k - 1)
    BY <2>1
  <2>3. Step(s) \in X /\ Searching(Step(s), n, nth, k)
    BY <2>2, RoundSearches
  <2> HIDE DEF X, Step
  <2> QED
    BY <2>1, <2>2, <2>3
<1>4. \E f : Runs(f)
  <2>1. \A k \in 1 .. n : \A s \in I[k - 1] : move[s] = Step(s) /\ move[s] \in I[k]
    <3> HIDE DEF X, I, Step
    <3> QED
      BY <1>3
  <2> HIDE DEF X, I, Step, start, move
  <2>2. PICK f : IsRun(f, n, start, move) /\ \A k \in 0 .. n : f[k] \in I[k]
    BY <1>1, <1>2, <2>1, LoopThrough
  <2>3. f = [k \in 0 .. n |-> IF k = 0 THEN start ELSE move[f[k - 1]]]
    BY <2>2 DEF IsRun
  <2>4. \A k \in 0 .. n : k # 0 => move[f[k - 1]] = Step(f[k - 1])
    <3> SUFFICES ASSUME NEW k \in 0 .. n, k # 0 PROVE move[f[k - 1]] = Step(f[k - 1])
      OBVIOUS
    <3>1. k \in 1 .. n /\ k - 1 \in 0 .. n
      OBVIOUS
    <3> QED
      BY <3>1, <2>1, <2>2
  <2> QED
    BY <2>3, <2>4, Zenon
<1>5. PICK f : Runs(f) /\ NthElement(v, nth) = f[n].v
  <2> HIDE DEF X, I, move
  <2>1. \E f : Runs(f) /\ Loop(start, Step, n) = f[n]
    BY <1>4 DEF Loop
  <2>2. NthElement(v, nth) = Loop(start, Step, n).v
    <3>1. Size(v) = n
      BY SizeIs
    <3> QED
      BY <3>1 DEF NthElement
  <2> HIDE DEF start, Step
  <2> QED
    BY <2>1, <2>2
<1>6. f[n] \in I[n]
  <2> HIDE DEF X, I, Step, start, move
  <2>1. f[0] \in I[0] /\ \A k \in 1 .. n : f[k] = Step(f[k - 1])
    BY <1>2, <1>5
  <2>2. \A k \in 0 .. n : f[k] \in I[k]
    BY <2>1, <1>1, <1>3, RunThrough
  <2> QED
    BY <2>2
<1>7. f[n] \in X /\ Searching(f[n], n, nth, n)
  BY <1>6
<1>8. f[n].v \in Arrangements(all, n) /\ PlacedIn(f[n].v, 0, n, nth)
  <2>1. ~(f[n].first \in 0 .. nth /\ f[n].last \in nth + 1 .. n
           /\ (f[n].last - f[n].first) + n <= n)
    OBVIOUS
  <2>2. PlacedIn(f[n].v, 0, n, nth)
    BY <2>1, <1>7 DEF Searching
  <2> QED
    BY <2>2, <1>7 DEF SearchState
<1> QED
  BY <1>5, <1>8

---------------------------- (* The buffer *) -------------------------------

\* What an array holds, and an array that holds everything once.
Held(v, m) == {v[i] : i \in 0 .. m - 1}
Once(v, m) == \A i \in 0 .. m - 1, j \in 0 .. m - 1 : v[i] = v[j] => i = j

LEMMA OnceCounts ==
  ASSUME NEW all, NEW m \in Nat, NEW v \in [0 .. m - 1 -> all], Once(v, m)
  PROVE  IsFiniteSet(Held(v, m)) /\ Cardinality(Held(v, m)) = m
<1> DEFINE S == 0 .. m - 1
           T == Held(v, m)
<1>1. IsFiniteSet(S) /\ Cardinality(S) = m
  <2>1. IsFiniteSet(0 .. m - 1) /\ Cardinality(0 .. m - 1)
         = IF 0 > m - 1 THEN 0 ELSE (m - 1) - 0 + 1
    BY FS_Interval
  <2> QED
    BY <2>1
<1>2. v \in Surjection(S, T) /\ v \in Injection(S, T)
  BY DEF Surjection, Injection, IsInjective, Held, Once
<1> HIDE DEF S, T
<1>3. IsFiniteSet(T) /\ Cardinality(T) = Cardinality(S)
  BY <1>1, <1>2, FS_Surjection
<1> QED
  BY <1>1, <1>3 DEF T

\* As many places as elements: each is held once.
LEMMA ArrangedOnce ==
  ASSUME NEW all, NEW n \in Nat, IsFiniteSet(all), Cardinality(all) = n,
         NEW w \in Arrangements(all, n)
  PROVE  Once(w, n)
<1> DEFINE S == 0 .. n - 1
<1>1. IsFiniteSet(S) /\ Cardinality(S) = n
  <2>1. IsFiniteSet(0 .. n - 1) /\ Cardinality(0 .. n - 1)
         = IF 0 > n - 1 THEN 0 ELSE (n - 1) - 0 + 1
    BY FS_Interval
  <2> QED
    BY <2>1
<1>2. w \in Surjection(S, all)
  BY DEF Surjection, Arrangements
<1> HIDE DEF S
<1>3. w \in Injection(S, all)
  BY <1>1, <1>2, FS_SurjSameCardinalityImpliesInj
<1> QED
  BY <1>3 DEF Injection, IsInjective, Once, S

\* A pruned array holds the nearest of what it held, each once.
LEMMA PruneKeeps ==
  ASSUME NEW all, Comparable(all), NEW n \in Nat, NEW v \in [0 .. n - 1 -> all], Once(v, n),
         all = Held(v, n), NEW limit \in 1 .. n
  PROVE  /\ Prune(v, limit) \in [0 .. limit - 1 -> all] /\ Once(Prune(v, limit), limit)
         /\ \A i \in 0 .. limit - 1 : Prune(v, limit)[i][1] <= Prune(v, limit)[limit - 1][1]
         /\ \A y \in all : y \in Held(Prune(v, limit), limit)
                                    \/ Prune(v, limit)[limit - 1][1] <= y[1]
<1> DEFINE nth == limit - 1
           w == NthElement(v, nth)
           x == Prune(v, limit)
<1>1. nth \in 0 .. n - 1 /\ v \in Arrangements(all, n)
  BY DEF Arrangements, Held
<1>2. w \in Arrangements(all, n) /\ PlacedIn(w, 0, n, nth)
  <2> HIDE DEF nth
  <2> QED
    BY <1>1, NthElementPlaces
<1>3. Once(w, n)
  <2>1. IsFiniteSet(all) /\ Cardinality(all) = n
    BY OnceCounts
  <2> HIDE DEF w
  <2> QED
    BY <1>2, <2>1, ArrangedOnce
<1>4. x = [i \in 0 .. nth |-> w[i]]
  BY DEF Prune, Truncate
<1> HIDE DEF w, x
<1>5. /\ \A i \in 0 .. n - 1 : w[i] \in all /\ w[i][1] \in Int
      /\ \A y \in all : \E i \in 0 .. n - 1 : w[i] = y
  <2>1. \A i \in 0 .. n - 1 : w[i] \in all /\ w[i][1] \in Int
    BY <1>2, Distances
  <2> QED
    BY <1>2, <2>1 DEF Arrangements
<1>6. /\ nth \in 0 .. nth /\ \A i \in 0 .. nth : i \in 0 .. n - 1 /\ x[i] = w[i]
  BY <1>1, <1>4
<1>7. x \in [0 .. limit - 1 -> all] /\ Once(x, limit)
  <2>1. x \in [0 .. nth -> all]
    BY <1>4, <1>5, <1>6
  <2>2. \A i \in 0 .. nth, j \in 0 .. nth : x[i] = x[j] => i = j
    BY <1>3, <1>6 DEF Once
  <2> QED
    BY <2>1, <2>2 DEF Once
<1>8. ASSUME NEW i \in 0 .. limit - 1 PROVE x[i][1] <= x[limit - 1][1]
  <2>1. i \in 0 .. nth
    OBVIOUS
  <2>2. IF i < nth THEN w[i][1] <= w[nth][1] ELSE w[nth][1] <= w[i][1]
    BY <2>1, <1>2, <1>6 DEF PlacedIn
  <2>3. i < nth \/ i = nth
    BY <2>1
  <2>4. w[i][1] <= w[nth][1]
    BY <2>2, <2>3, <1>1, <1>5
  <2> QED
    BY <2>1, <2>4, <1>6
<1>9. ASSUME NEW y \in all PROVE y \in Held(x, limit) \/ x[limit - 1][1] <= y[1]
  <2>1. PICK i \in 0 .. n - 1 : w[i] = y
    BY <1>5
  <2>2. CASE i \in 0 .. nth
    BY <2>1, <2>2, <1>6 DEF Held
  <2>3. CASE i \notin 0 .. nth
    <3>1. ~(i < nth)
      BY <2>3
    <3>2. w[nth][1] <= w[i][1]
      BY <3>1, <1>2 DEF PlacedIn
    <3> QED
      BY <3>2, <2>1, <1>6
  <2> QED
    BY <2>2, <2>3
<1> QED
  BY <1>7, <1>8, <1>9 DEF x

\* What the buffer keeps of the candidates seen: none is further than the
\* threshold, and those it does not keep are not nearer.
Keeps(b, m, seen, limit) ==
    /\ b = Kept(b.kept, b.threshold)
    /\ b.kept \in [0 .. m - 1 -> seen] /\ Once(b.kept, m)
    /\ b.threshold \in Int
    /\ \A i \in 0 .. m - 1 : b.kept[i][1] <= b.threshold
    /\ \A y \in seen : y \in Held(b.kept, m) \/ b.threshold <= y[1]
    /\ m >= limit \/ (b.threshold = Unbounded /\ seen \subseteq Held(b.kept, m))

LEMMA KeptSize ==
  ASSUME NEW m \in Nat, NEW all, NEW v \in [0 .. m - 1 -> all]
  PROVE  Size(v) = m
<1>1. Cardinality(0 .. m - 1) = IF 0 > m - 1 THEN 0 ELSE (m - 1) - 0 + 1
  BY FS_Interval
<1> QED
  BY <1>1 DEF Size

\* One candidate more, all of them held.
LEMMA ExtendHolds ==
  ASSUME NEW m \in Nat, NEW all, NEW v \in [0 .. m - 1 -> all], Once(v, m), NEW x, x \notin all
  PROVE  /\ Extend(v, x) \in [0 .. (m + 1) - 1 -> all \cup {x}]
         /\ Once(Extend(v, x), m + 1)
         /\ Held(Extend(v, x), m + 1) = Held(v, m) \cup {x}
<1> DEFINE w == Extend(v, x)
<1>1. w = [i \in 0 .. m |-> IF i = m THEN x ELSE v[i]]
  BY KeptSize DEF Extend
<1> HIDE DEF w
<1>2. w[m] = x /\ \A i \in 0 .. m - 1 : w[i] = v[i] /\ w[i] \in all
  BY <1>1
<1>3. w \in [0 .. m -> all \cup {x}]
  <2>1. \A i \in 0 .. m : w[i] \in all \cup {x}
    BY <1>1, <1>2
  <2> QED
    BY <2>1, <1>1
<1>4. \A i \in 0 .. m, j \in 0 .. m : w[i] = w[j] => i = j
  <2> SUFFICES ASSUME NEW i \in 0 .. m, NEW j \in 0 .. m, w[i] = w[j] PROVE i = j
    OBVIOUS
  <2>1. CASE i = m /\ j = m
    BY <2>1
  <2>2. CASE i # m /\ j # m
    <3>1. i \in 0 .. m - 1 /\ j \in 0 .. m - 1
      BY <2>2
    <3> QED
      BY <3>1, <1>2 DEF Once
  <2>3. CASE i = m /\ j # m
    <3>1. j \in 0 .. m - 1
      BY <2>3
    <3> QED
      BY <3>1, <2>3, <1>2
  <2>4. CASE i # m /\ j = m
    <3>1. i \in 0 .. m - 1
      BY <2>4
    <3> QED
      BY <3>1, <2>4, <1>2
  <2> QED
    BY <2>1, <2>2, <2>3, <2>4
<1>5. {w[i] : i \in 0 .. m} = {v[i] : i \in 0 .. m - 1} \cup {x}
  <2>1. ASSUME NEW i \in 0 .. m PROVE w[i] \in {v[j] : j \in 0 .. m - 1} \cup {x}
    <3>1. i = m \/ i \in 0 .. m - 1
      OBVIOUS
    <3> QED
      BY <3>1, <1>2
  <2>2. \A i \in 0 .. m - 1 : i \in 0 .. m /\ v[i] = w[i]
    BY <1>2
  <2>3. m \in 0 .. m /\ x = w[m]
    BY <1>2
  <2> QED
    BY <2>1, <2>2, <2>3
<1>6. (m + 1) - 1 = m
  OBVIOUS
<1>7. w \in [0 .. (m + 1) - 1 -> all \cup {x}]
  BY <1>3, <1>6
<1>8. Once(w, m + 1)
  BY <1>4, <1>6 DEF Once
<1>9. Held(w, m + 1) = Held(v, m) \cup {x}
  BY <1>5, <1>6 DEF Held
<1> QED
  BY <1>7, <1>8, <1>9 DEF w

\* What a candidate leaves in the buffer.
LEMMA OfferKeeps ==
  ASSUME NEW seen, NEW x, x \notin seen, Comparable(seen \cup {x}), x[1] < Unbounded,
         NEW limit \in Nat \ {0}, NEW m \in Nat, NEW b, Keeps(b, m, seen, limit)
  PROVE  \E k \in Nat : Keeps(Offer(b, x, limit), k, seen \cup {x}, limit)
<1> DEFINE v == b.kept
           t == b.threshold
           all == seen \cup {x}
           e == Extend(v, x)
           o == Offer(b, x, limit)
<1>1. /\ v \in [0 .. m - 1 -> seen] /\ Once(v, m) /\ t \in Int
      /\ \A i \in 0 .. m - 1 : v[i][1] <= t
      /\ \A y \in seen : y \in Held(v, m) \/ t <= y[1]
      /\ m >= limit \/ (t = Unbounded /\ seen \subseteq Held(v, m))
  BY DEF Keeps
<1>2. x[1] \in Int /\ Unbounded \in Int /\ \A y \in all : y[1] \in Int
  BY DEF Comparable, Unbounded
<1>3. Size(v) = m
  BY <1>1, KeptSize
<1>4. /\ e \in [0 .. (m + 1) - 1 -> all] /\ Once(e, m + 1) /\ Held(e, m + 1) = Held(v, m) \cup {x}
  <2> HIDE DEF v, t
  <2> QED
    BY ONLY <1>1, x \notin seen, m \in Nat, ExtendHolds
<1>5. o = IF x[1] >= t THEN b
          ELSE IF m + 1 >= 2 * limit THEN Pruned(Prune(e, limit), limit) ELSE Kept(e, t)
  BY <1>3 DEF Offer
<1>0. SUFFICES \E k \in Nat : Keeps(o, k, all, limit)
  OBVIOUS
<1> HIDE DEF v, t, e, o, all
<1>6. CASE x[1] >= t
  <2>1. o = b
    BY <1>5, <1>6
  <2>2. v \in [0 .. m - 1 -> all] /\ \A y \in all : y \in seen \/ y = x
    BY <1>1 DEF all
  <2>3. m >= limit
    BY <1>1, <1>2, <1>6
  <2>4. \A y \in all : y \in Held(v, m) \/ t <= y[1]
    BY <2>2, <1>1, <1>2, <1>6
  <2>5. Keeps(b, m, all, limit)
    BY <2>2, <2>3, <2>4, <1>1 DEF Keeps, v, t
  <2> QED
    BY <2>1, <2>5
<1>7. CASE ~(x[1] >= t) /\ ~(m + 1 >= 2 * limit)
  <2>1. o = [kept |-> e, threshold |-> t]
    BY <1>5, <1>7 DEF Kept
  <2>2. ASSUME NEW i \in 0 .. (m + 1) - 1 PROVE e[i][1] <= t
    <3>1. e[i] \in Held(v, m) \cup {x}
      BY <1>4 DEF Held
    <3>2. \A y \in Held(v, m) : y[1] <= t
      BY <1>1 DEF Held
    <3>3. x[1] <= t
      BY <1>1, <1>2, <1>7
    <3> QED
      BY <3>1, <3>2, <3>3
  <2>3. \A y \in all : y \in Held(e, m + 1) \/ t <= y[1]
    BY <1>1, <1>4 DEF all
  <2>4. m + 1 >= limit \/ (t = Unbounded /\ all \subseteq Held(e, m + 1))
    <3>1. CASE m >= limit
      BY <3>1
    <3>2. CASE ~(m >= limit)
      BY <3>2, <1>1, <1>4 DEF all
    <3> QED
      BY <3>1, <3>2
  <2>5. Keeps(o, m + 1, all, limit)
    BY <2>1, <2>2, <2>3, <2>4, <1>1, <1>4 DEF Keeps, Kept
  <2>6. m + 1 \in Nat
    OBVIOUS
  <2> QED
    BY <2>5, <2>6
<1>8. CASE ~(x[1] >= t) /\ m + 1 >= 2 * limit
  <2> DEFINE h == Held(e, m + 1)
             p == Prune(e, limit)
             d == p[limit - 1][1]
             n == m + 1
  <2>1. o = [kept |-> p, threshold |-> d]
    BY <1>5, <1>8 DEF Kept, Pruned
  <2>2. n \in Nat /\ limit \in 1 .. n /\ limit - 1 \in 0 .. limit - 1
    BY <1>8
  <2>3. h \subseteq all /\ Comparable(h) /\ e \in [0 .. n - 1 -> h]
    <3>1. h \subseteq all /\ e \in [0 .. n - 1 -> h]
      BY <1>4 DEF Held
    <3> HIDE DEF h
    <3> QED
      BY <3>1, <1>2 DEF Comparable
  <2>4. /\ p \in [0 .. limit - 1 -> h] /\ Once(p, limit)
        /\ \A i \in 0 .. limit - 1 : p[i][1] <= d
        /\ \A y \in h : y \in Held(p, limit) \/ d <= y[1]
    <3>1. Once(e, n) /\ h = Held(e, n)
      BY <1>4
    <3> HIDE DEF h, n
    <3> QED
      BY <3>1, <2>2, <2>3, PruneKeeps
  <2> HIDE DEF p
  <2>5. p[limit - 1] \in h /\ h = Held(v, m) \cup {x}
    BY <2>2, <2>4, <1>4
  <2> HIDE DEF h
  <2>6. d \in Int /\ d <= t
    <3>1. d \in Int
      BY <2>3, <2>5, <1>2
    <3>2. \A y \in Held(v, m) : y[1] <= t
      BY <1>1 DEF Held
    <3>3. x[1] <= t
      BY <1>1, <1>2, <1>8
    <3> QED
      BY <3>1, <3>2, <3>3, <2>5
  <2> HIDE DEF d
  <2>7. ASSUME NEW y \in all PROVE y \in Held(p, limit) \/ d <= y[1]
    <3>1. CASE y \in h
      BY <3>1, <2>4
    <3>2. CASE y \notin h
      <4>1. y \in seen /\ t <= y[1] /\ y[1] \in Int
        BY <3>2, <2>5, <1>1, <1>2 DEF all
      <4> QED
        BY <4>1, <2>6, <1>1
    <3> QED
      BY <3>1, <3>2
  <2>8. p \in [0 .. limit - 1 -> all]
    BY <2>3, <2>4
  <2>9. limit >= limit /\ limit \in Nat
    OBVIOUS
  <2>10. Keeps(o, limit, all, limit)
    BY <2>1, <2>4, <2>6, <2>7, <2>8, <2>9 DEF Keeps, Kept
  <2> QED
    BY <2>9, <2>10
<1> QED
  BY <1>6, <1>7, <1>8

Buffers(all) == [kept : UNION {[0 .. m - 1 -> all] : m \in Nat}, threshold : Int]

LEMMA KeepsBuffer ==
  ASSUME NEW all, NEW seen \in SUBSET all, NEW b, NEW m \in Nat, NEW limit, Keeps(b, m, seen, limit)
  PROVE  b \in Buffers(all)
<1>1. b.kept \in [0 .. m - 1 -> all]
  BY DEF Keeps
<1>2. b.kept \in UNION {[0 .. k - 1 -> all] : k \in Nat}
  BY <1>1
<1> DEFINE arrays == UNION {[0 .. k - 1 -> all] : k \in Nat}
           v == b.kept
           t == b.threshold
<1>3. v \in arrays /\ t \in Int /\ b = [kept |-> v, threshold |-> t]
  BY <1>2 DEF Keeps, Kept
<1> HIDE DEF arrays, v, t
<1>4. b \in [kept : arrays, threshold : Int]
  BY <1>3
<1> QED
  BY <1>4 DEF Buffers, arrays

\* Of a stream of different candidates the buffer keeps the nearest.
LEMMA GatherKeeps ==
  ASSUME NEW n \in Nat, NEW stream, Len(stream) = n,
         NEW all, all = {stream[i] : i \in 1 .. n}, stream \in [1 .. n -> all],
         \A i \in 1 .. n, j \in 1 .. n : stream[i] = stream[j] => i = j,
         Comparable(all), \A x \in all : x[1] < Unbounded, NEW limit \in Nat \ {0}
  PROVE  \E m \in Nat, b \in Buffers(all) :
            Gather(stream, limit) = b.kept /\ Keeps(b, m, all, limit)
<1> DEFINE Seen(k) == {stream[i] : i \in 1 .. k}
           Good(b, k) == \E m \in Nat : Keeps(b, m, Seen(k), limit)
           X == [buffer : Buffers(all), at : 0 .. n]
           I == [k \in 0 .. n |-> {s \in X : s.at = k /\ Good(s.buffer, k)}]
           start == [buffer |-> Kept(<<>>, Unbounded), at |-> 0]
           Step(s) == [buffer |-> Offer(s.buffer, stream[s.at + 1], limit), at |-> s.at + 1]
           move == [s \in X |-> Step(s)]
           Runs(f) == f = [k \in 0 .. n |-> IF k = 0 THEN start ELSE Step(f[k - 1])]
<1>1. I \in [0 .. n -> SUBSET X]
  OBVIOUS
<1>2. \A k \in 0 .. n : Seen(k) \subseteq all
  OBVIOUS
<1>3. start \in I[0]
  <2>1. Keeps(Kept(<<>>, Unbounded), 0, {}, limit)
    <3>1. <<>> \in [0 .. 0 - 1 -> {}] /\ Once(<<>>, 0) /\ Unbounded \in Int
      BY DEF Once, Unbounded
    <3>2. Kept(<<>>, Unbounded).kept = <<>> /\ Kept(<<>>, Unbounded).threshold = Unbounded
      BY DEF Kept
    <3>3. \A i \in 0 .. 0 - 1 : FALSE
      OBVIOUS
    <3> QED
      BY <3>1, <3>2, <3>3 DEF Keeps
  <2>2. Seen(0) = {} /\ 0 \in 0 .. n
    OBVIOUS
  <2>3. start.buffer = Kept(<<>>, Unbounded) /\ start.at = 0
    OBVIOUS
  <2>4. Kept(<<>>, Unbounded) \in Buffers(all)
    BY <2>1, KeepsBuffer
  <2> DEFINE e == Kept(<<>>, Unbounded)
  <2> HIDE DEF e
  <2>5. start = [buffer |-> e, at |-> 0]
    BY DEF e
  <2>6. start \in X
    BY <2>2, <2>4, <2>5 DEF e
  <2> HIDE DEF start, X, Seen
  <2>7. Good(start.buffer, 0)
    <3>1. Keeps(start.buffer, 0, Seen(0), limit)
      BY <2>1, <2>2, <2>3
    <3>2. 0 \in Nat
      OBVIOUS
    <3> QED
      BY <3>1, <3>2
  <2> HIDE DEF Good
  <2> QED
    BY <2>2, <2>3, <2>6, <2>7
<1>4. ASSUME NEW k \in 1 .. n, NEW s \in I[k - 1] PROVE s \in X /\ Step(s) \in I[k]
  <2>1. k - 1 \in 0 .. n /\ k \in 0 .. n
    OBVIOUS
  <2>2. s \in X /\ s.at = k - 1 /\ Good(s.buffer, k - 1)
    BY <2>1
  <2> DEFINE b == s.buffer
             x == stream[k]
             seen == Seen(k - 1)
             o == Offer(b, x, limit)
  <2>3. PICK m \in Nat : Keeps(b, m, seen, limit)
    BY <2>2
  <2>4. x \notin seen /\ seen \cup {x} = Seen(k) /\ seen \cup {x} \subseteq all
    <3>1. \A i \in 1 .. k - 1 : i \in 1 .. n /\ i # k /\ i \in 1 .. k
      OBVIOUS
    <3>2. \A i \in 1 .. k : i \in 1 .. k - 1 \/ i = k
      OBVIOUS
    <3>3. k \in 1 .. k /\ k \in 1 .. n
      OBVIOUS
    <3> QED
      BY <3>1, <3>2, <3>3
  <2> HIDE DEF b, x, seen, o
  <2>5. Comparable(seen \cup {x}) /\ x[1] < Unbounded
    BY <2>4 DEF Comparable
  <2>6. PICK j \in Nat : Keeps(o, j, seen \cup {x}, limit)
    BY <2>3, <2>4, <2>5, OfferKeeps DEF o
  <2>7. o \in Buffers(all)
    BY <2>4, <2>6, KeepsBuffer
  <2>8. Step(s) = [buffer |-> o, at |-> k]
    <3>1. s.at + 1 = k
      BY <2>2
    <3> QED
      BY <3>1 DEF o, b, x
  <2> HIDE DEF Step
  <2>9. Step(s) \in X /\ Step(s).at = k /\ Step(s).buffer = o
    BY <2>1, <2>7, <2>8
  <2>10. Good(o, k)
    <3> HIDE DEF Seen
    <3>1. Keeps(o, j, Seen(k), limit)
      BY <2>4, <2>6
    <3> QED
      BY <3>1
  <2> HIDE DEF X, Good
  <2> QED
    BY <2>1, <2>2, <2>9, <2>10
<1>5. \E f : Runs(f)
  <2>1. \A k \in 1 .. n : \A s \in I[k - 1] : move[s] = Step(s) /\ move[s] \in I[k]
    <3> HIDE DEF X, I, Step
    <3> QED
      BY <1>4
  <2> HIDE DEF X, I, Step, start, move, Good, Seen
  <2>2. PICK f : IsRun(f, n, start, move) /\ \A k \in 0 .. n : f[k] \in I[k]
    BY <1>1, <1>3, <2>1, LoopThrough
  <2>3. f = [k \in 0 .. n |-> IF k = 0 THEN start ELSE move[f[k - 1]]]
    BY <2>2 DEF IsRun
  <2>4. \A k \in 0 .. n : k # 0 => move[f[k - 1]] = Step(f[k - 1])
    <3> SUFFICES ASSUME NEW k \in 0 .. n, k # 0 PROVE move[f[k - 1]] = Step(f[k - 1])
      OBVIOUS
    <3>1. k \in 1 .. n /\ k - 1 \in 0 .. n
      OBVIOUS
    <3> QED
      BY <3>1, <2>1, <2>2
  <2>5. f = [k \in 0 .. n |-> IF k = 0 THEN start ELSE Step(f[k - 1])]
    BY ONLY <2>3, <2>4
  <2> QED
    BY <2>5
<1>6. PICK f : Runs(f) /\ Gather(stream, limit) = f[n].buffer.kept
  <2> HIDE DEF X, I, move
  <2>1. \E f : Runs(f) /\ Loop(start, Step, Len(stream)) = f[n]
    <3>1. Len(stream) = n
      OBVIOUS
    <3> QED
      BY ONLY <1>5, <3>1 DEF Loop
  <2>2. Gather(stream, limit) = Loop(start, Step, Len(stream)).buffer.kept
    BY DEF Gather, Loop
  <2> HIDE DEF start, Step
  <2> QED
    BY <2>1, <2>2
<1>7. f[n] \in I[n]
  <2> HIDE DEF X, I, Step, start, move, Good, Seen
  <2>1. f[0] \in I[0] /\ \A k \in 1 .. n : f[k] = Step(f[k - 1])
    BY <1>3, <1>6
  <2>2. \A k \in 0 .. n : f[k] \in I[k]
    <3>1. \A k \in 1 .. n : f[k - 1] \in I[k - 1] => f[k] \in I[k]
      BY <2>1, <1>4
    <3> QED
      BY ONLY n \in Nat, <3>1, <2>1, <1>1, RunThrough
  <2> QED
    BY <2>2
<1>8. f[n].buffer \in Buffers(all) /\ Good(f[n].buffer, n)
  <2> DEFINE s == f[n]
  <2>1. s \in I[n] /\ n \in 0 .. n
    BY <1>7
  <2> HIDE DEF Good, s
  <2>2. s \in X /\ Good(s.buffer, n)
    BY ONLY <2>1
  <2> QED
    BY ONLY <2>2 DEF s
<1>9. PICK m \in Nat : Keeps(f[n].buffer, m, all, limit)
  <2>1. Seen(n) = all
    OBVIOUS
  <2> HIDE DEF Seen
  <2> QED
    BY <1>8, <2>1
<1> QED
  <2> HIDE DEF Runs
  <2> QED
    BY <1>6, <1>8, <1>9

\* Of a stream of different candidates a query keeps the nearest.
NearestOf(all, w, m, limit) ==
    /\ m = IF limit <= Cardinality(all) THEN limit ELSE Cardinality(all)
    /\ w \in [0 .. m - 1 -> all] /\ Once(w, m)
    /\ \A i \in 0 .. m - 1, y \in all : y \in Held(w, m) \/ w[i][1] <= y[1]

LEMMA NearestKeeps ==
  ASSUME NEW all, Comparable(all), IsFiniteSet(all), NEW m \in Nat, NEW b,
         NEW limit \in Nat \ {0}, Keeps(b, m, all, limit)
  PROVE  \E k \in Nat : NearestOf(all, Nearest(b.kept, limit), k, limit)
<1> DEFINE v == b.kept
           t == b.threshold
           r == Nearest(v, limit)
           h == Held(v, m)
<1>1. /\ v \in [0 .. m - 1 -> all] /\ Once(v, m) /\ t \in Int
      /\ \A i \in 0 .. m - 1 : v[i][1] <= t
      /\ \A y \in all : y \in h \/ t <= y[1]
      /\ m >= limit \/ (t = Unbounded /\ all \subseteq h)
  BY DEF Keeps
<1>2. Size(v) = m
  BY <1>1, KeptSize
<1> HIDE DEF v, t
<1>3. h \subseteq all /\ v \in [0 .. m - 1 -> h] /\ \A y \in all : y[1] \in Int
  BY <1>1 DEF Held, Comparable
<1>4. IsFiniteSet(h) /\ Cardinality(h) = m /\ m <= Cardinality(all) /\ Cardinality(all) \in Nat
  <2>1. IsFiniteSet(h) /\ Cardinality(h) = m
    BY <1>1, OnceCounts
  <2> HIDE DEF h
  <2>2. Cardinality(h) <= Cardinality(all) /\ Cardinality(all) \in Nat
    BY <1>3, FS_Subset, FS_CardinalityType
  <2> QED
    BY <2>1, <2>2
<1>0. SUFFICES \E k \in Nat : NearestOf(all, r, k, limit)
  BY DEF v
<1>5. CASE m > limit
  <2> DEFINE p == Prune(v, limit)
  <2>1. r = p
    BY <1>2, <1>5 DEF Nearest
  <2>2. limit \in 1 .. m /\ limit - 1 \in 0 .. limit - 1 /\ Comparable(h)
    BY <1>3, <1>5 DEF Comparable
  <2>3. /\ p \in [0 .. limit - 1 -> h] /\ Once(p, limit)
        /\ \A i \in 0 .. limit - 1 : p[i][1] <= p[limit - 1][1]
        /\ \A y \in h : y \in Held(p, limit) \/ p[limit - 1][1] <= y[1]
    <3>1. h = Held(v, m)
      OBVIOUS
    <3> HIDE DEF h
    <3> QED
      BY <3>1, <2>2, <1>1, <1>3, PruneKeeps
  <2>4. \A x \in h : x[1] <= t
    BY <1>1 DEF Held
  <2> HIDE DEF h, p, r
  <2>5. p \in [0 .. limit - 1 -> all]
    BY <2>3, <1>3
  <2>6. ASSUME NEW i \in 0 .. limit - 1, NEW y \in all PROVE y \in Held(p, limit) \/ p[i][1] <= y[1]
    <3>1. p[i] \in h /\ p[limit - 1] \in h
          /\ p[i][1] \in Int /\ p[limit - 1][1] \in Int /\ y[1] \in Int
      BY <2>2, <2>3, <1>3
    <3>2. CASE y \in h
      BY <3>1, <3>2, <2>3
    <3>3. CASE y \notin h
      <4>1. t <= y[1] /\ p[i][1] <= t
        BY <3>1, <3>3, <2>4, <1>1
      <4> QED
        BY <4>1, <3>1, <1>1
    <3> QED
      BY <3>2, <3>3
  <2>7. limit <= Cardinality(all) /\ limit \in Nat
    BY <1>4, <1>5
  <2>8. NearestOf(all, r, limit, limit)
    BY <2>1, <2>3, <2>5, <2>6, <2>7 DEF NearestOf
  <2> QED
    BY <2>7, <2>8
<1>6. CASE ~(m > limit)
  <2>1. r = v
    BY <1>2, <1>6 DEF Nearest
  <2>2. m = IF limit <= Cardinality(all) THEN limit ELSE Cardinality(all)
    <3>1. CASE m >= limit
      BY <3>1, <1>4, <1>6
    <3>2. CASE ~(m >= limit)
      <4>1. h = all
        BY <3>2, <1>1, <1>3
      <4> HIDE DEF h
      <4>2. Cardinality(all) = m
        BY <4>1, <1>4
      <4> QED
        BY <4>2, <3>2
    <3> QED
      BY <3>1, <3>2
  <2>3. ASSUME NEW i \in 0 .. m - 1, NEW y \in all PROVE y \in Held(v, m) \/ v[i][1] <= y[1]
    <3>1. v[i][1] <= t /\ v[i] \in all /\ v[i][1] \in Int /\ y[1] \in Int
      BY <1>1, <1>3
    <3>2. y \in Held(v, m) \/ t <= y[1]
      BY <1>1
    <3> QED
      BY <3>1, <3>2, <1>1
  <2>4. NearestOf(all, r, m, limit)
    BY <2>1, <2>2, <2>3, <1>1 DEF NearestOf
  <2> QED
    BY <2>4
<1> QED
  BY <1>5, <1>6

----------------------------- (* Subsequences *) ----------------------------

\* The numbers of a set below one, and how many.
Below(places, x) == {y \in places : y < x}

Rank(places) == [x \in places |-> Cardinality(Below(places, x))]

Ranked(places, rank, m) ==
    /\ m \in Nat /\ rank \in [places -> 0 .. m - 1]
    /\ \A x \in places, y \in places : x < y => rank[x] < rank[y]
    /\ \A k \in 1 .. m : \E x \in places : rank[x] = k - 1

LEMMA RanksAre ==
  ASSUME NEW n \in Nat, NEW places, places \subseteq 1 .. n
  PROVE  Ranked(places, Rank(places), Cardinality(places))
<1> DEFINE m == Cardinality(places)
           rank == [x \in places |-> Cardinality(Below(places, x))]
<1>1. IsFiniteSet(places) /\ m \in Nat /\ places \subseteq Int
  <2>1. IsFiniteSet(1 .. n)
    BY FS_Interval
  <2>2. IsFiniteSet(places)
    BY <2>1, FS_Subset
  <2>3. m \in Nat
    BY <2>2, FS_CardinalityType
  <2> QED
    BY <2>2, <2>3
<1>2. ASSUME NEW x \in places
      PROVE  IsFiniteSet(Below(places, x)) /\ Cardinality(Below(places, x)) \in 0 .. m - 1
  <2> DEFINE low == Below(places, x)
  <2>1. low \in SUBSET places /\ low # places
    BY <1>1 DEF Below
  <2> HIDE DEF low
  <2>2. /\ IsFiniteSet(low) /\ Cardinality(low) <= m
        /\ Cardinality(places) = Cardinality(low) => low = places
    BY <1>1, <2>1, FS_Subset
  <2>3. Cardinality(low) \in Nat
    BY <2>2, FS_CardinalityType
  <2>4. IsFiniteSet(low) /\ Cardinality(low) \in 0 .. m - 1
    BY <1>1, <2>1, <2>2, <2>3
  <2> QED
    BY <2>4 DEF low
<1>3. ASSUME NEW x \in places, NEW y \in places, x < y PROVE rank[x] < rank[y]
  <2> DEFINE low == Below(places, x)
             high == Below(places, y)
  <2>1. low \in SUBSET high /\ x \in high /\ x \notin low
    <3>1. \A z \in places : (z < x => z < y) /\ ~(x < x)
      BY <1>1, <1>3
    <3> QED
      BY <1>3, <3>1, Zenon DEF Below
  <2>2. IsFiniteSet(high) /\ Cardinality(low) \in Nat /\ Cardinality(high) \in Nat
    <3>1. Cardinality(low) \in 0 .. m - 1 /\ Cardinality(high) \in 0 .. m - 1 /\ IsFiniteSet(high)
      BY <1>2
    <3> HIDE DEF low, high
    <3> QED
      BY <3>1
  <2>3. rank[x] = Cardinality(low) /\ rank[y] = Cardinality(high)
    OBVIOUS
  <2> HIDE DEF low, high
  <2>4. /\ Cardinality(low) <= Cardinality(high)
        /\ Cardinality(high) = Cardinality(low) => high = low
    BY <2>1, <2>2, FS_Subset
  <2>5. Cardinality(low) < Cardinality(high)
    BY <2>1, <2>2, <2>4
  <2> QED
    BY <2>3, <2>5
<1>4. rank \in [places -> 0 .. m - 1]
  BY <1>2
<1>5. \A x \in places, y \in places : rank[x] = rank[y] => x = y
  <2> SUFFICES ASSUME NEW x \in places, NEW y \in places, rank[x] = rank[y], x # y PROVE FALSE
    OBVIOUS
  <2>1. x < y \/ y < x
    BY <1>1
  <2>2. rank[x] \in 0 .. m - 1 /\ rank[y] \in 0 .. m - 1
    BY <1>4
  <2>3. ~(rank[x] < rank[y]) /\ ~(rank[y] < rank[x])
    BY <1>1, <2>2
  <2> QED
    BY <2>1, <2>3, <1>3
<1>6. \A k \in 1 .. m : \E x \in places : rank[x] = k - 1
  <2> DEFINE ranks == 0 .. m - 1
  <2>1. IsFiniteSet(ranks) /\ Cardinality(ranks) = m
    <3>1. IsFiniteSet(ranks) /\ Cardinality(ranks) = IF 0 > m - 1 THEN 0 ELSE (m - 1) - 0 + 1
      <4>1. 0 \in Int /\ m - 1 \in Int
        BY <1>1
      <4> QED
        BY ONLY <4>1, FS_Interval
    <3> QED
      BY <1>1, <3>1
  <2>2. \A k \in 1 .. m : k - 1 \in ranks
    BY <1>1
  <2> HIDE DEF ranks
  <2>3. rank \in Injection(places, ranks)
    BY <1>4, <1>5 DEF Injection, IsInjective, ranks
  <2>4. rank \in Surjection(places, ranks)
    BY <1>1, <2>1, <2>3, FS_Injection
  <2> QED
    BY <2>2, <2>4 DEF Surjection
<1>7. rank = Rank(places) /\ m = Cardinality(places)
  BY DEF Rank
<1> HIDE DEF rank, m
<1>8. Ranked(places, rank, m)
  BY <1>1, <1>3, <1>4, <1>6 DEF Ranked
<1> QED
  BY <1>7, <1>8

\* The places of a part of a sequence, in order.
Follows(order, m, places) ==
    /\ m \in Nat /\ order \in [1 .. m -> places]
    /\ \A i \in 1 .. m, j \in 1 .. m : i < j => order[i] < order[j]
    /\ \A p \in places : \E i \in 1 .. m : order[i] = p

LEMMA PlacesFollow ==
  ASSUME NEW n \in Nat, NEW places, places \subseteq 1 .. n, NEW m, m = Cardinality(places),
         NEW order, DOMAIN order = 1 .. m, order = [k \in 1 .. m |-> order[k]],
         \A k \in 1 .. m : order[k] \in places /\ Cardinality(Below(places, order[k])) = k - 1
  PROVE  Follows(order, m, places)
<1> DEFINE rank == Rank(places)
<1>1. /\ m \in Nat /\ rank \in [places -> 0 .. m - 1]
      /\ \A x \in places, y \in places : x < y => rank[x] < rank[y]
      /\ \A k \in 1 .. m : \E x \in places : rank[x] = k - 1
  <2> HIDE DEF rank
  <2>1. Ranked(places, rank, m)
    BY RanksAre DEF rank
  <2> QED
    BY <2>1 DEF Ranked
<1>2. \A k \in 1 .. m : order[k] \in places /\ rank[order[k]] = k - 1
  BY DEF Rank
<1>3. \A x \in places : x \in Int
  OBVIOUS
<1> HIDE DEF rank
<1>4. \A x \in places, y \in places : rank[x] = rank[y] => x = y
  <2> SUFFICES ASSUME NEW x \in places, NEW y \in places, rank[x] = rank[y], x # y PROVE FALSE
    OBVIOUS
  <2>1. x < y \/ y < x
    BY <1>3
  <2>2. rank[x] \in 0 .. m - 1 /\ rank[y] \in 0 .. m - 1
    BY <1>1
  <2>3. ~(rank[x] < rank[y]) /\ ~(rank[y] < rank[x])
    BY <1>1, <2>2
  <2> QED
    BY <2>1, <2>3, <1>1
<1>5. order \in [1 .. m -> places]
  BY <1>2
<1>6. ASSUME NEW i \in 1 .. m, NEW j \in 1 .. m, i < j PROVE order[i] < order[j]
  <2>1. order[i] \in places /\ order[j] \in places /\ rank[order[i]] = i - 1 /\ rank[order[j]] = j - 1
    BY <1>2
  <2>2. order[j] < order[i] => j - 1 < i - 1
    BY <1>1, <2>1
  <2>3. order[i] # order[j]
    BY <1>1, <1>6, <2>1
  <2> QED
    BY <1>1, <1>3, <1>6, <2>1, <2>2, <2>3
<1>7. ASSUME NEW p \in places PROVE \E i \in 1 .. m : order[i] = p
  <2>1. rank[p] \in 0 .. m - 1
    BY <1>1
  <2>2. PICK k \in 1 .. m : k - 1 = rank[p]
    <3>1. rank[p] + 1 \in 1 .. m /\ (rank[p] + 1) - 1 = rank[p]
      BY <1>1, <2>1
    <3> QED
      BY <3>1
  <2>3. order[k] \in places /\ rank[order[k]] = rank[p]
    BY <1>2, <2>2
  <2> QED
    BY <1>4, <2>3
<1> QED
  BY <1>1, <1>5, <1>6, <1>7 DEF Follows

\* A subsequence, by the order of its places.
Selected(t, s, order, m, places) ==
    /\ m = Cardinality(places) /\ Follows(order, m, places)
    /\ t = [k \in 1 .. m |-> s[order[k]]]

LEMMA SubsequenceIs ==
  ASSUME NEW n \in Nat, NEW s, NEW places, places \subseteq 1 .. n
  PROVE  \E m, order : Selected(Subsequence(s, places), s, order, m, places)
<1> DEFINE m == Cardinality(places)
           Choice(k) == CHOOSE x \in places : Cardinality(Below(places, x)) = k - 1
           order == [k \in 1 .. m |-> Choice(k)]
<1>1. m \in Nat /\ \A k \in 1 .. m : \E x \in places : Cardinality(Below(places, x)) = k - 1
  <2>1. Ranked(places, Rank(places), m)
    BY RanksAre
  <2> HIDE DEF m
  <2>2. m \in Nat /\ \A k \in 1 .. m : \E x \in places : Rank(places)[x] = k - 1
    BY <2>1 DEF Ranked
  <2> QED
    BY <2>2 DEF Rank
<1>2. Subsequence(s, places) = [k \in DOMAIN order |-> s[order[k]]]
  BY DEF Subsequence, Ordered, Below
<1>3. \A k \in 1 .. m : Choice(k) \in places /\ Cardinality(Below(places, Choice(k))) = k - 1
  <2> SUFFICES ASSUME NEW k \in 1 .. m
               PROVE  Choice(k) \in places /\ Cardinality(Below(places, Choice(k))) = k - 1
    OBVIOUS
  <2>1. PICK x \in places : Cardinality(Below(places, x)) = k - 1
    BY <1>1
  <2> HIDE DEF m
  <2> QED
    BY <2>1
<1> HIDE DEF Choice
<1>4. /\ DOMAIN order = 1 .. m /\ order = [k \in 1 .. m |-> order[k]]
      /\ \A k \in 1 .. m : order[k] \in places /\ Cardinality(Below(places, order[k])) = k - 1
  <2> HIDE DEF m
  <2> QED
    BY <1>3
<1>5. Follows(order, m, places)
  <2>1. PICK o, c : o = order /\ c = m
    OBVIOUS
  <2>2. c = Cardinality(places)
    BY <2>1
  <2> HIDE DEF order, m
  <2>3. Follows(o, c, places)
    BY <1>4, <2>1, <2>2, PlacesFollow
  <2> QED
    BY <2>1, <2>3
<1>6. m = Cardinality(places)
  OBVIOUS
<1> HIDE DEF order, m
<1>7. Selected(Subsequence(s, places), s, order, m, places)
  BY <1>2, <1>4, <1>5, <1>6 DEF Selected
<1> QED
  BY <1>7

------------------------------- (* The memory *) ----------------------------

\* A sequence of the entries of some recognitions, each once, in the order of
\* their times.
Listing(h, m, w, S, E) ==
    /\ m \in Nat /\ w \in [1 .. m -> S]
    /\ \A i \in 1 .. m, j \in 1 .. m : w[i] = w[j] => i = j
    /\ \A x \in S : \E i \in 1 .. m : w[i] = x
    /\ h = [k \in 1 .. m |-> E[w[k]]]
    /\ \A i \in 1 .. m, j \in 1 .. m : i <= j => E[w[i]].at <= E[w[j]].at

Lists(h, S, E) == \E m, w : Listing(h, m, w, S, E)

At(w, places) == {w[p] : p \in places}

LEMMA ListingCounts ==
  ASSUME NEW h, NEW m, NEW w, NEW S, NEW E, Listing(h, m, w, S, E)
  PROVE  m = Cardinality(S) /\ IsFiniteSet(S) /\ m \in Nat /\ DOMAIN h = 1 .. m /\ Len(h) = m
<1>1. m \in Nat /\ h = [k \in 1 .. m |-> E[w[k]]]
  BY DEF Listing
<1>2. w \in Injection(1 .. m, S) /\ w \in Surjection(1 .. m, S)
  BY DEF Listing, Injection, IsInjective, Surjection
<1>3. IsFiniteSet(1 .. m) /\ Cardinality(1 .. m) = m
  <2>1. IsFiniteSet(1 .. m) /\ Cardinality(1 .. m) = IF 1 > m THEN 0 ELSE m - 1 + 1
    BY <1>1, FS_Interval
  <2> QED
    BY <1>1, <2>1
<1>4. IsFiniteSet(S) /\ Cardinality(S) = Cardinality(1 .. m)
  BY <1>2, <1>3, FS_Surjection
<1> QED
  BY <1>1, <1>3, <1>4

LEMMA PartListed ==
  ASSUME NEW h, NEW S, NEW E, NEW m, NEW w, Listing(h, m, w, S, E),
         NEW places, places \subseteq 1 .. m
  PROVE  Lists(Subsequence(h, places), At(w, places), E)
<1> DEFINE t == Subsequence(h, places)
           T == {w[p] : p \in places}
<1>1. m \in Nat
  BY DEF Listing
<1>2. PICK c, order : Selected(t, h, order, c, places)
  BY <1>1, SubsequenceIs
<1>3. /\ c \in Nat /\ order \in [1 .. c -> places] /\ t = [k \in 1 .. c |-> h[order[k]]]
      /\ \A i \in 1 .. c, j \in 1 .. c : i < j => order[i] < order[j]
      /\ \A p \in places : \E i \in 1 .. c : order[i] = p
  <2> HIDE DEF t
  <2> QED
    BY <1>2 DEF Selected, Follows
<1> HIDE DEF t
<1> DEFINE v == [k \in 1 .. c |-> w[order[k]]]
<1>4. \A k \in 1 .. c : order[k] \in places /\ order[k] \in 1 .. m
  BY <1>3
<1>5. v \in [1 .. c -> T]
  BY <1>4
<1>6. \A i \in 1 .. c, j \in 1 .. c : order[i] = order[j] => i = j
  <2> SUFFICES ASSUME NEW i \in 1 .. c, NEW j \in 1 .. c, order[i] = order[j], i # j PROVE FALSE
    OBVIOUS
  <2>1. i < j \/ j < i
    BY <1>3
  <2>2. order[i] \in 1 .. m /\ order[j] \in 1 .. m
    BY <1>4
  <2>3. ~(order[i] < order[j]) /\ ~(order[j] < order[i])
    BY <1>1, <2>2
  <2> QED
    BY <1>3, <2>1, <2>3
<1>7. \A i \in 1 .. c, j \in 1 .. c : v[i] = v[j] => i = j
  <2>1. \A i \in 1 .. c, j \in 1 .. c : w[order[i]] = w[order[j]] => order[i] = order[j]
    BY <1>4 DEF Listing
  <2> QED
    BY <1>6, <2>1
<1>8. \A x \in T : \E i \in 1 .. c : v[i] = x
  <2> SUFFICES ASSUME NEW p \in places PROVE \E i \in 1 .. c : v[i] = w[p]
    OBVIOUS
  <2>1. PICK i \in 1 .. c : order[i] = p
    BY <1>3
  <2> QED
    BY <2>1
<1>9. t = [k \in 1 .. c |-> E[v[k]]]
  <2>1. \A k \in 1 .. c : h[order[k]] = E[v[k]]
    BY <1>4 DEF Listing
  <2> HIDE DEF v
  <2> QED
    BY <1>3, <2>1
<1>10. \A i \in 1 .. c, j \in 1 .. c : i <= j => E[v[i]].at <= E[v[j]].at
  <2> SUFFICES ASSUME NEW i \in 1 .. c, NEW j \in 1 .. c, i <= j
               PROVE  E[w[order[i]]].at <= E[w[order[j]]].at
    OBVIOUS
  <2>1. order[i] \in 1 .. m /\ order[j] \in 1 .. m
    BY <1>4
  <2>2. order[i] <= order[j]
    <3>1. CASE i = j
      BY <1>1, <2>1, <3>1
    <3>2. CASE i < j
      BY <1>1, <1>3, <2>1, <3>2
    <3> QED
      BY <1>3, <3>1, <3>2
  <2> QED
    BY <2>1, <2>2 DEF Listing
<1>11. T = At(w, places)
  BY DEF At
<1> HIDE DEF v, T
<1>12. Listing(t, c, v, T, E)
  BY <1>3, <1>5, <1>7, <1>8, <1>9, <1>10 DEF Listing
<1> QED
  BY <1>11, <1>12 DEF t, Lists

LEMMA JoinListed ==
  ASSUME NEW E, NEW f, NEW g, NEW S, NEW T, Lists(f, S, E), Lists(g, T, E),
         \A x \in S, y \in T : x # y /\ E[x].at <= E[y].at
  PROVE  Lists(f \o g, S \cup T, E)
<1>1. PICK a, u : Listing(f, a, u, S, E)
  BY DEF Lists
<1>2. PICK b, v : Listing(g, b, v, T, E)
  BY DEF Lists
<1>3. a \in Nat /\ b \in Nat
  BY <1>1, <1>2 DEF Listing
<1> DEFINE w == [k \in 1 .. a + b |-> IF k <= a THEN u[k] ELSE v[k - a]]
<1>4. \A k \in 1 .. a + b : (k <= a /\ k \in 1 .. a) \/ (~(k <= a) /\ k - a \in 1 .. b)
  BY <1>3
<1>5. /\ \A i \in 1 .. a : u[i] \in S
      /\ \A i \in 1 .. b : v[i] \in T
  BY <1>1, <1>2 DEF Listing
<1>6. w \in [1 .. a + b -> S \cup T]
  <2>1. \A k \in 1 .. a + b : (IF k <= a THEN u[k] ELSE v[k - a]) \in S \cup T
    BY <1>4, <1>5
  <2> QED
    BY <2>1
<1>7. f \o g = [k \in 1 .. a + b |-> E[w[k]]]
  <2>1. f = [k \in 1 .. a |-> E[u[k]]] /\ g = [k \in 1 .. b |-> E[v[k]]]
    BY <1>1, <1>2 DEF Listing
  <2>2. Len(f) = a /\ Len(g) = b
    BY <1>3, <2>1
  <2>3. f \o g = [k \in 1 .. a + b |-> IF k <= a THEN f[k] ELSE g[k - a]]
    BY <1>3, <2>1, <2>2
  <2>4. \A k \in 1 .. a + b : (IF k <= a THEN f[k] ELSE g[k - a]) = E[w[k]]
    BY <1>4, <2>1
  <2> HIDE DEF w
  <2> QED
    BY <2>3, <2>4
<1>8. \A i \in 1 .. a + b, j \in 1 .. a + b : w[i] = w[j] => i = j
  <2> SUFFICES ASSUME NEW i \in 1 .. a + b, NEW j \in 1 .. a + b, w[i] = w[j] PROVE i = j
    OBVIOUS
  <2>1. CASE i <= a /\ j <= a
    <3>1. i \in 1 .. a /\ j \in 1 .. a /\ u[i] = u[j]
      BY <1>4, <2>1
    <3> QED
      BY <1>1, <3>1 DEF Listing
  <2>2. CASE ~(i <= a) /\ ~(j <= a)
    <3>1. i - a \in 1 .. b /\ j - a \in 1 .. b /\ v[i - a] = v[j - a]
      BY <1>4, <2>2
    <3>2. i - a = j - a
      BY <1>2, <3>1 DEF Listing
    <3> QED
      BY <1>3, <3>2
  <2>3. CASE i <= a /\ ~(j <= a)
    <3>1. i \in 1 .. a /\ j - a \in 1 .. b /\ u[i] = v[j - a]
      BY <1>4, <2>3
    <3> QED
      BY <1>5, <3>1
  <2>4. CASE ~(i <= a) /\ j <= a
    <3>1. j \in 1 .. a /\ i - a \in 1 .. b /\ u[j] = v[i - a]
      BY <1>4, <2>4
    <3> QED
      BY <1>5, <3>1
  <2> QED
    BY <2>1, <2>2, <2>3, <2>4
<1>9. \A x \in S \cup T : \E i \in 1 .. a + b : w[i] = x
  <2>1. ASSUME NEW x \in S PROVE \E i \in 1 .. a + b : w[i] = x
    <3>1. PICK i \in 1 .. a : u[i] = x
      BY <1>1 DEF Listing
    <3>2. i \in 1 .. a + b /\ i <= a
      BY <1>3
    <3> QED
      BY <3>1, <3>2
  <2>2. ASSUME NEW x \in T PROVE \E i \in 1 .. a + b : w[i] = x
    <3>1. PICK i \in 1 .. b : v[i] = x
      BY <1>2 DEF Listing
    <3>2. i + a \in 1 .. a + b /\ ~(i + a <= a) /\ (i + a) - a = i
      BY <1>3
    <3>3. w[i + a] = v[(i + a) - a]
      BY <3>2
    <3> QED
      BY <3>1, <3>2, <3>3
  <2> QED
    BY <2>1, <2>2
<1>10. \A i \in 1 .. a + b, j \in 1 .. a + b : i <= j => E[w[i]].at <= E[w[j]].at
  <2> SUFFICES ASSUME NEW i \in 1 .. a + b, NEW j \in 1 .. a + b, i <= j
               PROVE  E[w[i]].at <= E[w[j]].at
    OBVIOUS
  <2>1. CASE j <= a
    <3>1. i <= a /\ i \in 1 .. a /\ j \in 1 .. a
      BY <1>3, <1>4, <2>1
    <3>2. w[i] = u[i] /\ w[j] = u[j]
      BY <2>1, <3>1
    <3> HIDE DEF w
    <3> QED
      BY <1>1, <3>1, <3>2 DEF Listing
  <2>2. CASE ~(i <= a)
    <3>1. ~(j <= a) /\ i - a \in 1 .. b /\ j - a \in 1 .. b /\ i - a <= j - a
      BY <1>3, <1>4, <2>2
    <3>2. w[i] = v[i - a] /\ w[j] = v[j - a]
      BY <2>2, <3>1
    <3> HIDE DEF w
    <3> QED
      BY <1>2, <3>1, <3>2 DEF Listing
  <2>3. CASE i <= a /\ ~(j <= a)
    <3>1. i \in 1 .. a /\ j - a \in 1 .. b
      BY <1>4, <2>3
    <3>2. w[i] = u[i] /\ w[j] = v[j - a]
      BY <2>3
    <3> HIDE DEF w
    <3> QED
      BY <1>5, <3>1, <3>2
  <2> QED
    BY <2>1, <2>2, <2>3
<1>11. a + b \in Nat
  BY <1>3
<1> HIDE DEF w
<1>12. Listing(f \o g, a + b, w, S \cup T, E)
  BY <1>6, <1>7, <1>8, <1>9, <1>10, <1>11 DEF Listing
<1> QED
  BY <1>12 DEF Lists

LEMMA OneListed ==
  ASSUME NEW E, NEW x, E[x].at \in Int, NEW h, h = <<E[x]>>
  PROVE  Lists(h, {x}, E)
<1> DEFINE w == [k \in 1 .. 1 |-> x]
<1>1. \A i \in 1 .. 1 : i = 1
  OBVIOUS
<1>2. h = [k \in 1 .. 1 |-> E[w[k]]]
  BY <1>1
<1>3. 1 \in Nat /\ w \in [1 .. 1 -> {x}] /\ 1 \in 1 .. 1
  OBVIOUS
<1>4. \A i \in 1 .. 1, j \in 1 .. 1 : E[w[i]].at <= E[w[j]].at
  OBVIOUS
<1>5. \A y \in {x} : \E i \in 1 .. 1 : w[i] = y
  OBVIOUS
<1> HIDE DEF w
<1>6. Listing(h, 1, w, {x}, E)
  BY <1>1, <1>2, <1>3, <1>4, <1>5 DEF Listing
<1> QED
  BY <1>6 DEF Lists

LEMMA RetainedListed ==
  ASSUME NEW h, NEW S, NEW E, Lists(h, S, E), NEW now,
         NEW T, T = {x \in S : now - E[x].at \in 0 .. HistoryExpiration}
  PROVE  Lists(Retained(h, now), T, E)
<1>1. PICK m, w : Listing(h, m, w, S, E)
  BY DEF Lists
<1> DEFINE places == {i \in DOMAIN h : now - h[i].at \in 0 .. HistoryExpiration}
<1>2. /\ w \in [1 .. m -> S] /\ h = [k \in 1 .. m |-> E[w[k]]]
      /\ \A x \in S : \E i \in 1 .. m : w[i] = x
  BY <1>1 DEF Listing
<1>3. DOMAIN h = 1 .. m /\ \A i \in 1 .. m : h[i] = E[w[i]] /\ w[i] \in S
  BY <1>2
<1>4. places \subseteq 1 .. m
  BY <1>3
<1>5. T = At(w, places)
  <2>1. ASSUME NEW x \in T PROVE \E p \in places : w[p] = x
    <3>1. PICK i \in 1 .. m : w[i] = x
      BY <1>2
    <3>2. now - h[i].at \in 0 .. HistoryExpiration
      BY <1>3, <3>1
    <3> QED
      BY <1>3, <3>1, <3>2
  <2>2. ASSUME NEW p \in places PROVE w[p] \in T
    <3>1. p \in 1 .. m /\ now - h[p].at \in 0 .. HistoryExpiration
      BY <1>3
    <3> QED
      BY <1>3, <3>1
  <2> HIDE DEF places
  <2> QED
    BY <2>1, <2>2 DEF At
<1>6. Retained(h, now) = Subsequence(h, places)
  BY DEF Retained
<1> HIDE DEF places
<1>7. Lists(Subsequence(h, places), At(w, places), E)
  BY <1>1, <1>4, PartListed
<1> QED
  BY <1>5, <1>6, <1>7

LEMMA InsertedListed ==
  ASSUME NEW h, NEW S, NEW E, Lists(h, S, E), NEW k, k \notin S,
         \A x \in S \cup {k} : E[x].at \in Int,
         NEW upTo, upTo = {i \in DOMAIN h : h[i].at <= E[k].at}
  PROVE  Lists(Subsequence(h, upTo) \o <<E[k]>> \o Subsequence(h, DOMAIN h \ upTo), S \cup {k}, E)
<1>1. PICK m, w : Listing(h, m, w, S, E)
  BY DEF Lists
<1>2. /\ w \in [1 .. m -> S] /\ h = [i \in 1 .. m |-> E[w[i]]]
      /\ \A x \in S : \E i \in 1 .. m : w[i] = x
  BY <1>1 DEF Listing
<1>3. DOMAIN h = 1 .. m /\ \A i \in 1 .. m : h[i] = E[w[i]] /\ w[i] \in S
  BY <1>2
<1> DEFINE after == DOMAIN h \ upTo
           low == At(w, upTo)
           high == At(w, after)
<1>4. upTo \subseteq 1 .. m /\ after \subseteq 1 .. m /\ upTo \cup after = 1 .. m
  BY <1>3
<1>5. \A x \in low : x \in S /\ E[x].at <= E[k].at
  <2>1. \A p \in upTo : w[p] \in S /\ E[w[p]].at <= E[k].at
    BY <1>3
  <2> QED
    BY <2>1 DEF At
<1>6. \A x \in high : x \in S /\ E[k].at < E[x].at
  <2>1. ASSUME NEW p \in after PROVE w[p] \in S /\ E[k].at < E[w[p]].at
    <3>1. p \in 1 .. m /\ ~(h[p].at <= E[k].at)
      BY <1>3
    <3>2. w[p] \in S /\ h[p] = E[w[p]]
      BY <1>3, <3>1
    <3>3. E[w[p]].at \in Int /\ E[k].at \in Int /\ ~(E[w[p]].at <= E[k].at)
      BY <3>1, <3>2
    <3> QED
      BY <3>2, <3>3
  <2> QED
    BY <2>1 DEF At
<1>7. low \cup high = S
  <2>1. ASSUME NEW x \in S PROVE x \in low \cup high
    <3>1. PICK i \in 1 .. m : w[i] = x
      BY <1>2
    <3>2. i \in upTo \/ i \in after
      BY <1>4
    <3> HIDE DEF after
    <3> QED
      BY <3>1, <3>2 DEF At
  <2> HIDE DEF low, high
  <2> QED
    BY <2>1, <1>5, <1>6
<1> DEFINE f == Subsequence(h, upTo)
           g == Subsequence(h, after)
<1>8. Lists(f, low, E) /\ Lists(g, high, E)
  <2> HIDE DEF after
  <2> QED
    BY <1>1, <1>4, PartListed
<1>9. Lists(<<E[k]>>, {k}, E)
  <2>1. PICK one : one = <<E[k]>>
    OBVIOUS
  <2>2. E[k].at \in Int
    OBVIOUS
  <2>3. Lists(one, {k}, E)
    BY <2>1, <2>2, OneListed
  <2> QED
    BY <2>1, <2>3
<1> HIDE DEF low, high, f, g
<1>10. Lists(f \o <<E[k]>>, low \cup {k}, E)
  <2>1. \A x \in low, y \in {k} : x # y /\ E[x].at <= E[y].at
    BY <1>5
  <2> QED
    BY <1>8, <1>9, <2>1, JoinListed
<1>11. Lists((f \o <<E[k]>>) \o g, (low \cup {k}) \cup high, E)
  <2>1. \A x \in low \cup {k}, y \in high : x # y /\ E[x].at <= E[y].at
    <3> SUFFICES ASSUME NEW x \in low \cup {k}, NEW y \in high PROVE x # y /\ E[x].at <= E[y].at
      OBVIOUS
    <3>1. E[y].at \in Int /\ E[k].at \in Int /\ E[k].at < E[y].at /\ y \in S
      BY <1>6
    <3>2. CASE x \in low
      <4>1. E[x].at \in Int /\ E[x].at <= E[k].at
        BY <1>5, <3>2
      <4> QED
        BY <3>1, <4>1
    <3>3. CASE x = k
      BY <3>1, <3>3
    <3> QED
      BY <3>2, <3>3
  <2> QED
    BY <1>8, <1>10, <2>1, JoinListed
<1>12. (low \cup {k}) \cup high = S \cup {k}
  BY <1>7
<1> QED
  BY <1>11, <1>12 DEF f, g

\* The recognitions that are recalled after the first k, and the matches.
RecalledAt(events, k) ==
    {i \in 1 .. k : \A j \in i .. k : events[j].now - events[i].entry.at \in 0 .. HistoryExpiration}

MatchesAt(events, k) == {i \in 1 .. k : events[i].entry.matched}

GoodMemory(stored, events, E, k) ==
    /\ stored = [history |-> stored.history, previous |-> stored.previous]
    /\ Lists(stored.history, RecalledAt(events, k), E)
    /\ MatchesAt(events, k) = {} => stored.previous = {}
    /\ \A i \in MatchesAt(events, k) :
          (\A j \in MatchesAt(events, k) : j <= i) => stored.previous = {E[i]}

EventsOf(events, n, E) ==
    /\ n \in Nat /\ Len(events) = n /\ DOMAIN events = 1 .. n
    /\ E = [i \in 1 .. n |-> events[i].entry]
    /\ \A i \in 1 .. n :
          /\ events[i].now \in Int
          /\ E[i].at \in Nat /\ E[i].matched \in BOOLEAN
          /\ IsFiniteSet(E[i].offsets) /\ E[i].offsets \subseteq Int
          /\ IsFiniteSet(E[i].duration) /\ E[i].duration \subseteq Int
          /\ E[i].matched => E[i].offsets # {}

LEMMA RecordIsGood ==
  ASSUME NEW events, NEW n, NEW E, EventsOf(events, n, E), NEW k \in 1 .. n,
         NEW stored, GoodMemory(stored, events, E, k - 1)
  PROVE  GoodMemory(Record(stored, events[k].entry, events[k].now), events, E, k)
<1> DEFINE h == stored.history
           e == events[k].entry
           now == events[k].now
           S == RecalledAt(events, k - 1)
           after == Record(stored, e, now)
<1>1. n \in Nat /\ k - 1 \in Nat /\ E[k] = e /\ \A i \in 1 .. n : E[i] = events[i].entry /\ E[i].at \in Int
  BY DEF EventsOf
<1>2. k \notin S /\ S \subseteq 1 .. n /\ \A x \in S : x \in 1 .. k - 1
  BY <1>1 DEF RecalledAt
<1>3. Lists(h, S, E)
  BY DEF GoodMemory
<1> DEFINE upTo == {i \in DOMAIN h : h[i].at <= E[k].at}
           made == Subsequence(h, upTo) \o <<E[k]>> \o Subsequence(h, DOMAIN h \ upTo)
<1>4. Lists(made, S \cup {k}, E)
  <2>1. \A x \in S \cup {k} : E[x].at \in Int
    BY <1>1, <1>2
  <2>2. PICK u : u = upTo
    OBVIOUS
  <2>3. u = {i \in DOMAIN h : h[i].at <= E[k].at}
    BY <2>2
  <2> HIDE DEF upTo, h, S
  <2>4. Lists(Subsequence(h, u) \o <<E[k]>> \o Subsequence(h, DOMAIN h \ u), S \cup {k}, E)
    BY <1>2, <1>3, <2>1, <2>3, InsertedListed
  <2> QED
    BY <2>2, <2>4
<1>5. after.history = Retained(made, now)
  BY <1>1 DEF Record
<1>6. RecalledAt(events, k) = {x \in S \cup {k} : now - E[x].at \in 0 .. HistoryExpiration}
  <2>1. ASSUME NEW x \in RecalledAt(events, k)
        PROVE  x \in S \cup {k} /\ now - E[x].at \in 0 .. HistoryExpiration
    <3>1. x \in 1 .. k /\ k \in x .. k /\ \A j \in x .. k - 1 : j \in x .. k
      BY <1>1, <2>1 DEF RecalledAt
    <3>2. \A j \in x .. k : events[j].now - events[x].entry.at \in 0 .. HistoryExpiration
      BY <2>1 DEF RecalledAt
    <3>3. E[x] = events[x].entry
      BY <1>1, <3>1
    <3>4. x = k \/ x \in 1 .. k - 1
      BY <1>1, <3>1
    <3> HIDE DEF HistoryExpiration
    <3> QED
      BY <3>1, <3>2, <3>3, <3>4 DEF RecalledAt
  <2>2. ASSUME NEW x \in S \cup {k}, now - E[x].at \in 0 .. HistoryExpiration
        PROVE  x \in RecalledAt(events, k)
    <3>1. x \in 1 .. k /\ (x = k \/ x \in 1 .. k - 1)
      BY <1>1, <1>2
    <3>2. E[x] = events[x].entry
      BY <1>1, <3>1
    <3>3. \A j \in x .. k : j = k \/ (j \in x .. k - 1 /\ x # k)
      BY <1>1, <3>1
    <3>4. x # k => \A j \in x .. k - 1 : events[j].now - events[x].entry.at \in 0 .. HistoryExpiration
      BY <2>2 DEF RecalledAt
    <3> HIDE DEF HistoryExpiration
    <3> QED
      BY <2>2, <3>1, <3>2, <3>3, <3>4 DEF RecalledAt
  <2> HIDE DEF S, now
  <2> QED
    BY <2>1, <2>2
<1>7. Lists(after.history, RecalledAt(events, k), E)
  <2>1. PICK T : T = RecalledAt(events, k)
    OBVIOUS
  <2>2. T = {x \in S \cup {k} : now - E[x].at \in 0 .. HistoryExpiration}
    BY <1>6, <2>1
  <2> HIDE DEF made, after, S, now
  <2>3. PICK all : all = S \cup {k}
    OBVIOUS
  <2>4. Lists(made, all, E) /\ T = {x \in all : now - E[x].at \in 0 .. HistoryExpiration}
    BY <1>4, <2>2, <2>3
  <2>5. Lists(Retained(made, now), T, E)
    BY <2>4, RetainedListed
  <2> QED
    BY <1>5, <2>1, <2>5
<1>8. /\ after.previous = IF e.matched THEN {e} ELSE stored.previous
      /\ after = [history |-> after.history, previous |-> after.previous]
  BY DEF Record
<1>9. MatchesAt(events, k) = MatchesAt(events, k - 1) \cup (IF e.matched THEN {k} ELSE {})
  <2>1. 1 .. k = (1 .. k - 1) \cup {k} /\ k \notin 1 .. k - 1
    BY <1>1
  <2> QED
    BY <2>1 DEF MatchesAt
<1>10. \A j \in MatchesAt(events, k - 1) : j \in Int /\ j < k
  BY <1>1 DEF MatchesAt
<1> HIDE DEF after
<1>11. MatchesAt(events, k) = {} => after.previous = {}
  BY <1>8, <1>9 DEF GoodMemory
<1>12. ASSUME NEW i \in MatchesAt(events, k), \A j \in MatchesAt(events, k) : j <= i
       PROVE  after.previous = {E[i]}
  <2>1. CASE e.matched
    <3>1. k \in MatchesAt(events, k)
      BY <1>9, <2>1
    <3>2. i = k
      <4>1. k <= i /\ k \in Int
        BY <1>12, <3>1
      <4>2. i \in Int /\ i <= k
        BY <1>9, <1>10, <4>1, <2>1
      <4> QED
        BY <4>1, <4>2
    <3> QED
      BY <1>1, <1>8, <2>1, <3>2
  <2>2. CASE ~e.matched
    <3>1. MatchesAt(events, k) = MatchesAt(events, k - 1)
      BY <1>9, <2>2
    <3> QED
      BY <1>8, <1>12, <2>2, <3>1 DEF GoodMemory
  <2> QED
    BY <2>1, <2>2
<1>13. GoodMemory(after, events, E, k)
  BY <1>7, <1>8, <1>11, <1>12 DEF GoodMemory
<1> QED
  BY <1>13 DEF after

LEMMA ListedSequence ==
  ASSUME NEW h, NEW S, NEW E, Lists(h, S, E), NEW all, \A x \in S : E[x] \in all
  PROVE  h \in Seq(all)
<1>1. PICK m, w : Listing(h, m, w, S, E)
  BY DEF Lists
<1>2. m \in Nat /\ h \in [1 .. m -> all]
  BY <1>1 DEF Listing
<1> QED
  BY <1>2

LEMMA StoredIsGood ==
  ASSUME NEW events, NEW n, NEW E, EventsOf(events, n, E)
  PROVE  GoodMemory(Stored(events), events, E, n)
<1> DEFINE Entries == {E[i] : i \in 1 .. n}
           Memories == [history : Seq(Entries), previous : SUBSET Entries]
           X == [stored : Memories, at : 0 .. n]
           I == [k \in 0 .. n |-> {s \in X : s.at = k /\ GoodMemory(s.stored, events, E, k)}]
           start == [stored |-> NothingStored, at |-> 0]
           Step(s) == [stored |-> Record(s.stored, events[s.at + 1].entry, events[s.at + 1].now),
                       at |-> s.at + 1]
           move == [s \in X |-> Step(s)]
           Runs(f) == f = [k \in 0 .. n |-> IF k = 0 THEN start ELSE Step(f[k - 1])]
<1>1. n \in Nat /\ Len(events) = n /\ \A i \in 1 .. n : E[i] = events[i].entry
  BY DEF EventsOf
<1>2. I \in [0 .. n -> SUBSET X]
  OBVIOUS
<1>3. start \in I[0]
  <2>1. RecalledAt(events, 0) = {} /\ MatchesAt(events, 0) = {}
    BY DEF RecalledAt, MatchesAt
  <2>2. Lists(<<>>, {}, E)
    <3> DEFINE w == [k \in 1 .. 0 |-> k]
    <3>1. Listing(<<>>, 0, w, {}, E)
      BY DEF Listing
    <3> QED
      BY <3>1 DEF Lists
  <2>3. /\ NothingStored.history = <<>> /\ NothingStored.previous = {} /\ NothingStored \in Memories
        /\ NothingStored = [history |-> NothingStored.history, previous |-> NothingStored.previous]
    BY DEF NothingStored
  <2>4. GoodMemory(NothingStored, events, E, 0)
    BY <2>1, <2>2, <2>3 DEF GoodMemory
  <2>5. 0 \in 0 .. n
    BY <1>1
  <2> HIDE DEF Memories
  <2>6. start \in X /\ start.at = 0 /\ start.stored = NothingStored
    BY <2>3, <2>5
  <2> QED
    BY <2>4, <2>5, <2>6
<1>4. ASSUME NEW k \in 1 .. n, NEW s \in I[k - 1] PROVE s \in X /\ Step(s) \in I[k]
  <2>1. k - 1 \in 0 .. n /\ k \in 0 .. n /\ (k - 1) + 1 = k
    BY <1>1
  <2>2. s \in X /\ s.at = k - 1 /\ GoodMemory(s.stored, events, E, k - 1)
    BY <2>1
  <2> DEFINE r == Record(s.stored, events[k].entry, events[k].now)
  <2>3. GoodMemory(r, events, E, k)
    BY <2>2, RecordIsGood
  <2>4. r \in Memories
    <3>1. r.history \in Seq(Entries)
      <4>1. Lists(r.history, RecalledAt(events, k), E)
        BY <2>3 DEF GoodMemory
      <4>2. \A x \in RecalledAt(events, k) : E[x] \in Entries
        <5>1. \A x \in RecalledAt(events, k) : x \in 1 .. n
          BY <1>1 DEF RecalledAt
        <5> QED
          BY <5>1
      <4> HIDE DEF r, Entries
      <4> QED
        BY <4>1, <4>2, ListedSequence
    <3>2. r = [history |-> r.history,
               previous |-> IF events[k].entry.matched THEN {events[k].entry} ELSE s.stored.previous]
      BY DEF Record
    <3>3. events[k].entry \in Entries /\ s.stored.previous \in SUBSET Entries
      BY <1>1, <2>2
    <3> HIDE DEF r, Entries
    <3>4. (IF events[k].entry.matched THEN {events[k].entry} ELSE s.stored.previous)
             \in SUBSET Entries
      BY <3>3
    <3> QED
      BY <3>1, <3>2, <3>4
  <2>5. Step(s) = [stored |-> r, at |-> k]
    BY <2>1, <2>2
  <2> HIDE DEF Step, r, Memories
  <2>6. Step(s) \in X /\ Step(s).at = k /\ Step(s).stored = r
    BY <2>1, <2>4, <2>5
  <2> HIDE DEF X
  <2> QED
    BY <2>1, <2>2, <2>3, <2>6
<1>5. \E f : Runs(f)
  <2>1. \A k \in 1 .. n : \A s \in I[k - 1] : move[s] = Step(s) /\ move[s] \in I[k]
    <3> HIDE DEF X, I, Step
    <3> QED
      BY <1>4
  <2> HIDE DEF X, I, Step, start, move
  <2>2. PICK f : IsRun(f, n, start, move) /\ \A k \in 0 .. n : f[k] \in I[k]
    BY <1>1, <1>2, <1>3, <2>1, LoopThrough
  <2>3. f = [k \in 0 .. n |-> IF k = 0 THEN start ELSE move[f[k - 1]]]
    BY <2>2 DEF IsRun
  <2>4. \A k \in 0 .. n : k # 0 => move[f[k - 1]] = Step(f[k - 1])
    <3> SUFFICES ASSUME NEW k \in 0 .. n, k # 0 PROVE move[f[k - 1]] = Step(f[k - 1])
      OBVIOUS
    <3>1. k \in 1 .. n /\ k - 1 \in 0 .. n
      BY <1>1
    <3> QED
      BY <3>1, <2>1, <2>2
  <2>5. f = [k \in 0 .. n |-> IF k = 0 THEN start ELSE Step(f[k - 1])]
    BY ONLY <2>3, <2>4
  <2> QED
    BY <2>5
<1>6. PICK f : Runs(f) /\ Stored(events) = f[n].stored
  <2> HIDE DEF X, I, move
  <2>1. \E f : Runs(f) /\ Loop(start, Step, Len(events)) = f[n]
    <3>1. Len(events) = n
      BY <1>1
    <3> QED
      BY ONLY <1>5, <3>1 DEF Loop
  <2>2. Stored(events) = Loop(start, Step, Len(events)).stored
    BY DEF Stored, Loop
  <2> HIDE DEF start, Step
  <2> QED
    BY <2>1, <2>2
<1>7. f[n] \in I[n]
  <2> HIDE DEF X, I, Step, start, move
  <2>1. f[0] \in I[0] /\ \A k \in 1 .. n : f[k] = Step(f[k - 1])
    BY <1>1, <1>3, <1>6
  <2>2. \A k \in 0 .. n : f[k] \in I[k]
    <3>1. \A k \in 1 .. n : f[k - 1] \in I[k - 1] => f[k] \in I[k]
      BY <2>1, <1>4
    <3>2. n \in Nat
      BY <1>1
    <3> QED
      BY ONLY <3>1, <3>2, <2>1, <1>2, RunThrough
  <2> QED
    BY <1>1, <2>2
<1>8. GoodMemory(f[n].stored, events, E, n)
  <2> HIDE DEF X
  <2>1. n \in 0 .. n
    BY <1>1
  <2> QED
    BY ONLY <1>7, <2>1
<1> HIDE DEF Runs
<1> QED
  BY <1>6, <1>8

LEMMA TwentyMinutes == HistoryExpiration = Minutes(20) /\ Minutes(20) \in Nat
BY DEF HistoryExpiration, Minutes, Seconds

\* Exactly the recent recognitions are remembered, in the order of their times.
LEMMA StoredRemembers ==
  ASSUME NEW events, NEW n, NEW E, EventsOf(events, n, E)
  PROVE  Remembers(events, Stored(events).history)
<1> DEFINE h == Stored(events).history
           S == RecalledAt(events, n)
<1>1. Lists(h, S, E)
  BY StoredIsGood DEF GoodMemory
<1>2. S = Recalled(events) /\ S \subseteq 1 .. n /\ n \in Nat
  <2>1. n \in Nat /\ Len(events) = n /\ DOMAIN events = 1 .. n
    BY DEF EventsOf
  <2>2. S = Recalled(events)
    BY <2>1, TwentyMinutes DEF RecalledAt, Recalled
  <2>3. S \subseteq 1 .. n
    BY DEF RecalledAt
  <2> QED
    BY <2>1, <2>2, <2>3
<1>3. \A x \in S : E[x] = events[x].entry
  BY <1>2 DEF EventsOf
<1> HIDE DEF h, S
<1>4. PICK m, w : Listing(h, m, w, S, E)
  BY <1>1 DEF Lists
<1>5. /\ m \in Nat /\ w \in [1 .. m -> S] /\ h = [k \in 1 .. m |-> E[w[k]]]
      /\ \A x \in S : \E i \in 1 .. m : w[i] = x
  BY <1>4 DEF Listing
<1>6. Len(h) = m /\ DOMAIN h = 1 .. m /\ \A i \in 1 .. m : h[i] = E[w[i]] /\ w[i] \in S
  BY <1>5
<1>7. m = Cardinality(S)
  BY <1>4, ListingCounts
<1>8. {h[i] : i \in DOMAIN h} = {events[i].entry : i \in S}
  <2>1. ASSUME NEW i \in DOMAIN h PROVE \E x \in S : h[i] = events[x].entry
    BY <1>3, <1>6
  <2>2. ASSUME NEW x \in S PROVE \E i \in DOMAIN h : h[i] = events[x].entry
    BY <1>3, <1>5, <1>6
  <2> QED
    BY <2>1, <2>2
<1>9. \A i \in 2 .. Len(h) : h[i - 1].at <= h[i].at
  <2> SUFFICES ASSUME NEW i \in 2 .. m PROVE h[i - 1].at <= h[i].at
    BY <1>6
  <2>1. i - 1 \in 1 .. m /\ i \in 1 .. m /\ i - 1 <= i
    BY <1>5
  <2> QED
    BY <1>4, <1>6, <2>1 DEF Listing
<1>10. Remembers(events, h)
  BY <1>2, <1>6, <1>7, <1>8, <1>9 DEF Remembers
<1> QED
  BY <1>10 DEF h

\* The previous match is the last, and is forgotten when it is outdated.
LEMMA StoredProjects ==
  ASSUME NEW events, NEW n, NEW E, EventsOf(events, n, E), NEW now \in Int
  PROVE  Projects(events, Stored(events), now)
<1> DEFINE stored == Stored(events)
           matches == {i \in DOMAIN events : events[i].entry.matched}
           last == events[Max(matches)].entry
           projected == ProjectedPreviousMatch(stored, now)
           after == AfterProjection(stored, now)
<1>1. /\ n \in Nat /\ matches = MatchesAt(events, n) /\ matches \subseteq 0 .. n
      /\ \A i \in 1 .. n : E[i] = events[i].entry
  BY DEF EventsOf, MatchesAt
<1>2. /\ matches = {} => stored.previous = {}
      /\ matches # {} => stored.previous = {last} /\ last.at \in Nat /\ last.offsets \subseteq Int
  <2> HIDE DEF matches, stored
  <2>1. GoodMemory(stored, events, E, n)
    BY StoredIsGood DEF stored
  <2>2. CASE matches = {}
    BY <1>1, <2>1, <2>2 DEF GoodMemory
  <2>3. CASE matches # {}
    <3> DEFINE i == Max(matches)
    <3>1. i \in matches /\ \A j \in matches : j <= i
      BY <1>1, <2>3, MaxOf
    <3> HIDE DEF i
    <3>2. stored.previous = {E[i]}
      BY <1>1, <2>1, <3>1 DEF GoodMemory
    <3>3. i \in 1 .. n /\ E[i] = events[i].entry /\ E[i].at \in Nat /\ E[i].offsets \subseteq Int
      BY <1>1, <3>1 DEF EventsOf, matches
    <3> QED
      BY <2>3, <3>2, <3>3 DEF i
  <2> QED
    BY <2>2, <2>3
<1>3. after.history = stored.history /\ after.previous = {m \in stored.previous : ~ Outdated(m, now)}
  BY DEF AfterProjection
<1>4. CASE matches # {} /\ now - last.at \in 0 .. Minutes(20)
  <2>1. ~ Outdated(last, now)
    <3> HIDE DEF last
    <3> QED
      BY <1>2, <1>4, TwentyMinutes DEF Outdated
  <2>2. {m \in stored.previous : ~ Outdated(m, now)} = {last}
    BY <1>2, <1>4, <2>1
  <2>3. projected = {[entry |-> last, offsets |-> {o + (now - last.at) : o \in last.offsets}]}
    <3> HIDE DEF last
    <3>1. projected = {[entry |-> m, offsets |-> {o + (now - m.at) : o \in m.offsets}] :
                          m \in {last}}
      BY <2>2 DEF ProjectedPreviousMatch
    <3> QED
      BY <3>1
  <2>4. {o + (now - last.at) : o \in last.offsets} = {o + now - last.at : o \in last.offsets}
    <3> HIDE DEF last
    <3>1. \A o \in last.offsets : o + (now - last.at) = o + now - last.at
      BY <1>2, <1>4
    <3> QED
      BY <3>1
  <2>5. /\ \A p \in projected : /\ p.entry = last
                                /\ p.offsets = {o + now - last.at : o \in last.offsets}
        /\ projected # {}
    <3> HIDE DEF last, projected
    <3> QED
      BY <2>3, <2>4
  <2>6. after = stored
    <3>1. after = [stored EXCEPT !.previous = {m \in stored.previous : ~ Outdated(m, now)}]
      BY DEF AfterProjection
    <3>2. stored = [history |-> stored.history, previous |-> stored.previous]
      BY StoredIsGood DEF GoodMemory
    <3> HIDE DEF last, stored, after
    <3>3. stored.previous = {last}
      BY <1>2, <1>4
    <3>4. after = [history |-> stored.history, previous |-> {last}]
      BY <2>2, <3>1, <3>2
    <3> QED
      BY <3>2, <3>3, <3>4
  <2> HIDE DEF last, projected, after, stored, matches
  <2>7. /\ \A p \in projected : /\ p.entry = last
                                /\ p.offsets = {o + now - last.at : o \in last.offsets}
        /\ projected # {} /\ after = stored
    BY <2>5, <2>6
  <2> QED
    BY <1>4, <2>7 DEF Projects, last, projected, after, stored, matches
<1>5. CASE ~(matches # {} /\ now - last.at \in 0 .. Minutes(20))
  <2>1. {m \in stored.previous : ~ Outdated(m, now)} = {}
    <3> HIDE DEF last, matches
    <3>1. ASSUME matches # {} PROVE Outdated(last, now)
      BY <1>2, <1>5, <3>1, TwentyMinutes DEF Outdated
    <3> QED
      BY <1>2, <3>1
  <2>2. projected = {}
    BY <2>1 DEF ProjectedPreviousMatch
  <2>3. projected = {} /\ after.previous = {} /\ after.history = stored.history
    BY <1>3, <2>1, <2>2
  <2> HIDE DEF last, projected, after, stored, matches
  <2> QED
    BY <1>5, <2>3, Zenon DEF Projects, last, projected, after, stored, matches
<1> QED
  BY <1>4, <1>5

------------------------------ (* The squelch *) ----------------------------

LEMMA SmallerOfTwo ==
  ASSUME NEW a \in Int, NEW b \in Int
  PROVE  Min({a, b}) = IF a <= b THEN a ELSE b
<1> DEFINE x == IF a <= b THEN a ELSE b
<1>1. x \in {a, b} /\ \A y \in {a, b} : x <= y
  OBVIOUS
<1>2. \A z \in {a, b} : (\A y \in {a, b} : z <= y) => z = x
  OBVIOUS
<1>3. Min({a, b}) = CHOOSE z \in {a, b} : \A y \in {a, b} : z <= y
  BY DEF Min
<1> HIDE DEF x
<1>4. Min({a, b}) = x
  BY <1>1, <1>2, <1>3
<1> QED
  BY <1>4 DEF x

LEMMA LargerOfTwo ==
  ASSUME NEW a \in Int, NEW b \in Int
  PROVE  Max({a, b}) = IF a <= b THEN b ELSE a
<1> DEFINE x == IF a <= b THEN b ELSE a
<1>1. x \in {a, b} /\ \A y \in {a, b} : x >= y
  OBVIOUS
<1>2. \A z \in {a, b} : (\A y \in {a, b} : z >= y) => z = x
  OBVIOUS
<1>3. Max({a, b}) = CHOOSE z \in {a, b} : \A y \in {a, b} : z >= y
  BY DEF Max
<1> HIDE DEF x
<1>4. Max({a, b}) = x
  BY <1>1, <1>2, <1>3
<1> QED
  BY <1>4 DEF x

LEMMA CoerceIs ==
  ASSUME NEW x \in Int, NEW least \in Int, NEW most \in Int, least <= most
  PROVE  CoerceIn(x, least, most) = IF x < least THEN least ELSE IF x > most THEN most ELSE x
<1> DEFINE low == IF x <= most THEN x ELSE most
<1>1. Min({x, most}) = low /\ low \in Int
  BY SmallerOfTwo
<1>2. Max({least, low}) = IF least <= low THEN low ELSE least
  BY <1>1, LargerOfTwo
<1>3. CoerceIn(x, least, most) = IF least <= low THEN low ELSE least
  BY <1>1, <1>2 DEF CoerceIn
<1> QED
  BY <1>3

LEMMA LargestIn ==
  ASSUME NEW S, IsFiniteSet(S), S # {}, S \subseteq Int
  PROVE  Max(S) \in S /\ \A y \in S : y <= Max(S)
<1> DEFINE v == [x \in S |-> 0 - x]
<1>1. \A x \in S : x \in Int /\ v[x] = 0 - x
  OBVIOUS
<1>2. v \in [S -> Int]
  OBVIOUS
<1> HIDE DEF v
<1>3. PICK x \in S : \A y \in S : v[x] <= v[y]
  BY <1>2, LeastValue
<1>4. \A y \in S : x >= y
  BY <1>1, <1>3
<1>5. Max(S) \in S /\ \A y \in S : Max(S) >= y
  BY <1>4 DEF Max
<1> QED
  BY <1>1, <1>5

LEMMA RoundedNear ==
  ASSUME NEW o \in Int
  PROVE  Rounded(o) \in Int /\ o - 1000 <= Rounded(o) /\ Rounded(o) <= o + 1000
<1> DEFINE q == (o + 1000) \div 2000
<1>1. q \in Int /\ q * 2000 <= o + 1000 /\ o + 1000 < q * 2000 + 2000
  BY QuotientBounds
<1>2. Rounded(o) = q * 2000
  BY DEF Rounded
<1> HIDE DEF q
<1> QED
  BY <1>1, <1>2

EntryIs(e) ==
    /\ e.at \in Int /\ e.matched \in BOOLEAN
    /\ IsFiniteSet(e.offsets) /\ e.offsets \subseteq Int
    /\ IsFiniteSet(e.duration) /\ e.duration \subseteq Int
    /\ e.matched => e.offsets # {}

LEMMA SecondsAre ==
  /\ Seconds(1) = 1000 /\ Seconds(5) = 5000 /\ Seconds(8) = 8000 /\ Seconds(16) = 16000
  /\ Seconds(20) = 20000 /\ Seconds(48) = 48000 /\ Seconds(55) = 55000 /\ Seconds(90) = 90000
  /\ Minutes(12) = 720000
BY DEF Seconds, Minutes

LEMMA MatchSquelches ==
  ASSUME NEW e, EntryIs(e), NEW now \in Int, NEW squelch, squelch = MatchedSquelch(e, now)
  PROVE  /\ squelch \in Int /\ 20000 <= squelch /\ squelch <= 55000
         /\ e.duration # {} /\ e.offsets # {} /\ e.at <= now =>
              /\ TimeLeft(e, now) \in Int
              /\ 16000 <= TimeLeft(e, now) /\ TimeLeft(e, now) <= 48000 =>
                    /\ squelch - (TimeLeft(e, now) + 5000) <= 1000
                    /\ 0 - 1000 <= squelch - (TimeLeft(e, now) + 5000)
<1>1. CASE e.duration = {} \/ e.offsets = {}
  BY <1>1 DEF MatchedSquelch, Fallback
<1>2. CASE e.duration # {} /\ e.offsets # {}
  <2> DEFINE d == Max(e.duration)
             o == Max(e.offsets)
             age == IF now - e.at <= 0 THEN 0 ELSE now - e.at
             remaining == d - RecognitionInput - Rounded(o) - Max({now - e.at, 0})
  <2>1. d \in Int /\ o \in Int /\ e.at \in Int
    <3>1. Max(e.duration) \in e.duration /\ Max(e.offsets) \in e.offsets
      BY <1>2, LargestIn DEF EntryIs
    <3> QED
      BY <3>1 DEF EntryIs
  <2>2. squelch = IF remaining >= HeuristicThreshold THEN Fallback
                  ELSE CoerceIn(remaining + HeuristicPadding, CandidateMin, CandidateMax)
    BY <1>2 DEF MatchedSquelch
  <2>3. Max({now - e.at, 0}) = age
    <3>1. now - e.at \in Int
      BY <2>1
    <3> QED
      BY <3>1, LargerOfTwo
  <2>4. Rounded(o) \in Int /\ o - 1000 <= Rounded(o) /\ Rounded(o) <= o + 1000
    BY <2>1, RoundedNear
  <2>5. age \in Int /\ (e.at <= now => age = now - e.at)
    BY <2>1
  <2>6. TimeLeft(e, now) = d - 8000 - o - (now - e.at)
    BY SecondsAre DEF TimeLeft
  <2> HIDE DEF d, o, age
  <2>7. remaining \in Int /\ remaining = d - 8000 - Rounded(o) - age
    BY <2>1, <2>3, <2>4, <2>5 DEF RecognitionInput
  <2> HIDE DEF remaining
  <2>8. squelch = IF remaining >= 50000 THEN 55000 ELSE
                  IF remaining + 5000 < 20000 THEN 20000 ELSE
                  IF remaining + 5000 > 90000 THEN 90000 ELSE remaining + 5000
    <3>1. remaining + 5000 \in Int
      BY <2>7
    <3>2. CoerceIn(remaining + 5000, 20000, 90000) =
             IF remaining + 5000 < 20000 THEN 20000 ELSE
             IF remaining + 5000 > 90000 THEN 90000 ELSE remaining + 5000
      BY <3>1, CoerceIs
    <3> QED
      BY <2>2, <3>2 DEF HeuristicThreshold, Fallback, HeuristicPadding, CandidateMin, CandidateMax
  <2>9. squelch \in Int /\ 20000 <= squelch /\ squelch <= 55000
    BY <2>7, <2>8
  <2>10. ASSUME e.at <= now
         PROVE  /\ TimeLeft(e, now) \in Int
                /\ 16000 <= TimeLeft(e, now) /\ TimeLeft(e, now) <= 48000 =>
                      /\ squelch - (TimeLeft(e, now) + 5000) <= 1000
                      /\ 0 - 1000 <= squelch - (TimeLeft(e, now) + 5000)
    <3> DEFINE left == TimeLeft(e, now)
    <3>1. left \in Int /\ left = d - 8000 - o - age
      BY <2>1, <2>5, <2>6, <2>10
    <3>2. remaining - left <= 1000 /\ left - remaining <= 1000
      <4> HIDE DEF left
      <4> QED
        BY <2>1, <2>4, <2>5, <2>7, <3>1
    <3> HIDE DEF left
    <3>3. 16000 <= left /\ left <= 48000 =>
             squelch - (left + 5000) <= 1000 /\ 0 - 1000 <= squelch - (left + 5000)
      BY <2>7, <2>8, <3>1, <3>2
    <3> QED
      BY <3>1, <3>3 DEF left
  <2> QED
    BY <2>9, <2>10
<1> QED
  BY <1>1, <1>2

Different(order, places) == \A i \in places, j \in places : order[i] = order[j] => i = j

LEMMA PlacesCount ==
  ASSUME NEW order, NEW places, IsFiniteSet(places), Different(order, places)
  PROVE  Cardinality(At(order, places)) = Cardinality(places)
<1> DEFINE w == [p \in places |-> order[p]]
           T == At(order, places)
<1>1. w \in Injection(places, T) /\ w \in Surjection(places, T)
  <2>1. \A p \in places : order[p] \in T
    BY DEF At
  <2>2. \A x \in T : \E p \in places : order[p] = x
    BY DEF At
  <2>3. \A i \in places, j \in places : order[i] = order[j] => i = j
    BY DEF Different
  <2> HIDE DEF T
  <2> QED
    BY <2>1, <2>2, <2>3 DEF Injection, IsInjective, Surjection
<1> HIDE DEF w, T
<1>3. Cardinality(T) = Cardinality(places)
  BY <1>1, FS_Surjection
<1> QED
  BY <1>3 DEF T

LEMMA NewestIs ==
  ASSUME NEW r, NEW m \in Nat, m > 0, DOMAIN r = 1 .. m, \A i \in 1 .. m : r[i].at \in Int
  PROVE  \E p \in 1 .. m : /\ Newest(r) = r[p]
                           /\ \A j \in 1 .. m : r[j].at <= r[p].at
                           /\ \A j \in 1 .. m : j < p => r[j].at < r[p].at
<1> DEFINE T == {i \in DOMAIN r : \A j \in DOMAIN r : r[j].at <= r[i].at}
           v == [i \in 1 .. m |-> 0 - r[i].at]
           p == Min(T)
<1>1. PICK x \in 1 .. m : \A y \in 1 .. m : v[x] <= v[y]
  <2>1. v \in [1 .. m -> Int]
    OBVIOUS
  <2>2. IsFiniteSet(1 .. m) /\ 1 .. m # {}
    <3>1. IsFiniteSet(1 .. m)
      BY FS_Interval
    <3>2. 1 \in 1 .. m
      OBVIOUS
    <3> QED
      BY <3>1, <3>2
  <2> HIDE DEF v
  <2> QED
    BY <2>1, <2>2, LeastValue
<1>2. x \in T
  <2>1. ASSUME NEW j \in 1 .. m PROVE r[j].at <= r[x].at
    <3>1. 0 - r[x].at <= 0 - r[j].at
      BY <1>1
    <3> QED
      BY <3>1
  <2> QED
    BY <2>1
<1>3. p \in T /\ \A y \in T : p <= y
  <2>1. T \subseteq Nat
    OBVIOUS
  <2> HIDE DEF T
  <2> QED
    BY <1>2, <2>1, MinOf
<1>4. Newest(r) = r[p]
  BY DEF Newest
<1> HIDE DEF p
<1>5. p \in 1 .. m /\ \A j \in 1 .. m : r[j].at <= r[p].at
  BY <1>3
<1>6. ASSUME NEW j \in 1 .. m, j < p PROVE r[j].at < r[p].at
  <2>1. j \notin T
    <3> HIDE DEF T
    <3> QED
      BY <1>3, <1>5, <1>6
  <2>2. PICK i \in 1 .. m : ~(r[i].at <= r[j].at)
    BY <2>1
  <2>3. r[i].at \in Int /\ r[j].at \in Int /\ r[p].at \in Int /\ r[i].at <= r[p].at
    BY <1>5
  <2> QED
    BY <2>2, <2>3
<1> QED
  BY <1>4, <1>5, <1>6

\* The places that are recent.
RecentOf(r) == {i \in DOMAIN r : Newest(r).at - r[i].at \in 0 .. AdaptationWindow}

LEMMA CandidateIs ==
  ASSUME NEW r, NEW m \in Nat, DOMAIN r = 1 .. m, NEW now, NEW places, places = RecentOf(r)
  PROVE  Candidate(r, now) = IF \A p \in places : ~ r[p].matched
                             THEN IF Cardinality(places) >= 10 THEN 90000 ELSE 55000
                             ELSE IF ~ Newest(r).matched THEN 55000
                             ELSE MatchedSquelch(Newest(r), now)
<1> DEFINE q == Recent(r)
<1>1. q = Subsequence(r, places)
  BY DEF Recent, RecentOf
<1>2. PICK c, order : Selected(q, r, order, c, places)
  <2>1. places \subseteq 1 .. m
    BY DEF RecentOf
  <2> HIDE DEF q
  <2> QED
    BY ONLY m \in Nat, <1>1, <2>1, SubsequenceIs
<1>3. /\ c = Cardinality(places) /\ c \in Nat /\ q = [k \in 1 .. c |-> r[order[k]]]
      /\ \A k \in 1 .. c : order[k] \in places
      /\ \A p \in places : \E k \in 1 .. c : order[k] = p
  <2> HIDE DEF q
  <2> QED
    BY ONLY <1>2 DEF Selected, Follows
<1>4. Len(q) = c /\ DOMAIN q = 1 .. c /\ \A k \in 1 .. c : q[k] = r[order[k]]
  <2> HIDE DEF q
  <2> QED
    BY ONLY <1>3
<1>5. (\A i \in DOMAIN q : ~ q[i].matched) <=> (\A p \in places : ~ r[p].matched)
  <2> HIDE DEF q
  <2> QED
    BY ONLY <1>3, <1>4
<1>6. Candidate(r, now) = IF \A i \in DOMAIN q : ~ q[i].matched
                          THEN IF Len(q) >= 10 THEN 90000 ELSE 55000
                          ELSE IF ~ Newest(r).matched THEN 55000
                          ELSE MatchedSquelch(Newest(r), now)
  BY DEF Candidate, RepeatedMissCount, RepeatedMiss, Fallback
<1> HIDE DEF q
<1> QED
  BY ONLY <1>3, <1>4, <1>5, <1>6

LEMMA LatestIs ==
  ASSUME NEW h, NEW now, NEW g \in Heard(h, now),
         \A j \in Heard(h, now) : j \in Int /\ h[j].at \in Int,
         \A j \in Heard(h, now) : h[j].at <= h[g].at /\ (h[j].at = h[g].at => g <= j)
  PROVE  Latest(h, now) = g
<1> DEFINE S == Heard(h, now)
           First(i) == \A j \in S : h[j].at <= h[i].at /\ (h[j].at = h[i].at => i <= j)
<1>1. First(g)
  OBVIOUS
<1>2. ASSUME NEW i \in S, First(i) PROVE i = g
  <2>1. h[g].at <= h[i].at /\ h[i].at <= h[g].at
    BY <1>2
  <2>2. h[i].at \in Int /\ h[g].at \in Int /\ i \in Int /\ g \in Int
    OBVIOUS
  <2>3. h[i].at = h[g].at
    BY <2>1, <2>2
  <2>4. i <= g /\ g <= i
    BY <1>2, <2>3
  <2> QED
    BY <2>2, <2>4
<1>3. Latest(h, now) = CHOOSE i \in S : First(i)
  BY DEF Latest
<1> HIDE DEF First, S
<1>4. g \in S
  BY DEF S
<1> QED
  BY <1>1, <1>2, <1>3, <1>4

\* What is retained, in the order of its places.
LEMMA HeardIs ==
  ASSUME NEW n \in Nat, NEW h, DOMAIN h = 1 .. n, \A i \in 1 .. n : EntryIs(h[i]), NEW now \in Int
  PROVE  /\ Heard(h, now) \subseteq 1 .. n
         /\ \A i \in Heard(h, now) : EntryIs(h[i]) /\ h[i].at \in Int /\ h[i].at <= now
         /\ \E m, order : Selected(Retained(h, now), h, order, m, Heard(h, now))
<1>1. Heard(h, now) \subseteq 1 .. n
  BY DEF Heard
<1>2. ASSUME NEW i \in Heard(h, now) PROVE EntryIs(h[i]) /\ h[i].at \in Int /\ h[i].at <= now
  <2>1. EntryIs(h[i]) /\ h[i].at \in Int
    BY <1>1 DEF EntryIs
  <2>2. now - h[i].at \in 0 .. Minutes(20)
    BY DEF Heard
  <2>3. h[i].at <= now
    BY <2>1, <2>2, TwentyMinutes
  <2> QED
    BY <2>1, <2>3
<1>3. Retained(h, now) = Subsequence(h, Heard(h, now))
  BY TwentyMinutes DEF Retained, Heard
<1>4. \E m, order : Selected(Retained(h, now), h, order, m, Heard(h, now))
  BY ONLY n \in Nat, <1>1, <1>3, SubsequenceIs
<1> QED
  BY <1>1, <1>2, <1>4

\* The candidate is not coerced again.
LEMMA SquelchIs ==
  ASSUME NEW h, NEW now, NEW candidate \in Int, candidate = Candidate(Retained(h, now), now),
         20000 <= candidate, candidate <= 90000
  PROVE  Decide(h, now).squelch = candidate
<1>1. CoerceIn(candidate, 15000, 180000) =
         IF candidate < 15000 THEN 15000 ELSE IF candidate > 180000 THEN 180000 ELSE candidate
  BY CoerceIs
<1>2. Decide(h, now).squelch = CoerceIn(candidate, 15000, 180000)
  BY DEF Decide, LeastSquelch, MostSquelch
<1> QED
  BY <1>1, <1>2

LEMMA TwelveMinutes == AdaptationWindow = Minutes(12) /\ Minutes(12) \in Nat
BY DEF AdaptationWindow, Minutes, Seconds

NearLatest(h, now) ==
    {i \in Heard(h, now) : h[Latest(h, now)].at - h[i].at <= Minutes(12)}

\* The latest of what is retained, and what is near it.
LEMMA LatestNear ==
  ASSUME NEW h, NEW now, NEW S, S = Heard(h, now), S \subseteq Int,
         \A i \in S : h[i].at \in Int, NEW r, NEW m, NEW order, Selected(r, h, order, m, S), m > 0,
         NEW places, places = RecentOf(r), NEW near, near = NearLatest(h, now)
  PROVE  /\ Latest(h, now) \in S /\ Newest(r) = h[Latest(h, now)]
         /\ Cardinality(near) = Cardinality(places)
         /\ (\A i \in near : ~ h[i].matched) <=> (\A k \in places : ~ r[k].matched)
         /\ \E k \in places : r[k] = Newest(r)
<1>1. /\ m \in Nat /\ order \in [1 .. m -> S] /\ r = [k \in 1 .. m |-> h[order[k]]]
      /\ \A i \in 1 .. m, j \in 1 .. m : i < j => order[i] < order[j]
      /\ \A p \in S : \E i \in 1 .. m : order[i] = p
  BY DEF Selected, Follows
<1>2. /\ places = {i \in DOMAIN r : Newest(r).at - r[i].at \in 0 .. AdaptationWindow}
      /\ near = {i \in S : h[Latest(h, now)].at - h[i].at <= Minutes(12)}
  BY DEF RecentOf, NearLatest
<1>3. /\ DOMAIN r = 1 .. m
      /\ \A i \in 1 .. m : r[i] = h[order[i]] /\ r[i].at \in Int /\ order[i] \in S /\ order[i] \in Int
  BY <1>1
<1>4. PICK p \in 1 .. m : /\ Newest(r) = r[p]
                          /\ \A j \in 1 .. m : r[j].at <= r[p].at
                          /\ \A j \in 1 .. m : j < p => r[j].at < r[p].at
  BY ONLY <1>1, <1>3, m > 0, NewestIs
<1> DEFINE g == order[p]
<1>5. g \in S /\ h[g] = r[p] /\ g \in Int /\ r[p].at \in Int
  BY <1>3
<1> HIDE DEF g
<1>6. ASSUME NEW j \in S PROVE h[j].at <= h[g].at /\ (h[j].at = h[g].at => g <= j)
  <2>1. PICK i \in 1 .. m : order[i] = j
    BY <1>1
  <2>2. h[j] = r[i] /\ r[i].at <= r[p].at
    BY <1>3, <1>4, <2>1
  <2>3. ASSUME h[j].at = h[g].at PROVE g <= j
    <3>1. ~(i < p)
      BY <1>3, <1>4, <1>5, <2>2, <2>3
    <3>2. p < i \/ p = i
      BY <1>1, <3>1
    <3>3. g < j \/ g = j
      BY <1>1, <2>1, <3>2 DEF g
    <3> QED
      BY <1>3, <1>5, <2>1, <3>3
  <2> QED
    BY <1>5, <2>2, <2>3
<1>7. Latest(h, now) = g
  <2>1. \A j \in S : j \in Int /\ h[j].at \in Int
    OBVIOUS
  <2> QED
    BY ONLY S = Heard(h, now), <1>5, <1>6, <2>1, LatestIs
<1>8. Newest(r) = h[g] /\ Newest(r).at = r[p].at
  BY <1>4, <1>5
<1>9. places \subseteq 1 .. m /\ p \in places
  <2>1. places \subseteq 1 .. m
    BY <1>3, <1>2
  <2>2. AdaptationWindow \in Nat
    BY ONLY TwelveMinutes
  <2>3. Newest(r).at - r[p].at = 0 /\ 0 \in 0 .. AdaptationWindow
    BY ONLY <1>5, <1>8, <2>2
  <2> QED
    BY <1>3, <1>2, <2>1, <2>3
<1>10. ASSUME NEW k \in 1 .. m PROVE k \in places <=> order[k] \in near
  <2>1. r[k].at \in Int /\ r[k].at <= r[p].at /\ r[p].at \in Int
    BY <1>3, <1>4
  <2>2. k \in places <=> r[p].at - r[k].at \in 0 .. AdaptationWindow
    BY <1>3, <1>8, <1>2
  <2>3. order[k] \in near <=> r[p].at - r[k].at <= Minutes(12)
    BY <1>3, <1>5, <1>7, <1>2
  <2>4. r[p].at - r[k].at \in 0 .. AdaptationWindow <=> r[p].at - r[k].at <= Minutes(12)
    BY ONLY <2>1, TwelveMinutes
  <2> QED
    BY <2>2, <2>3, <2>4
<1>11. near = At(order, places)
  <2>1. near \subseteq S
    BY <1>2
  <2>2. ASSUME NEW i \in near PROVE \E k \in places : order[k] = i
    <3>1. PICK k \in 1 .. m : order[k] = i
      BY <1>1, <2>1
    <3> QED
      BY <1>10, <3>1
  <2>3. \A k \in places : order[k] \in near
    BY <1>9, <1>10
  <2> QED
    BY ONLY <2>2, <2>3 DEF At
<1>12. Cardinality(near) = Cardinality(places)
  <2>1. Different(order, places)
    <3> SUFFICES ASSUME NEW i \in 1 .. m, NEW j \in 1 .. m, order[i] = order[j] PROVE i = j
      BY <1>9 DEF Different
    <3>1. ~(order[i] < order[j]) /\ ~(order[j] < order[i])
      BY <1>3
    <3>2. ~(i < j) /\ ~(j < i)
      BY <1>1, <3>1
    <3> QED
      BY <1>1, <3>2
  <2>2. Cardinality(At(order, places)) = Cardinality(places)
    <3>1. IsFiniteSet(places)
      <4>1. IsFiniteSet(1 .. m)
        BY <1>1, FS_Interval
      <4> QED
        BY <1>9, <4>1, FS_Subset
    <3> QED
      BY ONLY <2>1, <3>1, PlacesCount
  <2> QED
    BY <1>11, <2>2
<1>13. (\A i \in near : ~ h[i].matched) <=> (\A k \in places : ~ r[k].matched)
  <2>1. \A k \in places : h[order[k]] = r[k]
    BY <1>3, <1>9
  <2> QED
    BY ONLY <1>11, <2>1 DEF At
<1> QED
  BY <1>4, <1>5, <1>7, <1>8, <1>9, <1>12, <1>13

SleepsFor(squelch, e, left, long) ==
    /\ squelch \in Int /\ 20000 <= squelch /\ squelch <= 90000
    /\ squelch > 55000 <=> long
    /\ e.matched /\ e.duration # {} =>
          /\ left \in Int
          /\ 16000 <= left /\ left <= 48000 =>
                squelch - (left + 5000) <= 1000 /\ 0 - 1000 <= squelch - (left + 5000)

\* How long the DSP sleeps, whatever is remembered.
LEMMA SleepsWell ==
  ASSUME NEW n \in Nat, NEW h, DOMAIN h = 1 .. n, \A i \in 1 .. n : EntryIs(h[i]), NEW now \in Int
  PROVE  SleepsRight(h, now, Decide(h, now).squelch)
<1>1. PICK r, squelch, S, places, near :
         /\ r = Retained(h, now) /\ squelch = Decide(h, now).squelch /\ S = Heard(h, now)
         /\ places = RecentOf(r) /\ near = NearLatest(h, now)
  OBVIOUS
<1>2. /\ S \subseteq 1 .. n /\ S \subseteq Int
      /\ \A i \in S : EntryIs(h[i]) /\ h[i].at \in Int /\ h[i].at <= now
  <2>1. S \subseteq 1 .. n /\ \A i \in S : EntryIs(h[i]) /\ h[i].at \in Int /\ h[i].at <= now
    BY <1>1, HeardIs
  <2> QED
    BY <2>1
<1>3. PICK m, order : Selected(r, h, order, m, S)
  BY <1>1, HeardIs
<1>4. m \in Nat /\ DOMAIN r = 1 .. m /\ order \in [1 .. m -> S]
      /\ \A p \in S : \E i \in 1 .. m : order[i] = p
  BY <1>3 DEF Selected, Follows
<1> DEFINE candidate == Candidate(r, now)
<1>5. candidate = IF \A p \in places : ~ r[p].matched
                  THEN IF Cardinality(places) >= 10 THEN 90000 ELSE 55000
                  ELSE IF ~ Newest(r).matched THEN 55000 ELSE MatchedSquelch(Newest(r), now)
  BY ONLY <1>1, <1>4, CandidateIs
<1>6. ASSUME candidate \in Int, 20000 <= candidate, candidate <= 90000 PROVE squelch = candidate
  BY ONLY <1>1, <1>6, SquelchIs
<1> HIDE DEF candidate
<1>7. CASE S = {}
  <2>1. m = 0 /\ places = {} /\ near = {}
    <3>1. \A i \in 1 .. m : FALSE
      BY <1>4, <1>7
    <3>2. m = 0
      <4>1. m > 0 => 1 \in 1 .. m
        BY <1>4
      <4> QED
        BY <1>4, <3>1, <4>1
    <3>3. places = {} /\ near = {}
      BY <1>1, <1>4, <1>7, <3>1 DEF RecentOf, NearLatest
    <3> QED
      BY <3>2, <3>3
  <2>2. Cardinality(places) = 0 /\ Cardinality(near) = 0
    BY <2>1, FS_EmptySet
  <2>3. candidate = 55000
    BY <1>5, <2>1, <2>2
  <2>4. squelch = 55000
    BY <1>6, <2>3
  <2>5. squelch \in Seconds(20) .. Seconds(90) /\ ~(squelch > Seconds(55)) /\ ~(Cardinality(near) >= 10)
    BY <2>2, <2>4, SecondsAre
  <2> QED
    BY <1>1, <1>7, <2>5 DEF SleepsRight, NearLatest
<1>8. CASE S # {}
  <2>1. m > 0
    <3>1. \E i \in 1 .. m : TRUE
      BY <1>4, <1>8
    <3> QED
      BY <1>4, <3>1
  <2>2. /\ Latest(h, now) \in S /\ Newest(r) = h[Latest(h, now)]
        /\ Cardinality(near) = Cardinality(places)
        /\ (\A i \in near : ~ h[i].matched) <=> (\A k \in places : ~ r[k].matched)
        /\ \E k \in places : r[k] = Newest(r)
    <3>1. \A i \in S : h[i].at \in Int
      BY <1>2
    <3> QED
      BY ONLY <1>1, <1>2, <1>3, <2>1, <3>1, LatestNear
  <2>3. PICK e, left, long : /\ e = h[Latest(h, now)] /\ left = TimeLeft(e, now)
                             /\ long <=> /\ Cardinality(near) >= 10
                                         /\ \A i \in near : ~ h[i].matched
    <3>1. \E long : long <=> Cardinality(near) >= 10 /\ \A i \in near : ~ h[i].matched
      OBVIOUS
    <3> QED
      BY <3>1
  <2>4. /\ EntryIs(e) /\ e.at <= now /\ e.matched \in BOOLEAN /\ e = Newest(r)
        /\ e.matched => e.offsets # {} /\ (\E k \in places : r[k].matched)
    BY <1>2, <2>2, <2>3 DEF EntryIs
  <2>5. SleepsFor(squelch, e, left, long)
    <3>1. CASE \A k \in places : ~ r[k].matched
      <4>1. ~ e.matched
        BY <2>4, <3>1
      <4>2. candidate = IF Cardinality(places) >= 10 THEN 90000 ELSE 55000
        BY <1>5, <3>1
      <4>3. squelch = candidate
        BY <1>6, <4>2
      <4>4. long <=> Cardinality(places) >= 10
        BY <2>2, <2>3, <3>1
      <4> QED
        BY ONLY <4>1, <4>2, <4>3, <4>4 DEF SleepsFor
    <3>2. CASE ~(\A k \in places : ~ r[k].matched) /\ ~ e.matched
      <4>1. candidate = 55000
        BY <1>5, <2>4, <3>2
      <4>2. squelch = 55000
        BY <1>6, <4>1
      <4>3. ~ long
        BY <2>2, <2>3, <3>2
      <4> QED
        BY ONLY <3>2, <4>2, <4>3 DEF SleepsFor
    <3>3. CASE ~(\A k \in places : ~ r[k].matched) /\ e.matched
      <4>1. candidate = MatchedSquelch(e, now)
        BY <1>5, <2>4, <3>3
      <4>2. /\ candidate \in Int /\ 20000 <= candidate /\ candidate <= 55000
            /\ e.duration # {} /\ e.offsets # {} /\ e.at <= now =>
                 /\ left \in Int
                 /\ 16000 <= left /\ left <= 48000 =>
                       /\ candidate - (left + 5000) <= 1000
                       /\ 0 - 1000 <= candidate - (left + 5000)
        BY ONLY now \in Int, <2>3, <2>4, <4>1, MatchSquelches
      <4>3. squelch = candidate
        BY <1>6, <4>2
      <4>4. ~ long
        BY <2>2, <2>3, <3>3
      <4> QED
        BY ONLY <2>4, <3>3, <4>2, <4>3, <4>4 DEF SleepsFor
    <3> QED
      BY <3>1, <3>2, <3>3
  <2>6. /\ squelch \in Seconds(20) .. Seconds(90)
        /\ squelch > Seconds(55) <=> long
        /\ e.matched /\ e.duration # {} /\ left \in Seconds(16) .. Seconds(48) =>
              squelch - (left + Seconds(5)) \in -Seconds(1) .. Seconds(1)
    BY ONLY <2>5, SecondsAre DEF SleepsFor
  <2> QED
    BY ONLY <1>1, <2>3, <2>6 DEF SleepsRight, NearLatest
<1> QED
  BY <1>7, <1>8

LEMMA StoredSleeps ==
  ASSUME NEW events, NEW n, NEW E, EventsOf(events, n, E), NEW now \in Int
  PROVE  LET stored == Stored(events)
         IN  SleepsRight(stored.history, now, CurrentSquelch(stored, now).squelch)
<1> DEFINE h == Stored(events).history
<1>1. PICK m, w : Listing(h, m, w, RecalledAt(events, n), E)
  BY StoredIsGood DEF GoodMemory, Lists
<1>2. m \in Nat /\ DOMAIN h = 1 .. m /\ \A i \in 1 .. m : h[i] = E[w[i]] /\ w[i] \in 1 .. n
  <2>1. RecalledAt(events, n) \subseteq 1 .. n
    BY DEF RecalledAt
  <2> HIDE DEF h
  <2> QED
    BY <1>1, <2>1 DEF Listing
<1>3. \A x \in 1 .. n : EntryIs(E[x])
  BY DEF EventsOf, EntryIs
<1> HIDE DEF h
<1>4. \A i \in 1 .. m : EntryIs(h[i])
  BY <1>2, <1>3
<1>5. SleepsRight(h, now, Decide(h, now).squelch)
  BY ONLY now \in Int, <1>2, <1>4, SleepsWell
<1> QED
  BY <1>5 DEF h, CurrentSquelch

---------------------------- (* Every case *) -------------------------------

LEMMA SelectedRight ==
  ASSUME NEW array, IsFiniteSet(DOMAIN array), DOMAIN array = 0 .. Size(array) - 1,
         array \in [DOMAIN array -> Elements(array)],
         \A i \in DOMAIN array : array[i][1] \in Int, NEW nth \in DOMAIN array
  PROVE  Placed(array, NthElement(array, nth), nth)
<1> DEFINE n == Size(array)
           all == Elements(array)
           w == NthElement(array, nth)
<1>1. n \in Nat
  BY FS_CardinalityType DEF Size
<1>2. Comparable(all) /\ array \in Arrangements(all, n) /\ nth \in 0 .. n - 1
  BY DEF Comparable, Elements, Arrangements
<1> HIDE DEF n, all
<1>3. w \in Arrangements(all, n) /\ PlacedIn(w, 0, n, nth)
  BY <1>1, <1>2, NthElementPlaces
<1> HIDE DEF w
<1>4. DOMAIN w = 0 .. n - 1 /\ DOMAIN array = 0 .. n - 1 /\ Elements(w) = all
  <2>1. /\ DOMAIN w = 0 .. n - 1 /\ \A i \in 0 .. n - 1 : w[i] \in all
        /\ \A x \in all : \E i \in 0 .. n - 1 : w[i] = x
    BY <1>3 DEF Arrangements
  <2>2. DOMAIN array = 0 .. n - 1
    BY <1>2 DEF Arrangements
  <2>3. {w[i] : i \in 0 .. n - 1} = all
    BY <2>1
  <2> QED
    BY <2>1, <2>2, <2>3 DEF Elements
<1>5. \A i \in DOMAIN w : IF i < nth THEN w[i][1] <= w[nth][1] ELSE w[nth][1] <= w[i][1]
  BY <1>3, <1>4 DEF PlacedIn
<1> QED
  BY <1>4, <1>5 DEF Placed, all, w

LEMMA GatheredRight ==
  ASSUME NEW stream, stream \in Seq(Elements(stream)), NEW limit \in Nat \ {0},
         \A i \in DOMAIN stream : stream[i][1] \in Int /\ stream[i][1] < Unbounded,
         \A i \in DOMAIN stream, j \in DOMAIN stream : stream[i] = stream[j] => i = j
  PROVE  NearestKept(Elements(stream), Elements(Nearest(Gather(stream, limit), limit)), limit)
<1> DEFINE n == Len(stream)
           all == Elements(stream)
           r == Nearest(Gather(stream, limit), limit)
<1>1. n \in Nat /\ DOMAIN stream = 1 .. n /\ stream \in [1 .. n -> all]
  OBVIOUS
<1>2. /\ Comparable(all) /\ all = {stream[i] : i \in 1 .. n}
      /\ \A x \in all : x[1] < Unbounded
      /\ \A i \in 1 .. n, j \in 1 .. n : stream[i] = stream[j] => i = j
  BY <1>1 DEF Comparable, Elements
<1>3. IsFiniteSet(all)
  <2>1. IsFiniteSet(1 .. n)
    BY <1>1, FS_Interval
  <2>2. stream \in Surjection(1 .. n, all)
    BY <1>1, <1>2 DEF Surjection
  <2> HIDE DEF n, all
  <2> QED
    BY <2>1, <2>2, FS_Surjection
<1>4. PICK m \in Nat, b \in Buffers(all) :
         Gather(stream, limit) = b.kept /\ Keeps(b, m, all, limit)
  <2>1. Len(stream) = n
    OBVIOUS
  <2> HIDE DEF n, all
  <2>2. \E m \in Nat, b \in Buffers(all) :
           Gather(stream, limit) = b.kept /\ Keeps(b, m, all, limit)
    BY ONLY limit \in Nat \ {0}, <1>1, <1>2, <2>1, GatherKeeps, Zenon
  <2> QED
    BY <2>2
<1> HIDE DEF n, all
<1>5. Keeps(b, m, all, limit) /\ Gather(stream, limit) = b.kept
  BY <1>4
<1>6. PICK k \in Nat : NearestOf(all, r, k, limit)
  <2>1. \E k \in Nat : NearestOf(all, Nearest(b.kept, limit), k, limit)
    BY <1>2, <1>3, <1>5, NearestKeeps
  <2> QED
    BY <2>1, <1>5
<1> HIDE DEF r
<1>7. /\ k = IF limit <= Cardinality(all) THEN limit ELSE Cardinality(all)
      /\ r \in [0 .. k - 1 -> all] /\ Once(r, k)
      /\ \A i \in 0 .. k - 1, y \in all : y \in Held(r, k) \/ r[i][1] <= y[1]
  BY <1>6 DEF NearestOf
<1>8. Elements(r) = Held(r, k)
  BY <1>7 DEF Elements, Held
<1>9. Cardinality(Elements(r)) = k
  BY <1>7, <1>8, OnceCounts
<1>10. Elements(r) \subseteq all /\ \A x \in Elements(r), y \in all \ Elements(r) : x[1] <= y[1]
  BY <1>7, <1>8 DEF Held
<1> QED
  BY <1>7, <1>9, <1>10 DEF NearestKept, r, all

\* The case under test is none, one to pick, or one of those of a kind.
Picked ==
    \/ probe = NoCase
    \/ \E kind \in Kinds : probe = [kind |-> "pick", of |-> kind] \/ probe \in Cases(kind)

LEMMA PickedSelected ==
  ASSUME Picked PROVE SelectsNearest
<1>1. ASSUME probe.kind = "select"
      PROVE  Placed(probe.array, NthElement(probe.array, probe.nth), probe.nth)
  <2>1. PICK kind \in Kinds : probe \in Cases(kind)
    BY <1>1 DEF Picked, NoCase
  <2>2. /\ IsFiniteSet(DOMAIN probe.array) /\ DOMAIN probe.array = 0 .. Size(probe.array) - 1
        /\ probe.array \in [DOMAIN probe.array -> {probe.array[i] : i \in DOMAIN probe.array}]
        /\ probe.nth \in DOMAIN probe.array
        /\ \A i \in DOMAIN probe.array : probe.array[i][1] \in Int
    BY <1>1, <2>1, SelectionCases
  <2> QED
    BY <2>2, SelectedRight DEF Elements
<1>2. ASSUME probe.kind = "gather"
      PROVE  NearestKept(Elements(probe.stream),
                Elements(Nearest(Gather(probe.stream, probe.limit), probe.limit)), probe.limit)
  <2>1. PICK kind \in Kinds : probe \in Cases(kind)
    BY <1>2 DEF Picked, NoCase
  <2> DEFINE stream == probe.stream
             limit == probe.limit
  <2>2. /\ limit \in Nat \ {0}
        /\ stream \in Seq({stream[i] : i \in DOMAIN stream})
        /\ \A i \in DOMAIN stream : stream[i][1] \in Int /\ stream[i][1] < Unbounded
        /\ \A i \in DOMAIN stream, j \in DOMAIN stream : stream[i] = stream[j] => i = j
    BY <1>2, <2>1, SelectionCases
  <2> HIDE DEF stream, limit
  <2>3. stream \in Seq(Elements(stream))
    BY <2>2 DEF Elements
  <2>4. NearestKept(Elements(stream), Elements(Nearest(Gather(stream, limit), limit)), limit)
    BY <2>2, <2>3, GatheredRight
  <2> QED
    BY <2>4 DEF stream, limit
<1> QED
  BY <1>1, <1>2 DEF SelectsNearest

LEMMA PickedSlept ==
  ASSUME Picked PROVE SquelchFollowsSong
<1> SUFFICES ASSUME probe.kind = "memory" PROVE SquelchFollowsSong
  BY DEF SquelchFollowsSong
<1> DEFINE events == probe.events
           now == probe.now
           n == Len(events)
           E == [i \in 1 .. n |-> events[i].entry]
           stored == Stored(events)
           decision == CurrentSquelch(stored, now)
<1>1. PICK kind \in Kinds : probe \in Cases(kind)
  BY DEF Picked, NoCase
<1>2. /\ now \in Int /\ events \in Seq({events[i] : i \in DOMAIN events})
      /\ \A i \in DOMAIN events :
            /\ events[i].now \in Int /\ events[i].entry.at \in Nat
            /\ events[i].entry.matched \in BOOLEAN
            /\ IsFiniteSet(events[i].entry.offsets) /\ events[i].entry.offsets \subseteq Int
            /\ IsFiniteSet(events[i].entry.duration) /\ events[i].entry.duration \subseteq Int
            /\ events[i].entry.matched => events[i].entry.offsets # {}
  BY <1>1, EventCases
<1> HIDE DEF events, now
<1>3. n \in Nat /\ DOMAIN events = 1 .. n
  BY <1>2
<1>4. EventsOf(events, n, E)
  <2> HIDE DEF n
  <2>1. \A i \in 1 .. n : E[i] = events[i].entry
    OBVIOUS
  <2>2. Len(events) = n
    BY DEF n
  <2>3. \A i \in 1 .. n :
          /\ events[i].now \in Int
          /\ E[i].at \in Nat /\ E[i].matched \in BOOLEAN
          /\ IsFiniteSet(E[i].offsets) /\ E[i].offsets \subseteq Int
          /\ IsFiniteSet(E[i].duration) /\ E[i].duration \subseteq Int
          /\ E[i].matched => E[i].offsets # {}
    BY <1>2, <1>3, <2>1, Zenon
  <2> HIDE DEF E
  <2> QED
    BY ONLY <1>3, <2>2, <2>3 DEF EventsOf, E
<1> HIDE DEF n, E
<1>5. Remembers(events, stored.history)
  BY ONLY <1>4, StoredRemembers
<1>6. SleepsRight(stored.history, now, decision.squelch)
  BY ONLY <1>2, <1>4, StoredSleeps
<1>7. Projects(events, stored, now)
  BY ONLY <1>2, <1>4, StoredProjects
<1>8. decision.delay - decision.squelch = PositivePreEvent
  <2>1. decision.delay = decision.squelch + 4000
    BY DEF CurrentSquelch, Decide, PositivePreEvent
  <2>2. decision.squelch \in Int
    BY <1>6, SecondsAre DEF SleepsRight
  <2> HIDE DEF decision
  <2> QED
    BY <2>1, <2>2 DEF PositivePreEvent
<1> HIDE DEF stored, decision
<1>9. \A s \in {stored} : /\ Remembers(events, s.history)
                          /\ SleepsRight(s.history, now, CurrentSquelch(s, now).squelch)
                          /\ Projects(events, s, now)
                          /\ CurrentSquelch(s, now).delay - CurrentSquelch(s, now).squelch
                               = PositivePreEvent
  BY ONLY <1>5, <1>6, <1>7, <1>8 DEF decision
<1> QED
  BY ONLY <1>9 DEF SquelchFollowsSong, events, now, stored

\* What is picked is a case of a kind.
LEMMA OnlyPicked == TestSpec => []Picked
<1>1. Start => Picked
  BY DEF Start, Picked
<1>2. Picked /\ [Resample \/ Pick]_<<vars, probe>> => Picked'
  <2> SUFFICES ASSUME Picked, [Resample \/ Pick]_<<vars, probe>> PROVE Picked'
    OBVIOUS
  <2>1. CASE probe' = probe
    BY <2>1 DEF Picked
  <2>2. CASE Pick
    <3>1. PICK kind \in Kinds : probe = [kind |-> "pick", of |-> kind]
      <4>1. probe # NoCase
        BY <2>2 DEF Pick, NoCase
      <4>2. \A kind \in Kinds : probe \notin Cases(kind)
        BY <2>2, SelectionCases DEF Pick
      <4> QED
        BY <4>1, <4>2 DEF Picked
    <3>2. probe' \in Cases(kind)
      BY <2>2, <3>1 DEF Pick
    <3> QED
      BY <3>2 DEF Picked
  <2> QED
    BY <2>1, <2>2 DEF Resample
<1> QED
  BY <1>1, <1>2, PTL DEF TestSpec

\* nth_element puts the element sought in its place, and the bounded buffer
\* keeps the nearest candidates, for every array and every stream, whatever
\* the distances and however many of them are equal.
THEOREM SelectionHolds == TestSpec => []SelectsNearest
BY OnlyPicked, PickedSelected, PTL

\* After any recognitions, recorded at any times, exactly those of the last 20
\* minutes are remembered, the DSP sleeps as long as they tell, and the
\* previous match is the last, projected while it is not outdated.
THEOREM SquelchHolds == TestSpec => []SquelchFollowsSong
BY OnlyPicked, PickedSlept, PTL
=============================================================================
