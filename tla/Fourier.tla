------------------------------ MODULE Fourier ------------------------------
(***************************************************************************)
(* The Fourier transforms of the frontends: passes that leave the bins in  *)
(* an order of their own, which a table undoes.                            *)
(*                                                                         *)
(* The code computes with cosines and sines of multiples of 2 pi / 1024.   *)
(* Here they are elements of the field of 12289 elements, which has a root *)
(* of unity of that order, so that every identity among them holds and     *)
(* arithmetic is exact. What is left out is the rounding of floats.        *)
(*                                                                         *)
(* An array is a sequence; positions count from 0, as in the code.         *)
(***************************************************************************)
EXTENDS Integers, Sequences

Prime == 12289
Root == 10302       \* of order 1024
OneHalf == 6145        \* 1 / 2

Power(b, n) ==
    LET pow[k \in 0 .. n] ==
            IF k = 0 THEN 1
            ELSE LET half == pow[k \div 2]
                     square == (half * half) % Prime
                 IN  IF k % 2 = 0 THEN square ELSE (square * b) % Prime
    IN  pow[n]

\* Powers of the root, and from them the cosine and the sine of a number of
\* 1024ths of a turn: its 256th power is a square root of -1.
Roots == [k \in 1 .. 1024 |-> Power(Root, k - 1)] \o <<>>
Unit(k) == Roots[(k % 1024) + 1]
Cosines == [k \in 1 .. 1024 |-> (OneHalf * (Unit(k - 1) + Unit(1 - k))) % Prime] \o <<>>
Sines == [k \in 1 .. 1024 |-> (OneHalf * (Unit(k + 767) + Unit(257 - k))) % Prime] \o <<>>
Cos(k) == Cosines[(k % 1024) + 1]
Sin(k) == Sines[(k % 1024) + 1]

------------------------------- (* The passes *) -----------------------------

Part(data, from, to) == SubSeq(data, from + 1, to)

\* The values of an array, computed once.
Array(size, Value(_)) == [i \in 1 .. size |-> Value(i - 1) % Prime] \o <<>>

Sum(data, at) == data[at + 1] + data[at + 2]
Difference(data, at) == data[at + 1] - data[at + 2]

\* The cosine and the sine for a pair, from the table of a size.
Table(size, index) == LET turn == index * (128 \div size) IN <<Cos(turn), Sin(turn)>>

\* Mutant: the mirrored half keeps cosine and sine in their places.
TableMirroredUnswapped(size, index) ==
    IF index = size THEN <<Cos(128), Cos(128)>>
    ELSE Table(size, IF index < size THEN index ELSE 2 * size - index)

\* The same, the second half of the table read backwards.
TableMirrored(size, index) ==
    IF index = size THEN <<Cos(128), Cos(128)>>
    ELSE IF index < size THEN Table(size, index)
    ELSE LET mirrored == Table(size, 2 * size - index) IN <<mirrored[2], mirrored[1]>>

\* One part of a pair rotated by a twiddle factor.
Rotated(real, imag, twiddle, part) ==
    IF part = 0 THEN real * twiddle[1] - imag * twiddle[2]
    ELSE real * twiddle[2] + imag * twiddle[1]

\* Sums go to the left half, rotated differences to the right.
PassOf(data, half, Twiddle(_)) ==
    LET Left(i) == Sum(data, IF i % 2 = 0 THEN i ELSE half + i - 1)
        Right(i) == LET pair == i - (i % 2) IN
                    Rotated(Difference(data, pair), Difference(data, half + pair),
                            Twiddle(i \div 2), i % 2)
    IN  Array(half, Left) \o Array(half, Right)

RealPass(data, size) == PassOf(data, 4 * size, LAMBDA index : Table(size, index))
RealPassMirrored(data, size) == PassOf(data, 4 * size, LAMBDA index : TableMirrored(size, index))

\* Four quarters a, b, c, d become a + c, b + d and the two rotations of
\* (a - c) + i (b - d) and (a - c) - i (b - d), one forwards, one backwards.
ComplexPass(data, size) ==
    LET q == 4 * size
        First(i) == data[i + 1] - data[2 * q + i + 1]
        Second(i) == data[q + i + 1] - data[3 * q + i + 1]
        Third(i) == LET re == i - (i % 2) im == re + 1 IN
            Rotated(First(re) - Second(im), First(im) + Second(re), Table(size, i \div 2), i % 2)
        Fourth(i) == LET re == i - (i % 2) im == re + 1 t == Table(size, i \div 2) IN
            Rotated(First(re) + Second(im), First(im) - Second(re), <<t[1], 0 - t[2]>>, i % 2)
    IN  Array(2 * q, LAMBDA i : data[i + 1] + data[2 * q + i + 1])
          \o Array(q, Third) \o Array(q, Fourth)

ComplexFft4(d) ==
    LET s(i) == d[i + 1] + d[i + 5]
        t(i) == d[i + 1] - d[i + 5]
        out == <<s(0) + s(2), s(1) + s(3), s(0) - s(2), s(1) - s(3),
                 t(0) - t(3), t(2) + t(1), t(0) + t(3), t(1) - t(2)>>
    IN  Array(8, LAMBDA i : out[i + 1])

ComplexFft8(x) ==
    LET t(i) == x[i + 1] - x[i + 9]
        Turned(a) == (a % Prime) * Cos(128)
        crossed == t(2) - t(7)
        paired == t(3) + t(6)
        other == t(3) - t(6)
        sum == t(2) + t(7)
        high == <<t(0) - t(5) + Turned(crossed - paired), t(1) + t(4) + Turned(crossed + paired),
                  t(0) - t(5) - Turned(crossed - paired), t(1) + t(4) - Turned(crossed + paired),
                  t(5) + t(0) + Turned(other + sum), t(1) - t(4) + Turned(other - sum),
                  t(5) + t(0) - Turned(other + sum), t(1) - t(4) - Turned(other - sum)>>
    IN  ComplexFft4(Array(8, LAMBDA i : x[i + 1] + x[i + 9]))
          \o Array(8, LAMBDA i : high[i + 1])

RealFft8(d) ==
    LET s(i) == Sum(d, i)
        t(i) == Difference(d, i)
        out == <<s(0) + s(4) + (s(2) + s(6)), s(0) + s(4) - (s(2) + s(6)),
                 s(0) - s(4), s(2) - s(6),
                 t(0) + (t(2) - t(6)) * Cos(128), t(4) + (t(2) + t(6)) * Cos(128),
                 t(0) - (t(2) - t(6)) * Cos(128), t(4) - (t(2) + t(6)) * Cos(128)>>
    IN  Array(8, LAMBDA i : out[i + 1])

\* The constants of the smallest pass, pair by pair.
Eighths(index) ==
    <<<<1, 0>>, <<Cos(64), Sin(64)>>, <<Cos(128), Cos(128)>>, <<Sin(64), Cos(64)>>>>[index + 1]

----------------------------- (* The transforms *) ---------------------------

\* A transform of an array that a pass has split: one of its first half and
\* two of the quarters, or one of each half.
Quarters(d, Low(_), High(_)) ==
    LET n == Len(d) IN
    Low(Part(d, 0, n \div 2)) \o High(Part(d, n \div 2, 3 * (n \div 4)))
       \o High(Part(d, 3 * (n \div 4), n))

Halves(d, Low(_), High(_)) ==
    Low(Part(d, 0, Len(d) \div 2)) \o High(Part(d, Len(d) \div 2, Len(d)))

ComplexFft16(d) == Quarters(ComplexPass(d, 2), ComplexFft8, ComplexFft4)
ComplexFft32(d) == Quarters(ComplexPass(d, 4), ComplexFft16, ComplexFft8)
ComplexFft64(d) == Quarters(ComplexPass(d, 8), ComplexFft32, ComplexFft16)
ComplexFft128(d) == Quarters(ComplexPass(d, 16), ComplexFft64, ComplexFft32)
ComplexFft256(d) == Quarters(ComplexPass(d, 32), ComplexFft128, ComplexFft64)

RealFft16(d) == Halves(PassOf(d, 8, Eighths), RealFft8, ComplexFft4)
RealFft32(d) == Halves(RealPass(d, 4), RealFft16, ComplexFft8)
RealFft64(d) == Halves(RealPass(d, 8), RealFft32, ComplexFft16)
RealFft128(d) == Halves(RealPass(d, 16), RealFft64, ComplexFft32)
RealFft256(d) == Halves(RealPass(d, 32), RealFft128, ComplexFft64)
RealFft512(d) == Halves(RealPass(d, 64), RealFft256, ComplexFft128)

\* Where the transform leaves each bin from 1 on; a negative place says that
\* the imaginary part has the other sign.
Permutation == <<
    -512, -256, 896, -128, -768, 448, 704, -64, -640, -384, 864, 224, -960, 352, 608,
    -32, -576, -320, 992, -192, -832, 432, 688, 112, -736, -480, 816, 176, -928, 304,
    560, -16, -544, -288, 944, -160, -800, 496, 752, -96, -672, -416, 856, 216, -1008,
    344, 600, 56, -624, -368, 984, -240, -880, 408, 664, 88, -720, -464, 792, 152, -912,
    280, 536, -8, -528, -272, 920, -144, -784, 472, 728, -80, -656, -400, 888, 248,
    -976, 376, 632, -48, -592, -336, 1016, -208, -848, 428, 684, 108, -760, -504, 812,
    172, -952, 300, 556, 28, -568, -312, 940, -184, -824, 492, 748, -120, -696, -440,
    844, 204, -1000, 332, 588, 44, -616, -360, 972, -232, -872, 396, 652, 76, -712,
    -456, 780, 140, -904, 268, 524, -4, -520, -264, 908, -136, -776, 460, 716, -72,
    -648, -392, 876, 236, -968, 364, 620, -40, -584, -328, 1004, -200, -840, 444, 700,
    124, -744, -488, 828, 188, -936, 316, 572, -24, -552, -296, 956, -168, -808, 508,
    764, -104, -680, -424, 854, 214, -1020, 342, 598, 54, -636, -380, 982, -252, -892,
    406, 662, 86, -732, -476, 790, 150, -924, 278, 534, 14, -540, -284, 918, -156, -796,
    470, 726, -92, -668, -412, 886, 246, -988, 374, 630, -60, -604, -348, 1014, -220,
    -860, 422, 678, 102, -756, -500, 806, 166, -948, 294, 550, 22, -564, -308, 934,
    -180, -820, 486, 742, -116, -692, -436, 838, 198, -996, 326, 582, 38, -612, -356,
    966, -228, -868, 390, 646, 70, -708, -452, 774, 134, -900, 262, 518, -2, -516, -260,
    902, -132, -772, 454, 710, -68, -644, -388, 870, 230, -964, 358, 614, -36, -580,
    -324, 998, -196, -836, 438, 694, 118, -740, -484, 822, 182, -932, 310, 566, -20,
    -548, -292, 950, -164, -804, 502, 758, -100, -676, -420, 862, 222, -1012, 350, 606,
    62, -628, -372, 990, -244, -884, 414, 670, 94, -724, -468, 798, 158, -916, 286, 542,
    -12, -532, -276, 926, -148, -788, 478, 734, -84, -660, -404, 894, 254, -980, 382,
    638, -52, -596, -340, 1022, -212, -852, 426, 682, 106, -766, -510, 810, 170, -958,
    298, 554, 26, -574, -318, 938, -190, -830, 490, 746, -126, -702, -446, 842, 202,
    -1006, 330, 586, 42, -622, -366, 970, -238, -878, 394, 650, 74, -718, -462, 778,
    138, -910, 266, 522, 6, -526, -270, 906, -142, -782, 458, 714, -78, -654, -398, 874,
    234, -974, 362, 618, -46, -590, -334, 1002, -206, -846, 442, 698, 122, -750, -494,
    826, 186, -942, 314, 570, -30, -558, -302, 954, -174, -814, 506, 762, -110, -686,
    -430, 850, 210, -1018, 338, 594, 50, -634, -378, 978, -250, -890, 402, 658, 82,
    -730, -474, 786, 146, -922, 274, 530, 10, -538, -282, 914, -154, -794, 466, 722,
    -90, -666, -410, 882, 242, -986, 370, 626, -58, -602, -346, 1010, -218, -858, 418,
    674, 98, -754, -498, 802, 162, -946, 290, 546, 18, -562, -306, 930, -178, -818, 482,
    738, -114, -690, -434, 834, 194, -994, 322, 578, 34, -610, -354, 962, -226, -866,
    386, 642, 66, -706, -450, 770, 130, -898, 258, 514 >>

\* The first half of the samples and their second half, alternating.
Interleaved(samples) ==
    LET half == Len(samples) \div 2
    IN  Array(Len(samples), LAMBDA i : samples[i \div 2 + IF i % 2 = 0 THEN 1 ELSE half + 1])

\* The bins of a transformed array, in order.
Bins(work, Place(_)) ==
    LET half == Len(work) \div 2
        Bin(k) == LET offset == Permutation[k]
                      at == Place(IF offset < 0 THEN 0 - offset ELSE offset)
                  IN  <<work[at + 1], IF offset < 1 THEN 0 - work[at + 2] ELSE work[at + 2]>>
    IN  <<<<work[1], 0>>>> \o [k \in 1 .. half - 1 |-> Bin(k)] \o <<<<work[2], 0>>>>

Transform1024(samples) ==
    Bins(Halves(RealPassMirrored(Interleaved(samples), 128), RealFft512, ComplexFft256),
         LAMBDA offset : offset)

\* The places of the larger transform serve the smaller one: half of them,
\* rounded down to a pair.
Transform512(samples) ==
    Bins(Halves(RealPassMirrored(Interleaved(samples), 64), RealFft256, ComplexFft128),
         LAMBDA offset : 2 * (offset \div 4))
=============================================================================
