------------------------------ MODULE Networks ------------------------------
(***************************************************************************)
(* The two networks and the frontends that feed them: where their weights  *)
(* lie in the weights file, the shapes that one layer hands to the next,   *)
(* and the index arithmetic of convolution, pooling and dense layers over  *)
(* flat arrays. Numbers are integers; normalizations, the embedder's       *)
(* activation and the final sigmoid, which change no shape, are left out.  *)
(*                                                                         *)
(* A range of the file is its first byte and the one after its last; the   *)
(* positions of arrays count from 0, as in the code.                       *)
(***************************************************************************)
EXTENDS Integers, Sequences, FiniteSets

LOCAL INSTANCE SequencesExt
LOCAL INSTANCE FiniteSetsExt

CeilDiv(a, b) == (a + b - 1) \div b
OrZero(x) == IF x < 0 THEN 0 ELSE x
Total(terms) == FoldLeft(LAMBDA sum, x : sum + x, 0, terms)

------------------------------ (* The weights *) ----------------------------

\* A convolution: height, width, channels in and out of its kernel, strides.
Layer(shape, stride, kernel, scale, bias) ==
    [shape |-> shape, stride |-> stride, kernel |-> kernel, scale |-> scale, bias |-> bias]

Layers == <<
    Layer(<<1, 4, 1, 16>>, <<1, 2>>, <<\h6c8ec, \h6c9ec>>, <<\h6c9ec, \h6ca2c>>, <<\h6ca2c, \h6ca6c>>),
    Layer(<<4, 1, 16, 32>>, <<2, 1>>, <<\h6ca7c, \h6ea7c>>, <<\h6ea7c, \h6eafc>>, <<\h6eafc, \h6eb7c>>),
    Layer(<<1, 4, 32, 48>>, <<1, 2>>, <<\h6eb8c, \h74b8c>>, <<\h74b8c, \h74c4c>>, <<\h74c4c, \h74d0c>>),
    Layer(<<4, 1, 48, 64>>, <<2, 1>>, <<\h74d1c, \h80d1c>>, <<\h80d1c, \h80e1c>>, <<\h80e1c, \h80f1c>>),
    Layer(<<1, 4, 64, 96>>, <<1, 2>>, <<\h80f2c, \h98f2c>>, <<\h98f2c, \h990ac>>, <<\h990ac, \h9922c>>),
    Layer(<<4, 1, 96, 128>>, <<2, 1>>, <<\h9923c, \hc923c>>, <<\hc923c, \hc943c>>, <<\hc943c, \hc963c>>),
    Layer(<<1, 4, 128, 192>>, <<1, 2>>, <<\hc964c, \h12964c>>, <<\h12964c, \h12994c>>, <<\h12994c, \h129c4c>>),
    Layer(<<4, 1, 192, 256>>, <<2, 1>>, <<\h129c5c, \h1e9c5c>>, <<\h1e9c5c, \h1ea05c>>, <<\h1ea05c, \h1ea45c>>),
    Layer(<<1, 4, 256, 192>>, <<1, 1>>, <<\h1ea46c, \h2aa46c>>, <<\h2aa46c, \h2aa76c>>, <<\h2aa76c, \h2aaa6c>>),
    Layer(<<4, 1, 192, 128>>, <<1, 1>>, <<\h2aaa7c, \h30aa7c>>, <<\h30aa7c, \h30ac7c>>, <<\h30ac7c, \h30ae7c>>) >>

EmbedderHead == [
    kernel |-> <<\h30ae7c, \h3cae7c>>, scale |-> <<\h3cae7c, \h3cc67c>>,
    bias |-> <<\h3cc67c, \h3cde7c>>, outKernel |-> <<\h3cde7c, \h3cf67c>>,
    outBias |-> <<\h3cf67c, \h3cf7fc>> ]

Convolution(shape, pool, kernel, bias) ==
    [shape |-> shape, stride |-> <<1, 1>>, pool |-> pool, kernel |-> kernel, bias |-> bias]

Convolutions == <<
    Convolution(<<3, 3, 1, 8>>, TRUE, <<\h20c50, \h20d70>>, <<\h20d70, \h20d90>>),
    Convolution(<<3, 3, 8, 16>>, TRUE, <<\h20da0, \h21fa0>>, <<\h21fa0, \h21fe0>>),
    Convolution(<<3, 3, 16, 32>>, TRUE, <<\h21ff0, \h267f0>>, <<\h267f0, \h26870>>),
    Convolution(<<3, 3, 32, 64>>, TRUE, <<\h26880, \h38880>>, <<\h38880, \h38980>>),
    Convolution(<<3, 3, 64, 64>>, TRUE, <<\h38990, \h5c990>>, <<\h5c990, \h5ca90>>),
    Convolution(<<2, 2, 64, 32>>, TRUE, <<\h5caa0, \h64aa0>>, <<\h64aa0, \h64b20>>),
    Convolution(<<2, 2, 32, 32>>, FALSE, <<\h64b30, \h68b30>>, <<\h68b30, \h68bb0>>) >>

\* Kernel and bias of the three dense layers.
Dense == <<
    [kernel |-> <<\h68bb0, \h6bbb0>>, bias |-> <<\h6bbb0, \h6bbd0>>],
    [kernel |-> <<\h6bbd0, \h6bcd0>>, bias |-> <<\h6bcd0, \h6bcf0>>],
    [kernel |-> <<\h6bcf0, \h6bd10>>, bias |-> <<\h6bd10, \h6bd14>>] >>

\* The tables of the track number decoder in the same file: widths, fast
\* symbols, long codes (both of four byte numbers) and their symbols.
DecoderTables == [
    primary |-> <<\h1f198, \h1f598>>, fast |-> <<\h1f598, \h1f998>>,
    longCodes |-> <<\h1f998, \h1fce0>>, longSymbols |-> <<\h1fce0, \h1fdb2>> ]

\* Reading a range of a file of so many bytes as floats: how many there are.
Floats(range, fileSize) ==
    IF range[2] > fileSize \/ (range[2] - range[1]) % 4 # 0 THEN {}
    ELSE {(range[2] - range[1]) \div 4}

\* What loading finds in a file of so many bytes: the ranges of each network,
\* unless the file is too short for it.
Ranges(parts) == UNION {{part[field] : field \in DOMAIN part \ {"shape", "stride", "pool"}} :
                          part \in Range(parts)}

Load(ranges, minimum, fileSize) ==
    IF fileSize < minimum \/ \E r \in ranges : Floats(r, fileSize) = {} THEN {} ELSE {ranges}

LoadEmbedder(fileSize) ==
    Load(Ranges(Layers) \cup Ranges(<<EmbedderHead>>), \h3cf7fc, fileSize)
LoadDetector(fileSize) ==
    Load(Ranges(Convolutions) \cup Ranges(Dense), \h6bd14, fileSize)
LoadDecoder(fileSize) ==
    IF \E r \in Ranges(<<DecoderTables>>) : r[2] > fileSize THEN {}
    ELSE {Ranges(<<DecoderTables>>)}

------------------------------ (* The layers *) -----------------------------

\* A tensor is its shape and its values, on positions 0 .. size - 1.
TensorOf(height, width, channels, Value(_, _, _)) ==
    [height |-> height, width |-> width, channels |-> channels,
     values |-> [i \in 0 .. height * width * channels - 1 |->
                   Value(i \div (width * channels), (i \div channels) % width, i % channels)]]

\* A convolution that ignores what the kernel covers outside the input.
Convolve(input, kernel, shape, stride, height, width, top, left) ==
    LET kh == shape[1] kw == shape[2] in == shape[3] out == shape[4]
        Inside(y, x) == /\ y >= top /\ y - top < input.height
                        /\ x >= left /\ x - left < input.width
        Term(y, x, ky, kx, o) ==
            LET iy == y * stride[1] + ky
                ix == x * stride[2] + kx
                at == ((iy - top) * input.width + ix - left) * in
                weight == (ky * kw + kx) * in
            IN  IF ~Inside(iy, ix) THEN 0
                ELSE Total([c \in 1 .. in |-> input.values[at + c - 1]
                                                * kernel[(weight + c - 1) * out + o]])
    IN  TensorOf(height, width, out, LAMBDA y, x, o :
          Total([k \in 1 .. kh * kw |-> Term(y, x, (k - 1) \div kw, (k - 1) % kw, o)]))

\* The embedder's: strides, and zeros on both sides, the odd one at the end.
ConvSame(input, kernel, shape, stride) ==
    LET height == CeilDiv(input.height, stride[1])
        width == CeilDiv(input.width, stride[2])
        Padding(n, step, size, given) == OrZero((n - 1) * step + size - given)
    IN  Convolve(input, kernel, shape, stride, height, width,
                 Padding(height, stride[1], shape[1], input.height) \div 2,
                 Padding(width, stride[2], shape[2], input.width) \div 2)

\* The detector's: no strides.
ConvSameDetector(input, kernel, shape) ==
    Convolve(input, kernel, shape, <<1, 1>>, input.height, input.width,
             (shape[1] - 1) \div 2, (shape[2] - 1) \div 2)

MaxPool(input) ==
    LET At(y, x, c) == input.values[(y * input.width + x) * input.channels + c]
    IN  TensorOf(input.height \div 2, input.width \div 2, input.channels,
          LAMBDA y, x, c : Max({At(2 * y + ky, 2 * x + kx, c) : ky, kx \in {0, 1}}))

Relu(x) == OrZero(x)

\* A layer of the detector: its convolution, the bias and the activation, and
\* the pooling if it has one.
DetectorLayer(input, kernel, shape, bias, pool) ==
    LET convolved == ConvSameDetector(input, kernel, shape)
        active == [convolved EXCEPT !.values =
                     [i \in DOMAIN @ |-> Relu(@[i] + bias[i % convolved.channels])]]
    IN  IF pool THEN MaxPool(active) ELSE active

\* A dense layer; inputs and outputs from 0.
DenseRelu(input, kernel, bias) ==
    LET n == Cardinality(DOMAIN bias)
    IN  [o \in DOMAIN bias |->
           Relu(bias[o] + Total([i \in 1 .. Cardinality(DOMAIN input) |->
                                   input[i - 1] * kernel[(i - 1) * n + o]]))]

\* The first stage of the embedder's head: every dimension has its own
\* weights for each of the hidden channels.
HeadHidden(values, kernel, channels, dimensions, hidden) ==
    [at \in 0 .. dimensions * hidden - 1 |->
       LET d == at \div hidden
           h == at % hidden
       IN  Total([c \in 1 .. channels |-> values[(c - 1) * dimensions + d]
                                            * kernel[((c - 1) * dimensions + d) * hidden + h]])]

\* The second: the hidden values read in blocks of one per dimension.
HeadOutput(hiddenValues, kernel, bias, dimensions, hidden) ==
    [d \in 0 .. dimensions - 1 |->
       bias[d] + Total([h \in 1 .. hidden |-> hiddenValues[(h - 1) * dimensions + d]
                                                * kernel[(h - 1) * dimensions + d]])]

------------------------------ (* The shapes *) -----------------------------

\* What a convolution makes of a shape, unless an assertion of it fails.
Groups == 16
ShapeAfter(layer, shape) ==
    LET out == layer.shape[4]
    IN  IF \/ shape[3] # layer.shape[3]
           \/ "scale" \in DOMAIN layer /\ out % Groups # 0
        THEN {}
        ELSE {<<CeilDiv(shape[1], layer.stride[1]), CeilDiv(shape[2], layer.stride[2]), out>>}

Pooled(layer, shape) ==
    IF "pool" \in DOMAIN layer /\ layer.pool
    THEN <<shape[1] \div 2, shape[2] \div 2, shape[3]>> ELSE shape

ShapesFrom(layers, shape) ==
    FoldLeft(LAMBDA shapes, layer :
               UNION {{Pooled(layer, s) : s \in ShapeAfter(layer, t)} : t \in shapes},
             {shape}, layers)

----------------------------- (* The frontends *) ---------------------------

\* A frontend: the window it needs, the step between windows, and the size,
\* hop and number of the transforms that it makes of one, with its outputs
\* per transform.
Fingerprint == [window |-> 22050, step |-> 11025, size |-> 1024, hop |-> 512,
                frames |-> 42, bins |-> 512]
Music == [window |-> 55125, step |-> 11025, size |-> 512, hop |-> 256,
          frames |-> 214, bins |-> 257]

\* The values of one window that the frontend reads, frame by frame.
FrameStarts(f) == {frame * f.hop : frame \in 0 .. f.frames - 1}

\* Mutant: a window that ends with the stream is not counted.
WindowCountShort(f, length) ==
    IF length <= f.window THEN 0 ELSE (length - f.window - 1) \div f.step + 1

\* The number of windows it announces for a stream, and where they start.
WindowCount(f, length) ==
    IF length < f.window THEN 0 ELSE (length - f.window) \div f.step + 1
WindowStarts(f, length) ==
    IF length < f.window THEN {} ELSE {k * f.step : k \in 0 .. (length - f.window) \div f.step}
=============================================================================
