------------------------ MODULE CameraFramesProofs ------------------------
(***************************************************************************)
(* What the frame scanner cuts out of a stream of any number of frames, and *)
(* what ends playback.                                                     *)
(*                                                                         *)
(* First where the frames of a stream lie and that the markers are at the  *)
(* ends of the pictures only; then what a search finds; then the steps.    *)
(* The invariant is about the position behind a search that has failed: if *)
(* it is inside a picture, the same search fails again from there, so that *)
(* the whole search, which counts from the mark, is never made.            *)
(***************************************************************************)
EXTENDS CameraFrames, FoldLemmas, TLAPS

-----------------------------------------------------------------------------
(* The bytes of a sequence of frames.                                      *)

Joins(q) == [k \in 1..Len(q) |-> [d \in Seq(Bytes) |-> d \o Part(q[k])]]

LEMMA PartType == \A f \in Frame : Part(f) \in Seq(Bytes) /\ Len(Part(f)) = Size(f)
<1> SUFFICES ASSUME NEW f \in Frame PROVE Part(f) \in Seq(Bytes) /\ Len(Part(f)) = Size(f)
  OBVIOUS
<1>1. f.head \in Nat /\ f.jpeg \in Seq(Bytes)
  BY DEF Frame
<1> DEFINE h == [i \in 1..f.head |-> "x"]
<1>2. h \in Seq(Bytes) /\ Len(h) = f.head
  BY <1>1 DEF Bytes
<1> HIDE DEF h
<1>3. h \o f.jpeg \in Seq(Bytes) /\ Len(h \o f.jpeg) = f.head + Len(f.jpeg)
  BY <1>1, <1>2
<1> QED
  BY <1>3 DEF Part, Size, h

\* The bytes are joined along the sequence.
LEMMA JoinFolds ==
  ASSUME NEW q \in Seq(Frame)
  PROVE  /\ Joined(q) \in Seq(Bytes)
         /\ \E h : LeftSteps(h, Len(q), <<>>, Joins(q)) /\ Joined(q) = h[Len(q)]
<1> DEFINE n == Len(q)
           V == Seq(Bytes)
           step == Joins(q)
           IsJoin(g) == g = [T \in SUBSET (1..n) |->
                         IF T = {} THEN <<>> ELSE g[T \ {Max(T)}] \o Part(q[Max(T)])]
           f == CHOOSE g : IsJoin(g)
<1>1. n \in Nat /\ <<>> \in V /\ DOMAIN q = 1..n /\ \A k \in 1..n : q[k] \in Frame
  OBVIOUS
<1>2. Joined(q) = f[1..n]
  <2> HIDE DEF n
  <2> QED
    BY <1>1, Zenon DEF Joined, FoldLeft, MapThenFoldSet
<1>3. ASSUME NEW d \in V, NEW s \in Frame PROVE d \o Part(s) \in V
  BY PartType
<1>4. step \in [1..n -> [V -> V]]
  BY <1>1, <1>3 DEF Joins
<1>5. \A k \in 1..n, d \in V : step[k][d] = d \o Part(q[k])
  BY DEF Joins
<1> HIDE DEF n, V, step
<1>6. \A T \in SUBSET (1..n) : T # {} => Max(T) \in 1..n
  BY <1>1, MaxUpTo
<1>7. PICK g \in [SUBSET (1..n) -> V] : LeftFolded(g, n, <<>>, step)
  <2>1. n \in Nat /\ <<>> \in V
    BY <1>1
  <2> QED
    BY <1>4, <2>1, LeftFoldExists, Zenon
<1>8. IsJoin(g)
  <2>1. ASSUME NEW T \in SUBSET (1..n), T # {}
        PROVE  step[Max(T)][g[T \ {Max(T)}]] = g[T \ {Max(T)}] \o Part(q[Max(T)])
    <3>1. g[T \ {Max(T)}] \in V /\ Max(T) \in 1..n
      BY <1>6, <1>7, <2>1
    <3> QED
      BY <1>5, <3>1
  <2>2. \A T \in SUBSET (1..n) :
          g[T] = IF T = {} THEN <<>> ELSE g[T \ {Max(T)}] \o Part(q[Max(T)])
    BY <1>7, <2>1 DEF LeftFolded
  <2>3. g = [T \in SUBSET (1..n) |-> g[T]]
    BY <1>7
  <2> QED
    BY <2>2, <2>3
<1>9. IsJoin(f)
  <2> HIDE DEF IsJoin
  <2> QED
    BY <1>8, Zenon
<1>10. LeftFold(f, n, V, <<>>, step)
  <2>1. f[{}] = <<>>
    BY <1>9
  <2>2. ASSUME NEW T \in SUBSET (1..n), T # {}, f[T \ {Max(T)}] \in V
        PROVE  f[T] = step[Max(T)][f[T \ {Max(T)}]]
    <3>1. f[T] = f[T \ {Max(T)}] \o Part(q[Max(T)])
      BY <1>9, <2>2
    <3> QED
      BY <1>5, <1>6, <2>2, <3>1
  <2> HIDE DEF f
  <2> QED
    BY <2>1, <2>2 DEF LeftFold
<1> HIDE DEF f
<1>11. PICK h \in [0..n -> V] : LeftSteps(h, n, <<>>, step) /\ f[1..n] = h[n]
  BY <1>1, <1>4, <1>10, LeftFoldSteps
<1>12. h[n] \in V
  BY <1>1, <1>11
<1> QED
  BY <1>2, <1>11, <1>12 DEF n, V, step

\* The bytes of the first k frames are those of the frames before, and its own.
LEMMA JoinedSteps ==
  ASSUME NEW q \in Seq(Frame)
  PROVE  /\ Joined(SubSeq(q, 1, 0)) = <<>>
         /\ Joined(SubSeq(q, 1, Len(q))) = Joined(q)
         /\ \A k \in 1..Len(q) :
              Joined(SubSeq(q, 1, k)) = Joined(SubSeq(q, 1, k - 1)) \o Part(q[k])
<1>1. SubSeq(q, 1, 0) = <<>> /\ SubSeq(q, 1, Len(q)) = q /\ <<>> \in Seq(Frame) /\ Len(<<>>) = 0
  OBVIOUS
<1>2. Joined(<<>>) = <<>>
  <2>1. PICK h : LeftSteps(h, 0, <<>>, Joins(<<>>)) /\ Joined(<<>>) = h[0]
    BY <1>1, JoinFolds
  <2> QED
    BY <2>1 DEF LeftSteps
<1>3. ASSUME NEW k \in 1..Len(q)
      PROVE  Joined(SubSeq(q, 1, k)) = Joined(SubSeq(q, 1, k - 1)) \o Part(q[k])
  <2> DEFINE a == SubSeq(q, 1, k - 1)
             b == SubSeq(q, 1, k)
             step == Joins(a)
             more == Joins(b)
             n == k - 1
  <2>1. /\ n \in Nat /\ Len(a) = n /\ Len(b) = n + 1 /\ a \in Seq(Frame) /\ b \in Seq(Frame)
        /\ b[n + 1] = q[k] /\ \A i \in 1..n : a[i] = b[i]
    OBVIOUS
  <2> HIDE DEF a, b, n
  <2>2. PICK h : LeftSteps(h, n, <<>>, step) /\ Joined(a) = h[n]
    BY <2>1, JoinFolds
  <2>3. PICK j : LeftSteps(j, n + 1, <<>>, more) /\ Joined(b) = j[n + 1]
    BY <2>1, JoinFolds
  <2>4. ASSUME NEW i \in 1..n PROVE more[i] = step[i]
    <3>1. i \in 1..Len(a) /\ i \in 1..Len(b) /\ a[i] = b[i]
      BY <2>1
    <3>2. step[i] = [d \in Seq(Bytes) |-> d \o Part(a[i])]
      BY <3>1, Zenon DEF Joins
    <3>3. more[i] = [d \in Seq(Bytes) |-> d \o Part(b[i])]
      BY <3>1, Zenon DEF Joins
    <3> QED
      BY <3>1, <3>2, <3>3, Zenon
  <2>5. \A d \in Seq(Bytes) : more[n + 1][d] = d \o Part(q[k])
    BY <2>1 DEF Joins
  <2> HIDE DEF step, more
  <2>6. n + 1 \in n..(n + 1)
    BY <2>1
  <2>7. j[n] = h[n]
    BY <2>1, <2>2, <2>3, <2>4, <2>6, LeftStepsUnique
  <2>8. j[n + 1] = more[n + 1][j[n]]
    BY <2>1, <2>3 DEF LeftSteps
  <2>9. j[n] = Joined(a) /\ Joined(a) \in Seq(Bytes)
    BY <2>1, <2>2, <2>7, JoinFolds
  <2> QED
    BY <2>3, <2>5, <2>8, <2>9 DEF a, b
<1> QED
  BY <1>1, <1>2, <1>3

-----------------------------------------------------------------------------
(* Where the frames lie.                                                   *)

\* The end of frame k, and the first byte of its picture less one.
Ends(q) == [k \in 0..Len(q) |-> Len(Joined(SubSeq(q, 1, k)))]
Begin(q, k) == Ends(q)[k - 1] + q[k].head

LEMMA Concatenation ==
  ASSUME NEW S, NEW a \in Seq(S), NEW b \in Seq(S)
  PROVE  /\ Len(a \o b) = Len(a) + Len(b)
         /\ \A i \in 1..Len(a) : (a \o b)[i] = a[i]
         /\ \A i \in 1..Len(b) : (a \o b)[Len(a) + i] = b[i]
OBVIOUS

LEMMA EndSteps ==
  ASSUME NEW q \in Seq(Frame)
  PROVE  /\ Ends(q) \in [0..Len(q) -> Nat] /\ Ends(q)[0] = 0 /\ Ends(q)[Len(q)] = Len(Joined(q))
         /\ Joined(q) \in Seq(Bytes)
         /\ \A k \in 1..Len(q) : /\ Ends(q)[k - 1] \in Nat /\ Ends(q)[k] \in Nat
                                 /\ Ends(q)[k] = Ends(q)[k - 1] + Size(q[k])
<1> DEFINE P(k) == Joined(SubSeq(q, 1, k))
           n == Len(q)
<1>1. ASSUME NEW k \in 0..n PROVE P(k) \in Seq(Bytes) /\ Ends(q)[k] = Len(P(k))
  <2>1. SubSeq(q, 1, k) \in Seq(Frame)
    OBVIOUS
  <2>2. Ends(q)[k] = Len(P(k))
    BY DEF Ends
  <2> QED
    BY <2>1, <2>2, JoinFolds
<1>2. P(0) = <<>> /\ P(n) = Joined(q) /\ \A k \in 1..n : P(k) = P(k - 1) \o Part(q[k])
  BY JoinedSteps
<1>3. n \in Nat
  OBVIOUS
<1>4. ASSUME NEW k \in 1..n
      PROVE  Ends(q)[k] = Ends(q)[k - 1] + Size(q[k]) /\ Ends(q)[k - 1] \in Nat /\ Ends(q)[k] \in Nat
  <2>1. k - 1 \in 0..n /\ k \in 0..n /\ q[k] \in Frame
    OBVIOUS
  <2>2. P(k) = P(k - 1) \o Part(q[k]) /\ P(k - 1) \in Seq(Bytes) /\ P(k) \in Seq(Bytes)
    BY <1>1, <1>2, <2>1
  <2>3. Part(q[k]) \in Seq(Bytes) /\ Len(Part(q[k])) = Size(q[k])
    BY <2>1, PartType
  <2>4. Ends(q)[k] = Len(P(k)) /\ Ends(q)[k - 1] = Len(P(k - 1))
    BY <1>1, <2>1
  <2> HIDE DEF P
  <2>5. Len(P(k - 1) \o Part(q[k])) = Len(P(k - 1)) + Size(q[k])
    BY <2>2, <2>3, Concatenation
  <2> QED
    BY <2>2, <2>4, <2>5
<1>5. Ends(q) \in [0..n -> Nat]
  <2>1. \A k \in 0..n : Ends(q)[k] \in Nat
    BY <1>1
  <2>2. Ends(q) = [k \in 0..n |-> Ends(q)[k]]
    BY DEF Ends
  <2> QED
    BY <2>1, <2>2
<1>6. Ends(q)[0] = 0 /\ Ends(q)[n] = Len(Joined(q)) /\ Joined(q) \in Seq(Bytes)
  <2>1. 0 \in 0..n /\ n \in 0..n
    BY <1>3
  <2>2. Ends(q)[0] = Len(P(0)) /\ Ends(q)[n] = Len(P(n)) /\ P(n) \in Seq(Bytes)
    BY <1>1, <2>1
  <2> HIDE DEF P, n
  <2> QED
    BY <1>2, <2>2
<1> QED
  BY <1>4, <1>5, <1>6

\* Frames lie one behind another.
LEMMA EndsGrow ==
  ASSUME NEW q \in Seq(Frame), NEW j \in 0..Len(q), NEW k \in j..Len(q)
  PROVE  Ends(q)[j] <= Ends(q)[k]
<1> DEFINE n == Len(q)
           K == {m \in 0..(n - j) : Ends(q)[j] <= Ends(q)[j + m]}
<1>1. n \in Nat /\ n - j \in Nat
  OBVIOUS
<1>2. 0 \in K
  <2>1. Ends(q)[j] \in Nat /\ j + 0 = j
    BY EndSteps
  <2> QED
    BY <1>1, <2>1
<1>3. ASSUME NEW m \in 1..(n - j), m - 1 \in K PROVE m \in K
  <2>1. j + m \in 1..n /\ j + (m - 1) = (j + m) - 1
    BY <1>1
  <2>2. /\ Ends(q)[j + m] = Ends(q)[j + m - 1] + Size(q[j + m])
        /\ Ends(q)[j + m - 1] \in Nat /\ Ends(q)[j] \in Nat /\ q[j + m] \in Frame
    BY <2>1, EndSteps
  <2>3. Size(q[j + m]) \in Nat
    BY <2>2, PartType
  <2>4. Ends(q)[j] <= Ends(q)[j + m - 1]
    BY <1>3, <2>1
  <2>5. Ends(q)[j] <= Ends(q)[j + m]
    BY <2>2, <2>3, <2>4
  <2> QED
    BY <1>1, <2>5
<1> HIDE DEF K
<1>4. \A m \in 0..(n - j) : m \in K
  BY <1>1, <1>2, <1>3, NaturalSteps
<1>5. k - j \in 0..(n - j) /\ j + (k - j) = k
  OBVIOUS
<1> QED
  BY <1>4, <1>5 DEF K

\* The bytes of a frame in the stream are its own.
LEMMA BytesOfFrame ==
  ASSUME NEW q \in Seq(Frame), NEW k \in 1..Len(q), NEW i \in 1..Size(q[k])
  PROVE  Joined(q)[Ends(q)[k - 1] + i] = Part(q[k])[i]
<1> DEFINE P(m) == Joined(SubSeq(q, 1, m))
           n == Len(q)
           at == Ends(q)[k - 1] + i
           K == {m \in 0..(n - k) : P(k + m)[at] = Part(q[k])[i]}
<1>1. n \in Nat /\ n - k \in Nat /\ k - 1 \in 0..n /\ k \in 0..n /\ q[k] \in Frame
  OBVIOUS
<1>2. \A m \in 0..n : P(m) \in Seq(Bytes) /\ Ends(q)[m] = Len(P(m)) /\ Ends(q)[m] \in Nat
  <2> SUFFICES ASSUME NEW m \in 0..n
               PROVE  P(m) \in Seq(Bytes) /\ Ends(q)[m] = Len(P(m)) /\ Ends(q)[m] \in Nat
    OBVIOUS
  <2>1. SubSeq(q, 1, m) \in Seq(Frame)
    OBVIOUS
  <2>2. Ends(q)[m] = Len(P(m))
    BY DEF Ends
  <2>3. P(m) \in Seq(Bytes)
    BY <2>1, JoinFolds
  <2>4. Ends(q)[m] \in Nat
    BY EndSteps
  <2> QED
    BY <2>2, <2>3, <2>4
<1>3. P(n) = Joined(q) /\ \A m \in 1..n : P(m) = P(m - 1) \o Part(q[m])
  BY JoinedSteps
<1>4. \A m \in 1..n : /\ Part(q[m]) \in Seq(Bytes) /\ Len(Part(q[m])) = Size(q[m])
                      /\ Ends(q)[m] = Ends(q)[m - 1] + Size(q[m])
  BY PartType, EndSteps, SMTT(40)
<1>5. Size(q[k]) \in Nat /\ Ends(q)[k - 1] \in Nat /\ at \in 1..Ends(q)[k]
  <2>1. Size(q[k]) \in Nat
    BY <1>1, PartType
  <2>2. Ends(q)[k - 1] \in Nat /\ Ends(q)[k] = Ends(q)[k - 1] + Size(q[k])
    BY <1>1, EndSteps
  <2> QED
    BY <2>1, <2>2
<1> HIDE DEF P
<1>6. 0 \in K
  <2>1. P(k) = P(k - 1) \o Part(q[k]) /\ P(k - 1) \in Seq(Bytes) /\ Part(q[k]) \in Seq(Bytes)
        /\ Len(P(k - 1)) = Ends(q)[k - 1] /\ Len(Part(q[k])) = Size(q[k])
    BY <1>1, <1>2, <1>3, <1>4
  <2>2. (P(k - 1) \o Part(q[k]))[Len(P(k - 1)) + i] = Part(q[k])[i]
    BY <2>1, Concatenation
  <2>3. at = Len(P(k - 1)) + i
    BY <2>1, Zenon
  <2> HIDE DEF at
  <2>4. P(k)[at] = Part(q[k])[i]
    BY <2>1, <2>2, <2>3, Zenon
  <2>5. k + 0 = k
    OBVIOUS
  <2> QED
    BY <1>1, <2>4, <2>5
<1>7. ASSUME NEW m \in 1..(n - k), m - 1 \in K PROVE m \in K
  <2>1. k + m \in 1..n /\ k + (m - 1) = (k + m) - 1 /\ (k + m) - 1 \in k..n /\ (k + m) - 1 \in 0..n
    BY <1>1
  <2>2. P(k + m) = P(k + m - 1) \o Part(q[k + m]) /\ P(k + m - 1) \in Seq(Bytes)
        /\ Part(q[k + m]) \in Seq(Bytes) /\ Ends(q)[k + m - 1] = Len(P(k + m - 1))
    BY <1>2, <1>3, <1>4, <2>1
  <2>3. Ends(q)[k] <= Ends(q)[k + m - 1]
    BY <1>1, <2>1, EndsGrow
  <2>4. at \in 1..Len(P(k + m - 1))
    <3>1. Ends(q)[k] \in Nat /\ Ends(q)[k + m - 1] \in Nat
      BY <1>1, <1>2, <2>1
    <3> HIDE DEF at
    <3> QED
      BY <1>5, <2>2, <2>3, <3>1
  <2>5. P(k + m - 1)[at] = Part(q[k])[i]
    BY <1>7, <2>1
  <2>6. P(k + m)[at] = P(k + m - 1)[at]
    <3> HIDE DEF at
    <3> QED
      BY <2>2, <2>4
  <2> QED
    BY <1>1, <2>5, <2>6
<1> HIDE DEF K
<1>8. \A m \in 0..(n - k) : m \in K
  BY <1>1, <1>6, <1>7, NaturalSteps
<1>9. n - k \in 0..(n - k) /\ k + (n - k) = n
  BY <1>1
<1> QED
  BY <1>3, <1>8, <1>9 DEF K

\* Every byte is in a frame.
LEMMA FrameOfByte ==
  ASSUME NEW q \in Seq(Frame), NEW i \in 1..Len(Joined(q))
  PROVE  \E k \in 1..Len(q) : Ends(q)[k - 1] < i /\ i <= Ends(q)[k]
<1> DEFINE n == Len(q)
           K == {m \in 0..n : i <= Ends(q)[m] =>
                                \E k \in 1..n : Ends(q)[k - 1] < i /\ i <= Ends(q)[k]}
<1>1. n \in Nat /\ Ends(q)[0] = 0 /\ Ends(q)[n] = Len(Joined(q)) /\ i \in Nat /\ i > 0
  BY EndSteps
<1>2. 0 \in K
  BY <1>1
<1>3. ASSUME NEW m \in 1..n, m - 1 \in K PROVE m \in K
  <2>1. Ends(q)[m - 1] \in Nat /\ Ends(q)[m] \in Nat
    BY EndSteps
  <2>2. CASE i <= Ends(q)[m - 1]
    BY <1>3, <2>2
  <2>3. CASE Ends(q)[m - 1] < i
    BY <2>3
  <2> QED
    BY <1>1, <2>1, <2>2, <2>3
<1> HIDE DEF K
<1>4. \A m \in 0..n : m \in K
  BY <1>1, <1>2, <1>3, NaturalSteps
<1>5. n \in K /\ i <= Ends(q)[n]
  BY <1>1, <1>4
<1> QED
  BY <1>5 DEF K

LEMMA StreamType ==
  ASSUME NEW q \in Streams
  PROVE  /\ q \in Seq(Frame) /\ DOMAIN q = 1..Len(q) /\ Len(q) \in Nat
         /\ \A k \in 1..Len(q) : /\ q[k] \in Frame /\ IsPicture(q[k].jpeg)
                                 /\ q[k].head \in Nat /\ q[k].given \in BOOLEAN
                                 /\ q[k].jpeg \in Seq(Bytes)
                                 /\ Len(q[k].jpeg) \in Nat /\ Len(q[k].jpeg) >= 4
<1>1. q \in Seq(Frame) /\ \A k \in DOMAIN q : IsPicture(q[k].jpeg)
  BY FramesAssumption
<1>2. \A k \in 1..Len(q) : q[k] \in Frame
  BY <1>1
<1>3. \A f \in Frame : f.head \in Nat /\ f.given \in BOOLEAN /\ f.jpeg \in Seq(Bytes)
                       /\ Len(f.jpeg) \in Nat
  BY DEF Frame
<1>4. \A k \in 1..Len(q) : Len(q[k].jpeg) >= 4
  BY <1>1 DEF IsPicture
<1> QED
  BY <1>1, <1>2, <1>3, <1>4

LEMMA BeginType ==
  ASSUME NEW q \in Streams, NEW k \in 1..Len(q)
  PROVE  /\ Begin(q, k) \in Nat /\ Ends(q)[k - 1] \in Nat /\ Ends(q)[k] \in Nat
         /\ Begin(q, k) = Ends(q)[k - 1] + q[k].head /\ q[k].head \in Nat
         /\ Ends(q)[k] = Begin(q, k) + Len(q[k].jpeg) /\ Len(q[k].jpeg) \in Nat
         /\ Len(q[k].jpeg) >= 4
         /\ Ends(q)[k] = Ends(q)[k - 1] + Size(q[k]) /\ Size(q[k]) = q[k].head + Len(q[k].jpeg)
         /\ Ends(q)[k] <= Len(Joined(q)) /\ Len(Joined(q)) \in Nat
         /\ Ends(q)[Len(q)] = Len(Joined(q)) /\ Ends(q)[0] = 0
<1>1. /\ Ends(q)[k - 1] \in Nat /\ Ends(q)[k] \in Nat
      /\ Ends(q)[k] = Ends(q)[k - 1] + Size(q[k])
      /\ Ends(q)[Len(q)] = Len(Joined(q)) /\ Ends(q)[0] = 0
  BY StreamType, EndSteps
<1>2. q[k].head \in Nat /\ Len(q[k].jpeg) \in Nat /\ Len(q[k].jpeg) >= 4
  BY StreamType
<1>3. Size(q[k]) = q[k].head + Len(q[k].jpeg) /\ Begin(q, k) = Ends(q)[k - 1] + q[k].head
  BY DEF Size, Begin
<1>4. Ends(q)[k] <= Ends(q)[Len(q)]
  <2>1. q \in Seq(Frame) /\ k \in 0..Len(q) /\ Len(q) \in k..Len(q)
    BY StreamType
  <2> QED
    BY <2>1, EndsGrow
<1>5. Len(Joined(q)) \in Nat
  BY StreamType, EndSteps
<1> QED
  BY <1>1, <1>2, <1>3, <1>4, <1>5, SMTT(40)

\* The frames before k end before its header, those behind it begin behind it.
LEMMA FramesApart ==
  ASSUME NEW q \in Streams, NEW j \in 1..Len(q), NEW k \in 1..Len(q), j < k
  PROVE  Ends(q)[j] <= Ends(q)[k - 1] /\ Ends(q)[j] <= Begin(q, k) /\ Begin(q, j) < Begin(q, k)
<1>1. q \in Seq(Frame) /\ j \in 0..Len(q) /\ k - 1 \in j..Len(q)
  BY StreamType
<1>2. Ends(q)[j] <= Ends(q)[k - 1]
  BY <1>1, EndsGrow
<1>3. /\ Ends(q)[j] \in Nat /\ Begin(q, j) \in Nat /\ Ends(q)[j] >= Begin(q, j) + 4
      /\ Ends(q)[k - 1] \in Nat /\ Begin(q, k) \in Nat /\ Begin(q, k) >= Ends(q)[k - 1]
  <2>1. /\ Ends(q)[j] \in Nat /\ Begin(q, j) \in Nat /\ Len(q[j].jpeg) \in Nat
        /\ Len(q[j].jpeg) >= 4 /\ Ends(q)[j] = Begin(q, j) + Len(q[j].jpeg)
    BY BeginType
  <2>2. /\ Ends(q)[k - 1] \in Nat /\ Begin(q, k) = Ends(q)[k - 1] + q[k].head
        /\ q[k].head \in Nat /\ Begin(q, k) \in Nat
    BY BeginType
  <2>3. Ends(q)[j] >= Begin(q, j) + 4
    BY <2>1
  <2>4. Begin(q, k) >= Ends(q)[k - 1]
    BY <2>2
  <2> QED
    BY <2>1, <2>2, <2>3, <2>4
<1> QED
  BY <1>2, <1>3

LEMMA BytesOfPart ==
  ASSUME NEW q \in Streams, NEW k \in 1..Len(q)
  PROVE  /\ \A i \in 1..q[k].head : Joined(q)[Ends(q)[k - 1] + i] = "x"
         /\ \A i \in 1..Len(q[k].jpeg) : Joined(q)[Begin(q, k) + i] = q[k].jpeg[i]
<1> DEFINE f == q[k]
           h == [i \in 1..f.head |-> "x"]
<1>1. q \in Seq(Frame) /\ f.head \in Nat /\ f.jpeg \in Seq(Bytes) /\ Len(f.jpeg) \in Nat
  BY StreamType
<1>2. h \in Seq(Bytes) /\ Len(h) = f.head /\ \A i \in 1..f.head : h[i] = "x"
  BY <1>1 DEF Bytes
<1>3. Part(f) = h \o f.jpeg /\ Size(f) = f.head + Len(f.jpeg)
  BY DEF Part, Size
<1> HIDE DEF h
<1>4. /\ \A i \in 1..Len(h) : (h \o f.jpeg)[i] = h[i]
      /\ \A i \in 1..Len(f.jpeg) : (h \o f.jpeg)[Len(h) + i] = f.jpeg[i]
  <2> DEFINE j == f.jpeg
  <2>1. h \in Seq(Bytes) /\ j \in Seq(Bytes)
    BY <1>1, <1>2
  <2> HIDE DEF j
  <2>2. /\ \A i \in 1..Len(h) : (h \o j)[i] = h[i]
        /\ \A i \in 1..Len(j) : (h \o j)[Len(h) + i] = j[i]
    BY <2>1, Concatenation
  <2> QED
    BY <2>2 DEF j
<1>5. \A i \in 1..Size(f) : Joined(q)[Ends(q)[k - 1] + i] = Part(f)[i]
  BY <1>1, BytesOfFrame
<1>6. ASSUME NEW i \in 1..f.head PROVE Joined(q)[Ends(q)[k - 1] + i] = "x"
  <2>1. i \in 1..Size(f) /\ i \in 1..Len(h)
    BY <1>1, <1>2, <1>3
  <2> QED
    BY <1>2, <1>3, <1>4, <1>5, <2>1, Zenon
<1>7. ASSUME NEW i \in 1..Len(f.jpeg) PROVE Joined(q)[Begin(q, k) + i] = f.jpeg[i]
  <2>1. f.head + i \in 1..Size(f)
    BY <1>1, <1>3
  <2>2. Joined(q)[Ends(q)[k - 1] + (f.head + i)] = Part(f)[f.head + i]
    BY <1>5, <2>1
  <2>3. Ends(q)[k - 1] + (f.head + i) = Begin(q, k) + i
    <3>1. /\ Begin(q, k) = Ends(q)[k - 1] + f.head /\ Ends(q)[k - 1] \in Nat /\ f.head \in Nat
          /\ i \in Int
      BY <1>1, BeginType
    <3> QED
      BY <3>1
  <2>4. Part(f)[f.head + i] = f.jpeg[i]
    BY <1>2, <1>3, <1>4, Zenon
  <2> QED
    BY <2>2, <2>3, <2>4, Zenon
<1> QED
  BY <1>6, <1>7

\* The markers of a stream are where its pictures begin and end.
Pair(d, i, m) == d[i - 1] = m[1] /\ d[i] = m[2]

LEMMA StartMarks ==
  ASSUME NEW q \in Streams
  PROVE  /\ \A k \in 1..Len(q) : /\ Pair(Joined(q), Begin(q, k) + 2, SOI)
                                 /\ Begin(q, k) > 0 => Joined(q)[Begin(q, k)] # SOI[1]
         /\ \A i \in 2..Len(Joined(q)) :
              Pair(Joined(q), i, SOI) => \E k \in 1..Len(q) : i = Begin(q, k) + 2
<1> DEFINE D == Joined(q)
<1>1. ASSUME NEW k \in 1..Len(q)
      PROVE  Pair(D, Begin(q, k) + 2, SOI) /\ (Begin(q, k) > 0 => D[Begin(q, k)] # SOI[1])
  <2> DEFINE j == q[k].jpeg
             B == Begin(q, k)
  <2>1. B \in Nat /\ Len(j) \in Nat /\ Len(j) >= 4
    BY BeginType
  <2>2. D[B + 1] = j[1] /\ D[B + 2] = j[2]
    BY <2>1, BytesOfPart, SMTT(40)
  <2>3. j[1] = SOI[1] /\ j[2] = SOI[2]
    <3>1. IsPicture(j)
      BY StreamType
    <3>2. 1 \in 1..(Len(j) - 1) /\ 1 + 1 = 2
      BY <2>1
    <3> HIDE DEF j
    <3>3. j[1] = SOI[1] /\ j[1 + 1] = SOI[2]
      BY <3>1, <3>2 DEF IsPicture
    <3> QED
      BY <3>2, <3>3
  <2>4. Pair(D, B + 2, SOI)
    <3>1. (B + 2) - 1 = B + 1
      BY <2>1
    <3> QED
      BY <2>2, <2>3, <3>1, Zenon DEF Pair
  <2>5. ASSUME B > 0 PROVE D[B] # SOI[1]
    <3>1. CASE q[k].head > 0
      <4>1. Ends(q)[k - 1] + q[k].head = B /\ q[k].head \in 1..q[k].head
        BY <3>1, BeginType
      <4>2. D[B] = "x"
        BY <4>1, BytesOfPart
      <4> QED
        BY <4>2 DEF SOI
    <3>2. CASE q[k].head = 0
      <4>1. B = Ends(q)[k - 1]
        BY <3>2, BeginType
      <4>2. k # 1
        BY <2>5, <4>1, BeginType
      <4>3. k - 1 \in 1..Len(q)
        BY <4>2, StreamType
      <4> DEFINE p == q[k - 1].jpeg
      <4>4. /\ Len(p) \in Nat /\ Len(p) >= 4 /\ Begin(q, k - 1) + Len(p) = B
            /\ D[Begin(q, k - 1) + Len(p)] = p[Len(p)] /\ IsPicture(p)
        <5>1. Ends(q)[k - 1] = Begin(q, k - 1) + Len(p) /\ Len(p) \in Nat /\ Len(p) >= 4
          BY <4>3, BeginType
        <5>2. Len(p) \in 1..Len(p)
          BY <5>1
        <5>3. D[Begin(q, k - 1) + Len(p)] = p[Len(p)]
          BY <4>3, <5>2, BytesOfPart
        <5>4. IsPicture(p)
          BY <4>3, StreamType
        <5> QED
          BY <4>1, <5>1, <5>3, <5>4
      <4> HIDE DEF p
      <4>5. p[Len(p)] = EOI[2]
        <5>1. Len(p) - 1 \in 1..(Len(p) - 1) /\ (Len(p) - 1) + 1 = Len(p)
          BY <4>4
        <5> QED
          BY <4>4, <5>1 DEF IsPicture
      <4> QED
        BY <4>4, <4>5 DEF SOI, EOI
    <3> QED
      BY <3>1, <3>2, BeginType
  <2> QED
    BY <2>4, <2>5
<1>2. ASSUME NEW i \in 2..Len(D), Pair(D, i, SOI)
      PROVE  \E k \in 1..Len(q) : i = Begin(q, k) + 2
  <2>1. i \in 1..Len(D) /\ q \in Seq(Frame) /\ D[i - 1] = "FF" /\ D[i] = "D8"
    BY <1>2, StreamType DEF Pair, SOI
  <2>2. PICK k \in 1..Len(q) : Ends(q)[k - 1] < i /\ i <= Ends(q)[k]
    BY <2>1, FrameOfByte
  <2> DEFINE j == q[k].jpeg
             B == Begin(q, k)
  <2>3. /\ B \in Nat /\ Len(j) \in Nat /\ Len(j) >= 4 /\ Ends(q)[k] = B + Len(j)
        /\ B = Ends(q)[k - 1] + q[k].head /\ Ends(q)[k - 1] \in Nat /\ q[k].head \in Nat
    BY BeginType
  <2>4. ~(i <= B)
    <3>1. ASSUME i <= B PROVE D[i] = "x"
      <4>1. i - Ends(q)[k - 1] \in 1..q[k].head /\ Ends(q)[k - 1] + (i - Ends(q)[k - 1]) = i
        BY <2>2, <2>3, <3>1, SMTT(40)
      <4> QED
        BY <4>1, BytesOfPart
    <3> QED
      BY <2>1, <3>1
  <2>5. IsPicture(j) /\ \A n \in 1..Len(j) : D[B + n] = j[n]
    BY StreamType, BytesOfPart
  <2> DEFINE n == i - B
  <2>6. n \in 1..Len(j) /\ B + n = i /\ i - 1 = B + (n - 1)
    <3>1. i \in Int
      OBVIOUS
    <3> HIDE DEF B, j, D
    <3> QED
      BY <2>2, <2>3, <2>4, <3>1, SMTT(40)
  <2> HIDE DEF n, B, j, D
  <2>7. n # 1
    <3>1. 1 \in 1..(Len(j) - 1)
      BY <2>3
    <3>2. j[1] = "FF"
      BY <2>5, <3>1 DEF IsPicture, SOI
    <3> QED
      BY <2>1, <2>5, <2>6, <3>2
  <2>8. n - 1 \in 1..(Len(j) - 1) /\ (n - 1) + 1 = n /\ n - 1 \in 1..Len(j)
    BY <2>3, <2>6, <2>7
  <2>9. j[n - 1] = SOI[1] /\ j[(n - 1) + 1] = SOI[2]
    <3>1. D[B + (n - 1)] = j[n - 1] /\ D[B + n] = j[n]
      BY <2>5, <2>6, <2>8
    <3> QED
      BY <2>1, <2>6, <2>8, <3>1 DEF SOI
  <2>10. n - 1 = 1
    BY <2>5, <2>8, <2>9 DEF IsPicture
  <2>11. i = B + 2
    BY <2>3, <2>6, <2>10
  <2> QED
    BY <2>11 DEF B
<1> QED
  BY <1>1, <1>2

LEMMA EndMarks ==
  ASSUME NEW q \in Streams
  PROVE  /\ \A k \in 1..Len(q) :
              /\ Pair(Joined(q), Ends(q)[k], EOI)
              /\ q[k].jpeg[Len(q[k].jpeg) - 2] # "FF" => Joined(q)[Ends(q)[k] - 2] # EOI[1]
         /\ \A i \in 2..Len(Joined(q)) :
              Pair(Joined(q), i, EOI) => \E k \in 1..Len(q) : i = Ends(q)[k]
<1> DEFINE D == Joined(q)
<1>1. ASSUME NEW k \in 1..Len(q)
      PROVE  /\ Pair(D, Ends(q)[k], EOI)
             /\ q[k].jpeg[Len(q[k].jpeg) - 2] # "FF" => D[Ends(q)[k] - 2] # EOI[1]
  <2> DEFINE j == q[k].jpeg
             B == Begin(q, k)
             n == Len(j)
  <2>1. B \in Nat /\ n \in Nat /\ n >= 4 /\ Ends(q)[k] = B + n
    BY BeginType
  <2>2. IsPicture(j) /\ \A i \in 1..n : D[B + i] = j[i]
    BY StreamType, BytesOfPart
  <2> HIDE DEF B, D
  <2>3. /\ n \in 1..n /\ n - 1 \in 1..n /\ n - 2 \in 1..n /\ n - 1 \in 1..(n - 1)
        /\ (n - 1) + 1 = n
        /\ Ends(q)[k] - 1 = B + (n - 1) /\ Ends(q)[k] - 2 = B + (n - 2)
    BY <2>1
  <2>4. j[n - 1] = EOI[1] /\ j[n] = EOI[2]
    BY <2>2, <2>3 DEF IsPicture
  <2>5. D[B + n] = j[n] /\ D[B + (n - 1)] = j[n - 1] /\ D[B + (n - 2)] = j[n - 2]
    BY <2>2, <2>3
  <2>6. EOI[1] = "FF"
    BY DEF EOI
  <2>7. Pair(D, Ends(q)[k], EOI)
    BY <2>1, <2>3, <2>4, <2>5, Zenon DEF Pair
  <2>8. j[n - 2] # "FF" => D[Ends(q)[k] - 2] # EOI[1]
    BY <2>3, <2>5, <2>6
  <2> QED
    BY <2>7, <2>8 DEF D
<1>2. ASSUME NEW i \in 2..Len(D), Pair(D, i, EOI)
      PROVE  \E k \in 1..Len(q) : i = Ends(q)[k]
  <2>1. i \in 1..Len(D) /\ q \in Seq(Frame) /\ D[i - 1] = "FF" /\ D[i] = "D9"
    BY <1>2, StreamType DEF Pair, EOI
  <2>2. PICK k \in 1..Len(q) : Ends(q)[k - 1] < i /\ i <= Ends(q)[k]
    BY <2>1, FrameOfByte
  <2> DEFINE j == q[k].jpeg
             B == Begin(q, k)
  <2>3. /\ B \in Nat /\ Len(j) \in Nat /\ Len(j) >= 4 /\ Ends(q)[k] = B + Len(j)
        /\ B = Ends(q)[k - 1] + q[k].head /\ Ends(q)[k - 1] \in Nat /\ q[k].head \in Nat
    BY BeginType
  <2>4. ~(i <= B)
    <3>1. ASSUME i <= B PROVE D[i] = "x"
      <4>1. i - Ends(q)[k - 1] \in 1..q[k].head /\ Ends(q)[k - 1] + (i - Ends(q)[k - 1]) = i
        BY <2>2, <2>3, <3>1, SMTT(40)
      <4> QED
        BY <4>1, BytesOfPart
    <3> QED
      BY <2>1, <3>1
  <2>5. IsPicture(j) /\ \A n \in 1..Len(j) : D[B + n] = j[n]
    BY StreamType, BytesOfPart
  <2> DEFINE n == i - B
  <2>6. n \in 1..Len(j) /\ B + n = i /\ i - 1 = B + (n - 1)
    <3>1. i \in Int
      OBVIOUS
    <3> HIDE DEF B, j, D
    <3> QED
      BY <2>2, <2>3, <2>4, <3>1, SMTT(40)
  <2> HIDE DEF n, B, j, D
  <2>7. n # 1
    <3>1. 1 \in 1..(Len(j) - 1)
      BY <2>3
    <3>2. j[1] = "FF"
      BY <2>5, <3>1 DEF IsPicture, SOI
    <3> QED
      BY <2>1, <2>5, <2>6, <3>2
  <2>8. n - 1 \in 1..(Len(j) - 1) /\ (n - 1) + 1 = n /\ n - 1 \in 1..Len(j)
    BY <2>3, <2>6, <2>7
  <2>9. j[n - 1] = EOI[1] /\ j[(n - 1) + 1] = EOI[2]
    <3>1. D[B + (n - 1)] = j[n - 1] /\ D[B + n] = j[n]
      BY <2>5, <2>6, <2>8
    <3> QED
      BY <2>1, <2>6, <2>8, <3>1 DEF EOI
  <2>10. n - 1 = Len(j) - 1
    BY <2>5, <2>8, <2>9 DEF IsPicture
  <2>11. i = Ends(q)[k]
    BY <2>3, <2>6, <2>10
  <2> QED
    BY <2>11
<1> QED
  BY <1>1, <1>2

-----------------------------------------------------------------------------
(* What a search finds.                                                    *)

\* Bytes from which picture k of q can be decoded.
HoldsIn(q, bytes, k) == bytes.from = Begin(q, k) /\ bytes.to >= Ends(q)[k]

LEMMA InStream ==
  ASSUME stream \in Streams
  PROVE  /\ Data = Joined(stream) /\ DOMAIN stream = 1..Len(stream)
         /\ \A k \in 1..Len(stream) :
              /\ Start(k) = Begin(stream, k)
              /\ Start(k) + Len(stream[k].jpeg) = Ends(stream)[k]
<1>1. DOMAIN stream = 1..Len(stream) /\ Len(stream) \in Nat
  BY StreamType
<1>2. ASSUME NEW k \in 1..Len(stream)
      PROVE  Start(k) = Begin(stream, k) /\ Start(k) + Len(stream[k].jpeg) = Ends(stream)[k]
  <2>1. k - 1 \in 0..Len(stream)
    BY <1>1
  <2>2. Start(k) = Begin(stream, k)
    BY <2>1 DEF Start, Begin, Ends
  <2> QED
    BY <2>2, BeginType
<1> QED
  BY <1>1, <1>2 DEF Data

\* A marker is found where it stands in the stream, and the byte before it is
\* behind the start of the search; it is missed only behind its own first byte.
LEMMA CompletesPair ==
  ASSUME NEW d, NEW from \in Nat, NEW m, NEW i \in Nat, Completes(d, from, m, i)
  PROVE  i >= from + 2 /\ Pair(d, i, m)
<1>1. PICK run \in 1..(i - from - 1) : \A j \in (i - run)..(i - 1) : d[j] = m[1]
  BY DEF Completes
<1>2. i - 1 \in (i - run)..(i - 1) /\ i >= from + 2
  BY <1>1
<1>3. d[i - 1] = m[1] /\ d[i] = m[2]
  BY <1>1, <1>2 DEF Completes
<1> QED
  BY <1>2, <1>3 DEF Pair

LEMMA PairCompletes ==
  ASSUME NEW d, NEW from \in Nat, NEW m, NEW i \in Nat, i >= from + 2, Pair(d, i, m),
         i - 2 > from => d[i - 2] # m[1]
  PROVE  Completes(d, from, m, i)
<1>1. 1 \in 1..(i - from - 1) /\ 1 % 2 = 1
  OBVIOUS
<1>2. \A j \in (i - 1)..(i - 1) : d[j] = m[1]
  BY DEF Pair
<1>3. i - 1 - 1 > from => d[i - 1 - 1] # m[1]
  <2>1. i - 1 - 1 = i - 2
    OBVIOUS
  <2> QED
    BY <2>1
<1>4. d[i] = m[2]
  BY DEF Pair
<1> QED
  BY <1>1, <1>2, <1>3, <1>4 DEF Completes

\* How far a search may look.
Sight(q, from, max) == IF from + max < Len(Joined(q)) THEN from + max ELSE Len(Joined(q))

LEMMA SearchFinds ==
  ASSUME stream \in Streams, NEW from \in Nat, NEW m, NEW max \in Nat
  PROVE  LET s == Search(from, m, max)
             w == Sight(stream, from, max)
         IN  /\ w \in Nat /\ w <= from + max /\ w <= Len(Joined(stream))
             /\ s.found => /\ s.at \in (from + 1)..w
                           /\ Completes(Joined(stream), from, m, s.at)
                           /\ \A i \in (from + 1)..w :
                                Completes(Joined(stream), from, m, i) => s.at <= i
             /\ ~s.found => /\ s.at = w
                            /\ \A i \in (from + 1)..w : ~Completes(Joined(stream), from, m, i)
             /\ s.dry <=> ~s.found /\ from + max > Len(Joined(stream))
<1> DEFINE D == Joined(stream)
           N == Len(D)
           w == Sight(stream, from, max)
           hits == {i \in from + 1 .. Min({from + max, N}) : Completes(D, from, m, i)}
           s == Search(from, m, max)
<1>1. N \in Nat
  BY StreamType, JoinFolds
<1>2. Min({from + max, N}) = w
  <2> DEFINE two == {from + max, N}
  <2>1. IsFiniteSet(two) /\ two \subseteq Int /\ two # {} /\ two \in SUBSET two
    <3>1. IsFiniteSet({from + max})
      BY FS_Singleton
    <3>2. IsFiniteSet({from + max} \cup {N})
      BY <3>1, FS_AddElement
    <3>3. {from + max} \cup {N} = two
      OBVIOUS
    <3>4. IsFiniteSet(two)
      BY <3>2, <3>3, Zenon
    <3> QED
      BY <1>1, <3>4
  <2> HIDE DEF two
  <2>2. Min(two) \in two /\ \A y \in two : Min(two) <= y
    BY <2>1, MinMember
  <2> USE DEF two
  <2>3. Min(two) \in {from + max, N} /\ Min(two) <= from + max /\ Min(two) <= N
    BY <2>2
  <2> DEFINE x == Min(two)
  <2>4. x = from + max \/ x = N
    BY <2>3
  <2> HIDE DEF x
  <2>5. x <= from + max /\ x <= N
    BY <2>3 DEF x
  <2>6. x = IF from + max < N THEN from + max ELSE N
    BY <1>1, <2>4, <2>5
  <2> QED
    BY <2>6 DEF x, Sight
<1>3. w \in Nat /\ w <= from + max /\ w <= N
  BY <1>1 DEF Sight
<1>4. /\ s.found = (hits # {})
      /\ s.at = IF hits # {} THEN Min(hits) ELSE Min({from + max, N})
      /\ s.dry = (hits = {} /\ from + max > N)
  BY InStream, Zenon DEF Search
<1> HIDE DEF D, N, w, s
<1>5. hits = {i \in (from + 1)..w : Completes(D, from, m, i)}
  BY <1>2
<1> HIDE DEF hits
<1>6. ASSUME hits # {}
      PROVE  Min(hits) \in hits /\ \A i \in hits : Min(hits) <= i
  <2>1. IsFiniteSet((from + 1)..w)
    BY <1>3, FS_Interval
  <2>2. hits \subseteq (from + 1)..w
    BY <1>5
  <2>3. IsFiniteSet(hits) /\ hits \subseteq Int /\ hits \in SUBSET hits
    <3>1. hits \in SUBSET ((from + 1)..w)
      BY <2>2
    <3>2. IsFiniteSet(hits)
      BY <2>1, <3>1, FS_Subset
    <3> QED
      BY <2>2, <3>2
  <2> QED
    BY <1>6, <2>3, MinMember
<1>7. s.found => hits # {} /\ s.at = Min(hits)
  BY <1>4
<1>8. ~s.found => hits = {} /\ s.at = w
  BY <1>2, <1>4
<1>9. s.dry <=> ~s.found /\ from + max > N
  BY <1>4
<1> QED
  BY <1>3, <1>5, <1>6, <1>7, <1>8, <1>9 DEF D, N, w, s

\* The search for a picture finds the first one that begins behind its start.
LEMMA FindsPicture ==
  ASSUME stream \in Streams, NEW from \in Nat, NEW max \in Nat
  PROVE  LET s == Search(from, SOI, max)
             w == Sight(stream, from, max)
         IN  /\ w \in Nat /\ w <= from + max /\ w <= Len(Joined(stream))
             /\ s.found => \E k \in 1..Len(stream) :
                  /\ s.at = Begin(stream, k) + 2 /\ Begin(stream, k) >= from
                  /\ Begin(stream, k) + 2 <= w
                  /\ \A j \in 1..Len(stream) :
                       Begin(stream, j) >= from => Begin(stream, k) <= Begin(stream, j)
             /\ ~s.found => \A k \in 1..Len(stream) :
                  Begin(stream, k) >= from => Begin(stream, k) + 2 > w
             /\ s.dry <=> ~s.found /\ from + max > Len(Joined(stream))
<1> DEFINE s == Search(from, SOI, max)
           w == Sight(stream, from, max)
           D == Joined(stream)
           n == Len(stream)
           B(k) == Begin(stream, k)
<1>1. /\ w \in Nat /\ w <= from + max /\ w <= Len(D)
      /\ s.found => /\ s.at \in (from + 1)..w
                    /\ Completes(D, from, SOI, s.at)
                    /\ \A i \in (from + 1)..w : Completes(D, from, SOI, i) => s.at <= i
      /\ ~s.found => s.at = w /\ \A i \in (from + 1)..w : ~Completes(D, from, SOI, i)
      /\ s.dry <=> ~s.found /\ from + max > Len(D)
  BY SearchFinds
<1> HIDE DEF s, w
<1>2. ASSUME NEW k \in 1..n, B(k) >= from, B(k) + 2 <= w
      PROVE  B(k) + 2 \in (from + 1)..w /\ Completes(D, from, SOI, B(k) + 2)
  <2>1. B(k) \in Nat
    BY BeginType
  <2>2. Pair(D, B(k) + 2, SOI) /\ (B(k) > 0 => D[B(k)] # SOI[1])
    BY StartMarks
  <2>3. B(k) + 2 \in Nat /\ B(k) + 2 >= from + 2 /\ (B(k) + 2) - 2 = B(k)
        /\ B(k) + 2 \in (from + 1)..w
    BY <1>1, <1>2, <2>1
  <2> HIDE DEF D, B
  <2>4. (B(k) + 2) - 2 > from => D[(B(k) + 2) - 2] # SOI[1]
    BY <2>1, <2>2, <2>3
  <2> QED
    BY <2>2, <2>3, <2>4, PairCompletes
<1>3. ASSUME s.found
      PROVE  \E k \in 1..n : /\ s.at = B(k) + 2 /\ B(k) >= from /\ B(k) + 2 <= w
                             /\ \A j \in 1..n : B(j) >= from => B(k) <= B(j)
  <2>1. s.at \in Nat /\ s.at > from /\ s.at <= w /\ s.at <= Len(D)
    <3>1. Len(D) \in Nat
      BY StreamType, JoinFolds
    <3> HIDE DEF D
    <3> QED
      BY <1>1, <1>3, <3>1
  <2>2. s.at >= from + 2 /\ Pair(D, s.at, SOI)
    BY <1>1, <1>3, <2>1, CompletesPair
  <2>3. s.at \in 2..Len(D)
    <3> HIDE DEF D
    <3>1. Len(D) \in Nat
      BY StreamType, JoinFolds DEF D
    <3> QED
      BY <2>1, <2>2, <3>1
  <2>4. PICK k \in 1..n : s.at = B(k) + 2
    BY <2>2, <2>3, StartMarks
  <2>5. B(k) \in Nat /\ \A j \in 1..n : B(j) \in Nat
    BY BeginType
  <2>6. B(k) >= from /\ B(k) + 2 <= w
    <3> HIDE DEF B, D
    <3> QED
      BY <2>1, <2>2, <2>4, <2>5
  <2>7. ASSUME NEW j \in 1..n, B(j) >= from PROVE B(k) <= B(j)
    <3>1. CASE B(j) + 2 <= w
      <4>1. s.at <= B(j) + 2
        BY <1>1, <1>2, <1>3, <2>7, <3>1
      <4> HIDE DEF B
      <4> QED
        BY <2>4, <2>5, <4>1
    <3>2. CASE ~(B(j) + 2 <= w)
      <4> HIDE DEF B
      <4> QED
        BY <1>1, <2>5, <2>6, <3>2
    <3> QED
      BY <3>1, <3>2
  <2> QED
    BY <2>4, <2>6, <2>7
<1>4. ASSUME ~s.found, NEW k \in 1..n, B(k) >= from PROVE B(k) + 2 > w
  <2>1. ~(B(k) + 2 <= w)
    BY <1>1, <1>2, <1>4
  <2>2. B(k) \in Nat
    BY BeginType
  <2> HIDE DEF B
  <2> QED
    BY <1>1, <2>1, <2>2
<1> QED
  BY <1>1, <1>3, <1>4 DEF s, w

\* The search for the end finds the end of a picture; the first one that is far
\* enough behind its start, if no fill byte precedes it.
LEMMA FindsEnd ==
  ASSUME stream \in Streams, NEW from \in Nat, NEW max \in Nat
  PROVE  LET s == Search(from, EOI, max)
             w == Sight(stream, from, max)
         IN  /\ w \in Nat /\ w <= from + max /\ w <= Len(Joined(stream))
             /\ s.found => \E k \in 1..Len(stream) :
                  s.at = Ends(stream)[k] /\ s.at >= from + 2 /\ s.at <= w
             /\ ~s.found => s.at = w
             /\ s.dry <=> ~s.found /\ from + max > Len(Joined(stream))
             /\ \A k \in 1..Len(stream) :
                  /\ stream[k].jpeg[Len(stream[k].jpeg) - 2] # "FF"
                  /\ Ends(stream)[k] >= from + 2 /\ Ends(stream)[k] <= w
                  => s.found /\ s.at <= Ends(stream)[k]
<1> DEFINE s == Search(from, EOI, max)
           w == Sight(stream, from, max)
           D == Joined(stream)
           n == Len(stream)
           E(k) == Ends(stream)[k]
<1>1. /\ w \in Nat /\ w <= from + max /\ w <= Len(D)
      /\ s.found => /\ s.at \in (from + 1)..w
                    /\ Completes(D, from, EOI, s.at)
                    /\ \A i \in (from + 1)..w : Completes(D, from, EOI, i) => s.at <= i
      /\ ~s.found => s.at = w /\ \A i \in (from + 1)..w : ~Completes(D, from, EOI, i)
      /\ s.dry <=> ~s.found /\ from + max > Len(D)
  BY SearchFinds
<1> HIDE DEF s, w
<1>2. ASSUME NEW k \in 1..n, stream[k].jpeg[Len(stream[k].jpeg) - 2] # "FF",
             E(k) >= from + 2, E(k) <= w
      PROVE  s.found /\ s.at <= E(k)
  <2>1. E(k) \in Nat
    BY BeginType
  <2>2. Pair(D, E(k), EOI) /\ D[E(k) - 2] # EOI[1]
    BY <1>2, EndMarks
  <2> HIDE DEF D, E
  <2>3. Completes(D, from, EOI, E(k))
    BY <1>2, <2>1, <2>2, PairCompletes
  <2>4. E(k) \in (from + 1)..w
    BY <1>1, <1>2, <2>1
  <2> QED
    BY <1>1, <2>3, <2>4
<1>3. ASSUME s.found
      PROVE  \E k \in 1..n : s.at = E(k) /\ s.at >= from + 2 /\ s.at <= w
  <2>0. Len(D) \in Nat
    BY StreamType, JoinFolds
  <2>1. s.at \in Nat /\ s.at > from /\ s.at <= w /\ s.at <= Len(D)
    <3> HIDE DEF D
    <3> QED
      BY <1>1, <1>3, <2>0
  <2>2. s.at >= from + 2 /\ Pair(D, s.at, EOI)
    BY <1>1, <1>3, <2>1, CompletesPair
  <2>3. s.at \in 2..Len(D)
    <3> HIDE DEF D
    <3> QED
      BY <2>0, <2>1, <2>2
  <2>4. PICK k \in 1..n : s.at = E(k)
    BY <2>2, <2>3, EndMarks
  <2> QED
    BY <2>1, <2>2, <2>4
<1> QED
  BY <1>1, <1>2, <1>3 DEF s, w

-----------------------------------------------------------------------------
(* The invariant.                                                          *)

AllGiven == \A k \in DOMAIN stream : stream[k].given
Even ==
  \A k \in DOMAIN stream :
    /\ stream[k].head = stream[1].head
    /\ stream[k].jpeg[Len(stream[k].jpeg) - 2] # "FF"

Inside(q, p, k) == Begin(q, k) < p /\ p < Ends(q)[k]

\* Where byte p is inside a picture, the search that has failed, with the length
\* l to go by, reads beyond what reset() can undo.
Far(q, p, l) ==
  \A k \in 1..Len(q) : Inside(q, p, k) => q[k].head + (3 * l) \div 2 - 1 > Limit

Types ==
  /\ stream \in Streams /\ pos \in 0..Len(Joined(stream)) /\ last \in Nat
  /\ rgb \in BOOLEAN /\ sized \in BOOLEAN /\ decoded \in BOOLEAN

Placed ==
  /\ AllGiven => \E k \in 0..Len(stream) : pos = Ends(stream)[k]
  /\ Even => Far(stream, pos, last)

Sizes == loop # "cut off" => (sized <=> decoded)

\* The position behind picture k, or behind the header that follows it.
Behind(q, p, k) == p \in {Ends(q)[k], Begin(q, k + 1)}

\* What the decoder was given last is picture k, and where the reader is then.
Follows(q, p, l, h, k) ==
  /\ Behind(q, p, k)
  /\ IF k = 0 THEN h = Nothing /\ l = 0 ELSE HoldsIn(q, h, k) /\ l <= Size(q[k])

InTurn ==
  Regular /\ Fits /\ Steady =>
    \/ pos = Len(Joined(stream))
    \/ \E k \in 0..(Len(stream) - 1) : Follows(stream, pos, last, handed, k)

IInv == Types /\ Placed /\ Sizes /\ WholeFrames /\ EndsExplained /\ InTurn

-----------------------------------------------------------------------------
(* Where a turn leaves the reader.                                         *)

LEMMA Halves ==
  ASSUME NEW l \in Nat
  PROVE  /\ l \div 2 \in Nat /\ (3 * l) \div 2 \in Nat /\ l \div 2 <= (3 * l) \div 2
         /\ l \div 2 = 0 => (3 * l) \div 2 <= 1
         /\ (l \div 2) * 2 <= l
OBVIOUS

\* The end of a picture is inside no picture, nor is the end of the stream, nor
\* a place in the header behind it where headers are equally long.
LEMMA OutsideAtEnd ==
  ASSUME NEW q \in Streams, NEW j \in 0..Len(q), NEW k \in 1..Len(q)
  PROVE  /\ ~Inside(q, Ends(q)[j], k)
         /\ \A d \in 0..q[k].head : ~Inside(q, Ends(q)[j] + d, k)
<1>1. /\ Ends(q)[k] \in Nat /\ Begin(q, k) \in Nat /\ Begin(q, k) = Ends(q)[k - 1] + q[k].head
      /\ q[k].head \in Nat /\ Ends(q)[k - 1] \in Nat
  BY BeginType
<1>2. Ends(q)[j] \in Nat
  BY StreamType, EndSteps
<1>3. CASE k <= j
  <2>1. q \in Seq(Frame) /\ k \in 0..Len(q) /\ j \in k..Len(q)
    BY <1>3, StreamType
  <2>2. Ends(q)[k] <= Ends(q)[j]
    BY <2>1, EndsGrow
  <2> QED
    BY <1>1, <1>2, <2>2, SMTT(40) DEF Inside
<1>4. CASE j < k
  <2>1. q \in Seq(Frame) /\ k - 1 \in j..Len(q)
    BY <1>4, StreamType
  <2>2. Ends(q)[j] <= Ends(q)[k - 1]
    BY <2>1, EndsGrow
  <2> QED
    BY <1>1, <1>2, <2>2, SMTT(40) DEF Inside
<1> QED
  BY <1>3, <1>4

\* The first picture that begins at p or later: p is inside one before it, or in
\* its own header.
First(q, p, k) ==
  /\ k \in 1..Len(q) /\ Begin(q, k) >= p
  /\ \A j \in 1..Len(q) : Begin(q, j) >= p => Begin(q, k) <= Begin(q, j)

LEMMA FirstAfter ==
  ASSUME NEW q \in Streams, NEW p \in Nat, NEW k \in 1..Len(q), First(q, p, k)
  PROVE  \/ /\ Begin(q, k) - p <= q[k].head /\ Ends(q)[k - 1] <= p
            /\ \A j \in 1..Len(q) : ~Inside(q, p, j)
         \/ /\ Begin(q, k) - p > q[k].head
            /\ \E j \in 1..Len(q) : j < k /\ Inside(q, p, j)
<1>1. \A j \in 1..Len(q) :
        /\ Ends(q)[j] \in Nat /\ Begin(q, j) \in Nat /\ Begin(q, j) = Ends(q)[j - 1] + q[j].head
        /\ q[j].head \in Nat /\ Ends(q)[j - 1] \in Nat /\ Ends(q)[j] > Begin(q, j)
  <2> SUFFICES ASSUME NEW j \in 1..Len(q)
               PROVE  /\ Ends(q)[j] \in Nat /\ Begin(q, j) \in Nat
                      /\ Begin(q, j) = Ends(q)[j - 1] + q[j].head /\ q[j].head \in Nat
                      /\ Ends(q)[j - 1] \in Nat /\ Ends(q)[j] > Begin(q, j)
    OBVIOUS
  <2>1. /\ Ends(q)[j] \in Nat /\ Begin(q, j) \in Nat
        /\ Begin(q, j) = Ends(q)[j - 1] + q[j].head /\ q[j].head \in Nat
        /\ Ends(q)[j - 1] \in Nat /\ Len(q[j].jpeg) \in Nat /\ Len(q[j].jpeg) >= 4
        /\ Ends(q)[j] = Begin(q, j) + Len(q[j].jpeg)
    BY BeginType
  <2> QED
    BY <2>1
<1>2. CASE Ends(q)[k - 1] <= p
  <2>1. ASSUME NEW j \in 1..Len(q) PROVE ~Inside(q, p, j)
    <3>1. CASE j < k
      <4>1. Ends(q)[j] <= Ends(q)[k - 1]
        BY <3>1, FramesApart
      <4> QED
        BY <1>1, <1>2, <4>1 DEF Inside
    <3>2. CASE k <= j
      <4>1. Begin(q, k) <= Begin(q, j)
        <5>1. k < j => Begin(q, k) < Begin(q, j)
          BY FramesApart
        <5> QED
          BY <1>1, <3>2, <5>1
      <4> QED
        BY <1>1, <4>1 DEF Inside, First
    <3> QED
      BY <3>1, <3>2
  <2>2. Begin(q, k) - p <= q[k].head
    BY <1>1, <1>2
  <2> QED
    BY <1>2, <2>1, <2>2
<1>3. CASE Ends(q)[k - 1] > p
  <2>1. k # 1
    BY <1>3, BeginType
  <2>2. k - 1 \in 1..Len(q) /\ k - 1 < k
    BY <2>1, StreamType
  <2>3. Begin(q, k - 1) < Begin(q, k)
    BY <2>2, FramesApart
  <2>4. ~(Begin(q, k - 1) >= p)
    <3>1. Begin(q, k - 1) \in Nat /\ Begin(q, k) \in Nat
      BY <1>1, <2>2
    <3>2. Begin(q, k - 1) >= p => Begin(q, k) <= Begin(q, k - 1)
      BY <2>2 DEF First
    <3> QED
      BY <2>3, <3>1, <3>2
  <2>5. Inside(q, p, k - 1)
    BY <1>1, <1>3, <2>2, <2>4 DEF Inside
  <2>6. Begin(q, k) - p > q[k].head
    BY <1>1, <1>3, SMTT(40)
  <2> QED
    BY <2>2, <2>5, <2>6
<1> QED
  BY <1>1, <1>2, <1>3

\* An end of a picture behind byte p, at which picture k is the next to begin.
LEMMA EndsBehind ==
  ASSUME NEW q \in Streams, NEW p \in Nat, NEW k \in 1..Len(q), NEW j \in 1..Len(q),
         Ends(q)[k - 1] <= p, p < Ends(q)[j]
  PROVE  Ends(q)[k] <= Ends(q)[j]
<1>1. ~(j < k)
  <2>1. ASSUME j < k PROVE FALSE
    <3>1. Ends(q)[j] <= Ends(q)[k - 1]
      BY <2>1, FramesApart
    <3>2. Ends(q)[j] \in Nat /\ Ends(q)[k - 1] \in Nat
      BY BeginType
    <3> QED
      BY <3>1, <3>2
  <2> QED
    BY <2>1
<1>2. q \in Seq(Frame) /\ k \in 0..Len(q) /\ j \in k..Len(q)
  BY <1>1, StreamType
<1> QED
  BY <1>2, EndsGrow

LEMMA Window ==
  ASSUME NEW s \in Nat, NEW low \in Nat, NEW high \in Nat, low >= 1, low <= high
  PROVE  /\ s + low - 1 \in Nat /\ high - low \in Nat /\ s + low - 1 >= s
         /\ (s + low - 1) + (high - low) = s + high - 1
OBVIOUS

LEMMA Rest ==
  ASSUME NEW s \in Nat, NEW p \in Nat, NEW e \in Nat, NEW h \in Nat, NEW x \in Nat,
         p <= s, s - p <= h, s <= e, e <= x
  PROVE  /\ s - p \in 0..h /\ x - p \in Nat /\ s + (x - p) = x + (s - p)
         /\ s + (x - p) >= e
OBVIOUS

LEMMA BehindHeader ==
  ASSUME NEW e \in Nat, NEW h \in Nat, NEW p \in Nat, p <= e
  PROVE  (e + h) - p >= h
OBVIOUS

LEMMA HalfWay ==
  ASSUME NEW s \in Nat, NEW l \in Nat, NEW z \in Nat, z >= 4, l < 2 * z
  PROVE  LET low == l \div 2
             high == (3 * l) \div 2
             from == IF low = 0 THEN s ELSE s + low - 1
         IN  from \in Nat /\ high - low \in Nat /\ from >= s /\ s + z >= from + 2
<1> DEFINE low == l \div 2
           high == (3 * l) \div 2
           from == IF low = 0 THEN s ELSE s + low - 1
<1>1. low \in Nat /\ high \in Nat /\ low <= high /\ low * 2 <= l
  BY Halves
<1> HIDE DEF low, high
<1>2. low < z
  BY <1>1
<1>3. high - low \in Nat /\ from \in Nat /\ from >= s /\ s + z >= from + 2
  BY <1>1, <1>2
<1> QED
  BY <1>3 DEF low, high

LEMMA InSight ==
  ASSUME NEW e \in Nat, NEW h \in Nat, NEW z \in Nat, NEW p \in Nat, NEW x \in Nat,
         NEW limit \in Nat, z >= 4, e <= p, p <= e + h, h + z < limit, e + h + z <= x
  PROVE  /\ (e + h + z) - p <= limit /\ e + h + z >= p + 2
         /\ e + h + z <= IF p + limit < x THEN p + limit ELSE x
OBVIOUS

\* The picture that the reader finds.
Ahead(k) == First(stream, pos, k) /\ Begin(stream, k) + 2 <= pos + Limit

\* What Simplified answers where headers are equally long: a picture cut at its end
\* or behind it, a place from which the same search fails again, the end of a
\* picture that it was too late to find, or nothing, and then a frame is too long.
LEMMA SimplifiedCuts ==
  ASSUME Types, Even, Far(stream, pos, last), NEW k \in 1..Len(stream), Ahead(k)
  PROVE  LET c == Simplified(Begin(stream, k))
             to == Begin(stream, k) + c.length
         IN  \/ /\ c.is = "found" /\ c.length \in Nat /\ to >= Ends(stream)[k]
                /\ \A i \in 1..Len(stream) : ~Inside(stream, to, i)
             \/ c.is = "dropped" /\ c.at \in 0..Len(Joined(stream)) /\ Far(stream, c.at, last)
             \/ /\ c.is = "late" /\ c.length \in Nat
                /\ c.at \in 0..Len(Joined(stream)) /\ Far(stream, c.at, c.length)
             \/ c.is = "missing" /\ ~Fits
<1> DEFINE start == Begin(stream, k)
           n == Len(stream)
           N == Len(Joined(stream))
           E(j) == Ends(stream)[j]
           head == stream[k].head
           low == last \div 2
           high == (3 * last) \div 2
           from == IF low = 0 THEN start ELSE start + low - 1
           max == high - low
           end == Search(from, EOI, max)
           w == Sight(stream, from, max)
           c == Simplified(start)
<1>0. stream \in Streams /\ last \in Nat /\ pos \in 0..N /\ First(stream, pos, k)
      /\ start + 2 <= pos + Limit
  BY DEF Types, Ahead
<1>1. /\ start \in Nat /\ N \in Nat /\ head \in Nat /\ E(k - 1) \in Nat /\ E(k) \in Nat
      /\ start = E(k - 1) + head /\ E(k) = start + Len(stream[k].jpeg)
      /\ Len(stream[k].jpeg) \in Nat /\ Len(stream[k].jpeg) >= 4
      /\ E(k) <= N /\ E(n) = N
  BY <1>0, BeginType
<1>n. n \in Nat /\ n \in 0..n /\ \A j \in 1..n : E(j) \in Nat /\ j \in 0..n
  <2>1. n \in Nat
    BY <1>0, StreamType
  <2>2. ASSUME NEW j \in 1..n PROVE E(j) \in Nat /\ j \in 0..n
    <3>1. E(j) \in Nat
      BY <1>0, BeginType
    <3> QED
      BY <2>1, <3>1
  <2> QED
    BY <2>1, <2>2
<1>2. pos \in Nat /\ pos <= N /\ pos <= start /\ Limit \in Nat
  BY <1>0, <1>1, FramesAssumption DEF First
<1>3. /\ low \in Nat /\ high \in Nat /\ low <= high /\ (low = 0 => high <= 1)
  BY <1>0, Halves
<1>4. \A i \in 1..n : stream[i].head = head
  BY <1>0, StreamType DEF Even
<1>5. from \in Nat /\ max \in Nat /\ from >= start
      /\ from + max = IF low = 0 THEN start + high ELSE start + high - 1
  <2> HIDE DEF start, low, high
  <2>1. CASE low = 0
    <3>1. from = start /\ max = high
      BY <1>3, <2>1
    <3> QED
      BY <1>1, <1>3, <2>1, <3>1
  <2>2. CASE low # 0
    <3>1. from = start + low - 1 /\ low >= 1 /\ start \in Nat
      BY <1>1, <1>3, <2>2
    <3>2. /\ start + low - 1 \in Nat /\ high - low \in Nat /\ start + low - 1 >= start
          /\ (start + low - 1) + (high - low) = start + high - 1
      BY <1>3, <3>1, Window
    <3> HIDE DEF from
    <3> QED
      BY <2>2, <3>1, <3>2, Zenon
  <2> QED
    BY <2>1, <2>2
<1>6. /\ w \in Nat /\ w <= from + max /\ w <= N
      /\ end.found => \E j \in 1..n : end.at = E(j) /\ end.at >= from + 2 /\ end.at <= w
      /\ ~end.found => end.at = w
      /\ end.dry <=> ~end.found /\ from + max > N
  <2> HIDE DEF from, max
  <2> QED
    BY <1>0, <1>5, FindsEnd
<1>s. w = IF from + max < N THEN from + max ELSE N
  BY Zenon DEF Sight
<1>9. c = IF end.found /\ end.at - pos <= Limit THEN Found(end.at - start)
          ELSE IF end.found THEN Late(end.at, end.at - start)
          ELSE IF end.dry \/ end.at - pos > Limit THEN Dropped(end.at)
          ELSE FromMark
  BY DEF Simplified, low, high
<1>10. /\ \A at : Dropped(at).is = "dropped" /\ Dropped(at).at = at
       /\ \A at : Found(at).is = "found" /\ Found(at).length = at
       /\ \A at, l : Late(at, l).is = "late" /\ Late(at, l).at = at /\ Late(at, l).length = l
  BY DEF Dropped, Found, Late
<1>11. ASSUME NEW j \in 0..n, NEW l PROVE Far(stream, E(j), l)
  BY <1>0, <1>11, OutsideAtEnd DEF Far
<1>12. \/ start - pos <= head /\ E(k - 1) <= pos /\ \A j \in 1..n : ~Inside(stream, pos, j)
       \/ start - pos > head /\ \E j \in 1..n : Inside(stream, pos, j)
  BY <1>0, <1>2, FirstAfter
<1>13. start - pos > head => head + high - 1 > Limit
  <2>1. ASSUME start - pos > head PROVE head + high - 1 > Limit
    <3> HIDE DEF start, head, E
    <3>1. PICK j \in 1..n : Inside(stream, pos, j)
      <4>1. ~(start - pos <= head)
        BY <1>1, <1>2, <2>1
      <4> QED
        BY <1>12, <4>1, Zenon
    <3> USE DEF start, head
    <3>2. stream[j].head + high - 1 > Limit
      BY <3>1 DEF Far
    <3> QED
      BY <1>4, <3>2
  <2> QED
    BY <2>1
<1> HIDE DEF start, N, E, head, from, max, end, w, c, low, high
<1>7. ~end.dry /\ ~end.found => w = from + max
  <2>1. ~(from + max > N) => w = from + max
    BY <1>1, <1>5, <1>s
  <2> QED
    BY <1>6, <2>1
<1>8. end.dry => w = N
  <2>1. from + max > N => w = N
    BY <1>1, <1>5, <1>s
  <2> QED
    BY <1>6, <2>1
<1>14. CASE end.found
  <2>1. PICK j \in 1..n : end.at = E(j) /\ end.at >= from + 2 /\ end.at <= w
    BY <1>6, <1>14
  <2>2. E(j) \in Nat /\ j \in 0..n
    BY <1>n
  <2>3. E(j) >= start + 2
    BY <1>1, <1>5, <2>1, <2>2, SMTT(40)
  <2>4. E(j) - start \in Nat /\ start + (E(j) - start) = E(j)
    <3>1. start \in Nat
      BY <1>1
    <3> QED
      BY <2>2, <2>3, <3>1
  <2>5. CASE ~(end.at - pos <= Limit)
    <3>1. c = Late(end.at, end.at - start)
      BY <1>9, <1>14, <2>5
    <3>2. c.is = "late" /\ c.at = E(j) /\ c.length = E(j) - start
      BY <1>10, <2>1, <3>1
    <3>3. E(j) \in 0..N
      BY <1>1, <1>6, <2>1, <2>2
    <3>4. Far(stream, E(j), c.length)
      BY <1>11, <2>2
    <3> QED
      BY <2>4, <3>2, <3>3, <3>4 DEF c, N, start
  <2>6. CASE end.at - pos <= Limit
    <3>1. c = Found(end.at - start)
      BY <1>9, <1>14, <2>6
    <3>2. c.is = "found" /\ c.length = E(j) - start
      BY <1>10, <2>1, <3>1
    <3>3. E(k) <= E(j)
      <4>1. E(k - 1) <= start /\ start < E(j)
        BY <1>1, <2>2, <2>3, SMTT(40)
      <4> QED
        BY <1>1, <4>1, <1>0, EndsBehind DEF E
    <3>4. \A i \in 1..n : ~Inside(stream, E(j), i)
      BY <1>0, <2>2, OutsideAtEnd DEF E
    <3>5. c.length \in Nat /\ start + c.length = E(j)
      BY <2>4, <3>2
    <3>6. start + c.length >= E(k)
      BY <1>1, <2>2, <3>3, <3>5
    <3> QED
      BY <3>2, <3>4, <3>5, <3>6 DEF c, start, E
  <2> QED
    BY <2>5, <2>6
<1>15. CASE ~end.found /\ (end.dry \/ end.at - pos > Limit)
  <2>1. c.is = "dropped" /\ c.at = w
    BY <1>6, <1>9, <1>10, <1>15
  <2>2. w \in 0..N
    BY <1>1, <1>6
  <2>3. Far(stream, w, last)
    <3>1. CASE end.dry
      <4>1. w = E(n)
        BY <1>1, <1>8, <3>1
      <4> QED
        BY <1>n, <1>11, <4>1, ZenonT(40)
    <3>2. CASE ~end.dry
      <4>1. w - pos > Limit /\ w = from + max
        BY <1>6, <1>7, <1>15, <3>2
      <4>2. low # 0
        <5>1. ASSUME low = 0 PROVE FALSE
          <6>1. w = start + high /\ high <= 1
            BY <1>3, <1>5, <4>1, <5>1
          <6> QED
            <7>1. start \in Nat /\ w \in Nat /\ pos \in Nat /\ high \in Nat /\ Limit \in Nat
              BY <1>1, <1>2, <1>3, <1>6
            <7> QED
              BY <1>0, <4>1, <6>1, <7>1
        <5> QED
          BY <5>1
      <4>3. w = start + high - 1
        BY <1>5, <4>1, <4>2
      <4>4. head + high - 1 > Limit
        BY <1>1, <1>2, <1>3, <1>12, <1>13, <4>1, <4>3, SMTT(40)
      <4>5. \A i \in 1..n : stream[i].head + high - 1 > Limit
        BY <1>4, <4>4 DEF head
      <4> QED
        BY <4>5 DEF Far, high
    <3> QED
      BY <3>1, <3>2
  <2> QED
    BY <2>1, <2>2, <2>3 DEF c, N, start
<1>16. CASE ~end.found /\ ~end.dry /\ ~(end.at - pos > Limit)
  <2>1. c = FromMark
    BY <1>9, <1>16
  <2>2. start - pos <= head /\ E(k - 1) <= pos
    <3>1. ~(start - pos > head)
      <4>1. ASSUME start - pos > head PROVE FALSE
        <5>1. head + high - 1 > Limit
          BY <1>13, <4>1
        <5>2. end.at = from + max
          BY <1>6, <1>7, <1>16
        <5>3. from + max >= start + high - 1
          BY <1>1, <1>3, <1>5, SMTT(40)
        <5> QED
          BY <1>1, <1>2, <1>3, <1>5, <1>16, <4>1, <5>1, <5>2, <5>3, SMTT(40)
      <4> QED
        BY <4>1
    <3> QED
      BY <1>12, <3>1
  <2> DEFINE whole == Search(pos, EOI, Limit)
             v == Sight(stream, pos, Limit)
  <2>3. /\ v \in Nat /\ v <= pos + Limit /\ v <= N
        /\ whole.found => \E j \in 1..n : whole.at = E(j) /\ whole.at >= pos + 2 /\ whole.at <= v
        /\ ~whole.found => whole.at = v
        /\ whole.dry <=> ~whole.found /\ pos + Limit > N
        /\ E(k) >= pos + 2 /\ E(k) <= v => whole.found
    <3>1. stream[k].jpeg[Len(stream[k].jpeg) - 2] # "FF"
      BY <1>0, StreamType DEF Even
    <3> QED
      BY <1>0, <1>2, <3>1, FindsEnd DEF N, E
  <2>4. c = IF whole.found THEN Found(whole.at - pos)
            ELSE IF whole.dry THEN Dropped(whole.at) ELSE [is |-> "missing"]
    BY <2>1 DEF FromMark
  <2>5. v = IF pos + Limit < N THEN pos + Limit ELSE N
    BY DEF Sight, N
  <2> HIDE DEF whole, v
  <2>6. CASE whole.found
    <3>1. PICK j \in 1..n : whole.at = E(j) /\ whole.at >= pos + 2 /\ whole.at <= v
      BY <2>3, <2>6
    <3>2. E(j) \in Nat /\ j \in 0..n
      BY <1>n
    <3>3. c.is = "found" /\ c.length = E(j) - pos
      BY <1>10, <2>4, <2>6, <3>1
    <3>4. E(k) <= E(j)
      <4>1. pos < E(j)
        BY <1>2, <3>1, <3>2
      <4> QED
        BY <1>2, <2>2, <4>1, <1>0, EndsBehind DEF E
    <3>5. /\ c.length \in Nat /\ start + c.length = E(j) + (start - pos)
          /\ start - pos \in 0..head /\ start + c.length >= E(k)
      <4>1. start \in Nat /\ pos \in Nat /\ E(k) \in Nat /\ head \in Nat /\ start <= E(k)
            /\ pos <= start
        BY <1>1, <1>2, SMTT(40)
      <4>2. /\ start - pos \in 0..head /\ E(j) - pos \in Nat
            /\ start + (E(j) - pos) = E(j) + (start - pos) /\ start + (E(j) - pos) >= E(k)
        BY <2>2, <3>2, <3>4, <4>1, Rest
      <4> QED
        BY <3>3, <4>2, Zenon
    <3>6. \A i \in 1..n : ~Inside(stream, E(j) + (start - pos), i)
      <4>1. ASSUME NEW i \in 1..n PROVE ~Inside(stream, E(j) + (start - pos), i)
        <5>1. start - pos \in 0..stream[i].head
          BY <1>4, <3>5 DEF head
        <5> QED
          BY <1>0, <3>2, <5>1, OutsideAtEnd DEF E
      <4> QED
        BY <4>1
    <3> QED
      BY <3>3, <3>5, <3>6 DEF c, start, E
  <2>7. CASE ~whole.found /\ whole.dry
    <3>1. c.is = "dropped" /\ c.at = v
      BY <1>10, <2>3, <2>4, <2>7
    <3>2. v = E(n) /\ v \in 0..N
      BY <1>1, <1>2, <2>3, <2>5, <2>7
    <3>3. Far(stream, v, last)
      BY <1>n, <1>11, <3>2, ZenonT(40)
    <3> QED
      BY <3>1, <3>2, <3>3 DEF c, N, start
  <2>8. CASE ~whole.found /\ ~whole.dry
    <3>1. c.is = "missing"
      BY <2>4, <2>8
    <3>2. ASSUME Fits PROVE FALSE
      <4>1. Size(stream[k]) < Limit
        BY <1>0, <3>2, StreamType DEF Fits
      <4>2. Size(stream[k]) = head + Len(stream[k].jpeg)
        BY DEF Size, head
      <4>3. E(k) >= pos + 2 /\ E(k) <= pos + Limit
        <5> DEFINE len == Len(stream[k].jpeg)
        <5>1. /\ start \in Nat /\ pos \in Nat /\ head \in Nat /\ len \in Nat /\ len >= 4
              /\ E(k) = start + len /\ pos <= start /\ Limit \in Nat
          BY <1>1, <1>2
        <5> HIDE DEF len
        <5>2. head + len < Limit
          BY <4>1, <4>2 DEF len
        <5> QED
          BY <2>2, <5>1, <5>2
      <4>4. E(k) <= v
        BY <1>1, <2>5, <4>3
      <4> QED
        BY <2>3, <2>8, <4>3, <4>4
    <3> QED
      BY <3>1, <3>2 DEF c, start
  <2> QED
    BY <2>6, <2>7, <2>8
<1> QED
  BY <1>14, <1>15, <1>16

\* Whatever the headers are like, a length is a number and a place is in the
\* stream.
LEMMA SimplifiedType ==
  ASSUME Types, NEW k \in 1..Len(stream), Ahead(k)
  PROVE  LET c == Simplified(Begin(stream, k))
         IN  \/ c.is = "found" /\ c.length \in Nat
             \/ c.is = "dropped" /\ c.at \in 0..Len(Joined(stream))
             \/ c.is = "late" /\ c.at \in 0..Len(Joined(stream)) /\ c.length \in Nat
             \/ c.is = "missing"
<1> DEFINE start == Begin(stream, k)
           N == Len(Joined(stream))
           low == last \div 2
           high == (3 * last) \div 2
           from == IF low = 0 THEN start ELSE start + low - 1
           end == Search(from, EOI, high - low)
           whole == Search(pos, EOI, Limit)
           c == Simplified(start)
<1>1. /\ stream \in Streams /\ last \in Nat /\ pos \in Nat /\ start \in Nat /\ pos <= start
      /\ Limit \in Nat /\ N \in Nat
  <2>1. stream \in Streams /\ last \in Nat /\ pos \in 0..N /\ First(stream, pos, k)
    BY DEF Types, Ahead
  <2>2. start \in Nat /\ N \in Nat
    BY <2>1, BeginType
  <2> QED
    BY <2>1, <2>2, FramesAssumption DEF First
<1>2. from \in Nat /\ high - low \in Nat /\ from >= start
  <2>1. low \in Nat /\ high \in Nat /\ low <= high
    BY <1>1, Halves
  <2> HIDE DEF low, high, start
  <2> QED
    BY <1>1, <2>1
<1>3. /\ end.found => \E j \in 1..Len(stream) : end.at = Ends(stream)[j] /\ end.at >= from + 2
      /\ ~end.found => end.at \in 0..N
  <2> HIDE DEF from, low, high
  <2>1. LET w == Sight(stream, from, high - low)
        IN  /\ w \in Nat /\ w <= N
            /\ end.found => \E j \in 1..Len(stream) :
                  end.at = Ends(stream)[j] /\ end.at >= from + 2 /\ end.at <= w
            /\ ~end.found => end.at = w
    BY <1>1, <1>2, FindsEnd
  <2> QED
    BY <1>1, <2>1
<1>4. /\ whole.found => \E j \in 1..Len(stream) :
                          whole.at = Ends(stream)[j] /\ whole.at >= pos + 2
      /\ ~whole.found => whole.at \in 0..N
  <2>1. LET w == Sight(stream, pos, Limit)
        IN  /\ w \in Nat /\ w <= N
            /\ whole.found => \E j \in 1..Len(stream) :
                  whole.at = Ends(stream)[j] /\ whole.at >= pos + 2 /\ whole.at <= w
            /\ ~whole.found => whole.at = w
    BY <1>1, FindsEnd
  <2> QED
    BY <1>1, <2>1
<1>5. \A j \in 1..Len(stream) : Ends(stream)[j] \in 0..N
  <2>1. ASSUME NEW j \in 1..Len(stream) PROVE Ends(stream)[j] \in 0..N
    <3>1. Ends(stream)[j] \in Nat /\ Ends(stream)[j] <= N
      BY <1>1, BeginType
    <3> QED
      BY <1>1, <3>1
  <2> QED
    BY <2>1
<1>6. c = IF end.found /\ end.at - pos <= Limit THEN Found(end.at - start)
          ELSE IF end.found THEN Late(end.at, end.at - start)
          ELSE IF end.dry \/ end.at - pos > Limit THEN Dropped(end.at)
          ELSE FromMark
  BY DEF Simplified
<1>7. FromMark = IF whole.found THEN Found(whole.at - pos)
                 ELSE IF whole.dry THEN Dropped(whole.at) ELSE [is |-> "missing"]
  BY DEF FromMark
<1>8. /\ \A at : Dropped(at).is = "dropped" /\ Dropped(at).at = at
      /\ \A at : Found(at).is = "found" /\ Found(at).length = at
      /\ \A at, l : Late(at, l).is = "late" /\ Late(at, l).at = at /\ Late(at, l).length = l
  BY DEF Dropped, Found, Late
<1> HIDE DEF start, N, low, high, from, end, whole, c
<1>9. end.at \in 0..N /\ whole.at \in 0..N
  BY <1>3, <1>4, <1>5
<1>10. end.found => end.at - start \in Nat
  <2>1. ASSUME end.found PROVE end.at \in Nat /\ end.at >= from + 2
    BY <1>3, <1>9, <2>1
  <2> QED
    BY <1>1, <1>2, <2>1
<1>11. whole.found => whole.at - pos \in Nat
  <2>1. ASSUME whole.found PROVE whole.at \in Nat /\ whole.at >= pos + 2
    BY <1>4, <1>9, <2>1
  <2> QED
    BY <1>1, <2>1
<1>12. \/ c = Dropped(end.at) \/ c = Dropped(whole.at)
       \/ end.found /\ c = Found(end.at - start)
       \/ end.found /\ c = Late(end.at, end.at - start)
       \/ whole.found /\ c = Found(whole.at - pos)
       \/ c = [is |-> "missing"]
  BY <1>6, <1>7, Zenon
<1>13. \/ c.is = "found" /\ c.length \in Nat
       \/ c.is = "dropped" /\ c.at \in 0..N
       \/ c.is = "late" /\ c.at \in 0..N /\ c.length \in Nat
       \/ c.is = "missing"
  BY <1>8, <1>9, <1>10, <1>11, <1>12
<1> QED
  BY <1>13 DEF c, N, start

\* The length is in the header that has just been read, or searched for.
LEMMA LengthFinds ==
  ASSUME Types, NEW k \in 1..Len(stream), Ahead(k)
  PROVE  Length(Begin(stream, k)) =
           IF stream[k].given /\ Begin(stream, k) - pos >= stream[k].head
           THEN Found(Len(stream[k].jpeg)) ELSE Simplified(Begin(stream, k))
<1> DEFINE start == Begin(stream, k)
           whole == {j \in DOMAIN stream : /\ Start(j) = start
                                           /\ stream[j].given
                                           /\ start - pos >= stream[j].head}
<1>1. /\ stream \in Streams /\ DOMAIN stream = 1..Len(stream)
      /\ \A j \in 1..Len(stream) : Start(j) = Begin(stream, j)
  BY InStream DEF Types
<1>2. ASSUME NEW j \in 1..Len(stream), Begin(stream, j) = start PROVE j = k
  <2>1. \A i \in 1..Len(stream) : Begin(stream, i) \in Nat
    BY <1>1, BeginType
  <2>2. ~(j < k) /\ ~(k < j)
    BY <1>1, <1>2, <2>1, FramesApart
  <2> QED
    BY <2>2
<1>3. Length(start) = IF whole # {} THEN Found(Len(stream[Min(whole)].jpeg)) ELSE Simplified(start)
  BY Zenon DEF Length
<1>4. CASE stream[k].given /\ start - pos >= stream[k].head
  <2>1. whole = {k}
    <3> HIDE DEF start
    <3>1. Start(k) = start
      BY <1>1 DEF start
    <3> QED
      BY <1>1, <1>2, <1>4, <3>1
  <2>2. Min({k}) = k
    <3>0. IsFiniteSet({k})
      BY FS_Singleton, Zenon
    <3>1. IsFiniteSet({k}) /\ {k} \subseteq Int /\ {k} # {}
      BY <3>0
    <3>2. Min({k}) \in {k}
      BY <3>1, MinMember
    <3> QED
      BY <3>2
  <2>3. Min(whole) = k /\ whole # {}
    BY <2>1, <2>2, Zenon
  <2> QED
    BY <1>3, <1>4, <2>3, Zenon
<1>5. CASE ~(stream[k].given /\ start - pos >= stream[k].head)
  <2>1. whole = {}
    <3>1. ASSUME NEW j \in whole PROVE FALSE
      <4>1. j \in 1..Len(stream) /\ Begin(stream, j) = start
        BY <1>1, <3>1
      <4>2. j = k
        BY <1>2, <4>1
      <4> QED
        BY <1>5, <3>1, <4>2
    <3> QED
      BY <3>1
  <2> QED
    BY <1>3, <1>5, <2>1, Zenon
<1> QED
  BY <1>4, <1>5

\* A turn that finds a picture.
LEMMA TurnCuts ==
  ASSUME Types, Placed, Regular, NEW k \in 1..Len(stream), Ahead(k)
  PROVE  LET c == Length(Begin(stream, k))
             to == Begin(stream, k) + c.length
         IN  \/ /\ c.is = "found" /\ c.length \in Nat /\ to >= Ends(stream)[k]
                /\ AllGiven => to = Ends(stream)[k] /\ c.length = Len(stream[k].jpeg)
                /\ Even => \A i \in 1..Len(stream) : ~Inside(stream, to, i)
             \/ /\ c.is = "dropped" /\ c.at \in 0..Len(Joined(stream))
                /\ ~AllGiven /\ (Even => Far(stream, c.at, last))
             \/ /\ c.is = "late" /\ c.at \in 0..Len(Joined(stream)) /\ c.length \in Nat
                /\ ~AllGiven /\ (Even => Far(stream, c.at, c.length))
             \/ c.is = "missing" /\ ~AllGiven /\ ~Fits
<1> DEFINE start == Begin(stream, k)
           n == Len(stream)
           E(j) == Ends(stream)[j]
           c == Length(start)
           len == Len(stream[k].jpeg)
<1>1. /\ stream \in Streams /\ pos \in Nat /\ First(stream, pos, k) /\ pos <= start
      /\ k \in 0..n /\ n \in Nat /\ k - 1 \in 0..n
  <2>1. stream \in Streams /\ First(stream, pos, k) /\ pos \in 0..Len(Joined(stream))
    BY DEF Types, Ahead
  <2>2. start >= pos
    BY <2>1 DEF First
  <2>3. n \in Nat /\ start \in Nat
    BY <2>1, StreamType, BeginType
  <2> HIDE DEF start, n
  <2>4. pos \in Nat /\ pos <= start
    BY <2>1, <2>2, <2>3
  <2> USE DEF start, n
  <2> QED
    BY <2>1, <2>3, <2>4
<1>2. /\ start \in Nat /\ E(k) \in Nat /\ E(k - 1) \in Nat /\ E(k) = start + len /\ len \in Nat
      /\ len >= 4 /\ start = E(k - 1) + stream[k].head /\ stream[k].head \in Nat
  BY <1>1, BeginType
<1>3. c = IF stream[k].given /\ start - pos >= stream[k].head THEN Found(len) ELSE Simplified(start)
  BY LengthFinds
<1>4. AllGiven => stream[k].given /\ start - pos >= stream[k].head
  <2>1. ASSUME AllGiven PROVE stream[k].given /\ start - pos >= stream[k].head
    <3>1. stream[k].given
      BY <1>1, <2>1, StreamType DEF AllGiven
    <3>2. PICK j \in 0..n : pos = E(j)
      BY <2>1 DEF Placed
    <3>3. j < k
      <4>1. ASSUME k <= j PROVE FALSE
        <5>1. stream \in Seq(Frame) /\ j \in k..n
          BY <1>1, <4>1, StreamType
        <5>2. E(k) <= E(j)
          BY <1>1, <5>1, EndsGrow
        <5> HIDE DEF start, E, len
        <5> QED
          BY <1>1, <1>2, <3>2, <5>2, SMTT(40)
      <4> QED
        BY <1>1, <4>1
    <3>4. E(j) <= E(k - 1)
      <4>1. stream \in Seq(Frame) /\ k - 1 \in j..n
        BY <1>1, <3>3, StreamType
      <4> QED
        BY <4>1, EndsGrow
    <3> HIDE DEF start, E, len
    <3>5. pos <= E(k - 1)
      BY <3>2, <3>4
    <3>6. start - pos >= stream[k].head
      <4>1. (E(k - 1) + stream[k].head) - pos >= stream[k].head
        BY <1>1, <1>2, <3>5, BehindHeader
      <4> QED
        BY <1>2, <4>1
    <3> QED
      BY <3>1, <3>6
  <2> QED
    BY <2>1
<1>5. CASE stream[k].given /\ start - pos >= stream[k].head
  <2>1. c.is = "found" /\ c.length = len
    BY <1>3, <1>5 DEF Found
  <2>2. \A i \in 1..n : ~Inside(stream, E(k), i)
    BY <1>1, OutsideAtEnd
  <2> HIDE DEF start, E, len, c
  <2>3. c.length \in Nat /\ start + c.length = E(k) /\ start + c.length >= E(k)
    BY <1>2, <2>1
  <2> QED
    BY <2>1, <2>2, <2>3 DEF start, E, len, c
<1>6. CASE ~(stream[k].given /\ start - pos >= stream[k].head)
  <2>1. ~AllGiven /\ Even
    <3>1. Regular <=> AllGiven \/ Even
      BY DEF Regular, AllGiven, Even
    <3> QED
      BY <1>4, <1>6, <3>1
  <2>2. Far(stream, pos, last)
    BY <2>1 DEF Placed
  <2>3. c = Simplified(start)
    BY <1>3, <1>6
  <2> QED
    BY <2>1, <2>2, <2>3, SimplifiedCuts
<1> QED
  BY <1>5, <1>6

\* Where every picture is more than half as long as the frame before and every
\* frame is in sight, the search finds the end of the picture and no other.
LEMMA SimplifiedNext ==
  ASSUME Types, Even, Fits, NEW k \in 1..Len(stream), Ahead(k),
         Ends(stream)[k - 1] <= pos, last < 2 * Len(stream[k].jpeg)
  PROVE  LET c == Simplified(Begin(stream, k))
         IN  /\ c.is = "found"
             /\ \/ c.length = Len(stream[k].jpeg)
                \/ c.length = Ends(stream)[k] - pos
<1> DEFINE start == Begin(stream, k)
           n == Len(stream)
           N == Len(Joined(stream))
           E(j) == Ends(stream)[j]
           head == stream[k].head
           len == Len(stream[k].jpeg)
           low == last \div 2
           high == (3 * last) \div 2
           from == IF low = 0 THEN start ELSE start + low - 1
           end == Search(from, EOI, high - low)
           w == Sight(stream, from, high - low)
           whole == Search(pos, EOI, Limit)
           v == Sight(stream, pos, Limit)
           c == Simplified(start)
<1>1. /\ stream \in Streams /\ last \in Nat /\ pos \in Nat /\ pos <= start /\ Limit \in Nat
      /\ N \in Nat /\ start \in Nat
  <2>1. stream \in Streams /\ last \in Nat /\ pos \in 0..N /\ First(stream, pos, k)
    BY DEF Types, Ahead
  <2>2. start \in Nat /\ N \in Nat
    BY <2>1, BeginType
  <2> QED
    BY <2>1, <2>2, FramesAssumption DEF First
<1>2. /\ E(k) \in Nat /\ E(k - 1) \in Nat /\ E(k) = start + len /\ len \in Nat
      /\ len >= 4 /\ start = E(k - 1) + head /\ head \in Nat /\ E(k) <= N
  BY <1>1, BeginType
<1>3. head + len < Limit /\ last < 2 * len /\ E(k - 1) <= pos
  <2>1. Size(stream[k]) < Limit
    BY <1>1, StreamType DEF Fits
  <2> QED
    BY <2>1 DEF Size
<1>4. low \in Nat /\ high \in Nat /\ low <= high /\ low * 2 <= last
  BY <1>1, Halves
<1>5. stream[k].jpeg[len - 2] # "FF"
  BY <1>1, StreamType DEF Even
<1>6. /\ from \in Nat /\ high - low \in Nat /\ from >= start /\ E(k) >= from + 2
  <2>1. start + len >= from + 2 /\ from \in Nat /\ high - low \in Nat /\ from >= start
    BY <1>1, <1>2, <1>3, HalfWay
  <2> HIDE DEF low, high, start, E, len, from
  <2> QED
    BY <1>2, <2>1
<1>7. /\ w \in Nat /\ w <= N
      /\ end.found => \E j \in 1..n : end.at = E(j) /\ end.at >= from + 2 /\ end.at <= w
      /\ ~end.found => end.at = w
      /\ end.dry <=> ~end.found /\ from + (high - low) > N
      /\ E(k) >= from + 2 /\ E(k) <= w => end.found /\ end.at <= E(k)
  <2> HIDE DEF from, low, high
  <2> QED
    BY <1>1, <1>5, <1>6, FindsEnd
<1>8. w = IF from + (high - low) < N THEN from + (high - low) ELSE N
  BY Zenon DEF Sight
<1>9. /\ v \in Nat /\ v <= N
      /\ whole.found => \E j \in 1..n : whole.at = E(j) /\ whole.at >= pos + 2 /\ whole.at <= v
      /\ E(k) >= pos + 2 /\ E(k) <= v => whole.found /\ whole.at <= E(k)
  BY <1>1, <1>5, FindsEnd
<1>10. v = IF pos + Limit < N THEN pos + Limit ELSE N
  BY Zenon DEF Sight
<1>11. c = IF end.found /\ end.at - pos <= Limit THEN Found(end.at - start)
           ELSE IF end.found THEN Late(end.at, end.at - start)
           ELSE IF end.dry \/ end.at - pos > Limit THEN Dropped(end.at)
           ELSE FromMark
  BY DEF Simplified
<1>12. whole.found => FromMark = Found(whole.at - pos)
  BY DEF FromMark
<1>13. \A at : Found(at).is = "found" /\ Found(at).length = at
  BY DEF Found
<1>14. ASSUME NEW j \in 1..n, E(j) > pos PROVE E(j) \in Nat /\ E(k) <= E(j)
  <2>1. E(j) \in Nat
    BY <1>1, BeginType
  <2> QED
    BY <1>1, <1>3, <1>14, <2>1, EndsBehind
<1>e. \A j \in 1..n : E(j) \in Nat
  BY <1>1, BeginType
<1> HIDE DEF start, N, E, head, len, low, high, from, end, w, whole, v, c, n
<1>15. end.found => end.at >= E(k) /\ end.at \in Nat /\ end.at <= w
  <2>1. ASSUME end.found PROVE end.at >= E(k) /\ end.at \in Nat /\ end.at <= w
    <3>1. PICK j \in 1..n : end.at = E(j) /\ end.at >= from + 2 /\ end.at <= w
      BY <1>7, <2>1
    <3>2. E(j) > pos
      <4>1. E(j) \in Nat /\ E(j) >= from + 2
        BY <1>e, <3>1
      <4> QED
        BY <1>1, <1>6, <4>1
    <3> QED
      BY <1>14, <3>1, <3>2
  <2> QED
    BY <2>1
<1>16. whole.found => whole.at >= E(k) /\ whole.at \in Nat
  <2>1. ASSUME whole.found PROVE whole.at >= E(k) /\ whole.at \in Nat
    <3>1. PICK j \in 1..n : whole.at = E(j) /\ whole.at >= pos + 2
      BY <1>9, <2>1
    <3>2. E(j) > pos
      <4>1. E(j) \in Nat /\ E(j) >= pos + 2
        BY <1>e, <3>1
      <4> QED
        BY <1>1, <4>1
    <3> QED
      BY <1>14, <3>1, <3>2
  <2> QED
    BY <2>1
<1>17. E(k) - pos <= Limit /\ E(k) >= pos + 2 /\ E(k) <= v
  <2>1. E(k) = E(k - 1) + head + len
    BY <1>2
  <2>2. pos <= E(k - 1) + head /\ E(k - 1) + head + len <= N
    BY <1>1, <1>2
  <2>3. /\ (E(k - 1) + head + len) - pos <= Limit /\ E(k - 1) + head + len >= pos + 2
        /\ E(k - 1) + head + len <= IF pos + Limit < N THEN pos + Limit ELSE N
    BY <1>1, <1>2, <1>3, <2>2, InSight
  <2> QED
    BY <1>10, <2>1, <2>3, Zenon
<1>18. CASE E(k) <= w
  <2>0. end.found /\ end.at <= E(k) /\ ~end.dry
    BY <1>6, <1>7, <1>18
  <2>1. end.found /\ end.at = E(k) /\ ~end.dry
    <3>1. end.at >= E(k) /\ end.at \in Nat
      BY <1>15, <2>0
    <3> QED
      BY <1>2, <2>0, <3>1
  <2>2. end.at - pos <= Limit
    BY <1>1, <1>2, <1>17, <2>1, SMTT(40)
  <2>3. c = Found(E(k) - start)
    BY <1>11, <2>1, <2>2
  <2>4. E(k) - start = len
    BY <1>1, <1>2
  <2> QED
    BY <1>13, <2>3, <2>4 DEF c, start, len
<1>19. CASE ~(E(k) <= w)
  <2>1. ~end.found
    BY <1>2, <1>7, <1>15, <1>19, SMTT(40)
  <2>2. w < N /\ end.at = w /\ w < E(k)
    BY <1>2, <1>1, <1>7, <1>19, <2>1, SMTT(40)
  <2>3. ~end.dry
    BY <1>1, <1>6, <1>7, <1>8, <2>2
  <2>4. ~(end.at - pos > Limit)
    <3>1. w \in Nat /\ w < E(k) /\ E(k) - pos <= Limit
      BY <1>7, <1>17, <2>2
    <3>2. ~(w - pos > Limit)
      BY <1>1, <1>2, <3>1, SMTT(40)
    <3> QED
      BY <2>2, <3>2
  <2>5. whole.found /\ whole.at = E(k)
    BY <1>2, <1>9, <1>16, <1>17, SMTT(40)
  <2>6. c = Found(E(k) - pos)
    BY <1>11, <1>12, <2>1, <2>3, <2>4, <2>5
  <2> QED
    BY <1>13, <2>6 DEF c, start, len, E
<1> QED
  BY <1>18, <1>19

\* What Length answers is a length, a place in the stream, or that there is none.
LEMMA LengthType ==
  ASSUME Types, NEW k \in 1..Len(stream), Ahead(k)
  PROVE  LET c == Length(Begin(stream, k))
         IN  \/ c.is = "found" /\ c.length \in Nat
             \/ c.is = "dropped" /\ c.at \in 0..Len(Joined(stream))
             \/ c.is = "late" /\ c.at \in 0..Len(Joined(stream)) /\ c.length \in Nat
             \/ c.is = "missing"
<1> DEFINE c == Length(Begin(stream, k))
           found == stream[k].given /\ Begin(stream, k) - pos >= stream[k].head
<1>1. Len(stream[k].jpeg) \in Nat
  BY StreamType DEF Types
<1>2. c = IF found THEN Found(Len(stream[k].jpeg)) ELSE Simplified(Begin(stream, k))
  BY LengthFinds
<1>3. CASE found
  <2>1. c.is = "found" /\ c.length = Len(stream[k].jpeg)
    BY <1>2, <1>3 DEF Found
  <2> QED
    BY <1>1, <2>1
<1>4. CASE ~found
  <2>1. c = Simplified(Begin(stream, k))
    BY <1>2, <1>4, Zenon
  <2> QED
    BY <2>1, SimplifiedType
<1> QED
  BY <1>3, <1>4

\* Behind picture j, the picture that is found is the next one.
LEMMA AheadNext ==
  ASSUME Types, NEW k \in 1..Len(stream), Ahead(k), NEW j \in 0..(Len(stream) - 1),
         Behind(stream, pos, j)
  PROVE  k = j + 1
<1> DEFINE n == Len(stream)
<1>1. stream \in Streams /\ First(stream, pos, k) /\ n \in Nat /\ stream \in Seq(Frame)
      /\ j + 1 \in 1..n /\ j \in 0..n /\ j + 1 - 1 = j
  <2>1. stream \in Streams /\ First(stream, pos, k)
    BY DEF Types, Ahead
  <2> QED
    BY <2>1, StreamType
<1>2. /\ Begin(stream, j + 1) \in Nat /\ Begin(stream, j + 1) = Ends(stream)[j] + stream[j + 1].head
      /\ Ends(stream)[j] \in Nat /\ stream[j + 1].head \in Nat
  <2>1. /\ Begin(stream, j + 1) \in Nat /\ stream[j + 1].head \in Nat
        /\ Begin(stream, j + 1) = Ends(stream)[j + 1 - 1] + stream[j + 1].head
        /\ Ends(stream)[j + 1 - 1] \in Nat
    BY <1>1, BeginType
  <2> QED
    BY <1>1, <2>1
<1>3. /\ Begin(stream, k) \in Nat /\ Ends(stream)[k] \in Nat /\ Begin(stream, k) < Ends(stream)[k]
  <2>1. /\ Begin(stream, k) \in Nat /\ Ends(stream)[k] \in Nat /\ Len(stream[k].jpeg) \in Nat
        /\ Len(stream[k].jpeg) >= 4 /\ Ends(stream)[k] = Begin(stream, k) + Len(stream[k].jpeg)
    BY <1>1, BeginType
  <2> QED
    BY <2>1
<1>4. pos \in {Ends(stream)[j], Begin(stream, j + 1)}
  BY DEF Behind
<1>5. pos \in Nat /\ Ends(stream)[j] <= pos /\ pos <= Begin(stream, j + 1)
  <2> DEFINE e == Ends(stream)[j]
             b == Begin(stream, j + 1)
             h == stream[j + 1].head
  <2>1. (pos = e \/ pos = b) /\ e \in Nat /\ h \in Nat /\ b = e + h
    BY <1>2, <1>4
  <2> HIDE DEF e, b, h
  <2>2. pos \in Nat /\ e <= pos /\ pos <= b
    BY <2>1
  <2> QED
    BY <2>2 DEF e, b
<1>6. Begin(stream, k) >= pos /\ Begin(stream, k) <= Begin(stream, j + 1)
  <2>1. Begin(stream, j + 1) >= pos
    BY <1>2, <1>5
  <2> QED
    BY <1>1, <2>1 DEF First
<1>7. ~(j + 1 < k)
  <2>1. ASSUME j + 1 < k PROVE FALSE
    <3>1. Begin(stream, j + 1) < Begin(stream, k)
      BY <1>1, <2>1, FramesApart
    <3> QED
      BY <1>2, <1>3, <1>6, <3>1
  <2> QED
    BY <2>1
<1>8. ~(k <= j)
  <2>1. ASSUME k <= j PROVE FALSE
    <3>1. k \in 0..n /\ j \in k..n
      BY <1>1, <2>1
    <3>2. Ends(stream)[k] <= Ends(stream)[j]
      BY <1>1, <3>1, EndsGrow
    <3> QED
      BY <1>2, <1>3, <1>5, <1>6, <3>2
  <2> QED
    BY <2>1
<1> QED
  BY <1>1, <1>7, <1>8

\* At the end of the stream no picture is found.
LEMMA AheadInStream ==
  ASSUME Types, NEW k \in 1..Len(stream), Ahead(k)
  PROVE  pos # Len(Joined(stream))
<1>1. stream \in Streams /\ First(stream, pos, k)
  BY DEF Types, Ahead
<1>2. /\ Begin(stream, k) \in Nat /\ Len(stream[k].jpeg) \in Nat /\ Len(stream[k].jpeg) >= 4
      /\ Ends(stream)[k] = Begin(stream, k) + Len(stream[k].jpeg)
      /\ Ends(stream)[k] <= Len(Joined(stream)) /\ Len(Joined(stream)) \in Nat
  BY <1>1, BeginType
<1>3. Begin(stream, k) >= pos
  BY <1>1 DEF First
<1> QED
  BY <1>2, <1>3

\* In a stream of fitting and steady frames the next picture is cut at its end, or
\* behind the header that follows it.
LEMMA NextInTurn ==
  ASSUME Types, Placed, Regular, Fits, Steady, NEW k \in 1..Len(stream), Ahead(k),
         Follows(stream, pos, last, handed, k - 1)
  PROVE  LET c == Length(Begin(stream, k))
             to == Begin(stream, k) + c.length
         IN  /\ c.is = "found" /\ c.length \in Nat /\ c.length <= Size(stream[k])
             /\ to <= Len(Joined(stream)) =>
                  to = Len(Joined(stream)) \/ (k < Len(stream) /\ Behind(stream, to, k))
<1> DEFINE start == Begin(stream, k)
           n == Len(stream)
           N == Len(Joined(stream))
           E(j) == Ends(stream)[j]
           head == stream[k].head
           len == Len(stream[k].jpeg)
           c == Length(start)
           found == stream[k].given /\ start - pos >= head
<1>1. stream \in Streams /\ k \in 1..n /\ n \in Nat
  <2>1. stream \in Streams
    BY DEF Types
  <2> QED
    BY <2>1, StreamType
<1>2. /\ E(k) \in Nat /\ E(k - 1) \in Nat /\ E(k) = start + len /\ len \in Nat /\ start \in Nat
      /\ len >= 4 /\ start = E(k - 1) + head /\ head \in Nat /\ E(k) <= N /\ N \in Nat
      /\ E(n) = N /\ Size(stream[k]) = head + len
  BY <1>1, BeginType
<1>3. c = IF found THEN Found(len) ELSE Simplified(start)
  BY LengthFinds
<1>4. pos = E(k - 1) \/ pos = start
  <2>1. pos \in {Ends(stream)[k - 1], Begin(stream, k - 1 + 1)} /\ k - 1 + 1 = k
    BY <1>1 DEF Follows, Behind
  <2> QED
    BY <2>1
<1>5. last < 2 * len
  <2>1. CASE k = 1
    <3>1. last = 0
      BY <1>1, <2>1 DEF Follows
    <3> QED
      BY <1>2, <3>1
  <2>2. CASE k # 1
    <3>1. k - 1 # 0 /\ k \in 2..n /\ k - 1 \in 1..n
      BY <1>1, <2>2
    <3>2. last <= Size(stream[k - 1])
      BY <3>1 DEF Follows
    <3>3. 2 * len > Size(stream[k - 1])
      BY <3>1 DEF Steady
    <3>4. Size(stream[k - 1]) \in Nat /\ last \in Nat
      <4>1. /\ Size(stream[k - 1]) = stream[k - 1].head + Len(stream[k - 1].jpeg)
            /\ stream[k - 1].head \in Nat /\ Len(stream[k - 1].jpeg) \in Nat
        BY <1>1, <3>1, BeginType
      <4>2. last \in Nat
        BY DEF Types
      <4> QED
        BY <4>1, <4>2
    <3> HIDE DEF len
    <3>5. len \in Nat
      BY <1>2
    <3> QED
      BY <3>2, <3>3, <3>4, <3>5
  <2> QED
    BY <2>1, <2>2
<1>6. c.is = "found" /\ (c.length = len \/ (Even /\ c.length = head + len))
  <2>1. CASE found
    BY <1>3, <2>1 DEF Found
  <2>2. CASE AllGiven
    <3>1. c.is = "found" /\ c.length = len
      <4>1. \/ /\ c.is = "found" /\ c.length \in Nat /\ start + c.length >= Ends(stream)[k]
               /\ AllGiven => start + c.length = Ends(stream)[k] /\ c.length = len
               /\ Even => \A i \in 1..Len(stream) : ~Inside(stream, start + c.length, i)
            \/ /\ c.is = "dropped" /\ c.at \in 0..Len(Joined(stream))
               /\ ~AllGiven /\ (Even => Far(stream, c.at, last))
            \/ /\ c.is = "late" /\ c.at \in 0..Len(Joined(stream)) /\ c.length \in Nat
               /\ ~AllGiven /\ (Even => Far(stream, c.at, c.length))
            \/ c.is = "missing" /\ ~AllGiven /\ ~Fits
        BY TurnCuts, Zenon
      <4> QED
        BY <2>2, <4>1
    <3> QED
      BY <3>1
  <2>3. CASE ~found /\ ~AllGiven
    <3>1. Even
      BY <2>3 DEF Regular, AllGiven, Even
    <3>2. c = Simplified(start)
      BY <1>3, <2>3, Zenon
    <3>3. E(k - 1) <= pos
      <4> HIDE DEF start, E, head, len
      <4> QED
        BY <1>2, <1>4, SMTT(40)
    <3>4. c.is = "found" /\ (c.length = len \/ c.length = E(k) - pos)
      BY <1>5, <3>1, <3>2, <3>3, SimplifiedNext
    <3>5. E(k) - pos = len \/ E(k) - pos = head + len
      <4> HIDE DEF start, E, head, len
      <4>1. E(k) - E(k - 1) = head + len /\ E(k) - start = len
        BY <1>2, SMTT(40)
      <4> QED
        BY <1>4, <4>1
    <3> QED
      BY <3>1, <3>4, <3>5
  <2> QED
    BY <2>1, <2>2, <2>3
<1>7. c.length \in Nat /\ c.length <= Size(stream[k])
  <2> HIDE DEF c, head, len
  <2> QED
    BY <1>2, <1>6, SMTT(40)
<1>8. start + c.length = E(k) \/ (Even /\ start + c.length = E(k) + head)
  <2> HIDE DEF c, head, len, E, start
  <2> QED
    BY <1>2, <1>6, SMTT(40)
<1>9. ASSUME start + c.length <= N
      PROVE  start + c.length = N \/ (k < n /\ Behind(stream, start + c.length, k))
  <2>1. CASE k = n
    <3>1. E(k) = N
      BY <1>2, <2>1
    <3> HIDE DEF c, head, E, start, N
    <3> QED
      BY <1>2, <1>8, <1>9, <3>1
  <2>2. CASE k # n
    <3>1. k < n /\ k + 1 \in 1..n /\ k + 1 - 1 = k
      BY <1>1, <2>2
    <3>2. Begin(stream, k + 1) = E(k) + stream[k + 1].head
      <4>1. Begin(stream, k + 1) = Ends(stream)[k + 1 - 1] + stream[k + 1].head
        BY <1>1, <3>1, BeginType
      <4> QED
        BY <3>1, <4>1
    <3>3. Even => stream[k + 1].head = head
      <4>1. DOMAIN stream = 1..n
        BY <1>1, StreamType
      <4> QED
        BY <3>1, <4>1 DEF Even
    <3>4. start + c.length \in {Ends(stream)[k], Begin(stream, k + 1)}
      <4> HIDE DEF c, start, head
      <4> QED
        BY <1>8, <3>2, <3>3
    <3> QED
      BY <3>1, <3>4 DEF Behind
  <2> QED
    BY <2>1, <2>2
<1> QED
  BY <1>6, <1>7, <1>9

-----------------------------------------------------------------------------
(* The steps.                                                              *)

LEMMA SameStream ==
  ASSUME stream' = stream
  PROVE  /\ AllGiven' <=> AllGiven
         /\ Even' <=> Even
         /\ Regular' <=> Regular
         /\ Fits' <=> Fits
         /\ Steady' <=> Steady
         /\ Data' = Data
         /\ \A k : Start(k)' = Start(k)
<1>1. (AllGiven' <=> AllGiven) /\ (Even' <=> Even)
  BY DEF AllGiven, Even
<1>2. Regular' <=> Regular
  BY DEF Regular
<1>3. (Fits' <=> Fits) /\ (Steady' <=> Steady)
  BY DEF Fits, Steady
<1>4. Data' = Data
  BY DEF Data
<1>5. \A k : Start(k)' = Start(k)
  BY DEF Start
<1> QED
  BY <1>1, <1>2, <1>3, <1>4, <1>5

LEMMA InputKept ==
  ASSUME UNCHANGED input
  PROVE  /\ Placed => Placed'
         /\ InTurn => InTurn'
         /\ WholeFrames => WholeFrames'
<1>1. stream' = stream /\ pos' = pos /\ last' = last /\ handed' = handed
  BY DEF input
<1>2. Placed => Placed'
  BY <1>1, SameStream DEF Placed
<1>3. InTurn => InTurn'
  BY <1>1, SameStream DEF InTurn
<1>4. Whole(handed) => Whole(handed)'
  BY <1>1, SameStream DEF Whole, Holds
<1>5. WholeFrames => WholeFrames'
  BY <1>1, <1>4, SameStream DEF WholeFrames
<1> QED
  BY <1>2, <1>3, <1>5

\* The picture that the search for a start marker stops at.
LEMMA SearchAhead ==
  ASSUME Types, Search(pos, SOI, Limit).found
  PROVE  \E k \in 1..Len(stream) :
           Search(pos, SOI, Limit).at - 2 = Begin(stream, k) /\ Ahead(k)
<1> DEFINE soi == Search(pos, SOI, Limit)
           w == Sight(stream, pos, Limit)
<1>1. stream \in Streams /\ pos \in Nat /\ Limit \in Nat
  <2>1. stream \in Streams /\ pos \in 0..Len(Joined(stream))
    BY DEF Types
  <2> QED
    BY <2>1, FramesAssumption
<1>2. /\ w \in Nat /\ w <= pos + Limit
      /\ soi.found => \E k \in 1..Len(stream) :
           /\ soi.at = Begin(stream, k) + 2 /\ Begin(stream, k) >= pos
           /\ Begin(stream, k) + 2 <= w
           /\ \A j \in 1..Len(stream) :
                Begin(stream, j) >= pos => Begin(stream, k) <= Begin(stream, j)
  BY <1>1, FindsPicture
<1> HIDE DEF soi, w
<1>3. soi.found
  BY DEF soi
<1>4. PICK k \in 1..Len(stream) :
           /\ soi.at = Begin(stream, k) + 2 /\ Begin(stream, k) >= pos
           /\ Begin(stream, k) + 2 <= w
           /\ \A j \in 1..Len(stream) :
                Begin(stream, j) >= pos => Begin(stream, k) <= Begin(stream, j)
  BY <1>2, <1>3
<1>5. Begin(stream, k) \in Nat
  BY <1>1, BeginType
<1>6. soi.at - 2 = Begin(stream, k) /\ Begin(stream, k) + 2 <= pos + Limit
  BY <1>1, <1>2, <1>4, <1>5
<1>7. First(stream, pos, k)
  BY <1>4 DEF First
<1> QED
  BY <1>6, <1>7 DEF soi, Ahead

LEMMA SightOfNext ==
  ASSUME NEW b \in Nat, NEW z \in Nat, NEW h \in Nat, NEW p \in Nat, NEW limit \in Nat,
         z >= 4, h + z < limit
  PROVE  /\ b < p /\ p < b + z => b + z + h >= p /\ b + z + h + 2 <= p + limit
         /\ b <= p + h => b + 2 <= p + limit
         /\ b < p => b + z < p + limit
OBVIOUS

\* Where the reader can find its way and every frame fits, a start marker is in
\* sight unless the end of the stream is.
LEMMA PictureInSight ==
  ASSUME Types, Placed, Regular, Fits, pos + Limit <= Len(Joined(stream))
  PROVE  \E k \in 1..Len(stream) :
           Begin(stream, k) >= pos /\ Begin(stream, k) + 2 <= pos + Limit
<1> DEFINE n == Len(stream)
           N == Len(Joined(stream))
<1>1. /\ stream \in Streams /\ stream \in Seq(Frame) /\ DOMAIN stream = 1..n /\ n \in Nat
      /\ pos \in Nat /\ Limit \in Nat \ {0} /\ N \in Nat
  <2>1. stream \in Streams /\ pos \in 0..N
    BY DEF Types
  <2>2. stream \in Seq(Frame) /\ DOMAIN stream = 1..n /\ n \in Nat
    BY <2>1, StreamType
  <2>3. N \in Nat
    BY <2>2, EndSteps
  <2> QED
    BY <2>1, <2>2, <2>3, FramesAssumption
<1>2. PICK k \in 1..n : Ends(stream)[k - 1] < pos + 1 /\ pos + 1 <= Ends(stream)[k]
  <2>1. pos + 1 \in 1..N
    BY <1>1
  <2> QED
    BY <1>1, <2>1, FrameOfByte
<1> DEFINE b == Begin(stream, k)
           e == Ends(stream)[k - 1]
           h == stream[k].head
           z == Len(stream[k].jpeg)
<1>3. /\ b \in Nat /\ e \in Nat /\ h \in Nat /\ z \in Nat /\ z >= 4 /\ b = e + h
      /\ Ends(stream)[k] = b + z /\ Ends(stream)[n] = N /\ h + z < Limit
  <2>1. Size(stream[k]) < Limit /\ Size(stream[k]) = h + z
    BY <1>1, BeginType DEF Fits
  <2> QED
    BY <1>1, <2>1, BeginType
<1>4. CASE b >= pos
  <2>1. b <= pos + h
    <3> HIDE DEF b, e, h, z
    <3>1. e <= pos
      BY <1>1, <1>2, <1>3, SMTT(40) DEF e
    <3> QED
      BY <1>1, <1>3, <3>1
  <2>2. b + 2 <= pos + Limit
    <3> HIDE DEF b, e, h, z
    <3> QED
      BY <1>1, <1>3, <2>1, SightOfNext
  <2> QED
    BY <1>4, <2>2
<1>5. CASE ~(b >= pos)
  <2>1. b < pos /\ pos < b + z
    <3> HIDE DEF b, z
    <3> QED
      BY <1>1, <1>2, <1>3, <1>5, SMTT(40)
  <2>2. b + z + h >= pos /\ b + z + h + 2 <= pos + Limit /\ b + z < pos + Limit
    <3> HIDE DEF b, h, z
    <3> QED
      BY <1>1, <1>3, <2>1, SightOfNext
  <2>3. k # n
    BY <1>1, <1>3, <2>2
  <2>4. k + 1 \in 1..n /\ k + 1 - 1 = k
    <3>1. n \in Nat /\ k \in 1..n /\ k # n
      BY <1>1, <2>3
    <3> HIDE DEF n
    <3> QED
      BY <3>1
  <2>5. Even
    <3>1. ASSUME AllGiven PROVE FALSE
      <4>1. PICK j \in 0..n : pos = Ends(stream)[j]
        BY <3>1 DEF Placed
      <4>2. ~Inside(stream, pos, k)
        BY <1>1, <4>1, OutsideAtEnd
      <4>3. Inside(stream, pos, k)
        BY <1>3, <2>1 DEF Inside
      <4> QED
        BY <4>2, <4>3
    <3> QED
      BY <3>1 DEF Regular, AllGiven, Even
  <2>6. stream[k + 1].head = h
    BY <1>1, <2>4, <2>5 DEF Even
  <2>7. Begin(stream, k + 1) = b + z + h
    <3>1. Begin(stream, k + 1) = Ends(stream)[k + 1 - 1] + stream[k + 1].head
      BY <1>1, <2>4, BeginType, SMTT(40)
    <3> QED
      BY <1>3, <2>4, <2>6, <3>1
  <2>8. Begin(stream, k + 1) >= pos /\ Begin(stream, k + 1) + 2 <= pos + Limit
    <3> HIDE DEF b, h, z
    <3> QED
      BY <2>2, <2>7
  <2> QED
    BY <2>4, <2>8
<1> QED
  BY <1>4, <1>5

LEMMA InitIInv == Init => IInv
<1> SUFFICES ASSUME Init PROVE IInv
  OBVIOUS
<1>1. /\ stream \in Streams /\ pos = 0 /\ last = 0 /\ handed = Nothing /\ loop = "runs"
      /\ rgb = FALSE /\ sized = FALSE /\ decoded = FALSE
  BY DEF Init
<1>2. /\ Len(Joined(stream)) \in Nat /\ Len(stream) \in Nat /\ Ends(stream)[0] = 0
      /\ Ends(stream)[Len(stream)] = Len(Joined(stream))
  BY <1>1, StreamType, EndSteps
<1>3. Types
  <2>1. pos \in 0..Len(Joined(stream)) /\ last \in Nat
    BY <1>1, <1>2
  <2> QED
    BY <1>1, <2>1 DEF Types
<1>4. Placed
  <2>1. 0 \in 0..Len(stream)
    BY <1>2
  <2>2. Far(stream, 0, 0)
    <3>1. \A k \in 1..Len(stream) : ~Inside(stream, Ends(stream)[0], k)
      BY <1>1, <2>1, OutsideAtEnd
    <3> QED
      BY <1>2, <3>1 DEF Far
  <2> QED
    BY <1>1, <1>2, <2>1, <2>2 DEF Placed
<1>5. Sizes /\ WholeFrames /\ EndsExplained
  BY <1>1 DEF Sizes, WholeFrames, EndsExplained
<1>6. InTurn
  <2>1. CASE Len(stream) = 0
    BY <1>1, <1>2, <2>1 DEF InTurn
  <2>2. CASE Len(stream) # 0
    <3>1. 0 \in 0..(Len(stream) - 1)
      BY <1>2, <2>2
    <3>2. Follows(stream, pos, last, handed, 0)
      BY <1>1, <1>2 DEF Follows, Behind
    <3> QED
      BY <3>1, <3>2 DEF InTurn
  <2> QED
    BY <2>1, <2>2
<1> QED
  BY <1>3, <1>4, <1>5, <1>6 DEF IInv

\* Only what is said of the end of playback is left, where a turn reads nothing.
LEMMA EndKeeps ==
  ASSUME IInv, UNCHANGED <<input, native, opens>>, loop = "runs", loop' # "cut off", EndsExplained'
  PROVE  IInv'
<1>1. UNCHANGED input /\ stream' = stream /\ pos' = pos /\ last' = last
      /\ rgb' = rgb /\ sized' = sized /\ decoded' = decoded
  BY DEF input, native
<1>2. Types'
  BY <1>1 DEF IInv, Types
<1>3. Sizes'
  BY <1>1 DEF IInv, Sizes
<1>4. Placed' /\ InTurn' /\ WholeFrames'
  BY <1>1, InputKept DEF IInv
<1> QED
  BY <1>2, <1>3, <1>4 DEF IInv

LEMMA NoMoreFramesStep ==
  ASSUME IInv, loop = "runs", NoMoreFrames
  PROVE  IInv'
<1> DEFINE soi == Search(pos, SOI, Limit)
           N == Len(Joined(stream))
<1>1. UNCHANGED <<input, native, opens>> /\ loop' = "ended" /\ soi.dry
  BY DEF NoMoreFrames
<1>2. stream' = stream /\ pos' = pos /\ stream \in Streams /\ pos \in Nat /\ Limit \in Nat
      /\ N \in Nat
  <2>1. stream' = stream /\ pos' = pos /\ stream \in Streams /\ pos \in 0..N
    BY <1>1 DEF input, IInv, Types
  <2>2. N \in Nat
    BY <2>1, StreamType, EndSteps
  <2> QED
    BY <2>1, <2>2, FramesAssumption
<1>3. \A k \in 1..Len(stream) : Begin(stream, k) < pos
  <2>1. LET w == Sight(stream, pos, Limit)
        IN  /\ w \in Nat /\ w <= N
            /\ ~soi.found => \A k \in 1..Len(stream) :
                 Begin(stream, k) >= pos => Begin(stream, k) + 2 > w
            /\ soi.dry <=> ~soi.found /\ pos + Limit > N
    BY <1>2, FindsPicture
  <2>2. Sight(stream, pos, Limit) = IF pos + Limit < N THEN pos + Limit ELSE N
    BY Zenon DEF Sight
  <2>3. Sight(stream, pos, Limit) = N
    <3> HIDE DEF soi, N
    <3>1. ~(pos + Limit < N)
      BY <1>1, <1>2, <2>1
    <3> QED
      BY <2>2, <3>1
  <2>4. ASSUME NEW k \in 1..Len(stream) PROVE Begin(stream, k) < pos
    <3>1. /\ Begin(stream, k) \in Nat /\ Len(stream[k].jpeg) \in Nat /\ Len(stream[k].jpeg) >= 4
          /\ Ends(stream)[k] = Begin(stream, k) + Len(stream[k].jpeg) /\ Ends(stream)[k] <= N
      BY <1>2, BeginType
    <3>2. Begin(stream, k) + 2 <= N
      BY <1>2, <3>1
    <3>3. ~(Begin(stream, k) >= pos)
      <4> HIDE DEF soi, N
      <4>1. Begin(stream, k) >= pos => Begin(stream, k) + 2 > N
        BY <1>1, <2>1, <2>3
      <4> QED
        BY <1>2, <3>1, <3>2, <4>1
    <3> QED
      BY <1>2, <3>1, <3>3
  <2> QED
    BY <2>4
<1>4. EndsExplained'
  <2>1. \A k \in DOMAIN stream : Start(k) < pos
    BY <1>2, <1>3, InStream
  <2>2. \A k \in DOMAIN stream' : Start(k)' < pos'
    BY <1>2, <2>1, SameStream
  <2> QED
    BY <1>1, <2>2 DEF EndsExplained
<1> QED
  BY <1>1, <1>4, EndKeeps

LEMMA NoHeaderStep ==
  ASSUME IInv, loop = "runs", NoHeader
  PROVE  IInv'
<1> DEFINE soi == Search(pos, SOI, Limit)
           N == Len(Joined(stream))
<1>1. UNCHANGED <<input, native, opens>> /\ loop' = "no header" /\ ~soi.found /\ ~soi.dry
  BY DEF NoHeader
<1>2. stream' = stream /\ stream \in Streams /\ pos \in Nat /\ Limit \in Nat /\ N \in Nat
      /\ Types /\ Placed
  <2>1. stream' = stream /\ stream \in Streams /\ pos \in 0..N /\ Types /\ Placed
    BY <1>1 DEF input, IInv, Types
  <2>2. N \in Nat
    BY <2>1, StreamType, EndSteps
  <2> QED
    BY <2>1, <2>2, FramesAssumption
<1>3. ASSUME Regular, Fits PROVE FALSE
  <2>1. LET w == Sight(stream, pos, Limit)
        IN  /\ w \in Nat /\ w <= N
            /\ ~soi.found => \A k \in 1..Len(stream) :
                 Begin(stream, k) >= pos => Begin(stream, k) + 2 > w
            /\ soi.dry <=> ~soi.found /\ pos + Limit > N
    BY <1>2, FindsPicture
  <2>2. Sight(stream, pos, Limit) = IF pos + Limit < N THEN pos + Limit ELSE N
    BY Zenon DEF Sight
  <2>3. pos + Limit <= N
    <3>1. ~(pos + Limit > N)
      BY <1>1, <2>1, Zenon
    <3> HIDE DEF soi, N
    <3> QED
      BY <1>2, <3>1
  <2>4. Sight(stream, pos, Limit) = pos + Limit
    <3> HIDE DEF soi, N
    <3> QED
      BY <1>2, <2>2, <2>3
  <2>5. PICK k \in 1..Len(stream) :
          Begin(stream, k) >= pos /\ Begin(stream, k) + 2 <= pos + Limit
    BY <1>2, <1>3, <2>3, PictureInSight
  <2>6. Begin(stream, k) + 2 > pos + Limit
    BY <1>1, <2>1, <2>4, <2>5
  <2>7. Begin(stream, k) \in Nat
    BY <1>2, BeginType
  <2> QED
    BY <1>2, <2>5, <2>6, <2>7
<1>4. EndsExplained'
  BY <1>1, <1>2, <1>3, SameStream DEF EndsExplained
<1> QED
  BY <1>1, <1>4, EndKeeps

LEMMA NoLengthStep ==
  ASSUME IInv, loop = "runs", NoLength
  PROVE  IInv'
<1> DEFINE soi == Search(pos, SOI, Limit)
<1>1. UNCHANGED <<input, native, opens>> /\ loop' = "no length" /\ soi.found
      /\ Length(soi.at - 2).is = "missing"
  BY DEF NoLength
<1>2. stream' = stream /\ Types /\ Placed
  BY <1>1 DEF input, IInv
<1>3. PICK k \in 1..Len(stream) : soi.at - 2 = Begin(stream, k) /\ Ahead(k)
  BY <1>1, <1>2, SearchAhead
<1>4. ASSUME Regular, Fits PROVE FALSE
  <2>1. LET c == Length(Begin(stream, k))
            to == Begin(stream, k) + c.length
        IN  \/ /\ c.is = "found" /\ c.length \in Nat /\ to >= Ends(stream)[k]
               /\ AllGiven => to = Ends(stream)[k] /\ c.length = Len(stream[k].jpeg)
               /\ Even => \A i \in 1..Len(stream) : ~Inside(stream, to, i)
            \/ /\ c.is = "dropped" /\ c.at \in 0..Len(Joined(stream))
               /\ ~AllGiven /\ (Even => Far(stream, c.at, last))
            \/ /\ c.is = "late" /\ c.at \in 0..Len(Joined(stream)) /\ c.length \in Nat
               /\ ~AllGiven /\ (Even => Far(stream, c.at, c.length))
            \/ c.is = "missing" /\ ~AllGiven /\ ~Fits
    BY <1>2, <1>3, <1>4, TurnCuts
  <2>2. Length(Begin(stream, k)).is = "missing"
    BY <1>1, <1>3
  <2> QED
    BY <1>4, <2>1, <2>2
<1>5. EndsExplained'
  BY <1>1, <1>2, <1>4, SameStream DEF EndsExplained
<1> QED
  BY <1>1, <1>5, EndKeeps

\* The decoder: what it leaves and what it ends playback with.
LEMMA PixelToBmpSteps ==
  ASSUME IInv, loop = "runs", NEW bytes, PixelToBmp(bytes)
  PROVE  /\ (rgb \in BOOLEAN)' /\ (sized \in BOOLEAN)' /\ (decoded \in BOOLEAN)'
         /\ Sizes'
         /\ loop' \in {"ended", "no picture", "runs", "cut off"}
         /\ loop' = "ended" => ~decoded'
         /\ loop' = "no picture" => decoded' /\ ~rgb'
         /\ loop' = "cut off" => ~Whole(bytes)
<1>1. /\ rgb \in BOOLEAN /\ sized \in BOOLEAN /\ decoded \in BOOLEAN
      /\ (sized <=> decoded)
  BY DEF IInv, Types, Sizes
<1>2. CASE ProcessImage /\ loop' = IF ~sized' THEN "ended"
                                   ELSE IF ~rgb' THEN "no picture" ELSE "runs"
  <2>1. /\ rgb' \in BOOLEAN /\ sized' \in BOOLEAN /\ decoded' \in BOOLEAN
        /\ (sized' <=> decoded')
    <3>1. CASE UNCHANGED native
      <4>1. rgb' = rgb /\ sized' = sized /\ decoded' = decoded
        BY <3>1 DEF native
      <4> QED
        BY <1>1, <4>1
    <3>2. CASE rgb' = TRUE /\ decoded' = TRUE /\ sized' = TRUE
      BY <3>2
    <3> QED
      BY <1>2, <3>1, <3>2 DEF ProcessImage
  <2>2. \/ ~sized' /\ loop' = "ended"
        \/ sized' /\ ~rgb' /\ loop' = "no picture"
        \/ sized' /\ rgb' /\ loop' = "runs"
    BY <1>2, Zenon
  <2> QED
    BY <2>1, <2>2 DEF Sizes
<1>3. CASE /\ ~Whole(bytes) /\ loop' = "cut off"
           /\ rgb' = TRUE /\ sized' = TRUE /\ UNCHANGED decoded
  BY <1>1, <1>3 DEF Sizes
<1> QED
  BY <1>2, <1>3 DEF PixelToBmp

LEMMA CutStep ==
  ASSUME IInv, loop = "runs", Cut
  PROVE  IInv'
<1> DEFINE soi == Search(pos, SOI, Limit)
           start == soi.at - 2
           c == Length(start)
           to == start + c.length
           n == Len(stream)
           N == Len(Joined(stream))
<1>0. Types /\ Placed /\ InTurn /\ stream \in Streams
  BY DEF IInv, Types
<1>1. /\ soi.found /\ c.is = "found" /\ to <= N
      /\ last' = c.length /\ pos' = to /\ handed' = [from |-> start, to |-> to]
      /\ PixelToBmp(handed') /\ stream' = stream
  <2>1. Len(Data) = N
    BY <1>0, InStream
  <2> QED
    BY <2>1 DEF Cut
<1>2. PICK k \in 1..n : start = Begin(stream, k) /\ Ahead(k)
  BY <1>0, <1>1, SearchAhead
<1>3. /\ n \in Nat /\ DOMAIN stream = 1..n /\ N \in Nat /\ start \in Nat
      /\ k \in 0..n /\ n \in 0..n /\ Ends(stream)[n] = N
  <2>1. n \in Nat /\ DOMAIN stream = 1..n
    BY <1>0, StreamType
  <2>2. N \in Nat /\ start \in Nat /\ Ends(stream)[n] = N
    BY <1>0, <1>2, BeginType
  <2> HIDE DEF n
  <2>3. k \in 0..n /\ n \in 0..n
    BY <2>1
  <2> QED
    BY <2>1, <2>2, <2>3
<1>4. c.length \in Nat /\ to \in Nat
  <2>1. \/ c.is = "found" /\ c.length \in Nat
        \/ c.is = "dropped" /\ c.at \in 0..N
        \/ c.is = "late" /\ c.at \in 0..N /\ c.length \in Nat
        \/ c.is = "missing"
    BY <1>0, <1>2, LengthType
  <2>2. c.length \in Nat
    BY <1>1, <2>1
  <2> HIDE DEF start, c
  <2> QED
    BY <1>3, <2>2
<1>5. ASSUME Regular
      PROVE  /\ to >= Ends(stream)[k]
             /\ AllGiven => to = Ends(stream)[k]
             /\ Even => \A i \in 1..n : ~Inside(stream, to, i)
  <2>1. \/ /\ c.is = "found" /\ c.length \in Nat /\ to >= Ends(stream)[k]
           /\ AllGiven => to = Ends(stream)[k] /\ c.length = Len(stream[k].jpeg)
           /\ Even => \A i \in 1..Len(stream) : ~Inside(stream, to, i)
        \/ /\ c.is = "dropped" /\ c.at \in 0..Len(Joined(stream))
           /\ ~AllGiven /\ (Even => Far(stream, c.at, last))
        \/ /\ c.is = "late" /\ c.at \in 0..Len(Joined(stream)) /\ c.length \in Nat
           /\ ~AllGiven /\ (Even => Far(stream, c.at, c.length))
        \/ c.is = "missing" /\ ~AllGiven /\ ~Fits
    <3>1. LET d == Length(Begin(stream, k))
              end == Begin(stream, k) + d.length
          IN  \/ /\ d.is = "found" /\ d.length \in Nat /\ end >= Ends(stream)[k]
                 /\ AllGiven => end = Ends(stream)[k] /\ d.length = Len(stream[k].jpeg)
                 /\ Even => \A i \in 1..Len(stream) : ~Inside(stream, end, i)
              \/ /\ d.is = "dropped" /\ d.at \in 0..Len(Joined(stream))
                 /\ ~AllGiven /\ (Even => Far(stream, d.at, last))
              \/ /\ d.is = "late" /\ d.at \in 0..Len(Joined(stream)) /\ d.length \in Nat
                 /\ ~AllGiven /\ (Even => Far(stream, d.at, d.length))
              \/ d.is = "missing" /\ ~AllGiven /\ ~Fits
      BY <1>0, <1>2, <1>5, TurnCuts
    <3> QED
      BY <1>2, <3>1
  <2>2. ~(c.is = "dropped") /\ ~(c.is = "late") /\ ~(c.is = "missing")
    BY <1>1
  <2> QED
    BY <2>1, <2>2, Zenon
<1>6. /\ Types' /\ Sizes' /\ loop' \in {"ended", "no picture", "runs", "cut off"}
      /\ loop' = "ended" => ~decoded'
      /\ loop' = "no picture" => decoded' /\ ~rgb'
      /\ loop' = "cut off" => ~Whole(handed')
  <2>1. /\ (rgb \in BOOLEAN)' /\ (sized \in BOOLEAN)' /\ (decoded \in BOOLEAN)' /\ Sizes'
        /\ loop' \in {"ended", "no picture", "runs", "cut off"}
        /\ loop' = "ended" => ~decoded'
        /\ loop' = "no picture" => decoded' /\ ~rgb'
        /\ loop' = "cut off" => ~Whole(handed')
    BY <1>1, PixelToBmpSteps
  <2>2. to \in 0..N
    <3> HIDE DEF to, N
    <3> QED
      BY <1>1, <1>3, <1>4
  <2>3. Types'
    BY <1>0, <1>1, <1>4, <2>1, <2>2 DEF Types
  <2> QED
    BY <2>1, <2>3
<1>7. handed'.from = Begin(stream, k) /\ handed'.to = to
  BY <1>1, <1>2
<1>8. Regular => Whole(handed')
  <2>1. ASSUME Regular PROVE Holds(handed', k)
    <3>1. Start(k) = Begin(stream, k) /\ Start(k) + Len(stream[k].jpeg) = Ends(stream)[k]
      BY <1>0, InStream
    <3> QED
      BY <1>5, <1>7, <2>1, <3>1 DEF Holds
  <2> QED
    BY <1>3, <2>1 DEF Whole
<1>9. WholeFrames'
  <2>1. Whole(handed') => Whole(handed)'
    BY <1>1, SameStream DEF Whole, Holds
  <2> QED
    BY <1>1, <1>8, <2>1, SameStream DEF WholeFrames
<1>10. EndsExplained'
  <2>1. loop' \in {"no header", "no length", "cut off"} => ~Regular
    BY <1>6, <1>8
  <2> QED
    BY <1>1, <1>6, <2>1, SameStream DEF EndsExplained
<1>11. Placed'
  <2>1. AllGiven => to = Ends(stream)[k]
    BY <1>5 DEF Regular, AllGiven
  <2>2. Even => Far(stream, to, c.length)
    <3>1. Even => \A i \in 1..n : ~Inside(stream, to, i)
      BY <1>5 DEF Regular, Even
    <3> QED
      BY <3>1 DEF Far
  <2> HIDE DEF to, c
  <2> QED
    BY <1>1, <1>3, <2>1, <2>2, SameStream DEF Placed
<1>12. InTurn'
  <2>1. ASSUME Regular, Fits, Steady
        PROVE  to = N \/ \E j \in 0..(n - 1) : Follows(stream, to, c.length, handed', j)
    <3>1. Follows(stream, pos, last, handed, k - 1)
      <4>1. pos # N
        BY <1>0, <1>2, AheadInStream
      <4>2. PICK j \in 0..(n - 1) : Follows(stream, pos, last, handed, j)
        BY <1>0, <2>1, <4>1 DEF InTurn
      <4>3. k = j + 1
        <5>1. Behind(stream, pos, j)
          BY <4>2 DEF Follows
        <5> QED
          BY <1>0, <1>2, <5>1, AheadNext
      <4>4. j = k - 1
        BY <4>2, <4>3
      <4> QED
        BY <4>2, <4>4
    <3>2. /\ c.length <= Size(stream[k])
          /\ to = N \/ (k < n /\ Behind(stream, to, k))
      BY <1>0, <1>1, <1>2, <2>1, <3>1, NextInTurn
    <3>3. HoldsIn(stream, handed', k)
      BY <1>5, <1>7, <2>1 DEF HoldsIn
    <3>4. k < n => k \in 0..(n - 1) /\ k # 0
      BY <1>3
    <3> QED
      BY <3>2, <3>3, <3>4 DEF Follows
  <2> HIDE DEF to, c
  <2> QED
    BY <1>1, <2>1, SameStream DEF InTurn
<1> QED
  BY <1>6, <1>9, <1>10, <1>11, <1>12 DEF IInv

LEMMA LostStep ==
  ASSUME IInv, loop = "runs", Lost
  PROVE  IInv'
<1> DEFINE soi == Search(pos, SOI, Limit)
           start == soi.at - 2
           c == Length(start)
           to == start + c.length
           n == Len(stream)
           N == Len(Joined(stream))
<1>0. Types /\ Placed /\ InTurn /\ Sizes /\ WholeFrames /\ stream \in Streams
  BY DEF IInv, Types
<1>1. /\ soi.found
      /\ \/ c.is = "dropped" /\ pos' = c.at /\ last' = last
         \/ c.is = "late" /\ pos' = c.at /\ last' = c.length
         \/ c.is = "found" /\ to > N /\ pos' = N /\ last' = c.length
      /\ stream' = stream /\ handed' = handed /\ loop' = loop
      /\ rgb' = rgb /\ sized' = sized /\ decoded' = decoded
  BY <1>0, InStream DEF Lost, native
<1>2. PICK k \in 1..n : start = Begin(stream, k) /\ Ahead(k)
  BY <1>0, <1>1, SearchAhead
<1>3. /\ n \in Nat /\ DOMAIN stream = 1..n /\ N \in Nat /\ n \in 0..n
      /\ Ends(stream)[n] = N /\ Ends(stream)[k] <= N /\ Ends(stream)[k] \in Nat
  <2>1. n \in Nat /\ DOMAIN stream = 1..n
    BY <1>0, StreamType
  <2>2. N \in Nat /\ Ends(stream)[n] = N /\ Ends(stream)[k] <= N /\ Ends(stream)[k] \in Nat
    BY <1>0, <1>2, BeginType
  <2> QED
    BY <2>1, <2>2
<1>4. \/ c.is = "found" /\ c.length \in Nat
      \/ c.is = "dropped" /\ c.at \in 0..N
      \/ c.is = "late" /\ c.at \in 0..N /\ c.length \in Nat
      \/ c.is = "missing"
  BY <1>0, <1>2, LengthType
<1>5. ASSUME Regular
      PROVE  \/ c.is = "found" /\ (AllGiven => to = Ends(stream)[k])
             \/ c.is = "dropped" /\ ~AllGiven /\ (Even => Far(stream, c.at, last))
             \/ c.is = "late" /\ ~AllGiven /\ (Even => Far(stream, c.at, c.length))
             \/ c.is = "missing"
  <2>1. LET d == Length(Begin(stream, k))
            end == Begin(stream, k) + d.length
        IN  \/ /\ d.is = "found" /\ d.length \in Nat /\ end >= Ends(stream)[k]
               /\ AllGiven => end = Ends(stream)[k] /\ d.length = Len(stream[k].jpeg)
               /\ Even => \A i \in 1..Len(stream) : ~Inside(stream, end, i)
            \/ /\ d.is = "dropped" /\ d.at \in 0..Len(Joined(stream))
               /\ ~AllGiven /\ (Even => Far(stream, d.at, last))
            \/ /\ d.is = "late" /\ d.at \in 0..Len(Joined(stream)) /\ d.length \in Nat
               /\ ~AllGiven /\ (Even => Far(stream, d.at, d.length))
            \/ d.is = "missing" /\ ~AllGiven /\ ~Fits
    BY <1>0, <1>2, <1>5, TurnCuts
  <2> QED
    BY <1>2, <2>1
<1>6. Types'
  <2>1. pos' \in 0..N /\ last' \in Nat
    <3>1. last \in Nat
      BY <1>0 DEF Types
    <3>2. N \in 0..N
      BY <1>3
    <3> HIDE DEF N, to, c
    <3> QED
      BY <1>1, <1>4, <3>1, <3>2
  <2> QED
    BY <1>0, <1>1, <2>1 DEF Types
<1>7. ~AllGiven
  <2>1. ASSUME AllGiven PROVE FALSE
    <3>1. Regular
      BY <2>1 DEF Regular, AllGiven
    <3>2. c.is = "found" /\ to > N /\ to = Ends(stream)[k]
      <4>1. c.is = "dropped" \/ c.is = "late" \/ (c.is = "found" /\ to > N)
        BY <1>1
      <4>2. /\ c.is # "missing" /\ ~(c.is = "dropped" /\ c.is = "found")
            /\ ~(c.is = "late" /\ c.is = "found")
        BY <4>1
      <4> HIDE DEF c, to
      <4> QED
        BY <1>5, <2>1, <3>1, <4>1, <4>2
    <3> HIDE DEF to, N
    <3> QED
      BY <1>3, <3>2
  <2> QED
    BY <2>1
<1>8. Even => Far(stream, pos', last')
  <2>1. ASSUME Even PROVE Far(stream, pos', last')
    <3>1. Regular
      BY <2>1 DEF Regular, Even
    <3>2. CASE c.is = "dropped"
      <4>1. c.is # "found" /\ c.is # "late" /\ c.is # "missing"
        BY <3>2
      <4>2. Far(stream, c.at, last) /\ pos' = c.at /\ last' = last
        BY <1>1, <1>5, <2>1, <3>1, <4>1
      <4> QED
        BY <4>2
    <3>3. CASE c.is = "found"
      <4>1. c.is # "dropped" /\ c.is # "late"
        BY <3>3
      <4>2. pos' = Ends(stream)[n]
        BY <1>1, <1>3, <4>1
      <4>3. \A i \in 1..n : ~Inside(stream, Ends(stream)[n], i)
        BY <1>0, <1>3, OutsideAtEnd
      <4> QED
        BY <4>2, <4>3 DEF Far
    <3>4. CASE c.is = "late"
      <4>1. c.is # "found" /\ c.is # "dropped" /\ c.is # "missing"
        BY <3>4
      <4>2. Far(stream, c.at, c.length) /\ pos' = c.at /\ last' = c.length
        BY <1>1, <1>5, <2>1, <3>1, <4>1
      <4> QED
        BY <4>2
    <3> QED
      BY <1>1, <3>2, <3>3, <3>4
  <2> QED
    BY <2>1
<1>9. Placed'
  BY <1>1, <1>7, <1>8, SameStream DEF Placed
<1>10. Sizes'
  BY <1>0, <1>1 DEF Sizes
<1>11. WholeFrames'
  <2>1. Whole(handed) => Whole(handed)'
    BY <1>1, SameStream DEF Whole, Holds
  <2> QED
    BY <1>0, <1>1, <2>1, SameStream DEF WholeFrames
<1>12. EndsExplained'
  BY <1>1 DEF EndsExplained
<1>13. InTurn'
  <2>1. ASSUME Regular, Fits, Steady PROVE pos' = N
    <3>1. PICK j \in 0..(n - 1) : Follows(stream, pos, last, handed, j)
      <4>1. pos # N
        BY <1>0, <1>2, AheadInStream
      <4> QED
        BY <1>0, <2>1, <4>1 DEF InTurn
    <3>2. k = j + 1
      <4>1. Behind(stream, pos, j)
        BY <3>1 DEF Follows
      <4> QED
        BY <1>0, <1>2, <4>1, AheadNext
    <3>3. Follows(stream, pos, last, handed, k - 1)
      <4>1. j = k - 1
        BY <3>1, <3>2
      <4> QED
        BY <3>1, <4>1
    <3>4. c.is = "found"
      BY <1>0, <1>2, <2>1, <3>3, NextInTurn
    <3>5. c.is # "dropped" /\ c.is # "late"
      BY <3>4
    <3> QED
      BY <1>1, <3>5
  <2> QED
    BY <1>1, <2>1, SameStream DEF InTurn
<1> QED
  BY <1>6, <1>9, <1>10, <1>11, <1>12, <1>13 DEF IInv

LEMMA FreeStep ==
  ASSUME IInv, FreeCameraMemory
  PROVE  IInv'
<1>1. /\ UNCHANGED input /\ loop = "runs" /\ loop' = "runs" /\ rgb' = FALSE
      /\ sized' = sized /\ decoded' = decoded /\ stream' = stream /\ pos' = pos /\ last' = last
  BY DEF FreeCameraMemory, input
<1>2. Types' /\ Sizes' /\ EndsExplained'
  BY <1>1 DEF IInv, Types, Sizes, EndsExplained
<1>3. Placed' /\ InTurn' /\ WholeFrames'
  BY <1>1, InputKept DEF IInv
<1> QED
  BY <1>2, <1>3 DEF IInv

\* The stream begins again.
LEMMA OpenStep ==
  ASSUME IInv, Open
  PROVE  IInv'
<1>1. /\ loop \in {"runs", "ended"} /\ pos' = 0 /\ last' = 0 /\ handed' = Nothing
      /\ loop' = "runs" /\ stream' = stream
      /\ rgb' = rgb /\ sized' = sized /\ decoded' = decoded
  BY DEF Open, native
<1>2. /\ stream \in Streams /\ Len(Joined(stream)) \in Nat /\ Len(stream) \in Nat
      /\ Ends(stream)[0] = 0 /\ Ends(stream)[Len(stream)] = Len(Joined(stream))
  BY StreamType, EndSteps DEF IInv, Types
<1>3. Types'
  <2>1. 0 \in 0..Len(Joined(stream))
    BY <1>2
  <2> QED
    BY <1>1, <2>1 DEF IInv, Types
<1>4. Placed'
  <2>1. 0 \in 0..Len(stream)
    BY <1>2
  <2>2. Far(stream, 0, 0)
    <3>1. \A k \in 1..Len(stream) : ~Inside(stream, Ends(stream)[0], k)
      BY <1>2, <2>1, OutsideAtEnd
    <3> QED
      BY <1>2, <3>1 DEF Far
  <2> QED
    BY <1>1, <1>2, <2>1, <2>2 DEF Placed
<1>5. Sizes' /\ WholeFrames' /\ EndsExplained'
  BY <1>1 DEF IInv, Sizes, WholeFrames, EndsExplained
<1>6. InTurn'
  <2>1. CASE Len(stream) = 0
    BY <1>1, <1>2, <2>1 DEF InTurn
  <2>2. CASE Len(stream) # 0
    <3>1. 0 \in 0..(Len(stream) - 1)
      BY <1>2, <2>2
    <3>2. Follows(stream, 0, 0, Nothing, 0)
      BY <1>2 DEF Follows, Behind
    <3> QED
      BY <1>1, <3>1, <3>2 DEF InTurn
  <2> QED
    BY <2>1, <2>2
<1> QED
  BY <1>3, <1>4, <1>5, <1>6 DEF IInv

LEMMA NextIInv == IInv /\ [Next]_vars => IInv'
<1> SUFFICES ASSUME IInv, [Next]_vars PROVE IInv'
  OBVIOUS
<1>1. CASE ReadMjpegFrame
  <2>1. loop = "runs" /\ (NoMoreFrames \/ NoHeader \/ Cut \/ Lost \/ NoLength)
    BY <1>1 DEF ReadMjpegFrame
  <2> QED
    BY <2>1, NoMoreFramesStep, NoHeaderStep, CutStep, LostStep, NoLengthStep
<1>2. CASE FreeCameraMemory
  BY <1>2, FreeStep
<1>3. CASE Open
  BY <1>3, OpenStep
<1>4. CASE UNCHANGED vars
  <2>1. /\ UNCHANGED input /\ loop' = loop /\ stream' = stream /\ pos' = pos /\ last' = last
        /\ rgb' = rgb /\ sized' = sized /\ decoded' = decoded
    BY <1>4 DEF vars, input, native
  <2>2. Types' /\ Sizes'
    BY <2>1 DEF IInv, Types, Sizes
  <2>3. Placed' /\ InTurn' /\ WholeFrames'
    BY <2>1, InputKept DEF IInv
  <2>4. EndsExplained'
    BY <2>1, SameStream DEF IInv, EndsExplained
  <2> QED
    BY <2>2, <2>3, <2>4 DEF IInv
<1> QED
  BY <1>1, <1>2, <1>3, <1>4 DEF Next

LEMMA InvariantHolds == Spec => []IInv
<1> QED
  BY InitIInv, NextIInv, PTL DEF Spec

-----------------------------------------------------------------------------
(* Theorems.                                                               *)

\* What readMjpegFrame hands to the native decoder begins with a picture of the
\* stream and has all of it, in a stream the reader can find its way in, whether
\* the length was in the header or the end was searched for, and wherever the
\* search before has stopped.
THEOREM DecoderGetsWholeFrames == Spec => []WholeFrames
<1>1. IInv => WholeFrames
  BY DEF IInv
<1> QED
  BY InvariantHolds, <1>1, PTL

\* Playback ends before the last frame only if nothing has been decoded, and it
\* ends the process only for the reasons that are listed: frames that readMjpegFrame
\* cannot see to the end of, or a buffer freed before a picture that fails.
THEOREM EndIsExplained == Spec => []EndsExplained
<1>1. IInv => EndsExplained
  BY DEF IInv
<1> QED
  BY InvariantHolds, <1>1, PTL

\* readMjpegFrame hands on the pictures of a stream of fitting, steady frames in
\* their order, from the first one, none left out and none twice.
THEOREM PicturesInTurn == Spec => NoneSkipped
<1> DEFINE Turn == Regular /\ Fits /\ Steady /\ handed' \notin {handed, Nothing} =>
                     \E k \in DOMAIN stream :
                       /\ Holds(handed', k)
                       /\ IF handed = Nothing THEN k = 1 ELSE k > 1 /\ Holds(handed, k - 1)
<1>1. IInv /\ [Next]_vars => [Turn]_vars
  <2> SUFFICES ASSUME IInv, Next, Regular, Fits, Steady, handed' \notin {handed, Nothing}
               PROVE  \E k \in DOMAIN stream :
                        /\ Holds(handed', k)
                        /\ IF handed = Nothing THEN k = 1 ELSE k > 1 /\ Holds(handed, k - 1)
    BY Zenon
  <2>1. Cut /\ loop = "runs"
    BY DEF Next, ReadMjpegFrame, NoMoreFrames, NoHeader, Lost, NoLength, FreeCameraMemory, Open,
           input
  <2>2. Types /\ Placed /\ InTurn /\ stream \in Streams
    BY DEF IInv, Types
  <2> DEFINE soi == Search(pos, SOI, Limit)
             start == soi.at - 2
             c == Length(start)
             n == Len(stream)
  <2>3. /\ soi.found /\ c.is = "found" /\ handed' = [from |-> start, to |-> start + c.length]
    BY <2>1 DEF Cut
  <2>4. PICK k \in 1..n : start = Begin(stream, k) /\ Ahead(k)
    BY <2>2, <2>3, SearchAhead
  <2>5. DOMAIN stream = 1..n /\ n \in Nat
    BY <2>2, StreamType
  <2>6. Follows(stream, pos, last, handed, k - 1)
    <3>1. pos # Len(Joined(stream))
      BY <2>2, <2>4, AheadInStream
    <3>2. PICK j \in 0..(n - 1) : Follows(stream, pos, last, handed, j)
      BY <2>2, <3>1 DEF InTurn
    <3>3. k = j + 1
      <4>1. Behind(stream, pos, j)
        BY <3>2 DEF Follows
      <4> QED
        BY <2>2, <2>4, <4>1, AheadNext
    <3>4. j = k - 1
      BY <3>2, <3>3
    <3> QED
      BY <3>2, <3>4
  <2>7. start + c.length >= Ends(stream)[k]
    <3>1. LET d == Length(Begin(stream, k))
              end == Begin(stream, k) + d.length
          IN  \/ /\ d.is = "found" /\ d.length \in Nat /\ end >= Ends(stream)[k]
                 /\ AllGiven => end = Ends(stream)[k] /\ d.length = Len(stream[k].jpeg)
                 /\ Even => \A i \in 1..Len(stream) : ~Inside(stream, end, i)
              \/ /\ d.is = "dropped" /\ d.at \in 0..Len(Joined(stream))
                 /\ ~AllGiven /\ (Even => Far(stream, d.at, last))
              \/ /\ d.is = "late" /\ d.at \in 0..Len(Joined(stream)) /\ d.length \in Nat
                 /\ ~AllGiven /\ (Even => Far(stream, d.at, d.length))
              \/ d.is = "missing" /\ ~AllGiven /\ ~Fits
      BY <2>2, <2>4, TurnCuts
    <3>2. Length(Begin(stream, k)).is = "found"
      BY <2>3, <2>4
    <3>3. Begin(stream, k) + Length(Begin(stream, k)).length >= Ends(stream)[k]
      BY <3>1, <3>2
    <3> QED
      BY <2>4, <3>3
  <2>8. \A j \in 1..n : Start(j) = Begin(stream, j)
                        /\ Start(j) + Len(stream[j].jpeg) = Ends(stream)[j]
    BY <2>2, InStream
  <2>9. Holds(handed', k)
    BY <2>3, <2>4, <2>7, <2>8 DEF Holds
  <2>10. CASE k = 1
    <3>1. handed = Nothing
      BY <2>6, <2>10 DEF Follows
    <3> QED
      BY <2>5, <2>9, <2>10, <3>1
  <2>11. CASE k # 1
    <3>1. k - 1 # 0 /\ k > 1 /\ k - 1 \in 1..n
      BY <2>4, <2>5, <2>11
    <3>2. HoldsIn(stream, handed, k - 1)
      BY <2>6, <3>1 DEF Follows
    <3>3. Holds(handed, k - 1)
      BY <2>8, <3>1, <3>2 DEF Holds, HoldsIn
    <3>4. handed # Nothing
      <4>1. /\ Ends(stream)[k - 1] = Begin(stream, k - 1) + Len(stream[k - 1].jpeg)
            /\ Begin(stream, k - 1) \in Nat /\ Len(stream[k - 1].jpeg) \in Nat
            /\ Len(stream[k - 1].jpeg) >= 4
        BY <2>2, <3>1, BeginType
      <4>2. ~(0 >= Ends(stream)[k - 1])
        BY <4>1
      <4> QED
        BY <3>2, <4>2 DEF HoldsIn, Nothing
    <3> QED
      BY <2>5, <2>9, <3>1, <3>3, <3>4
  <2> QED
    BY <2>10, <2>11
<1> QED
  BY InvariantHolds, <1>1, PTL DEF Spec, NoneSkipped
=============================================================================
