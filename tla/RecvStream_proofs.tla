-------------------------- MODULE RecvStream_proofs --------------------------
(***************************************************************************)
(* The receive path gives PacketProcessing the packets of a connection     *)
(* whole, once and in order, however the stream is cut into receives, for  *)
(* any capacity, header and sizes that fit.                                *)
(***************************************************************************)
EXTENDS RecvStream, SequenceTheorems, TLAPS

Size(s, k) == HeaderSize + s[k]

(***************************************************************************)
(* The first L entries of r are the packets of s behind the first n, byte  *)
(* by byte.  Where one byte of a packet is, the whole packet is around it: *)
(* that makes it possible to take a packet off the front without counting  *)
(* its bytes one by one.                                                   *)
(***************************************************************************)
IsStream(r, L, n, s) ==
  /\ L \in Nat /\ n \in Nat /\ n <= Len(s)
  /\ L = 0 <=> n = Len(s)
  /\ L > 0 => r[1] = <<n + 1, 1>> /\ r[L] = <<Len(s), Size(s, Len(s))>>
  /\ \A i \in 1..L : \E k \in (n + 1)..Len(s) : \E b \in 1..Size(s, k) : r[i] = <<k, b>>
  /\ \A i \in 1..L, k \in (n + 1)..Len(s) : \A b \in 1..Size(s, k) :
       r[i] = <<k, b>> => /\ b <= i /\ i - b + Size(s, k) <= L
                          /\ \A j \in 1..Size(s, k) : r[i - b + j] = <<k, j>>
  /\ \A i \in 1..(L - 1), k \in (n + 1)..Len(s) :
       r[i] = <<k, Size(s, k)>> => r[i + 1] = <<k + 1, 1>>
  /\ \A i, j \in 1..L : r[i] = r[j] => i = j

\* The sizes of packets.
LEMMA SizeIs ==
  ASSUME NEW s \in Seq(DataSizes), NEW k \in 1..Len(s)
  PROVE  Size(s, k) \in Nat /\ Size(s, k) > 0 /\ Size(s, k) <= Capacity
<1>1. s[k] \in DataSizes
  OBVIOUS
<1>2. \A d \in DataSizes : d \in Nat /\ HeaderSize + d <= Capacity
  BY PacketsFit
<1>3. s[k] \in Nat /\ HeaderSize + s[k] <= Capacity
  BY <1>1, <1>2
<1>4. HeaderSize \in Nat /\ HeaderSize > 0
  BY PacketsFit
<1>. QED BY <1>3, <1>4 DEF Size

\* A stream may be read off any function that has its bytes.
LEMMA SameStream ==
  ASSUME NEW r, NEW q, NEW L, NEW n, NEW s, IsStream(r, L, n, s), \A i \in 1..L : q[i] = r[i],
         s \in Seq(DataSizes)
  PROVE  IsStream(q, L, n, s)
<1>1. L \in Nat /\ n \in Nat /\ n <= Len(s) /\ (L = 0 <=> n = Len(s)) /\ Len(s) \in Nat
  BY DEF IsStream
<1>2. L > 0 => q[1] = <<n + 1, 1>> /\ q[L] = <<Len(s), Size(s, Len(s))>>
  BY <1>1 DEF IsStream
<1>3. ASSUME NEW i \in 1..L
      PROVE  \E k \in (n + 1)..Len(s) : \E b \in 1..Size(s, k) : q[i] = <<k, b>>
  <2>1. \E k \in (n + 1)..Len(s) : \E b \in 1..Size(s, k) : r[i] = <<k, b>>
    BY DEF IsStream
  <2>. QED BY <2>1
<1>4. ASSUME NEW i \in 1..L, NEW k \in (n + 1)..Len(s), NEW b \in 1..Size(s, k), q[i] = <<k, b>>
      PROVE  b <= i /\ i - b + Size(s, k) <= L /\ \A j \in 1..Size(s, k) : q[i - b + j] = <<k, j>>
  <2>1. /\ b <= i /\ i - b + Size(s, k) <= L
        /\ \A j \in 1..Size(s, k) : r[i - b + j] = <<k, j>>
    <3>1. r[i] = <<k, b>>
      BY <1>4
    <3>. QED BY <3>1 DEF IsStream
  <2>2. k \in 1..Len(s) /\ Size(s, k) \in Nat
    BY <1>1, SizeIs
  <2>3. \A j \in 1..Size(s, k) : i - b + j \in 1..L
    BY <1>1, <2>1, <2>2
  <2>. QED BY <2>1, <2>3
<1>5. ASSUME NEW i \in 1..(L - 1), NEW k \in (n + 1)..Len(s), q[i] = <<k, Size(s, k)>>
      PROVE  q[i + 1] = <<k + 1, 1>>
  <2>1. i \in 1..L /\ i + 1 \in 1..L
    BY <1>1
  <2>2. r[i] = <<k, Size(s, k)>>
    BY <1>5, <2>1
  <2>3. r[i + 1] = <<k + 1, 1>>
    BY <2>2 DEF IsStream
  <2>. QED BY <2>1, <2>3
<1>6. ASSUME NEW i \in 1..L, NEW j \in 1..L, q[i] = q[j]
      PROVE  i = j
  <2>1. r[i] = r[j]
    BY <1>6
  <2>. QED BY <2>1 DEF IsStream
<1>. QED BY <1>1, <1>2, <1>3, <1>4, <1>5, <1>6 DEF IsStream

\* The remote end sends one packet more.
LEMMA StreamGrows ==
  ASSUME NEW r, NEW q, NEW L, NEW n, NEW s \in Seq(DataSizes), NEW d \in DataSizes, IsStream(r, L, n, s),
         \A i \in 1..L : q[i] = r[i],
         \A i \in 1..(HeaderSize + d) : q[L + i] = <<Len(s) + 1, i>>
  PROVE  IsStream(q, L + HeaderSize + d, n, Append(s, d))
<1> DEFINE t == Append(s, d)
           m == HeaderSize + d
           M == L + m
<1>1. L \in Nat /\ n \in Nat /\ n <= Len(s) /\ (L = 0 <=> n = Len(s)) /\ Len(s) \in Nat
  BY DEF IsStream
<1>2. t \in Seq(DataSizes) /\ Len(t) = Len(s) + 1 /\ t[Len(s) + 1] = d /\ \A k \in 1..Len(s) : t[k] = s[k]
  OBVIOUS
<1>3. m \in Nat /\ m > 0 /\ M \in Nat /\ M > L
  BY <1>1, PacketsFit
<1>4. Size(t, Len(t)) = m /\ \A k \in 1..Len(s) : Size(t, k) = Size(s, k)
  BY <1>2 DEF Size
<1>5. \A k \in 1..Len(s) : Size(s, k) \in Nat /\ Size(s, k) > 0
  BY SizeIs
<1>6. \A i \in 1..M : i \in 1..L \/ (i - L \in 1..m /\ q[i] = <<Len(t), i - L>>)
  <2> TAKE i \in 1..M
  <2>1. CASE i > L
    <3>1. i - L \in 1..m /\ L + (i - L) = i
      BY <1>1, <1>3, <2>1
    <3>2. q[L + (i - L)] = <<Len(s) + 1, i - L>>
      BY <3>1
    <3>. QED BY <1>2, <3>1, <3>2
  <2>. QED BY <1>1, <2>1
<1> HIDE DEF t, m, M
<1>7. q[1] = <<n + 1, 1>>
  <2>1. CASE L > 0
    BY <1>1, <2>1 DEF IsStream
  <2>2. CASE L = 0
    <3>1. 1 \in 1..M /\ 1 - L = 1 /\ n + 1 = Len(t)
      BY <1>1, <1>2, <1>3, <2>2
    <3>. QED BY <1>6, <2>2, <3>1
  <2>. QED BY <1>1, <2>1, <2>2
<1>8. q[M] = <<Len(t), Size(t, Len(t))>>
  <2>1. M \in 1..M /\ M \notin 1..L /\ M - L = m
    BY <1>1, <1>3 DEF M
  <2>. QED BY <1>4, <1>6, <2>1
<1>9. ASSUME NEW i \in 1..M
      PROVE  \E k \in (n + 1)..Len(t) : \E b \in 1..Size(t, k) : q[i] = <<k, b>>
  <2>1. CASE i \in 1..L
    <3>1. PICK k \in (n + 1)..Len(s) : \E b \in 1..Size(s, k) : r[i] = <<k, b>>
      BY <2>1 DEF IsStream
    <3>2. k \in 1..Len(s) /\ k \in (n + 1)..Len(t)
      BY <1>1, <1>2
    <3>. QED BY <1>4, <2>1, <3>1, <3>2
  <2>2. CASE i - L \in 1..m /\ q[i] = <<Len(t), i - L>>
    <3>1. Len(t) \in (n + 1)..Len(t) /\ i - L \in 1..Size(t, Len(t))
      BY <1>1, <1>2, <1>4, <2>2
    <3>. QED BY <2>2, <3>1
  <2>. QED BY <1>6, <2>1, <2>2
<1>10. ASSUME NEW i \in 1..M, NEW k \in (n + 1)..Len(t), NEW b \in 1..Size(t, k), q[i] = <<k, b>>
       PROVE  b <= i /\ i - b + Size(t, k) <= M /\ \A j \in 1..Size(t, k) : q[i - b + j] = <<k, j>>
  <2>1. CASE i \in 1..L
    <3>1. PICK k2 \in (n + 1)..Len(s) : \E b2 \in 1..Size(s, k2) : r[i] = <<k2, b2>>
      BY <2>1 DEF IsStream
    <3>2. k = k2
      BY <1>10, <2>1, <3>1
    <3>3. k \in (n + 1)..Len(s) /\ k \in 1..Len(s) /\ b \in 1..Size(s, k) /\ r[i] = <<k, b>>
      BY <1>1, <1>4, <1>10, <2>1, <3>2
    <3>4. /\ b <= i /\ i - b + Size(s, k) <= L
          /\ \A j \in 1..Size(s, k) : r[i - b + j] = <<k, j>>
      BY <2>1, <3>3, SMTT(20) DEF IsStream
    <3>5. \A j \in 1..Size(s, k) : i - b + j \in 1..L
      BY <1>1, <1>5, <2>1, <3>3, <3>4, SMTT(20)
    <3>6. Size(t, k) = Size(s, k) /\ Size(s, k) \in Nat
      BY <1>4, <1>5, <3>3
    <3>7. b <= i /\ i - b + Size(t, k) <= M
      BY <1>1, <1>3, <3>3, <3>4, <3>6
    <3>8. ASSUME NEW j \in 1..Size(t, k) PROVE q[i - b + j] = <<k, j>>
      <4>1. j \in 1..Size(s, k)
        BY <3>6
      <4>. QED BY <3>4, <3>5, <4>1
    <3>. QED BY <3>7, <3>8
  <2>2. CASE i - L \in 1..m /\ q[i] = <<Len(t), i - L>>
    <3>1. k = Len(t) /\ b = i - L
      BY <1>10, <2>2
    <3>2. Size(t, k) = m /\ i - b = L
      BY <1>1, <1>4, <3>1
    <3>3. \A j \in 1..m : q[L + j] = <<Len(t), j>>
      BY <1>2 DEF m
    <3>4. b <= i /\ i - b + Size(t, k) <= M
      BY <1>1, <1>3, <2>2, <3>1, <3>2 DEF M
    <3>. QED BY <3>1, <3>2, <3>3, <3>4
  <2>. QED BY <1>6, <2>1, <2>2
<1>11. ASSUME NEW i \in 1..(M - 1), NEW k \in (n + 1)..Len(t), q[i] = <<k, Size(t, k)>>
       PROVE  q[i + 1] = <<k + 1, 1>>
  <2>1. i \in 1..M /\ i + 1 \in 1..M
    BY <1>3
  <2>2. CASE i \in 1..L
    <3>1. PICK k2 \in (n + 1)..Len(s) : \E b2 \in 1..Size(s, k2) : r[i] = <<k2, b2>>
      BY <2>2 DEF IsStream
    <3>2. k = k2 /\ r[i] = q[i]
      BY <1>11, <2>2, <3>1
    <3>3. k \in (n + 1)..Len(s) /\ Size(t, k) = Size(s, k)
      <4>1. k \in 1..Len(s)
        BY <1>1, <3>2
      <4>. QED BY <1>4, <3>2, <4>1
    <3>4. CASE i < L
      <4>1. i \in 1..(L - 1) /\ i + 1 \in 1..L
        BY <1>1, <2>2, <3>4
      <4>2. r[i] = <<k, Size(s, k)>>
        BY <1>11, <3>2, <3>3
      <4>3. r[i + 1] = <<k + 1, 1>>
        BY <3>3, <4>1, <4>2 DEF IsStream
      <4>. QED BY <4>1, <4>3
    <3>5. CASE i = L
      <4>1. k = Len(s)
        BY <1>1, <1>11, <2>2, <3>2, <3>5 DEF IsStream
      <4>2. q[L + 1] = <<Len(s) + 1, 1>>
        BY <1>3 DEF m
      <4>. QED BY <3>5, <4>1, <4>2
    <3>. QED BY <1>1, <2>2, <3>4, <3>5
  <2>3. CASE i - L \in 1..m /\ q[i] = <<Len(t), i - L>>
    <3>1. k = Len(t) /\ Size(t, k) = i - L
      BY <1>11, <2>3
    <3>2. i - L = m
      BY <1>4, <3>1
    <3>. QED BY <1>1, <1>3, <3>2 DEF M
  <2>. QED BY <1>6, <2>1, <2>2, <2>3
<1>12. ASSUME NEW i \in 1..M, NEW j \in 1..M, q[i] = q[j], i \in 1..L
      PROVE  i = j
  <2>1. PICK k \in (n + 1)..Len(s) : \E b \in 1..Size(s, k) : r[i] = <<k, b>>
    BY <1>12 DEF IsStream
  <2>2. q[j] # <<Len(t), j - L>>
    BY <1>1, <1>2, <1>12, <2>1
  <2>3. j \in 1..L
    BY <1>6, <2>2
  <2>4. r[i] = r[j]
    BY <1>12, <2>3
  <2>. QED BY <1>12, <2>3, <2>4 DEF IsStream
<1>13. ASSUME NEW i \in 1..M, NEW j \in 1..M, q[i] = q[j]
      PROVE  i = j
  <2>1. CASE i \in 1..L
    BY <1>12, <1>13, <2>1
  <2>2. CASE j \in 1..L
    BY <1>12, <1>13, <2>2
  <2>3. CASE i \notin 1..L /\ j \notin 1..L
    <3>1. <<Len(t), i - L>> = <<Len(t), j - L>>
      BY <1>6, <1>13, <2>3
    <3>2. i - L = j - L /\ i \in Int /\ j \in Int
      BY <3>1
    <3>. QED BY <1>1, <3>2
  <2>. QED BY <2>1, <2>2, <2>3
<1>14. n <= Len(t) /\ (M = 0 <=> n = Len(t))
  BY <1>1, <1>2, <1>3
<1>15. IsStream(q, M, n, t)
  BY <1>1, <1>3, <1>7, <1>8, <1>9, <1>10, <1>11, <1>14, <1>13 DEF IsStream
<1>. QED BY <1>1, <1>15, PacketsFit DEF t, m, M


\* The first packet is taken off the stream.
LEMMA Taken ==
  ASSUME NEW r, NEW L, NEW n, NEW s \in Seq(DataSizes), IsStream(r, L, n, s), L > 0
  PROVE  /\ n + 1 \in 1..Len(s) /\ Size(s, n + 1) <= L
         /\ \A j \in 1..Size(s, n + 1) : r[j] = <<n + 1, j>>
         /\ \A q : (\A i \in 1..(L - Size(s, n + 1)) : q[i] = r[i + Size(s, n + 1)])
                     => IsStream(q, L - Size(s, n + 1), n + 1, s)
<1> DEFINE m == Size(s, n + 1)
<1>1. /\ L \in Nat /\ n \in Nat /\ n + 1 \in 1..Len(s) /\ Len(s) \in Nat
      /\ r[1] = <<n + 1, 1>> /\ r[L] = <<Len(s), Size(s, Len(s))>>
  BY DEF IsStream
<1>2. \A k \in 1..Len(s) : Size(s, k) \in Nat /\ Size(s, k) > 0
  BY SizeIs
<1>3. m \in Nat /\ m > 0
  BY <1>1, <1>2
<1>4. 1 \in 1..L /\ 1 \in 1..m /\ n + 1 \in (n + 1)..Len(s)
  BY <1>1, <1>3
<1>5. 1 - 1 + m <= L /\ \A j \in 1..m : r[1 - 1 + j] = <<n + 1, j>>
  BY <1>1, <1>4 DEF IsStream
<1>6. m <= L /\ \A j \in 1..m : r[j] = <<n + 1, j>>
  <2>1. \A j \in 1..m : 1 - 1 + j = j
    OBVIOUS
  <2>. QED BY <1>3, <1>5, <2>1
<1> HIDE DEF m
<1>7. m < L => r[m + 1] = <<n + 2, 1>> /\ n + 2 <= Len(s)
  <2>. SUFFICES ASSUME m < L PROVE r[m + 1] = <<n + 2, 1>> /\ n + 2 <= Len(s)
    OBVIOUS
  <2>1. m \in 1..(L - 1) /\ m \in 1..m /\ m + 1 \in 1..L
    BY <1>1, <1>3
  <2>2. r[m] = <<n + 1, Size(s, n + 1)>>
    BY <1>6, <2>1 DEF m
  <2>3. r[m + 1] = <<(n + 1) + 1, 1>>
    BY <1>4, <2>1, <2>2 DEF IsStream
  <2>4. PICK k \in (n + 1)..Len(s) : \E b \in 1..Size(s, k) : r[m + 1] = <<k, b>>
    BY <2>1 DEF IsStream
  <2>. QED BY <1>1, <2>3, <2>4
<1>8. L = m <=> n + 1 = Len(s)
  <2>1. ASSUME L = m PROVE n + 1 = Len(s)
    <3>1. r[L] = <<n + 1, L>>
      BY <1>3, <1>6, <2>1
    <3>. QED BY <1>1, <3>1
  <2>. QED BY <1>1, <1>3, <1>6, <1>7, <2>1
<1>9. ASSUME NEW q, \A i \in 1..(L - m) : q[i] = r[i + m]
      PROVE  IsStream(q, L - m, n + 1, s)
  <2> DEFINE M == L - m
             N == n + 1
  <2>1. M \in Nat /\ \A i \in 1..M : i + m \in 1..L
    BY <1>1, <1>3, <1>6
  <2>2. N = n + 1 /\ N \in Nat /\ N <= Len(s)
    BY <1>1
  <2> HIDE DEF M, N
  <2>3. ASSUME M > 0 PROVE q[1] = <<N + 1, 1>> /\ q[M] = <<Len(s), Size(s, Len(s))>>
    <3>1. q[1] = r[1 + m] /\ q[M] = r[M + m] /\ M + m = L /\ 1 + m = m + 1 /\ m < L
      <4>1. 1 \in 1..M /\ M \in 1..M
        BY <2>1, <2>3
      <4>. QED BY <1>1, <1>3, <1>9, <2>3, <4>1 DEF M
    <3>2. <<N + 1, 1>> = <<n + 2, 1>>
      BY <1>1, <2>2
    <3>. QED BY <1>1, <1>7, <3>1, <3>2
  <2>4. ASSUME NEW i \in 1..M
        PROVE  \E k \in (N + 1)..Len(s) : \E b \in 1..Size(s, k) : q[i] = <<k, b>>
    <3>1. PICK k \in (n + 1)..Len(s) : \E b \in 1..Size(s, k) : r[i + m] = <<k, b>>
      BY <2>1 DEF IsStream
    <3>2. PICK b \in 1..Size(s, k) : r[i + m] = <<k, b>>
      BY <3>1
    <3>3. k # n + 1
      <4>. SUFFICES ASSUME k = n + 1 PROVE FALSE
        OBVIOUS
      <4>1. b \in 1..m /\ r[i + m] = r[b]
        BY <1>6, <3>2 DEF m
      <4>2. b \in 1..L /\ i + m \in 1..L /\ i + m # b
        <5>1. i + m \in 1..L /\ b <= m /\ b >= 1 /\ b \in Int /\ i >= 1 /\ i \in Int
          BY <1>3, <2>1, <4>1
        <5>. QED BY <1>1, <1>3, <1>6, <5>1
      <4>. QED BY <4>1, <4>2 DEF IsStream
    <3>4. k \in (N + 1)..Len(s)
      BY <1>1, <2>2, <3>3
    <3>5. q[i] = <<k, b>>
      BY <1>9, <3>2 DEF M
    <3>. QED BY <3>4, <3>5
  <2>5. ASSUME NEW i \in 1..M, NEW k \in (N + 1)..Len(s), NEW b \in 1..Size(s, k), q[i] = <<k, b>>
        PROVE  b <= i /\ i - b + Size(s, k) <= M /\ \A j \in 1..Size(s, k) : q[i - b + j] = <<k, j>>
    <3>1. k \in (n + 1)..Len(s) /\ k \in 1..Len(s) /\ k # n + 1
      BY <1>1, <2>2
    <3>2. i + m \in 1..L /\ r[i + m] = <<k, b>>
      BY <1>9, <2>1, <2>5 DEF M
    <3>3. /\ b <= i + m /\ (i + m) - b + Size(s, k) <= L
          /\ \A j \in 1..Size(s, k) : r[(i + m) - b + j] = <<k, j>>
      BY <3>1, <3>2, ZenonT(30) DEF IsStream
    <3>4. Size(s, k) \in Nat /\ 1 \in 1..Size(s, k)
      BY <1>2, <3>1
    <3>5. b <= i
      <4>. SUFFICES ASSUME b > i PROVE FALSE
        BY <3>4
      <4>1. (i + m) - b + 1 \in 1..m
        BY <1>3, <3>3, <3>4
      <4>2. r[(i + m) - b + 1] = <<k, 1>>
        BY <3>3, <3>4
      <4>3. r[(i + m) - b + 1] = <<n + 1, (i + m) - b + 1>>
        BY <1>6, <4>1
      <4>4. <<k, 1>> = <<n + 1, (i + m) - b + 1>>
        BY <4>2, <4>3
      <4>. QED BY <3>1, <4>4
    <3>6. i - b + Size(s, k) <= M
      BY <1>1, <1>3, <3>3, <3>4, SMTT(20) DEF M
    <3>7. ASSUME NEW j \in 1..Size(s, k) PROVE q[i - b + j] = <<k, j>>
      <4>1. i - b + j \in 1..M /\ (i - b + j) + m = (i + m) - b + j
        BY <1>3, <2>1, <3>4, <3>5, <3>6
      <4>2. q[i - b + j] = r[(i - b + j) + m]
        BY <1>9, <4>1 DEF M
      <4>. QED BY <3>3, <4>1, <4>2
    <3>. QED BY <3>5, <3>6, <3>7
  <2>6. ASSUME NEW i \in 1..(M - 1), NEW k \in (N + 1)..Len(s), q[i] = <<k, Size(s, k)>>
        PROVE  q[i + 1] = <<k + 1, 1>>
    <3>1. i \in 1..M /\ i + 1 \in 1..M /\ i + m \in 1..(L - 1) /\ (i + 1) + m = (i + m) + 1
      BY <1>1, <1>3, <2>1 DEF M
    <3>2. k \in (n + 1)..Len(s) /\ r[i + m] = <<k, Size(s, k)>> /\ q[i + 1] = r[(i + 1) + m]
      BY <1>1, <1>9, <2>6, <2>2, <3>1 DEF M
    <3>3. r[(i + m) + 1] = <<k + 1, 1>>
      BY <3>1, <3>2 DEF IsStream
    <3>. QED BY <3>1, <3>2, <3>3
  <2>7. ASSUME NEW i \in 1..M, NEW j \in 1..M, q[i] = q[j]
        PROVE  i = j
    <3>1. i + m \in 1..L /\ j + m \in 1..L /\ r[i + m] = r[j + m]
      BY <1>9, <2>1, <2>7 DEF M
    <3>2. i + m = j + m
      BY <3>1 DEF IsStream
    <3>. QED BY <1>3, <3>2
  <2>8. M = 0 <=> N = Len(s)
    BY <1>1, <1>3, <1>8, <2>2 DEF M
  <2>9. IsStream(q, M, N, s)
    BY <2>1, <2>2, <2>3, <2>4, <2>5, <2>6, <2>7, <2>8 DEF IsStream
  <2>. QED BY <2>9 DEF M, N
<1>. QED BY <1>1, <1>6, <1>9 DEF m

\* Every byte of a stream is followed by the next one.
LEMMA Chained ==
  ASSUME NEW r, NEW L, NEW n, IsStream(r, L, n, sent), sent \in Seq(DataSizes),
         NEW i \in 1..(L - 1)
  PROVE  r[i + 1] = Following(r[i])
<1>1. L \in Nat /\ n \in Nat /\ n <= Len(sent) /\ Len(sent) \in Nat /\ i \in 1..L
  BY DEF IsStream
<1>2. PICK k \in (n + 1)..Len(sent) : \E b \in 1..Size(sent, k) : r[i] = <<k, b>>
  BY <1>1 DEF IsStream
<1>3. PICK b \in 1..Size(sent, k) : r[i] = <<k, b>>
  BY <1>2
<1>4. Size(sent, k) \in Nat /\ Size(sent, k) > 0
  BY <1>1, SizeIs
<1>5. Following(r[i]) = IF b < Size(sent, k) THEN <<k, b + 1>> ELSE <<k + 1, 1>>
  BY <1>3 DEF Following, Size
<1>6. CASE b < Size(sent, k)
  <2>1. \A j \in 1..Size(sent, k) : r[i - b + j] = <<k, j>>
    BY <1>1, <1>3, ZenonT(30) DEF IsStream
  <2>2. b + 1 \in 1..Size(sent, k) /\ i - b + (b + 1) = i + 1
    BY <1>1, <1>4, <1>6
  <2>3. r[i - b + (b + 1)] = <<k, b + 1>>
    BY <2>1, <2>2
  <2>. QED BY <1>5, <1>6, <2>2, <2>3
<1>7. CASE ~(b < Size(sent, k))
  <2>1. r[i] = <<k, Size(sent, k)>>
    BY <1>3, <1>4, <1>7
  <2>2. r[i + 1] = <<k + 1, 1>>
    BY <2>1 DEF IsStream
  <2>. QED BY <1>5, <1>7, <2>2
<1>. QED BY <1>6, <1>7

-----------------------------------------------------------------------------
(***************************************************************************)
(* The buffer.                                                             *)
(***************************************************************************)
Pairs == Nat \X Nat

Buffers == [capacity : {Capacity}, mem : [0..(Capacity - 1) -> Pairs \cup {Zero}],
            filled : Int, read_pos : 0..Capacity, write_pos : 0..Capacity]

LEMMA NewBufferIs ==
  /\ NewBuffer(Capacity) \in Buffers
  /\ NewBuffer(Capacity).read_pos = 0 /\ NewBuffer(Capacity).write_pos = 0
BY StreamBounds DEF NewBuffer, Buffers

LEMMA ClearIs ==
  ASSUME NEW b \in Buffers
  PROVE  Clear(b) \in Buffers /\ Clear(b).read_pos = 0 /\ Clear(b).write_pos = 0
<1>1. [i \in DOMAIN b.mem |-> IF i < b.filled THEN Zero ELSE b.mem[i]]
        \in [0..(Capacity - 1) -> Pairs \cup {Zero}]
  BY DEF Buffers
<1>2. 0 \in 0..Capacity /\ 0 \in Int
  BY StreamBounds
<1>. QED BY <1>1, <1>2 DEF Clear, Buffers

\* What a receive writes.
LEMMA PutIs ==
  ASSUME NEW b \in Buffers, NEW data \in Seq(Pairs), NEW n \in Nat, n = Len(data),
         n <= WritableSize(b)
  PROVE  LET c == ShiftWritePos(PutAtWritePos(b, data), n)
         IN  /\ c \in Buffers /\ c.read_pos = b.read_pos /\ c.write_pos = b.write_pos + n
             /\ \A i \in 0..(Capacity - 1) :
                  c.mem[i] = IF i \in b.write_pos..(b.write_pos + n - 1)
                             THEN data[i - b.write_pos + 1] ELSE b.mem[i]
<1> DEFINE M == [i \in DOMAIN b.mem |-> IF i \in b.write_pos..(b.write_pos + Len(data) - 1)
                                        THEN data[i - b.write_pos + 1] ELSE b.mem[i]]
           c == ShiftWritePos(PutAtWritePos(b, data), n)
<1>1. DOMAIN b.mem = 0..(Capacity - 1) /\ b.write_pos \in 0..Capacity /\ b.capacity = Capacity
      /\ b.filled \in Int /\ Capacity \in Nat
  BY StreamBounds DEF Buffers
<1>2. ASSUME NEW i \in 0..(Capacity - 1)
      PROVE  M[i] \in Pairs \cup {Zero}
  <2>1. i \in b.write_pos..(b.write_pos + Len(data) - 1) => i - b.write_pos + 1 \in 1..Len(data)
    BY <1>1
  <2>2. \A j \in 1..Len(data) : data[j] \in Pairs
    OBVIOUS
  <2>3. b.mem[i] \in Pairs \cup {Zero}
    BY DEF Buffers
  <2>. QED BY <1>1, <2>1, <2>2, <2>3
<1>3. M \in [0..(Capacity - 1) -> Pairs \cup {Zero}]
  <2> DEFINE F(i) == IF i \in b.write_pos..(b.write_pos + Len(data) - 1)
                     THEN data[i - b.write_pos + 1] ELSE b.mem[i]
  <2>1. M = [i \in 0..(Capacity - 1) |-> F(i)]
    BY <1>1
  <2>2. \A i \in 0..(Capacity - 1) : F(i) \in Pairs \cup {Zero}
    BY <1>1, <1>2
  <2> HIDE DEF F, M
  <2>. QED BY <2>1, <2>2
<1>4. c = [b EXCEPT !.mem = M, !.write_pos = b.write_pos + n, !.filled = b.filled + n]
  BY DEF ShiftWritePos, PutAtWritePos, Buffers
<1>5. b.write_pos + n \in 0..Capacity /\ b.filled + n \in Int
  BY <1>1 DEF WritableSize
<1>6. \A i \in 0..(Capacity - 1) :
        M[i] = IF i \in b.write_pos..(b.write_pos + n - 1)
               THEN data[i - b.write_pos + 1] ELSE b.mem[i]
  BY <1>1
<1> HIDE DEF M, c
<1>7. c.mem = M /\ c.read_pos = b.read_pos /\ c.write_pos = b.write_pos + n /\ c \in Buffers
  BY <1>3, <1>4, <1>5 DEF Buffers
<1>. QED BY <1>6, <1>7 DEF c

LEMMA ShiftReadPosIs ==
  ASSUME NEW b \in Buffers, NEW n \in Nat, b.read_pos + n <= b.write_pos
  PROVE  /\ ShiftReadPos(b, n) \in Buffers
         /\ ShiftReadPos(b, n).read_pos = b.read_pos + n
         /\ ShiftReadPos(b, n).write_pos = b.write_pos
         /\ ShiftReadPos(b, n).mem = b.mem
<1>1. b.read_pos \in 0..Capacity /\ b.write_pos \in 0..Capacity /\ Capacity \in Nat
  BY StreamBounds DEF Buffers
<1>2. b.read_pos + n \in 0..Capacity
  BY <1>1
<1>. QED BY <1>2 DEF ShiftReadPos, Buffers

\* CarriageReturn moves the unread bytes and loses none.
LEMMA CarriageReturnIs ==
  ASSUME NEW b \in Buffers, b.read_pos <= b.write_pos
  PROVE  /\ CarriageReturn(b) \in Buffers
         /\ CarriageReturn(b).read_pos = 0
         /\ CarriageReturn(b).write_pos = b.write_pos - b.read_pos
         /\ \A i \in 0..(b.write_pos - b.read_pos - 1) :
              CarriageReturn(b).mem[i] = b.mem[b.read_pos + i]
<1> DEFINE m == b.write_pos - b.read_pos
           M == [i \in DOMAIN b.mem |-> IF i < m THEN b.mem[b.read_pos + i] ELSE b.mem[i]]
           c == CarriageReturn(b)
<1>1. /\ DOMAIN b.mem = 0..(Capacity - 1) /\ b.write_pos \in 0..Capacity
      /\ b.read_pos \in 0..Capacity /\ Capacity \in Nat
  BY StreamBounds DEF Buffers
<1>2. m \in 0..Capacity /\ m \in Int
  BY <1>1
<1>3. c = [b EXCEPT !.mem = M, !.read_pos = 0, !.write_pos = m, !.filled = m]
  <2>1. (IF ReadableSize(b) > 0 THEN ReadableSize(b) ELSE 0) = m
    BY <1>1, <1>2 DEF ReadableSize
  <2>. QED BY <2>1 DEF CarriageReturn
<1>4. M \in [0..(Capacity - 1) -> Pairs \cup {Zero}]
  <2> DEFINE F(i) == IF i < m THEN b.mem[b.read_pos + i] ELSE b.mem[i]
  <2>1. ASSUME NEW i \in 0..(Capacity - 1) PROVE F(i) \in Pairs \cup {Zero}
    <3>1. \A j \in 0..(Capacity - 1) : b.mem[j] \in Pairs \cup {Zero}
      BY DEF Buffers
    <3>2. i < m => b.read_pos + i \in 0..(Capacity - 1)
      BY <1>1
    <3>. QED BY <3>1, <3>2
  <2>2. M = [i \in 0..(Capacity - 1) |-> F(i)]
    BY <1>1
  <2> HIDE DEF F, M
  <2>. QED BY <2>1, <2>2
<1>5. \A i \in 0..(m - 1) : M[i] = b.mem[b.read_pos + i]
  BY <1>1, <1>2
<1> HIDE DEF M, c
<1>6. c \in Buffers /\ c.read_pos = 0 /\ c.write_pos = m /\ c.mem = M
  <2>1. 0 \in 0..Capacity
    BY <1>1
  <2>. QED BY <1>2, <1>3, <1>4, <2>1 DEF Buffers
<1>. QED BY <1>5, <1>6 DEF c

-----------------------------------------------------------------------------
(***************************************************************************)
(* The inductive invariant: what is ahead of the unit, in the buffer and   *)
(* on the wire, is the stream of the packets that were not yet delivered.  *)
(***************************************************************************)
StreamBytes == [i \in 1..Ahead |-> Byte(i)]

Types == /\ TypeOK
         /\ buffer \in Buffers /\ buffer.read_pos <= buffer.write_pos
         /\ wire \in Seq(Pairs) /\ delivered \in Seq(Seq(Pairs))

FirstDelivered == /\ Len(delivered) <= Len(sent)
                  /\ \A k \in 1..Len(delivered) : delivered[k] = PacketBytes(k, sent[k])

RestAhead == pc # "idle" => /\ processing_size = ReadableSize(buffer)
                            /\ IsStream(StreamBytes, Ahead, Len(delivered), sent)

Stages == /\ pc = "waiting" => active /\ buffer.write_pos < Capacity
          /\ pc = "idle" => ~active
          /\ pc = "rearm" => processing_size < Capacity
          /\ pc = "processing" => /\ Len(delivered) < Len(sent)
                                  /\ packetsize = Size(sent, Len(delivered) + 1)
                                  /\ packetsize <= processing_size
          /\ pc = "processed" => packetsize <= processing_size

StreamInv == Types /\ FirstDelivered /\ RestAhead /\ Stages

\* The numbers behind Byte.
LEMMA Numbers ==
  ASSUME StreamInv, pc # "idle"
  PROVE  /\ buffer.read_pos \in Nat /\ buffer.write_pos \in Nat /\ buffer.write_pos <= Capacity
         /\ Capacity \in Nat /\ buffer.capacity = Capacity
         /\ Kept = buffer.write_pos - buffer.read_pos - InHand /\ Kept \in Nat
         /\ InHand \in Nat /\ Len(wire) \in Nat /\ Ahead = Kept + Len(wire) /\ Ahead \in Nat
         /\ processing_size = buffer.write_pos - buffer.read_pos
         /\ Len(delivered) \in Nat /\ Len(sent) \in Nat
<1>1. /\ buffer.read_pos \in Nat /\ buffer.write_pos \in Nat /\ buffer.write_pos <= Capacity
      /\ Capacity \in Nat /\ buffer.capacity = Capacity
  BY StreamBounds DEF StreamInv, Types, Buffers
<1>2. processing_size = buffer.write_pos - buffer.read_pos
  BY DEF StreamInv, RestAhead, ReadableSize
<1>3. InHand \in Nat /\ InHand <= processing_size
  BY <1>1, <1>2 DEF StreamInv, Types, TypeOK, Stages, InHand
<1>4. Len(wire) \in Nat /\ Len(delivered) \in Nat /\ Len(sent) \in Nat
  BY DEF StreamInv, Types, TypeOK
<1>5. Kept = buffer.write_pos - buffer.read_pos - InHand
  BY DEF Kept, ReadableSize
<1>6. Kept \in Nat
  BY <1>1, <1>2, <1>3, <1>5
<1>7. Ahead = Kept + Len(wire) /\ Ahead \in Nat
  BY <1>4, <1>6 DEF Ahead
<1>. QED BY <1>1, <1>2, <1>3, <1>4, <1>5, <1>6, <1>7

LEMMA StreamInit == ASSUME Init PROVE StreamInv
<1>1. Types
  <2>1. << >> \in Seq(DataSizes) /\ << >> \in Seq(Pairs) /\ << >> \in Seq(Seq(Pairs))
    OBVIOUS
  <2>2. 0 \in 0..Capacity
    BY StreamBounds
  <2>. QED BY <2>1, <2>2, NewBufferIs DEF Init, Types, TypeOK
<1>2. FirstDelivered
  BY DEF Init, FirstDelivered
<1>3. ReadableSize(buffer) = 0 /\ Ahead = 0
  BY NewBufferIs DEF Init, ReadableSize, Ahead, Kept, InHand
<1>4. IsStream(StreamBytes, 0, 0, << >>)
  BY DEF IsStream
<1>5. RestAhead
  BY <1>3, <1>4 DEF Init, RestAhead
<1>6. Stages
  BY NewBufferIs, StreamBounds DEF Init, Stages
<1>. QED BY <1>1, <1>2, <1>5, <1>6 DEF StreamInv

\* A step that delivers nothing and leaves what is ahead as it is.
LEMMA StreamKept ==
  ASSUME StreamInv, pc # "idle", sent' = sent, delivered' = delivered, Ahead' = Ahead,
         \A i \in 1..Ahead : Byte(i)' = Byte(i)
  PROVE  IsStream(StreamBytes', Ahead', Len(delivered'), sent')
<1>1. IsStream(StreamBytes, Ahead, Len(delivered), sent) /\ sent \in Seq(DataSizes)
  BY DEF StreamInv, RestAhead, Types, TypeOK
<1>2. \A i \in 1..Ahead : StreamBytes'[i] = StreamBytes[i]
  BY DEF StreamBytes
<1>3. IsStream(StreamBytes', Ahead, Len(delivered), sent)
  BY <1>1, <1>2, SameStream
<1>. QED BY <1>3

\* The same when neither the buffer nor the wire changes.
LEMMA StreamUntouched ==
  ASSUME StreamInv, pc # "idle", UNCHANGED <<sent, delivered, buffer, wire>>, InHand' = InHand
  PROVE  IsStream(StreamBytes', Ahead', Len(delivered'), sent')
<1>1. Kept' = Kept /\ Ahead' = Ahead
  BY DEF Kept, Ahead
<1>2. \A i \in 1..Ahead : Byte(i)' = Byte(i)
  BY <1>1 DEF Byte
<1>. QED BY <1>1, <1>2, StreamKept

-----------------------------------------------------------------------------
(***************************************************************************)
(* One lemma for each action.                                              *)
(***************************************************************************)
LEMMA SendPacketStep ==
  ASSUME StreamInv, NEW d \in DataSizes, SendPacket(d)
  PROVE  StreamInv'
<1> DEFINE p == PacketBytes(Len(sent) + 1, d)
           m == HeaderSize + d
<1>1. pc # "idle" /\ pc' = pc /\ packetsize' = packetsize /\ delivered' = delivered
      /\ buffer' = buffer /\ processing_size' = processing_size /\ active' = active
      /\ sent' = Append(sent, d) /\ wire' = wire \o p
  BY DEF SendPacket, StreamInv, Stages
<1>2. /\ sent \in Seq(DataSizes) /\ wire \in Seq(Pairs) /\ Len(sent) \in Nat /\ Len(wire) \in Nat
      /\ Len(delivered) \in Nat /\ Len(delivered) <= Len(sent)
  BY DEF StreamInv, Types, TypeOK, FirstDelivered
<1>3. m \in Nat
  BY PacketsFit
<1>4. p \in Seq(Pairs) /\ Len(p) = m /\ \A i \in 1..m : p[i] = <<Len(sent) + 1, i>>
  <2>1. p = [i \in 1..m |-> <<Len(sent) + 1, i>>]
    BY DEF PacketBytes
  <2>2. \A i \in 1..m : <<Len(sent) + 1, i>> \in Pairs
    BY <1>2, <1>3 DEF Pairs
  <2>3. p \in [1..m -> Pairs]
    BY <2>1, <2>2
  <2>4. p \in Seq(Pairs)
    BY <1>3, <2>3, SeqDef
  <2> HIDE DEF p, m
  <2>. QED BY <1>3, <2>1, <2>4, LenProperties
<1> HIDE DEF p, m
<1>5. /\ wire' \in Seq(Pairs) /\ Len(wire') = Len(wire) + m
      /\ \A i \in 1..Len(wire) : wire'[i] = wire[i]
      /\ \A i \in 1..m : wire'[Len(wire) + i] = p[i]
  <2>1. wire \o p \in Seq(Pairs) /\ Len(wire \o p) = Len(wire) + m
    BY <1>2, <1>4, ConcatProperties
  <2>2. \A i \in 1..Len(wire) : (wire \o p)[i] = wire[i]
    BY <1>2, <1>3, <1>4
  <2>3. \A i \in 1..m : (wire \o p)[Len(wire) + i] = p[i]
    BY <1>2, <1>3, <1>4
  <2>. QED BY <1>1, <2>1, <2>2, <2>3
<1>6. /\ sent' \in Seq(DataSizes) /\ Len(sent') = Len(sent) + 1
      /\ \A k \in 1..Len(sent) : sent'[k] = sent[k]
  BY <1>1, <1>2
<1>7. Types'
  BY <1>1, <1>5, <1>6 DEF StreamInv, Types, TypeOK
<1>8. FirstDelivered'
  <2>1. \A k \in 1..Len(delivered) : k \in 1..Len(sent)
    BY <1>2
  <2>. QED BY <1>1, <1>2, <1>6, <2>1 DEF StreamInv, FirstDelivered, PacketBytes
<1>9. RestAhead'
  <2>1. /\ Kept \in Nat /\ Ahead = Kept + Len(wire) /\ Ahead \in Nat
        /\ processing_size = ReadableSize(buffer)
    BY <1>1, Numbers DEF StreamInv, RestAhead
  <2>2. Kept' = Kept /\ Ahead' = Ahead + m
    <3>1. Kept' = Kept /\ Ahead' = Kept + Len(wire')
      BY <1>1 DEF Kept, Ahead, InHand
    <3>. QED BY <1>2, <1>3, <1>5, <2>1, <3>1
  <2>3. \A i \in 1..Ahead : StreamBytes'[i] = StreamBytes[i]
    <3>1. ASSUME NEW i \in 1..Ahead PROVE Byte(i)' = Byte(i)
      <4>1. CASE i <= Kept
        BY <1>1, <2>2, <4>1 DEF Byte, InHand
      <4>2. CASE ~(i <= Kept)
        <5>1. i - Kept \in 1..Len(wire)
          BY <1>2, <2>1, <4>2
        <5>. QED BY <1>5, <2>2, <4>2, <5>1 DEF Byte
      <4>. QED BY <4>1, <4>2
    <3>2. \A i \in 1..Ahead : i \in 1..Ahead'
      BY <1>3, <2>1, <2>2
    <3>. QED BY <3>1, <3>2 DEF StreamBytes
  <2>4. \A i \in 1..m : StreamBytes'[Ahead + i] = <<Len(sent) + 1, i>>
    <3>1. ASSUME NEW i \in 1..m, NEW j, j = Ahead + i PROVE Byte(j)' = <<Len(sent) + 1, i>>
      <4>1. ~(j <= Kept') /\ j - Kept' = Len(wire) + i
        BY <1>2, <1>3, <2>1, <2>2, <3>1
      <4>2. Byte(j)' = wire'[j - Kept']
        BY <4>1 DEF Byte
      <4>. QED BY <1>4, <1>5, <4>1, <4>2
    <3>2. \A i \in 1..m : Ahead + i \in 1..Ahead'
      BY <1>3, <2>1, <2>2
    <3>3. \A j \in 1..Ahead' : StreamBytes'[j] = Byte(j)'
      BY DEF StreamBytes
    <3>. QED BY <3>1, <3>2, <3>3
  <2>5. IsStream(StreamBytes, Ahead, Len(delivered), sent)
    BY <1>1 DEF StreamInv, RestAhead
  <2>6. IsStream(StreamBytes', Ahead + HeaderSize + d, Len(delivered), Append(sent, d))
    BY <1>2, <2>3, <2>4, <2>5, StreamGrows DEF m
  <2>7. IsStream(StreamBytes', Ahead', Len(delivered'), sent')
    <3>1. Ahead + HeaderSize + d = Ahead'
      BY <1>3, <2>1, <2>2, PacketsFit DEF m
    <3>. QED BY <1>1, <2>6, <3>1
  <2>8. processing_size' = ReadableSize(buffer)'
    BY <1>1, <2>1 DEF ReadableSize
  <2>. QED BY <2>7, <2>8 DEF RestAhead
<1>10. Stages'
  <2>1. Len(delivered) < Len(sent) =>
          Len(delivered) < Len(sent') /\ Size(sent, Len(delivered) + 1) = Size(sent', Len(delivered) + 1)
    BY <1>2, <1>6 DEF Size
  <2>. QED BY <1>1, <2>1 DEF StreamInv, Stages
<1>. QED BY <1>7, <1>8, <1>9, <1>10 DEF StreamInv

LEMMA RecieveStep ==
  ASSUME StreamInv, NEW n \in 1..Len(wire), Recieve(n)
  PROVE  StreamInv'
<1> DEFINE data == SubSeq(wire, 1, n)
<1>1. /\ pc = "waiting" /\ pc' = "loop" /\ active' = active /\ packetsize' = packetsize
      /\ sent' = sent /\ delivered' = delivered /\ processing_size' = processing_size + n
      /\ n <= WritableSize(buffer)
      /\ wire' = SubSeq(wire, n + 1, Len(wire))
      /\ buffer' = ShiftWritePos(PutAtWritePos(buffer, data), n)
  BY DEF Recieve, Goto
<1>2. /\ wire \in Seq(Pairs) /\ Len(wire) \in Nat /\ n \in Nat /\ n > 0 /\ n <= Len(wire)
      /\ buffer \in Buffers
  BY DEF StreamInv, Types
<1>3. data \in Seq(Pairs) /\ Len(data) = n /\ \A i \in 1..n : data[i] = wire[i]
  <2>1. data \in Seq(Pairs)
    BY <1>2
  <2>2. Len(data) = n
    BY <1>2
  <2>3. \A i \in 1..n : data[i] = wire[i]
    BY <1>2
  <2>. QED BY <2>1, <2>2, <2>3
<1>4. /\ wire' \in Seq(Pairs) /\ Len(wire') = Len(wire) - n
      /\ \A i \in 1..(Len(wire) - n) : wire'[i] = wire[n + i]
  <2> DEFINE rest == SubSeq(wire, n + 1, Len(wire))
  <2>1. rest \in Seq(Pairs)
    BY <1>2
  <2>2. Len(rest) = Len(wire) - n
    BY <1>2
  <2>3. \A i \in 1..(Len(wire) - n) : rest[i] = wire[n + i]
    BY <1>2
  <2>. QED BY <1>1, <2>1, <2>2, <2>3
<1> HIDE DEF data
<1>5. /\ buffer' \in Buffers /\ buffer'.read_pos = buffer.read_pos
      /\ buffer'.write_pos = buffer.write_pos + n
      /\ \A i \in 0..(Capacity - 1) :
           buffer'.mem[i] = IF i \in buffer.write_pos..(buffer.write_pos + n - 1)
                            THEN data[i - buffer.write_pos + 1] ELSE buffer.mem[i]
  BY <1>1, <1>2, <1>3, PutIs
<1>6. /\ buffer.read_pos \in Nat /\ buffer.write_pos \in Nat /\ buffer.write_pos + n <= Capacity
      /\ buffer.read_pos <= buffer.write_pos /\ Capacity \in Nat
      /\ Kept = buffer.write_pos - buffer.read_pos /\ Kept \in Nat
      /\ Ahead = Kept + Len(wire) /\ Ahead \in Nat /\ processing_size = Kept
      /\ InHand = 0 /\ InHand' = 0
  <2>1. InHand = 0 /\ InHand' = 0
    BY <1>1 DEF InHand
  <2>2. /\ buffer.read_pos \in Nat /\ buffer.write_pos \in Nat /\ Capacity \in Nat
        /\ buffer.capacity = Capacity /\ processing_size = buffer.write_pos - buffer.read_pos
        /\ Kept = buffer.write_pos - buffer.read_pos - InHand /\ Kept \in Nat
        /\ Ahead = Kept + Len(wire) /\ Ahead \in Nat
    BY <1>1, Numbers
  <2>3. buffer.read_pos <= buffer.write_pos
    BY DEF StreamInv, Types
  <2>4. n <= Capacity - buffer.write_pos
    BY <1>1, <2>2 DEF WritableSize
  <2>5. buffer.write_pos + n <= Capacity
    BY <1>2, <2>2, <2>4
  <2>6. Kept = buffer.write_pos - buffer.read_pos
    BY <2>1, <2>2
  <2>. QED BY <2>1, <2>2, <2>3, <2>5, <2>6
<1>7. Kept' = Kept + n /\ Ahead' = Ahead
  <2>1. Kept' = buffer'.write_pos - buffer'.read_pos - 0 /\ Ahead' = Kept' + Len(wire')
    BY <1>6 DEF Kept, ReadableSize, Ahead
  <2>2. Kept' = Kept + n
    <3>1. buffer'.write_pos = buffer.write_pos + n /\ buffer'.read_pos = buffer.read_pos
      BY <1>5
    <3>2. /\ Kept = buffer.write_pos - buffer.read_pos /\ n \in Nat
          /\ buffer.read_pos \in Nat /\ buffer.write_pos \in Nat
      BY <1>2, <1>6
    <3>. QED BY <2>1, <3>1, <3>2
  <2>3. Ahead' = (Kept + n) + (Len(wire) - n)
    BY <1>4, <2>1, <2>2
  <2>. QED BY <1>2, <1>6, <2>2, <2>3
<1>8. ASSUME NEW i \in 1..Ahead PROVE Byte(i)' = Byte(i)
  <2>1. /\ Byte(i) = IF i <= Kept THEN buffer.mem[buffer.read_pos + 0 + i - 1] ELSE wire[i - Kept]
        /\ Byte(i)' = IF i <= Kept + n THEN buffer'.mem[buffer.read_pos + 0 + i - 1]
                                       ELSE wire'[i - (Kept + n)]
    BY <1>5, <1>6, <1>7 DEF Byte
  <2>2. /\ buffer.read_pos \in Nat /\ buffer.write_pos \in Nat /\ buffer.write_pos + n <= Capacity
        /\ Capacity \in Nat /\ Kept = buffer.write_pos - buffer.read_pos
        /\ n \in Nat /\ i \in Nat /\ i > 0
    BY <1>2, <1>6
  <2>3. Kept \in Nat /\ n \in Nat /\ i \in Nat /\ i > 0 /\ Len(wire) \in Nat /\ i <= Kept + Len(wire)
    BY <1>2, <1>6
  <2> DEFINE at == buffer.read_pos + 0 + i - 1
  <2>4. CASE i <= Kept
    <3>1. at \in Nat /\ at < buffer.write_pos
      BY <2>4, <2>2, SMTT(20)
    <3>2. at \in 0..(Capacity - 1) /\ at < buffer.write_pos
      <4> HIDE DEF at
      <4>. QED BY <2>2, <3>1
    <3>3. at \notin buffer.write_pos..(buffer.write_pos + n - 1)
      <4> HIDE DEF at
      <4>. QED BY <2>2, <3>2
    <3>4. i <= Kept + n
      BY <2>4, <2>3
    <3>5. buffer'.mem[at] = buffer.mem[at]
      BY <1>5, <3>2, <3>3
    <3>. QED BY <2>1, <2>4, <3>4, <3>5
  <2>5. CASE i > Kept /\ i <= Kept + n
    <3>1. at \in Nat /\ at >= buffer.write_pos /\ at < buffer.write_pos + n
      <4> DEFINE j == i - Kept
      <4>1. at = buffer.write_pos + j - 1
        BY <2>2, SMTT(20)
      <4>2. j >= 1 /\ j <= n /\ j \in Int
        BY <2>3, <2>5, SMTT(20)
      <4>3. buffer.write_pos \in Nat /\ n \in Nat
        BY <2>2
      <4> HIDE DEF at, j
      <4>. QED BY <4>1, <4>2, <4>3
    <3>2. at \in buffer.write_pos..(buffer.write_pos + n - 1) /\ at \in 0..(Capacity - 1)
      <4> HIDE DEF at
      <4>. QED BY <2>2, <3>1
    <3>3. at - buffer.write_pos + 1 = i - Kept
      BY <2>2
    <3>4. i - Kept \in 1..n /\ ~(i <= Kept)
      BY <2>5, <2>3
    <3>5. buffer'.mem[at] = wire[i - Kept]
      BY <1>3, <1>5, <3>2, <3>3, <3>4
    <3>. QED BY <2>1, <2>5, <3>4, <3>5
  <2>6. CASE i > Kept + n
    <3>1. i - (Kept + n) \in 1..(Len(wire) - n)
      BY <2>6, <2>3
    <3>2. n + (i - (Kept + n)) = i - Kept
      BY <2>3
    <3>3. ~(i <= Kept) /\ ~(i <= Kept + n)
      BY <2>6, <2>3
    <3>4. wire'[i - (Kept + n)] = wire[i - Kept]
      BY <1>4, <3>1, <3>2
    <3>. QED BY <2>1, <3>3, <3>4
  <2>. QED BY <1>2, <1>6, <2>4, <2>5, <2>6
<1>9. Types'
  <2>1. processing_size + n \in 0..Capacity /\ buffer'.read_pos <= buffer'.write_pos
    <3>1. /\ processing_size = buffer.write_pos - buffer.read_pos /\ n \in Nat /\ Capacity \in Nat
          /\ buffer.read_pos \in Nat /\ buffer.write_pos \in Nat
          /\ buffer.read_pos <= buffer.write_pos /\ buffer.write_pos + n <= Capacity
      BY <1>2, <1>6
    <3>2. processing_size + n \in 0..Capacity
      BY <3>1
    <3>3. buffer.read_pos <= buffer.write_pos + n
      BY <3>1
    <3>. QED BY <1>5, <3>2, <3>3
  <2>. QED BY <1>1, <1>4, <1>5, <2>1 DEF StreamInv, Types, TypeOK
<1>10. FirstDelivered'
  BY <1>1 DEF StreamInv, FirstDelivered
<1>11. RestAhead'
  <2>1. IsStream(StreamBytes', Ahead', Len(delivered'), sent')
    BY <1>1, <1>7, <1>8, StreamKept
  <2>2. processing_size' = ReadableSize(buffer)'
    <3>1. ReadableSize(buffer)' = (buffer.write_pos + n) - buffer.read_pos
      BY <1>5 DEF ReadableSize
    <3>2. /\ processing_size = buffer.write_pos - buffer.read_pos /\ n \in Nat
          /\ buffer.read_pos \in Nat /\ buffer.write_pos \in Nat
      BY <1>2, <1>6
    <3>. QED BY <1>1, <3>1, <3>2
  <2>. QED BY <2>1, <2>2 DEF RestAhead
<1>12. Stages'
  BY <1>1 DEF Stages
<1>. QED BY <1>9, <1>10, <1>11, <1>12 DEF StreamInv

LEMMA LoopStep == ASSUME StreamInv, Loop PROVE StreamInv'
<1>1. /\ pc = "loop" /\ UNCHANGED <<sent, wire, buffer, processing_size, active, delivered>>
      /\ pc' \in {"rearm", "idle", "processing"}
  BY DEF Loop, Goto
<1>2. InHand = 0 /\ InHand' = 0
  BY <1>1 DEF InHand
<1>3. /\ Capacity \in Nat \ {0} /\ Len(sent) \in Nat /\ Len(delivered) \in Nat
      /\ sent \in Seq(DataSizes)
      /\ processing_size \in 0..Capacity /\ packetsize \in 0..Capacity
  BY StreamBounds DEF StreamInv, Types, TypeOK
<1>4. ASSUME processing_size # 0
      PROVE  /\ Len(delivered) + 1 \in 1..Len(sent)
             /\ DataSizeRead = sent[Len(delivered) + 1]
  <2>1. /\ IsStream(StreamBytes, Ahead, Len(delivered), sent)
        /\ processing_size = ReadableSize(buffer)
    BY <1>1 DEF StreamInv, RestAhead
  <2>2. Kept = processing_size /\ Ahead = Kept + Len(wire) /\ Len(wire) \in Nat
        /\ buffer.read_pos \in Nat
    BY <1>1, <1>2, Numbers
  <2>3. 1 <= Kept /\ 1 \in 1..Ahead /\ Ahead > 0
    BY <1>3, <1>4, <2>2
  <2>4. StreamBytes[1] = buffer.mem[buffer.read_pos]
    <3>1. Byte(1) = buffer.mem[buffer.read_pos + 0 + 1 - 1]
      BY <1>2, <2>3 DEF Byte
    <3>2. buffer.read_pos + 0 + 1 - 1 = buffer.read_pos
      BY <2>2
    <3>. QED BY <2>3, <3>1, <3>2 DEF StreamBytes
  <2>5. StreamBytes[1] = <<Len(delivered) + 1, 1>>
    BY <2>1, <2>3 DEF IsStream
  <2>6. Len(delivered) + 1 \in 1..Len(sent)
    BY <1>3, <2>1, <2>3 DEF IsStream
  <2>. QED BY <1>3, <2>4, <2>5, <2>6 DEF DataSizeRead
<1>5. ASSUME processing_size # 0
      PROVE  /\ HeaderParsing(processing_size) = 0 => processing_size < Capacity
             /\ HeaderParsing(processing_size) # 0 =>
                  /\ HeaderParsing(processing_size) = Size(sent, Len(delivered) + 1)
                  /\ HeaderParsing(processing_size) <= processing_size
             /\ HeaderParsing(processing_size) \in 0..Capacity
  <2>1. /\ Size(sent, Len(delivered) + 1) \in Nat
        /\ Size(sent, Len(delivered) + 1) <= Capacity
        /\ Size(sent, Len(delivered) + 1) = HeaderSize + DataSizeRead
    BY <1>3, <1>4, <1>5, SizeIs DEF Size
  <2>2. HeaderSize \in Nat /\ DataSizeRead \in Nat
    <3>1. DataSizeRead \in DataSizes
      BY <1>3, <1>4, <1>5
    <3>. QED BY <3>1, PacketsFit
  <2>3. processing_size \in Nat /\ processing_size <= Capacity /\ Capacity \in Nat
    BY <1>3
  <2>4. CASE processing_size < HeaderSize + DataSizeRead
    <3>1. HeaderParsing(processing_size) = 0
      BY <2>2, <2>3, <2>4 DEF HeaderParsing
    <3>2. processing_size < Capacity
      BY <2>1, <2>2, <2>3, <2>4
    <3>. QED BY <2>3, <3>1, <3>2
  <2>5. CASE processing_size >= HeaderSize + DataSizeRead
    <3>1. HeaderParsing(processing_size) = HeaderSize + DataSizeRead
      BY <2>2, <2>3, <2>5 DEF HeaderParsing
    <3>2. HeaderSize > 0
      BY PacketsFit
    <3>3. HeaderParsing(processing_size) # 0
      BY <2>2, <3>1, <3>2
    <3>. QED BY <2>1, <2>3, <2>5, <3>1, <3>3
  <2>. QED BY <2>2, <2>3, <2>4, <2>5
<1>6. Types'
  <2>1. packetsize' \in 0..Capacity
    BY <1>3, <1>5 DEF Loop
  <2>2. buffer' = buffer /\ sent' = sent /\ wire' = wire /\ delivered' = delivered
        /\ processing_size' = processing_size /\ active' = active
    BY <1>1
  <2>. QED BY <1>1, <2>1, <2>2 DEF StreamInv, Types, TypeOK
<1>7. FirstDelivered'
  BY <1>1 DEF StreamInv, FirstDelivered
<1>8. RestAhead'
  <2>1. IsStream(StreamBytes', Ahead', Len(delivered'), sent')
    BY <1>1, <1>2, StreamUntouched
  <2>2. processing_size' = ReadableSize(buffer)'
    BY <1>1 DEF StreamInv, RestAhead, ReadableSize
  <2>. QED BY <2>1, <2>2 DEF RestAhead
<1>9. Stages'
  <2>1. CASE processing_size = 0
    <3>1. pc' = "rearm"
      BY <2>1 DEF Loop, Goto
    <3>. QED BY <1>1, <1>3, <2>1, <3>1 DEF Stages
  <2>2. CASE processing_size # 0 /\ ~active
    <3>1. pc' = "idle"
      BY <2>2 DEF Loop, Goto
    <3>. QED BY <1>1, <2>2, <3>1 DEF Stages
  <2>3. CASE processing_size # 0 /\ active
    <3>1. /\ packetsize' = HeaderParsing(processing_size)
          /\ pc' = IF packetsize' = 0 THEN "rearm" ELSE "processing"
      BY <2>3 DEF Loop, Goto
    <3>2. CASE packetsize' = 0
      <4>1. pc' = "rearm" /\ processing_size' < Capacity
        BY <1>1, <1>5, <2>3, <3>1, <3>2
      <4>. QED BY <4>1 DEF Stages
    <3>3. CASE packetsize' # 0
      <4>1. /\ pc' = "processing" /\ packetsize' = Size(sent, Len(delivered) + 1)
            /\ packetsize' <= processing_size
        BY <1>5, <2>3, <3>1, <3>3
      <4>2. Len(delivered) < Len(sent)
        BY <1>3, <1>4, <2>3
      <4>3. Size(sent', Len(delivered') + 1) = Size(sent, Len(delivered) + 1)
        BY <1>1
      <4>. QED BY <1>1, <4>1, <4>2, <4>3 DEF Stages
    <3>. QED BY <3>2, <3>3
  <2>. QED BY <2>1, <2>2, <2>3 DEF StreamInv, Types, TypeOK
<1>. QED BY <1>6, <1>7, <1>8, <1>9 DEF StreamInv

\* The first packet ahead is the one that is delivered.
LEMMA PacketProcessingStep ==
  ASSUME StreamInv, PacketProcessing
  PROVE  /\ StreamInv' /\ Len(delivered) < Len(sent)
         /\ delivered' = Append(delivered, PacketBytes(Len(delivered) + 1, sent[Len(delivered) + 1]))
<1> DEFINE m == packetsize
           n == Len(delivered)
           p == PacketBytes(n + 1, sent[n + 1])
<1>1. /\ pc = "processing" /\ pc' = "processed"
      /\ UNCHANGED <<sent, wire, buffer, processing_size, active, packetsize>>
      /\ delivered' = Append(delivered, BytesFrom(buffer, buffer.read_pos, packetsize))
  BY DEF PacketProcessing, Goto
<1>2. /\ n < Len(sent) /\ m = Size(sent, n + 1) /\ m <= processing_size
      /\ n \in Nat /\ Len(sent) \in Nat /\ sent \in Seq(DataSizes)
      /\ processing_size = ReadableSize(buffer)
      /\ IsStream(StreamBytes, Ahead, n, sent)
  BY <1>1 DEF StreamInv, Types, TypeOK, Stages, RestAhead
<1>3. m \in Nat /\ m > 0
  <2>1. n + 1 \in 1..Len(sent)
    BY <1>2
  <2>. QED BY <1>2, <2>1, SizeIs
<1>4. InHand = 0 /\ InHand' = m
  BY <1>1 DEF InHand
<1>5. /\ buffer.read_pos \in Nat /\ Kept = processing_size /\ Kept \in Nat
      /\ Ahead = Kept + Len(wire) /\ Len(wire) \in Nat /\ Ahead \in Nat
  BY <1>1, <1>4, Numbers
<1>6. Kept' = Kept - m /\ Ahead' = Ahead - m /\ Ahead > 0
  <2>1. Kept' = ReadableSize(buffer) - m /\ Ahead' = Kept' + Len(wire)
    BY <1>1, <1>4 DEF Kept, Ahead, ReadableSize
  <2>2. Kept' = Kept - m
    BY <1>2, <1>5, <2>1
  <2>3. Ahead' = (Kept - m) + Len(wire)
    BY <2>1, <2>2
  <2>4. Ahead' = Ahead - m
    BY <1>3, <1>5, <2>3
  <2>5. Ahead > 0
    BY <1>2, <1>3, <1>5
  <2>. QED BY <2>2, <2>4, <2>5
<1>7. /\ Size(sent, n + 1) <= Ahead
      /\ \A j \in 1..Size(sent, n + 1) : StreamBytes[j] = <<n + 1, j>>
      /\ \A q : (\A i \in 1..(Ahead - Size(sent, n + 1)) : q[i] = StreamBytes[i + Size(sent, n + 1)])
                  => IsStream(q, Ahead - Size(sent, n + 1), n + 1, sent)
  BY <1>2, <1>6, Taken
<1>8. BytesFrom(buffer, buffer.read_pos, m) = p
  <2>1. ASSUME NEW j \in 1..m PROVE buffer.mem[buffer.read_pos + j - 1] = <<n + 1, j>>
    <3>1. j <= Kept /\ j \in 1..Ahead /\ buffer.read_pos + 0 + j - 1 = buffer.read_pos + j - 1
      BY <1>2, <1>3, <1>5, SMTT(20)
    <3>2. StreamBytes[j] = buffer.mem[buffer.read_pos + 0 + j - 1]
      BY <1>4, <3>1 DEF StreamBytes, Byte
    <3>3. StreamBytes[j] = <<n + 1, j>>
      BY <1>2, <1>7
    <3>. QED BY <3>1, <3>2, <3>3
  <2>2. p = [j \in 1..m |-> <<n + 1, j>>]
    BY <1>2 DEF PacketBytes, Size
  <2>3. BytesFrom(buffer, buffer.read_pos, m) = [j \in 1..m |-> buffer.mem[buffer.read_pos + j - 1]]
    BY DEF BytesFrom
  <2> HIDE DEF p, m, n
  <2>. QED BY <2>1, <2>2, <2>3
<1>9. p \in Seq(Pairs)
  <2>1. p = [j \in 1..m |-> <<n + 1, j>>]
    BY <1>2 DEF PacketBytes, Size
  <2>2. p \in [1..m -> Pairs]
    BY <1>2, <1>3, <2>1 DEF Pairs
  <2>. QED BY <1>3, <2>2, SeqDef
<1>10. /\ delivered' = Append(delivered, p) /\ delivered \in Seq(Seq(Pairs))
       /\ delivered' \in Seq(Seq(Pairs)) /\ Len(delivered') = n + 1
       /\ delivered'[n + 1] = p /\ \A k \in 1..n : delivered'[k] = delivered[k]
  <2>1. delivered' = Append(delivered, p) /\ delivered \in Seq(Seq(Pairs))
    BY <1>1, <1>8 DEF StreamInv, Types
  <2> HIDE DEF p
  <2>. QED BY <1>9, <2>1
<1>11. Types'
  <2>1. buffer' = buffer /\ sent' = sent /\ wire' = wire /\ packetsize' = packetsize
        /\ processing_size' = processing_size /\ active' = active
    BY <1>1
  <2>. QED BY <1>1, <1>10, <2>1 DEF StreamInv, Types, TypeOK
<1>12. FirstDelivered'
  <2>1. Len(delivered') <= Len(sent')
    BY <1>1, <1>2, <1>10
  <2>2. ASSUME NEW k \in 1..Len(delivered') PROVE delivered'[k] = PacketBytes(k, sent'[k])
    <3>1. CASE k = n + 1
      BY <1>1, <1>10, <3>1
    <3>2. CASE k \in 1..n
      BY <1>1, <1>10, <3>2 DEF StreamInv, FirstDelivered
    <3>. QED BY <1>2, <1>10, <3>1, <3>2
  <2>3. \A k \in 1..Len(delivered') : delivered'[k] = PacketBytes(k, sent'[k])
    BY <2>2
  <2>. QED BY <2>1, <2>3 DEF FirstDelivered, PacketBytes
<1>13. RestAhead'
  <2>1. ASSUME NEW i \in 1..(Ahead - m) PROVE StreamBytes'[i] = StreamBytes[i + m]
    <3>1. i \in 1..Ahead' /\ StreamBytes'[i] = Byte(i)'
      BY <1>6 DEF StreamBytes
    <3>2. i + m \in 1..Ahead
      BY <1>3, <1>5
    <3>3. Byte(i)' = IF i <= Kept - m THEN buffer.mem[buffer.read_pos + m + i - 1]
                                      ELSE wire[i - (Kept - m)]
      BY <1>1, <1>4, <1>6 DEF Byte
    <3>4. StreamBytes[i + m] = IF i + m <= Kept THEN buffer.mem[buffer.read_pos + 0 + (i + m) - 1]
                                                ELSE wire[(i + m) - Kept]
      BY <1>4, <3>2 DEF StreamBytes, Byte
    <3>5. /\ i + m <= Kept <=> i <= Kept - m
          /\ (i + m) - Kept = i - (Kept - m)
      BY <1>3, <1>5
    <3>6. buffer.read_pos + 0 + (i + m) - 1 = buffer.read_pos + m + i - 1
      BY <1>3, <1>5
    <3>. QED BY <3>1, <3>3, <3>4, <3>5, <3>6
  <2>2. IsStream(StreamBytes', Ahead - m, n + 1, sent)
    BY <1>2, <1>7, <2>1
  <2>3. IsStream(StreamBytes', Ahead', Len(delivered'), sent')
    BY <1>1, <1>6, <1>10, <2>2
  <2>4. processing_size' = ReadableSize(buffer)'
    BY <1>1, <1>2 DEF ReadableSize
  <2>. QED BY <2>3, <2>4 DEF RestAhead
<1>14. Stages'
  BY <1>1, <1>2 DEF Stages
<1>. QED BY <1>2, <1>10, <1>11, <1>12, <1>13, <1>14 DEF StreamInv

LEMMA ProcessedStep == ASSUME StreamInv, Processed PROVE StreamInv'
<1>1. /\ pc = "processed" /\ UNCHANGED <<sent, wire, active, packetsize, delivered>>
      /\ active \in BOOLEAN
  BY DEF Processed, StreamInv, Types, TypeOK
<1>2. CASE active
  <2>1. /\ buffer' = ShiftReadPos(buffer, packetsize) /\ pc' = "loop"
        /\ processing_size' = processing_size - packetsize
    BY <1>2 DEF Processed, Goto
  <2>2. /\ buffer.read_pos \in Nat /\ buffer.write_pos \in Nat
        /\ processing_size = buffer.write_pos - buffer.read_pos
        /\ Kept = buffer.write_pos - buffer.read_pos - InHand /\ Kept \in Nat
    BY <1>1, Numbers
  <2>3. /\ packetsize \in Nat /\ packetsize <= processing_size /\ processing_size \in 0..Capacity
        /\ buffer \in Buffers /\ Capacity \in Nat
    BY <1>1, StreamBounds DEF StreamInv, Types, TypeOK, Stages
  <2>4. buffer.read_pos + packetsize <= buffer.write_pos
    BY <2>2, <2>3
  <2>5. /\ buffer' \in Buffers /\ buffer'.read_pos = buffer.read_pos + packetsize
        /\ buffer'.write_pos = buffer.write_pos /\ buffer'.mem = buffer.mem
    BY <2>1, <2>3, <2>4, ShiftReadPosIs
  <2>6. InHand = packetsize /\ InHand' = 0
    BY <1>1, <2>1 DEF InHand
  <2>7. Kept' = Kept /\ Ahead' = Ahead
    <3>1. Kept' = buffer'.write_pos - buffer'.read_pos - 0
      BY <2>6 DEF Kept, ReadableSize
    <3>2. Kept' = Kept
      BY <2>2, <2>3, <2>5, <2>6, <3>1
    <3>. QED BY <1>1, <3>2 DEF Ahead
  <2>8. ASSUME NEW i \in 1..Ahead PROVE Byte(i)' = Byte(i)
    <3>1. buffer.read_pos + packetsize + 0 + i - 1 = buffer.read_pos + packetsize + i - 1
      BY <2>2, <2>3
    <3>2. Byte(i)' = IF i <= Kept THEN buffer.mem[buffer.read_pos + packetsize + 0 + i - 1]
                                  ELSE wire[i - Kept]
      BY <1>1, <2>5, <2>6, <2>7 DEF Byte
    <3>. QED BY <2>6, <3>1, <3>2 DEF Byte
  <2>9. Types'
    <3>1. processing_size' \in 0..Capacity
      BY <2>1, <2>3
    <3>2. buffer'.read_pos <= buffer'.write_pos
      BY <2>4, <2>5
    <3>3. sent' = sent /\ wire' = wire /\ active' = active /\ packetsize' = packetsize
          /\ delivered' = delivered
      BY <1>1
    <3>. QED BY <2>1, <2>5, <3>1, <3>2, <3>3 DEF StreamInv, Types, TypeOK
  <2>10. FirstDelivered'
    BY <1>1 DEF StreamInv, FirstDelivered
  <2>11. RestAhead'
    <3>1. IsStream(StreamBytes', Ahead', Len(delivered'), sent')
      BY <1>1, <2>7, <2>8, StreamKept
    <3>2. processing_size' = ReadableSize(buffer)'
      <4>1. ReadableSize(buffer)' = buffer.write_pos - (buffer.read_pos + packetsize)
        BY <2>5 DEF ReadableSize
      <4>. QED BY <2>1, <2>2, <2>3, <4>1
    <3>. QED BY <3>1, <3>2 DEF RestAhead
  <2>12. Stages'
    BY <2>1 DEF Stages
  <2>. QED BY <2>9, <2>10, <2>11, <2>12 DEF StreamInv
<1>3. CASE ~active
  <2>1. pc' = "idle" /\ buffer' = buffer /\ processing_size' = processing_size
    BY <1>3 DEF Processed, Goto
  <2>2. sent' = sent /\ wire' = wire /\ active' = active /\ packetsize' = packetsize
        /\ delivered' = delivered
    BY <1>1
  <2>. QED BY <1>3, <2>1, <2>2
         DEF StreamInv, Types, TypeOK, FirstDelivered, RestAhead, Stages
<1>. QED BY <1>1, <1>2, <1>3

LEMMA RearmStep == ASSUME StreamInv, Rearm PROVE StreamInv'
<1>1. /\ pc = "rearm" /\ UNCHANGED <<sent, wire, processing_size, active, packetsize, delivered>>
      /\ active \in BOOLEAN
  BY DEF Rearm, StreamInv, Types, TypeOK
<1>2. CASE active
  <2>1. buffer' = CarriageReturn(buffer) /\ pc' = "waiting"
    BY <1>2 DEF Rearm, Goto
  <2>2. /\ buffer.read_pos \in Nat /\ buffer.write_pos \in Nat
        /\ processing_size = buffer.write_pos - buffer.read_pos
        /\ Kept = buffer.write_pos - buffer.read_pos - InHand /\ Kept \in Nat
    BY <1>1, Numbers
  <2>3. buffer \in Buffers /\ buffer.read_pos <= buffer.write_pos /\ processing_size < Capacity
    BY <1>1 DEF StreamInv, Types, Stages
  <2>4. /\ buffer' \in Buffers /\ buffer'.read_pos = 0
        /\ buffer'.write_pos = buffer.write_pos - buffer.read_pos
        /\ \A i \in 0..(buffer.write_pos - buffer.read_pos - 1) :
             buffer'.mem[i] = buffer.mem[buffer.read_pos + i]
    BY <2>1, <2>3, CarriageReturnIs
  <2>5. InHand = 0 /\ InHand' = 0
    BY <1>1, <2>1 DEF InHand
  <2>6. Kept = buffer.write_pos - buffer.read_pos
    BY <2>2, <2>5
  <2>7. Kept' = Kept /\ Ahead' = Ahead
    <3>1. Kept' = (buffer.write_pos - buffer.read_pos) - 0 - 0
      BY <2>4, <2>5 DEF Kept, ReadableSize
    <3>2. Kept' = Kept
      BY <2>2, <2>6, <3>1
    <3>. QED BY <1>1, <3>2 DEF Ahead
  <2>8. ASSUME NEW i \in 1..Ahead PROVE Byte(i)' = Byte(i)
    <3>1. /\ Byte(i) = IF i <= Kept THEN buffer.mem[buffer.read_pos + 0 + i - 1] ELSE wire[i - Kept]
          /\ Byte(i)' = IF i <= Kept THEN buffer'.mem[0 + 0 + i - 1] ELSE wire[i - Kept]
      BY <1>1, <2>4, <2>5, <2>7 DEF Byte
    <3>2. ASSUME i <= Kept
          PROVE  buffer'.mem[0 + 0 + i - 1] = buffer.mem[buffer.read_pos + 0 + i - 1]
      <4>1. i - 1 \in 0..(buffer.write_pos - buffer.read_pos - 1)
        BY <2>2, <2>6, <3>2
      <4>2. 0 + 0 + i - 1 = i - 1 /\ buffer.read_pos + 0 + i - 1 = buffer.read_pos + (i - 1)
        BY <2>2
      <4>. QED BY <2>4, <4>1, <4>2
    <3>. QED BY <3>1, <3>2
  <2>9. Types'
    <3>1. buffer'.read_pos <= buffer'.write_pos
      BY <2>2, <2>3, <2>4
    <3>2. sent' = sent /\ wire' = wire /\ active' = active /\ packetsize' = packetsize
          /\ delivered' = delivered /\ processing_size' = processing_size
      BY <1>1
    <3>. QED BY <2>1, <2>4, <3>1, <3>2 DEF StreamInv, Types, TypeOK
  <2>10. FirstDelivered'
    BY <1>1 DEF StreamInv, FirstDelivered
  <2>11. RestAhead'
    <3>1. IsStream(StreamBytes', Ahead', Len(delivered'), sent')
      BY <1>1, <2>7, <2>8, StreamKept
    <3>2. processing_size' = ReadableSize(buffer)'
      <4>1. ReadableSize(buffer)' = (buffer.write_pos - buffer.read_pos) - 0
        BY <2>4 DEF ReadableSize
      <4>. QED BY <1>1, <2>2, <4>1
    <3>. QED BY <3>1, <3>2 DEF RestAhead
  <2>12. Stages'
    BY <1>1, <1>2, <2>1, <2>2, <2>3, <2>4 DEF Stages
  <2>. QED BY <2>9, <2>10, <2>11, <2>12 DEF StreamInv
<1>3. CASE ~active
  <2>1. pc' = "idle" /\ buffer' = buffer
    BY <1>3 DEF Rearm, Goto
  <2>2. sent' = sent /\ wire' = wire /\ active' = active /\ packetsize' = packetsize
        /\ delivered' = delivered /\ processing_size' = processing_size
    BY <1>1
  <2>. QED BY <1>3, <2>1, <2>2
         DEF StreamInv, Types, TypeOK, FirstDelivered, RestAhead, Stages
<1>. QED BY <1>1, <1>2, <1>3

LEMMA DisconnectRequestStep == ASSUME StreamInv, DisconnectRequest PROVE StreamInv'
<1>1. /\ active' = FALSE /\ pc' = IF pc = "waiting" THEN "idle" ELSE pc
      /\ UNCHANGED <<sent, wire, buffer, processing_size, packetsize, delivered>>
      /\ pc # "idle"
  BY DEF DisconnectRequest, StreamInv, Stages
<1>2. sent' = sent /\ wire' = wire /\ buffer' = buffer /\ packetsize' = packetsize
      /\ delivered' = delivered /\ processing_size' = processing_size
  BY <1>1
<1>3. pc' \in {"waiting", "loop", "processing", "processed", "rearm", "idle"}
  BY <1>1 DEF StreamInv, Types, TypeOK
<1>4. Types'
  BY <1>1, <1>2, <1>3 DEF StreamInv, Types, TypeOK
<1>5. FirstDelivered'
  BY <1>2 DEF StreamInv, FirstDelivered
<1>6. RestAhead'
  <2>1. InHand' = InHand
    BY <1>1, <1>2 DEF InHand
  <2>2. IsStream(StreamBytes', Ahead', Len(delivered'), sent')
    BY <1>1, <2>1, StreamUntouched
  <2>3. processing_size' = ReadableSize(buffer)'
    BY <1>1, <1>2 DEF StreamInv, RestAhead, ReadableSize
  <2>. QED BY <2>2, <2>3 DEF RestAhead
<1>7. Stages'
  BY <1>1, <1>2 DEF StreamInv, Stages
<1>. QED BY <1>4, <1>5, <1>6, <1>7 DEF StreamInv

\* The next connection starts with nothing of the last one.
LEMMA CleanupStep == ASSUME StreamInv, Cleanup PROVE StreamInv'
<1>1. /\ buffer' = Clear(buffer) /\ processing_size' = 0
      /\ sent' = << >> /\ wire' = << >> /\ delivered' = << >>
      /\ active' = TRUE /\ pc' = "waiting" /\ packetsize' = packetsize
  BY DEF Cleanup, Goto
<1>2. buffer' \in Buffers /\ buffer'.read_pos = 0 /\ buffer'.write_pos = 0
  BY <1>1, ClearIs DEF StreamInv, Types
<1>3. Types'
  <2>1. << >> \in Seq(DataSizes) /\ << >> \in Seq(Pairs) /\ << >> \in Seq(Seq(Pairs))
    OBVIOUS
  <2>2. 0 \in 0..Capacity
    BY StreamBounds
  <2>. QED BY <1>1, <1>2, <2>1, <2>2 DEF StreamInv, Types, TypeOK
<1>4. FirstDelivered'
  BY <1>1 DEF FirstDelivered
<1>5. RestAhead'
  <2>1. ReadableSize(buffer)' = 0 /\ Ahead' = 0
    BY <1>1, <1>2 DEF ReadableSize, Ahead, Kept, InHand
  <2>2. IsStream(StreamBytes', 0, 0, << >>)
    BY DEF IsStream
  <2>3. IsStream(StreamBytes', Ahead', Len(delivered'), sent')
    BY <1>1, <2>1, <2>2
  <2>. QED BY <1>1, <2>1, <2>3 DEF RestAhead
<1>6. Stages'
  BY <1>1, <1>2, StreamBounds DEF Stages
<1>. QED BY <1>3, <1>4, <1>5, <1>6 DEF StreamInv

LEMMA StreamStep == ASSUME StreamInv, [Next]_vars PROVE StreamInv'
<1>1. CASE \E d \in DataSizes : SendPacket(d)
  BY <1>1, SendPacketStep
<1>2. CASE Completion
  BY <1>2, RecieveStep DEF Completion
<1>3. CASE Handler
  BY <1>3, LoopStep, PacketProcessingStep, ProcessedStep, RearmStep, CleanupStep DEF Handler
<1>4. CASE DisconnectRequest
  BY <1>4, DisconnectRequestStep
<1>5. CASE UNCHANGED vars
  <2>1. /\ sent' = sent /\ wire' = wire /\ buffer' = buffer /\ processing_size' = processing_size
        /\ active' = active /\ pc' = pc /\ packetsize' = packetsize /\ delivered' = delivered
    BY <1>5 DEF vars
  <2>2. Types' /\ FirstDelivered' /\ Stages'
    BY <2>1 DEF StreamInv, Types, TypeOK, FirstDelivered, Stages
  <2>3. ASSUME pc # "idle" PROVE IsStream(StreamBytes', Ahead', Len(delivered'), sent')
    <3>1. InHand' = InHand
      BY <2>1 DEF InHand
    <3>. QED BY <2>1, <2>3, <3>1, StreamUntouched
  <2>4. RestAhead'
    BY <2>1, <2>3 DEF StreamInv, RestAhead, ReadableSize
  <2>. QED BY <2>2, <2>4 DEF StreamInv
<1>. QED BY <1>1, <1>2, <1>3, <1>4, <1>5 DEF Next

LEMMA StreamAlways == Spec => []StreamInv
BY StreamInit, StreamStep, PTL DEF Spec

-----------------------------------------------------------------------------
(***************************************************************************)
(* Every byte is counted, and stored once, in order and complete: what was *)
(* delivered are the first packets sent, what waits is the rest of the     *)
(* stream, every packet is looked for at its first byte, and every receive *)
(* has room (NetUnit.cpp:139-175, 266-281; NetUnit.h:92).                  *)
(***************************************************************************)
LEMMA StreamInStep == ASSUME StreamInv PROVE RecieveIsInStep
<1> DEFINE n == Len(delivered)
<1>1. n \in Nat /\ Len(sent) \in Nat /\ n <= Len(sent) /\ sent \in Seq(DataSizes)
  BY DEF StreamInv, Types, TypeOK, FirstDelivered
<1>2. ASSUME pc # "idle"
      PROVE  /\ processing_size = ReadableSize(buffer)
             /\ Ahead = 0 <=> n = Len(sent)
             /\ Ahead > 0 => /\ Byte(1) = <<n + 1, 1>>
                             /\ Byte(Ahead) = <<Len(sent), HeaderSize + sent[Len(sent)]>>
             /\ \A i \in 1..(Ahead - 1) : Byte(i + 1) = Following(Byte(i))
  <2>1. /\ processing_size = ReadableSize(buffer) /\ IsStream(StreamBytes, Ahead, n, sent)
        /\ Ahead \in Nat
    BY <1>2, Numbers DEF StreamInv, RestAhead
  <2>2. \A i \in 1..Ahead : StreamBytes[i] = Byte(i)
    BY DEF StreamBytes
  <2>3. Ahead = 0 <=> n = Len(sent)
    BY <2>1 DEF IsStream
  <2>4. ASSUME Ahead > 0
        PROVE  /\ Byte(1) = <<n + 1, 1>>
               /\ Byte(Ahead) = <<Len(sent), HeaderSize + sent[Len(sent)]>>
    <3>1. 1 \in 1..Ahead /\ Ahead \in 1..Ahead
      BY <2>1, <2>4
    <3>2. StreamBytes[1] = <<n + 1, 1>> /\ StreamBytes[Ahead] = <<Len(sent), Size(sent, Len(sent))>>
      BY <2>1, <2>4 DEF IsStream
    <3>. QED BY <2>2, <3>1, <3>2 DEF Size
  <2>5. ASSUME NEW i \in 1..(Ahead - 1) PROVE Byte(i + 1) = Following(Byte(i))
    <3>1. i \in 1..Ahead /\ i + 1 \in 1..Ahead
      BY <2>1
    <3>2. StreamBytes[i + 1] = Following(StreamBytes[i])
      BY <1>1, <2>1, Chained
    <3>3. StreamBytes[i] = Byte(i) /\ StreamBytes[i + 1] = Byte(i + 1)
      BY <2>2, <3>1
    <3>. QED BY <3>2, <3>3
  <2>. QED BY <2>1, <2>3, <2>4, <2>5
<1>3. NoByteLost
  BY <1>1, <1>2 DEF NoByteLost, StreamInv, FirstDelivered
<1>4. AtPacketStart
  <2>. SUFFICES ASSUME pc = "loop", processing_size > 0
                PROVE  buffer.mem[buffer.read_pos] = <<n + 1, 1>>
    BY DEF AtPacketStart
  <2>1. InHand = 0
    BY DEF InHand
  <2>2. Kept = processing_size /\ Ahead = Kept + Len(wire) /\ Len(wire) \in Nat /\ Kept \in Nat
        /\ buffer.read_pos \in Nat
    BY <2>1, Numbers
  <2>3. Byte(1) = <<n + 1, 1>> /\ 1 <= Kept
    BY <1>2, <2>2
  <2>4. Byte(1) = buffer.mem[buffer.read_pos + 0 + 1 - 1]
    BY <2>1, <2>3 DEF Byte
  <2>5. buffer.read_pos + 0 + 1 - 1 = buffer.read_pos
    BY <2>2
  <2>. QED BY <2>3, <2>4, <2>5
<1>5. RoomToRecieve
  <2>. SUFFICES ASSUME pc = "waiting" PROVE WritableSize(buffer) > 0
    BY DEF RoomToRecieve
  <2>1. buffer.capacity = Capacity /\ buffer.write_pos < Capacity
        /\ buffer.write_pos \in Nat /\ Capacity \in Nat
    BY Numbers DEF StreamInv, Stages
  <2>. QED BY <2>1 DEF WritableSize
<1>. QED BY <1>3, <1>4, <1>5 DEF RecieveIsInStep

THEOREM EveryByteInStep == Spec => []RecieveIsInStep
BY StreamAlways, StreamInStep, PTL

(***************************************************************************)
(* The unsigned count of bytes never wraps: it stays between 0 and the     *)
(* capacity of the buffer (NetUnit.cpp:145-175).                           *)
(***************************************************************************)
THEOREM CountNeverWraps == Spec => []TypeOK
<1>1. StreamInv => TypeOK
  BY DEF StreamInv, Types, TypeOK
<1>. QED BY <1>1, StreamAlways, PTL

(***************************************************************************)
(* The receive path implements the channel of packets: PacketProcessing    *)
(* gets each packet whole, once and in order, until the connection ends    *)
(* and takes the rest with it (NetUnit.cpp:145-175, Client.cpp:30-40).     *)
(***************************************************************************)
Seen == [k \in 1..Len(delivered) |-> Recognised(k)]

\* What Recognised makes of the packets that were delivered.
LEMMA SeenIs ==
  ASSUME NEW s \in Seq(DataSizes), NEW d \in Seq(Seq(Pairs)), NEW e, Len(d) <= Len(s),
         \A k \in 1..Len(d) : d[k] = PacketBytes(k, s[k]),
         e = [k \in 1..Len(d) |-> IF k <= Len(s) /\ d[k] = PacketBytes(k, s[k]) THEN s[k] ELSE -1]
  PROVE  /\ e \in Seq(DataSizes) /\ Len(e) = Len(d) /\ Len(d) \in Nat /\ Len(s) \in Nat
         /\ \A k \in 1..Len(d) : e[k] = s[k] /\ k \in 1..Len(s)
<1>1. Len(d) \in Nat /\ Len(s) \in Nat
  OBVIOUS
<1>2. ASSUME NEW k \in 1..Len(d) PROVE e[k] = s[k] /\ s[k] \in DataSizes /\ k \in 1..Len(s)
  <2>1. k \in 1..Len(s) /\ k <= Len(s)
    BY <1>1
  <2>. QED BY <2>1
<1>3. e \in [1..Len(d) -> DataSizes]
  <2>1. e = [k \in 1..Len(d) |-> e[k]]
    OBVIOUS
  <2>. QED BY <1>2, <2>1
<1>4. e \in Seq(DataSizes)
  BY <1>1, <1>3, SeqDef
<1>. QED BY <1>1, <1>2, <1>3, <1>4, LenProperties

LEMMA StepOfChannel ==
  ASSUME StreamInv, StreamInv', [Next]_vars
  PROVE  [Channel!Next]_<<sent, Seen>>
<1>1. /\ sent \in Seq(DataSizes) /\ delivered \in Seq(Seq(Pairs))
      /\ Len(delivered) <= Len(sent)
      /\ \A k \in 1..Len(delivered) : delivered[k] = PacketBytes(k, sent[k])
  BY DEF StreamInv, Types, TypeOK, FirstDelivered
<1>2. /\ sent' \in Seq(DataSizes) /\ delivered' \in Seq(Seq(Pairs))
      /\ Len(delivered') <= Len(sent')
      /\ \A k \in 1..Len(delivered') : delivered'[k] = PacketBytes(k, sent'[k])
  BY DEF StreamInv, Types, TypeOK, FirstDelivered, PacketBytes
<1>3. /\ Seen \in Seq(DataSizes) /\ Len(Seen) = Len(delivered) /\ Len(delivered) \in Nat
      /\ Len(sent) \in Nat
      /\ \A k \in 1..Len(delivered) : Seen[k] = sent[k] /\ k \in 1..Len(sent)
  <2>1. Seen = [k \in 1..Len(delivered) |->
                  IF k <= Len(sent) /\ delivered[k] = PacketBytes(k, sent[k]) THEN sent[k] ELSE -1]
    BY DEF Seen, Recognised
  <2>. QED BY <1>1, <2>1, SeenIs
<1>4. /\ Seen' \in Seq(DataSizes) /\ Len(Seen') = Len(delivered') /\ Len(delivered') \in Nat
      /\ \A k \in 1..Len(delivered') : Seen'[k] = sent'[k]
  <2>1. Seen' = [k \in 1..Len(delivered') |->
                   IF k <= Len(sent') /\ delivered'[k] = PacketBytes(k, sent'[k]) THEN sent'[k] ELSE -1]
    BY DEF Seen, Recognised, PacketBytes
  <2>. QED BY <1>2, <2>1, SeenIs
<1>5. ASSUME delivered' = delivered, \A k \in 1..Len(delivered) : sent'[k] = sent[k]
      PROVE  Seen' = Seen
  <2>1. \A k \in 1..Len(Seen) : Seen'[k] = Seen[k]
    BY <1>3, <1>4, <1>5
  <2>2. Len(Seen') = Len(Seen)
    BY <1>3, <1>4, <1>5
  <2>. QED BY <1>3, <1>4, <2>1, <2>2, SeqEqual
<1>6. ASSUME NEW d \in DataSizes, SendPacket(d)
      PROVE  Channel!Send(d)
  <2>1. sent' = Append(sent, d) /\ delivered' = delivered
    BY <1>6 DEF SendPacket
  <2>2. \A k \in 1..Len(delivered) : sent'[k] = sent[k]
    BY <1>1, <1>3, <2>1
  <2>3. Seen' = Seen
    BY <1>5, <2>1, <2>2
  <2>. QED BY <2>1, <2>3 DEF Channel!Send, Seen
<1>7. ASSUME PacketProcessing
      PROVE  Channel!Deliver
  <2> DEFINE n == Len(delivered)
  <2>1. /\ n < Len(sent) /\ sent' = sent
        /\ delivered' = Append(delivered, PacketBytes(n + 1, sent[n + 1]))
    BY <1>7, PacketProcessingStep DEF PacketProcessing
  <2>2. Len(delivered') = n + 1
    BY <1>1, <1>2, <2>1
  <2>3. n + 1 \in 1..Len(sent) /\ sent[n + 1] \in DataSizes
    BY <1>1, <1>3, <2>1
  <2>4. Seen' = Append(Seen, sent[n + 1])
    <3>1. Append(Seen, sent[n + 1]) \in Seq(DataSizes) /\ Len(Append(Seen, sent[n + 1])) = n + 1
      BY <1>3, <2>3
    <3>2. ASSUME NEW k \in 1..(n + 1) PROVE Append(Seen, sent[n + 1])[k] = Seen'[k]
      <4>1. CASE k = n + 1
        BY <1>3, <1>4, <2>1, <2>2, <2>3, <4>1
      <4>2. CASE k \in 1..n
        BY <1>3, <1>4, <2>1, <2>2, <2>3, <4>2
      <4>. QED BY <1>3, <4>1, <4>2
    <3>. QED BY <1>4, <2>2, <3>1, <3>2, SeqEqual
  <2>5. Len(Seen) < Len(sent) /\ Len(Seen) = n
    BY <1>3, <2>1
  <2>6. Seen' = Append(Seen, sent[Len(Seen) + 1])
    BY <2>4, <2>5
  <2>. QED BY <2>1, <2>5, <2>6 DEF Channel!Deliver, Seen
<1>8. ASSUME Cleanup
      PROVE  Channel!Break
  <2>1. sent' = << >> /\ delivered' = << >>
    BY <1>8 DEF Cleanup
  <2>2. Seen' = << >>
    <3>1. Len(Seen') = 0
      BY <1>4, <2>1
    <3>. QED BY <1>4, <3>1, EmptySeq
  <2>. QED BY <2>1, <2>2 DEF Channel!Break, Seen
<1>9. ASSUME UNCHANGED <<sent, delivered>>
      PROVE  UNCHANGED <<sent, Seen>>
  <2>1. sent' = sent /\ delivered' = delivered
    BY <1>9
  <2>2. \A k \in 1..Len(delivered) : sent'[k] = sent[k]
    BY <2>1
  <2>. QED BY <1>5, <2>1, <2>2
<1>10. CASE \E d \in DataSizes : SendPacket(d)
  BY <1>6, <1>10 DEF Channel!Next
<1>11. CASE PacketProcessing
  BY <1>7, <1>11 DEF Channel!Next
<1>12. CASE Cleanup
  BY <1>8, <1>12 DEF Channel!Next
<1>13. CASE UNCHANGED <<sent, delivered>>
  BY <1>9, <1>13
<1>14. \/ \E d \in DataSizes : SendPacket(d)
       \/ PacketProcessing \/ Cleanup
       \/ UNCHANGED <<sent, delivered>>
  BY DEF Next, Completion, Recieve, Handler, Loop, Processed, Rearm, DisconnectRequest, vars
<1>. QED BY <1>10, <1>11, <1>12, <1>13, <1>14

THEOREM PacketsWholeOnceInOrder == Spec => ImplementsPacketChannel
<1>1. ASSUME Init PROVE Channel!Init
  <2>1. sent = << >> /\ delivered = << >>
    BY <1>1 DEF Init
  <2>2. [k \in 1..Len(delivered) |-> Recognised(k)] = << >>
    <3>1. Len(delivered) = 0 /\ 1..0 = {}
      BY <2>1
    <3>. QED BY <3>1
  <2>. QED BY <2>1, <2>2 DEF Channel!Init
<1>2. StreamInv /\ StreamInv' /\ [Next]_vars
        => [Channel!Next]_<<sent, [k \in 1..Len(delivered) |-> Recognised(k)]>>
  BY StepOfChannel DEF Seen
<1>. QED BY <1>1, <1>2, StreamAlways, PTL DEF Spec, ImplementsPacketChannel, Channel!Spec
====
