-------------------------- MODULE PreRelease_proofs --------------------------
(***************************************************************************)
(* Proofs about PreRelease, for any number of captures and of flushes,     *)
(* whatever nodes the frames have and whichever of them fail, and whether  *)
(* or not a flush may outlast the wait for start(): what the app is told   *)
(* of a capture rests on what registration kept of it, the picture only if *)
(* no node comes behind JpegNode; it is told in order, and of none too few.*)
(***************************************************************************)
EXTENDS PreRelease, WellFoundedInduction, TLAPS

(***************************************************************************)
(* Least and greatest numbers.  The induction the proofs need is the one   *)
(* over the natural numbers, in the form that a set of them has a least    *)
(* element.                                                                *)
(***************************************************************************)
LEMMA LeastNumber ==
  ASSUME NEW T \in SUBSET Nat, T # {}
  PROVE  \E x \in T : \A y \in T : x <= y
<1>. DEFINE R == {ss \in Nat \X Nat : ss[1] < ss[2]}
<1>1. OpToRel(<, Nat) = R
  BY DEF OpToRel
<1>2. IsWellFoundedOn(R, Nat)
  BY NatLessThanWellFounded, <1>1, Zenon
<1>3. \A x, y \in Nat : y < x => <<y, x>> \in R
  OBVIOUS
<1>4. \E x \in T : \A y \in T : ~ (<<y, x>> \in R)
  BY <1>2, WFMin, Zenon
<1>5. ASSUME NEW x \in T, \A y \in T : ~ (<<y, x>> \in R)
      PROVE  \A y \in T : x <= y
  <2>. SUFFICES ASSUME NEW y \in T PROVE x <= y
    OBVIOUS
  <2>1. ~ (y < x)
    BY <1>3, <1>5, Zenon
  <2>. QED BY <2>1
<1>. QED BY <1>4, <1>5, Zenon

\* Min is it.
LEMMA MinIs ==
  ASSUME NEW T \in SUBSET Nat, T # {}
  PROVE  Min(T) \in T /\ \A y \in T : Min(T) <= y
BY LeastNumber DEF Min

\* Max is the greatest of a bounded set of numbers.
LEMMA MaxIs ==
  ASSUME NEW n \in Nat, NEW T \in SUBSET (0..n), T # {}
  PROVE  Max(T) \in T /\ \A y \in T : y <= Max(T)
<1>. DEFINE U == {n - y : y \in T}
<1>1. PICK x \in U : \A y \in U : x <= y
  <2>1. U \in SUBSET Nat
    OBVIOUS
  <2>2. PICK y \in T : TRUE
    OBVIOUS
  <2>3. n - y \in U
    OBVIOUS
  <2>. QED BY <2>1, <2>3, LeastNumber
<1>2. PICK m \in T : x = n - m
  OBVIOUS
<1>3. \A y \in T : m >= y
  <2>. SUFFICES ASSUME NEW y \in T PROVE m >= y
    OBVIOUS
  <2>1. n - m <= n - y
    BY <1>1, <1>2
  <2>. QED BY <2>1
<1>. QED BY <1>3 DEF Max

(***************************************************************************)
(* Queues: cutting one, and joining two.                                   *)
(***************************************************************************)
LEMMA CutAt ==
  ASSUME NEW T, NEW q \in Seq(T), NEW n \in 0..Len(q)
  PROVE  /\ SubSeq(q, 1, n) \in Seq(T) /\ Rest(q, n) \in Seq(T)
         /\ Len(SubSeq(q, 1, n)) = n /\ Len(Rest(q, n)) = Len(q) - n
         /\ \A i \in 1..n : SubSeq(q, 1, n)[i] = q[i]
         /\ \A i \in 1..(Len(q) - n) : Rest(q, n)[i] = q[n + i]
         /\ q = SubSeq(q, 1, n) \o Rest(q, n)
<1>1. /\ SubSeq(q, 1, n) \in Seq(T) /\ Rest(q, n) \in Seq(T)
      /\ Len(SubSeq(q, 1, n)) = n /\ Len(Rest(q, n)) = Len(q) - n
      /\ \A i \in 1..n : SubSeq(q, 1, n)[i] = q[i]
      /\ \A i \in 1..(Len(q) - n) : Rest(q, n)[i] = q[n + i]
  BY DEF Rest
<1>. DEFINE w == SubSeq(q, 1, n) \o Rest(q, n)
<1>2. w \in Seq(T) /\ Len(w) = Len(q)
  BY <1>1
<1>3. ASSUME NEW i \in 1..Len(q) PROVE w[i] = q[i]
  <2>1. CASE i <= n
    BY <1>1, <2>1
  <2>2. CASE i > n
    <3>1. i - n \in 1..(Len(q) - n) /\ n + (i - n) = i
      BY <2>2
    <3>2. w[i] = Rest(q, n)[i - n]
      BY <1>1, <2>2, <3>1
    <3>. QED BY <1>1, <3>1, <3>2
  <2>3. i \in Nat /\ n \in Nat
    OBVIOUS
  <2>. HIDE DEF w
  <2>. QED BY <2>1, <2>2, <2>3
<1>4. w = q
  <2>. HIDE DEF w
  <2>. QED BY <1>2, <1>3
<1>. QED BY <1>1, <1>4

\* Joining two queues: the entries, and the captures they are of.
LEMMA Joined ==
  ASSUME NEW T, NEW p \in Seq(T), NEW q \in Seq(T)
  PROVE  /\ p \o q \in Seq(T)
         /\ Len(p \o q) = Len(p) + Len(q)
         /\ \A i \in 1..Len(p) : (p \o q)[i] = p[i]
         /\ \A i \in 1..Len(q) : (p \o q)[Len(p) + i] = q[i]
         /\ Range(p \o q) = Range(p) \cup Range(q)
         /\ FrameNos(p \o q) = FrameNos(p) \cup FrameNos(q)
<1>1. /\ p \o q \in Seq(T)
      /\ Len(p \o q) = Len(p) + Len(q)
      /\ \A i \in 1..Len(p) : (p \o q)[i] = p[i]
      /\ \A i \in 1..Len(q) : (p \o q)[Len(p) + i] = q[i]
  OBVIOUS
<1>2. /\ DOMAIN p = 1..Len(p) /\ DOMAIN q = 1..Len(q)
      /\ DOMAIN (p \o q) = 1..(Len(p) + Len(q))
  OBVIOUS
<1>3. \A i \in 1..(Len(p) + Len(q)) :
        i \in 1..Len(p) \/ \E j \in 1..Len(q) : i = Len(p) + j
  <2>. SUFFICES ASSUME NEW i \in 1..(Len(p) + Len(q)), i \notin 1..Len(p)
               PROVE  \E j \in 1..Len(q) : i = Len(p) + j
    OBVIOUS
  <2>1. i - Len(p) \in 1..Len(q) /\ i = Len(p) + (i - Len(p))
    OBVIOUS
  <2>. QED BY <2>1
<1>4. \A i \in 1..Len(p) : i \in 1..(Len(p) + Len(q))
  OBVIOUS
<1>5. \A i \in 1..Len(q) : Len(p) + i \in 1..(Len(p) + Len(q))
  OBVIOUS
<1>6. Range(p \o q) = Range(p) \cup Range(q)
  <2>. DEFINE w == p \o q
  <2>1. /\ Range(w) = {w[i] : i \in 1..(Len(p) + Len(q))}
        /\ Range(p) = {p[i] : i \in 1..Len(p)} /\ Range(q) = {q[i] : i \in 1..Len(q)}
    BY <1>2, Zenon DEF Range
  <2>. HIDE DEF w
  <2>2. Range(w) \subseteq Range(p) \cup Range(q)
    BY <1>1, <1>3, <2>1 DEF w
  <2>3. Range(p) \cup Range(q) \subseteq Range(w)
    BY <1>1, <1>4, <1>5, <2>1 DEF w
  <2>. QED BY <2>2, <2>3 DEF w
<1>7. FrameNos(p \o q) = FrameNos(p) \cup FrameNos(q)
  <2>1. \A s : FrameNos(s) = {x.frameNo : x \in Range(s)}
    BY DEF FrameNos, Range
  <2>. QED BY <1>6, <2>1, Zenon
<1>. QED BY <1>1, <1>6, <1>7, Zenon

\* The order of two queues joined is that of each, and of the one behind the other.
LEMMA JoinedInOrder ==
  ASSUME NEW T, NEW p \in Seq(T), NEW q \in Seq(T), NEW S
  PROVE  InOrder(p \o q, S) <=> 
           InOrder(p, S) /\ InOrder(q, S) /\ Below(FrameNos(p), FrameNos(q), S)
<1>. DEFINE n == Len(p)
            Ok(x, y) == x.frameNo \notin S /\ y.frameNo \notin S => x.frameNo < y.frameNo
<1>1. /\ n \in Nat /\ Len(q) \in Nat
      /\ DOMAIN p = 1..n /\ DOMAIN q = 1..Len(q) /\ DOMAIN (p \o q) = 1..(n + Len(q))
      /\ \A i \in 1..n : (p \o q)[i] = p[i]
      /\ \A i \in 1..Len(q) : (p \o q)[n + i] = q[i]
  OBVIOUS
<1>2. ASSUME InOrder(p \o q, S)
      PROVE  InOrder(p, S) /\ InOrder(q, S) /\ Below(FrameNos(p), FrameNos(q), S)
  <2>1. InOrder(p, S)
    BY <1>1, <1>2 DEF InOrder
  <2>2. InOrder(q, S)
    <3>. SUFFICES ASSUME NEW i \in 1..Len(q), NEW j \in 1..Len(q), i < j PROVE Ok(q[i], q[j])
      BY <1>1 DEF InOrder
    <3>1. n + i \in 1..(n + Len(q)) /\ n + j \in 1..(n + Len(q)) /\ n + i < n + j
      BY <1>1
    <3>. QED BY <1>1, <1>2, <3>1 DEF InOrder
  <2>3. Below(FrameNos(p), FrameNos(q), S)
    <3>. SUFFICES ASSUME NEW i \in 1..n, NEW j \in 1..Len(q) PROVE Ok(p[i], q[j])
      BY <1>1 DEF Below, FrameNos
    <3>1. i \in 1..(n + Len(q)) /\ n + j \in 1..(n + Len(q)) /\ i < n + j
      BY <1>1
    <3>. QED BY <1>1, <1>2, <3>1 DEF InOrder
  <2>. QED BY <2>1, <2>2, <2>3
<1>3. ASSUME InOrder(p, S), InOrder(q, S), Below(FrameNos(p), FrameNos(q), S)
      PROVE  InOrder(p \o q, S)
  <2>. SUFFICES ASSUME NEW i \in 1..(n + Len(q)), NEW j \in 1..(n + Len(q)), i < j
               PROVE  Ok((p \o q)[i], (p \o q)[j])
    BY <1>1 DEF InOrder
  <2>1. CASE j <= n
    BY <1>1, <1>3, <2>1 DEF InOrder
  <2>2. CASE i > n
    <3>1. PICK a \in 1..Len(q) : i = n + a
      <4>1. i - n \in 1..Len(q) /\ i = n + (i - n)
        BY <1>1, <2>2
      <4>. QED BY <4>1
    <3>2. PICK b \in 1..Len(q) : j = n + b
      <4>1. j - n \in 1..Len(q) /\ j = n + (j - n)
        BY <1>1, <2>2
      <4>. QED BY <4>1
    <3>. QED BY <1>1, <1>3, <3>1, <3>2 DEF InOrder
  <2>3. CASE i <= n /\ j > n
    <3>1. PICK b \in 1..Len(q) : j = n + b
      <4>1. j - n \in 1..Len(q) /\ j = n + (j - n)
        BY <1>1, <2>3
      <4>. QED BY <4>1
    <3>2. p[i].frameNo \in FrameNos(p) /\ q[b].frameNo \in FrameNos(q)
      BY <1>1, <2>3 DEF FrameNos
    <3>. QED BY <1>1, <1>3, <2>3, <3>1, <3>2 DEF Below
  <2>. QED BY <1>1, <2>1, <2>2, <2>3
<1>. QED BY <1>2, <1>3

\* Two queues of the same captures are in order together.
LEMMA SameFrameNos ==
  ASSUME NEW p, NEW q, DOMAIN p = DOMAIN q,
         \A i \in DOMAIN p : p[i].frameNo = q[i].frameNo, NEW S
  PROVE  FrameNos(p) = FrameNos(q) /\ (InOrder(p, S) <=> InOrder(q, S))
<1>1. FrameNos(p) = FrameNos(q)
  BY Zenon DEF FrameNos
<1>2. InOrder(p, S) <=> InOrder(q, S)
  BY DEF InOrder
<1>. QED BY <1>1, <1>2

\* What holds of 0, and of the successor of each number it holds of, holds of all.
LEMMA UpTo ==
  ASSUME NEW T, 0 \in T, \A n \in Nat : n \in T => n + 1 \in T
  PROVE  Nat \subseteq T
<1>. SUFFICES ASSUME Nat \ T # {} PROVE FALSE
  OBVIOUS
<1>1. PICK x \in Nat \ T : \A y \in Nat \ T : x <= y
  <2>1. Nat \ T \in SUBSET Nat
    OBVIOUS
  <2>. QED BY <2>1, LeastNumber
<1>2. x # 0
  OBVIOUS
<1>3. x - 1 \in Nat /\ x - 1 \notin Nat \ T
  BY <1>1, <1>2
<1>. QED BY <1>1, <1>3

\* Filtering keeps a queue whose entries are all of requests in S, and nothing
\* of one none of whose entries is.
LEMMA EntriesOfAll ==
  ASSUME NEW T, NEW q \in Seq(T), NEW S, FrameNos(q) \subseteq S
  PROVE  EntriesOf(q, S) = q
<1>. DEFINE F(f) == [n \in 0..Len(q) |->
                      IF n = 0 THEN <<>>
                      ELSE IF q[n].frameNo \in S THEN Append(f[n - 1], q[n]) ELSE f[n - 1]]
            g == [n \in 0..Len(q) |-> SubSeq(q, 1, n)]
            k == CHOOSE f : f = F(f)
<1>1. EntriesOf(q, S) = k[Len(q)]
  BY Zenon DEF EntriesOf
<1>2. \A n \in 1..Len(q) : q[n].frameNo \in S
  BY DEF FrameNos
<1>3. \A n \in 1..Len(q) : SubSeq(q, 1, n) = Append(SubSeq(q, 1, n - 1), q[n])
  OBVIOUS
<1>4. SubSeq(q, 1, 0) = <<>> /\ SubSeq(q, 1, Len(q)) = q
  OBVIOUS
<1>5. g = F(g)
  <2>1. ASSUME NEW n \in 0..Len(q) PROVE g[n] = F(g)[n]
    <3>1. CASE n = 0
      BY <1>4, <3>1
    <3>2. CASE n # 0
      <4>1. n \in 1..Len(q) /\ n - 1 \in 0..Len(q)
        BY <3>2
      <4>. QED BY <1>2, <1>3, <4>1, <3>2
    <3>. QED BY <3>1, <3>2
  <2>. QED BY <2>1
<1>6. k = F(k)
  <2>. HIDE DEF F, g
  <2>. QED BY <1>5, Zenon
<1>. HIDE DEF k
<1>7. k[0] = <<>> /\ \A n \in 1..Len(q) : k[n] = Append(k[n - 1], q[n])
  <2>1. k[0] = <<>>
    BY <1>6
  <2>2. ASSUME NEW n \in 1..Len(q) PROVE k[n] = Append(k[n - 1], q[n])
    <3>1. n \in 0..Len(q) /\ n # 0
      OBVIOUS
    <3>2. k[n] = IF n = 0 THEN <<>>
                 ELSE IF q[n].frameNo \in S THEN Append(k[n - 1], q[n]) ELSE k[n - 1]
      BY <1>6, <3>1
    <3>. QED BY <1>2, <3>1, <3>2, Zenon
  <2>. QED BY <2>1, <2>2
<1>. DEFINE K == {n \in Nat : n <= Len(q) => k[n] = SubSeq(q, 1, n)}
<1>8. 0 \in K
  BY <1>4, <1>7
<1>9. \A n \in Nat : n \in K => n + 1 \in K
  <2>. SUFFICES ASSUME NEW n \in Nat, n \in K, n + 1 <= Len(q)
               PROVE  k[n + 1] = SubSeq(q, 1, n + 1)
    OBVIOUS
  <2>1. n + 1 \in 1..Len(q) /\ (n + 1) - 1 = n /\ n <= Len(q)
    OBVIOUS
  <2>. QED BY <1>3, <1>7, <2>1
<1>10. Len(q) \in K
  <2>. HIDE DEF K
  <2>. QED BY <1>8, <1>9, UpTo
<1>. QED BY <1>1, <1>4, <1>10

\* The other way round: nothing of it stays.
LEMMA EntriesOfNone ==
  ASSUME NEW T, NEW q \in Seq(T), NEW S, FrameNos(q) \cap S = {}
  PROVE  EntriesOf(q, S) = <<>>
<1>. DEFINE F(f) == [n \in 0..Len(q) |->
                      IF n = 0 THEN <<>>
                      ELSE IF q[n].frameNo \in S THEN Append(f[n - 1], q[n]) ELSE f[n - 1]]
            g == [n \in 0..Len(q) |-> <<>>]
            k == CHOOSE f : f = F(f)
<1>1. EntriesOf(q, S) = k[Len(q)]
  BY Zenon DEF EntriesOf
<1>2. \A n \in 1..Len(q) : q[n].frameNo \notin S
  BY DEF FrameNos
<1>3. g = F(g)
  <2>1. ASSUME NEW n \in 0..Len(q) PROVE g[n] = F(g)[n]
    <3>1. CASE n = 0
      BY <3>1
    <3>2. CASE n # 0
      <4>1. n \in 1..Len(q) /\ n - 1 \in 0..Len(q)
        BY <3>2
      <4>. QED BY <1>2, <4>1, <3>2
    <3>. QED BY <3>1, <3>2
  <2>. QED BY <2>1
<1>4. k = F(k)
  <2>. HIDE DEF F, g
  <2>. QED BY <1>3, Zenon
<1>. HIDE DEF k
<1>5. k[0] = <<>> /\ \A n \in 1..Len(q) : k[n] = k[n - 1]
  BY <1>2, <1>4
<1>. DEFINE K == {n \in Nat : n <= Len(q) => k[n] = <<>>}
<1>6. 0 \in K
  BY <1>5
<1>7. \A n \in Nat : n \in K => n + 1 \in K
  <2>. SUFFICES ASSUME NEW n \in Nat, n \in K, n + 1 <= Len(q)
               PROVE  k[n + 1] = <<>>
    OBVIOUS
  <2>1. n + 1 \in 1..Len(q) /\ (n + 1) - 1 = n /\ n <= Len(q)
    OBVIOUS
  <2>. QED BY <1>5, <2>1
<1>8. Len(q) \in K
  <2>. HIDE DEF K
  <2>. QED BY <1>6, <1>7, UpTo
<1>. QED BY <1>1, <1>8

(***************************************************************************)
(* The queues of PreRelease: what its operators return.                    *)
(***************************************************************************)
USE NumRequestsAssumption, MaxFlushesAssumption, PipelineAssumption, TimeOutAssumption

\* The last node of a frame is one of its nodes, and the greatest.
LEMMA LastNodeIs ==
  ASSUME NEW r \in Requests
  PROVE  /\ NodesOf[r] \subseteq Nat
         /\ LastNode(r) \in NodesOf[r] /\ \A n \in NodesOf[r] : n <= LastNode(r)
<1>1. PICK n \in NodesOf[r] : \A m \in NodesOf[r] : m <= n
  BY NodesAssumption DEF Requests
<1>2. NodesOf[r] \subseteq Nat
  BY NodesAssumption DEF Requests
<1>3. n \in Nat /\ NodesOf[r] \in SUBSET (0..n) /\ NodesOf[r] # {}
  BY <1>1, <1>2
<1>4. Max(NodesOf[r]) \in NodesOf[r] /\ \A m \in NodesOf[r] : m <= Max(NodesOf[r])
  BY <1>3, MaxIs, Zenon
<1>. QED BY <1>2, <1>4 DEF LastNode

\* What a completed capture is told with: its picture's failure, if it failed.
LEMMA OwnStatusIs ==
  ASSUME NEW r
  PROVE  /\ OwnStatus(r) \in {"SUCCESS", "ERROR"}
         /\ JpegNode \in released[r] /\ <<r, JpegNode>> \in Bad => OwnStatus(r) = "ERROR"
BY DEF OwnStatus

\* DonePrefix is the longest prefix of entries that have ended.
LEMMA DonePrefixIs ==
  ASSUME NEW q \in Seq(InFlightItems)
  PROVE  /\ Len(DonePrefix(q)) \in 0..Len(q)
         /\ DonePrefix(q) = SubSeq(q, 1, Len(DonePrefix(q)))
         /\ \A i \in 1..Len(DonePrefix(q)) : q[i].bDone
         /\ Len(DonePrefix(q)) < Len(q) => ~q[Len(DonePrefix(q)) + 1].bDone
<1>. DEFINE N == {n \in 0..Len(q) : \A i \in 1..n : q[i].bDone}
<1>1. Len(q) \in Nat /\ N \in SUBSET (0..Len(q)) /\ 0 \in N
  OBVIOUS
<1>2. Max(N) \in N /\ \A y \in N : y <= Max(N)
  <2>. HIDE DEF N
  <2>1. N # {}
    BY <1>1
  <2>. QED BY <1>1, <2>1, MaxIs, Zenon
<1>3. DonePrefix(q) = SubSeq(q, 1, Max(N)) /\ Len(DonePrefix(q)) = Max(N)
  <2>1. DonePrefix(q) = SubSeq(q, 1, Max(N))
    BY Zenon DEF DonePrefix
  <2>2. Max(N) \in 0..Len(q)
    BY <1>2
  <2>. HIDE DEF N
  <2>. QED BY <2>1, <2>2
<1>4. ASSUME Max(N) < Len(q), q[Max(N) + 1].bDone PROVE FALSE
  <2>1. Max(N) + 1 \in N
    BY <1>2, <1>4
  <2>. QED BY <1>2, <2>1
<1>. QED BY <1>2, <1>3, <1>4

\* ReleasedPrefix is a prefix of released items.
LEMMA ReleasedPrefixIs ==
  ASSUME NEW q \in Seq(ReqItems)
  PROVE  /\ Len(ReleasedPrefix(q)) \in 0..Len(q)
         /\ ReleasedPrefix(q) = SubSeq(q, 1, Len(ReleasedPrefix(q)))
         /\ \A i \in 1..Len(ReleasedPrefix(q)) : q[i].status = "RELEASE"
<1>. DEFINE N == {n \in 0..Len(q) : \A i \in 1..n : q[i].status = "RELEASE"}
<1>1. Len(q) \in Nat /\ N \in SUBSET (0..Len(q)) /\ 0 \in N
  OBVIOUS
<1>2. Max(N) \in N /\ \A y \in N : y <= Max(N)
  <2>. HIDE DEF N
  <2>1. N # {}
    BY <1>1
  <2>. QED BY <1>1, <2>1, MaxIs, Zenon
<1>3. ReleasedPrefix(q) = SubSeq(q, 1, Max(N)) /\ Len(ReleasedPrefix(q)) = Max(N)
  <2>1. ReleasedPrefix(q) = SubSeq(q, 1, Max(N))
    BY Zenon DEF ReleasedPrefix
  <2>2. Max(N) \in 0..Len(q)
    BY <1>2
  <2>. HIDE DEF N
  <2>. QED BY <2>1, <2>2
<1>. QED BY <1>2, <1>3

\* The items of captures that have ended, one for each entry.
LEMMA EndedItemsAre ==
  ASSUME NEW q \in Seq(InFlightItems), NEW u \in Uids \cup {0}
  PROVE  /\ EndedItems(q, u) \in Seq(ReqItems)
         /\ DOMAIN EndedItems(q, u) = DOMAIN q
         /\ \A i \in DOMAIN q : EndedItems(q, u)[i] =
              ReqItem(q[i].frameNo, u, "RELEASE", OwnStatus(q[i].frameNo))
<1>1. \A i \in DOMAIN q : q[i] \in InFlightItems
  OBVIOUS
<1>2. \A x \in InFlightItems : ReqItem(x.frameNo, u, "RELEASE", OwnStatus(x.frameNo)) \in ReqItems
  BY OwnStatusIs DEF InFlightItems, ReqItems, ReqItem
<1>3. \A x \in InFlightItems :
        EndedItem(u)[x] = ReqItem(x.frameNo, u, "RELEASE", OwnStatus(x.frameNo))
  BY Zenon DEF EndedItem
<1>4. /\ DOMAIN EndedItems(q, u) = DOMAIN q
      /\ \A i \in DOMAIN q : EndedItems(q, u)[i] = EndedItem(u)[q[i]]
  BY Zenon DEF EndedItems
<1>5. \A i \in DOMAIN q : EndedItems(q, u)[i] =
        ReqItem(q[i].frameNo, u, "RELEASE", OwnStatus(q[i].frameNo))
  BY <1>1, <1>3, <1>4, Zenon
<1>6. EndedItems(q, u) \in Seq(ReqItems)
  <2>1. \A i \in 1..Len(q) : EndedItems(q, u)[i] \in ReqItems
    BY <1>1, <1>2, <1>5
  <2>2. EndedItems(q, u) = [i \in 1..Len(q) |-> EndedItems(q, u)[i]]
    BY DEF EndedItems
  <2>. QED BY <2>1, <2>2
<1>. QED BY <1>4, <1>5, <1>6, Zenon

\* MarkDone marks the entries of r, and nothing else.
LEMMA MarkDoneIs ==
  ASSUME NEW q \in Seq(InFlightItems), NEW r \in Requests
  PROVE  /\ MarkDone(q, r) \in Seq(InFlightItems)
         /\ DOMAIN MarkDone(q, r) = DOMAIN q /\ Len(MarkDone(q, r)) = Len(q)
         /\ \A i \in DOMAIN q : /\ MarkDone(q, r)[i].frameNo = q[i].frameNo
                                /\ MarkDone(q, r)[i].bDone <=> q[i].bDone \/ q[i].frameNo = r
<1>1. \A i \in DOMAIN q : q[i] \in InFlightItems
  OBVIOUS
<1>2. \A i \in DOMAIN q : MarkDone(q, r)[i] = [q[i] EXCEPT !.bDone = @ \/ q[i].frameNo = r]
  BY Zenon DEF MarkDone
<1>3. \A i \in DOMAIN q : /\ MarkDone(q, r)[i] \in InFlightItems
                          /\ MarkDone(q, r)[i].frameNo = q[i].frameNo
                          /\ MarkDone(q, r)[i].bDone = (q[i].bDone \/ q[i].frameNo = r)
  <2>. SUFFICES ASSUME NEW i \in DOMAIN q
               PROVE  /\ MarkDone(q, r)[i] \in InFlightItems
                      /\ MarkDone(q, r)[i].frameNo = q[i].frameNo
                      /\ MarkDone(q, r)[i].bDone = (q[i].bDone \/ q[i].frameNo = r)
    OBVIOUS
  <2>. DEFINE b == q[i].bDone \/ q[i].frameNo = r
  <2>1. b \in BOOLEAN /\ q[i] \in InFlightItems
    BY <1>1
  <2>2. MarkDone(q, r)[i] = [q[i] EXCEPT !.bDone = b]
    BY <1>2, Zenon
  <2>. HIDE DEF b
  <2>3. /\ MarkDone(q, r)[i] \in InFlightItems
        /\ MarkDone(q, r)[i].frameNo = q[i].frameNo
        /\ MarkDone(q, r)[i].bDone = b
    <3>1. /\ [q[i] EXCEPT !.bDone = b] \in InFlightItems
          /\ [q[i] EXCEPT !.bDone = b].frameNo = q[i].frameNo
          /\ [q[i] EXCEPT !.bDone = b].bDone = b
      BY <2>1 DEF InFlightItems
    <3>. QED BY <2>2, <3>1, Zenon
  <2>. QED BY <2>3, Zenon DEF b
<1>4. MarkDone(q, r) = [i \in 1..Len(q) |-> MarkDone(q, r)[i]]
  BY DEF MarkDone
<1>5. MarkDone(q, r) \in Seq(InFlightItems) /\ Len(MarkDone(q, r)) = Len(q)
  <2>1. \A i \in 1..Len(q) : MarkDone(q, r)[i] \in InFlightItems
    BY <1>3
  <2>. QED BY <1>4, <2>1
<1>6. DOMAIN MarkDone(q, r) = DOMAIN q
  BY DEF MarkDone
<1>. QED BY <1>3, <1>5, <1>6, Zenon

\* Cutting a queue in two, in terms of what is in it and of its order.
LEMMA Cut ==
  ASSUME NEW T, NEW q \in Seq(T), NEW n \in 0..Len(q), NEW S
  PROVE  /\ SubSeq(q, 1, n) \in Seq(T) /\ Rest(q, n) \in Seq(T)
         /\ Range(q) = Range(SubSeq(q, 1, n)) \cup Range(Rest(q, n))
         /\ FrameNos(q) = FrameNos(SubSeq(q, 1, n)) \cup FrameNos(Rest(q, n))
         /\ InOrder(q, S) <=>
              /\ InOrder(SubSeq(q, 1, n), S) /\ InOrder(Rest(q, n), S)
              /\ Below(FrameNos(SubSeq(q, 1, n)), FrameNos(Rest(q, n)), S)
<1>. DEFINE p == SubSeq(q, 1, n)
            t == Rest(q, n)
<1>1. p \in Seq(T) /\ t \in Seq(T) /\ q = p \o t
  BY CutAt, Zenon
<1>. HIDE DEF p, t
<1>2. /\ Range(p \o t) = Range(p) \cup Range(t)
      /\ FrameNos(p \o t) = FrameNos(p) \cup FrameNos(t)
  BY <1>1, Joined
<1>3. InOrder(p \o t, S) <=> InOrder(p, S) /\ InOrder(t, S) /\ Below(FrameNos(p), FrameNos(t), S)
  BY <1>1, JoinedInOrder, Zenon
<1>. QED BY <1>1, <1>2, <1>3, Zenon DEF p, t

\* FrameNos in terms of the entries.
LEMMA FrameNosAre ==
  ASSUME NEW q
  PROVE  FrameNos(q) = {x.frameNo : x \in Range(q)}
BY DEF FrameNos, Range

\* The entries of a queue, by their places.
LEMMA InRange ==
  ASSUME NEW T, NEW q \in Seq(T)
  PROVE  /\ Range(q) \subseteq T
         /\ \A i \in 1..Len(q) : q[i] \in Range(q)
         /\ \A x \in Range(q) : \E i \in 1..Len(q) : x = q[i]
BY DEF Range

\* Queues hold entries of captures.
LEMMA FrameNosTyped ==
  /\ \A q \in Seq(InFlightItems) : FrameNos(q) \subseteq Requests
  /\ \A q \in Seq(ReqItems) : FrameNos(q) \subseteq Requests
  /\ \A q \in Seq(Reports) : FrameNos(q) \subseteq Requests
<1>1. ASSUME NEW T, \A x \in T : x.frameNo \in Requests, NEW q \in Seq(T)
      PROVE  FrameNos(q) \subseteq Requests
  <2>1. Range(q) \subseteq T
    BY InRange
  <2>. QED BY <1>1, <2>1, FrameNosAre
<1>2. \A x \in InFlightItems : x.frameNo \in Requests
  BY DEF InFlightItems
<1>3. \A x \in ReqItems : x.frameNo \in Requests
  BY DEF ReqItems
<1>4. \A x \in Reports : x.frameNo \in Requests
  BY DEF Reports
<1>. QED BY <1>1, <1>2, <1>3, <1>4, Zenon

\* Without takes the one entry of r out of a queue in order.
LEMMA WithoutIs ==
  ASSUME NEW q \in Seq(InFlightItems), NEW S, InOrder(q, S), FrameNos(q) \cap S = {},
         NEW r \in Requests
  PROVE  /\ Without(q, r) \in Seq(InFlightItems)
         /\ InOrder(Without(q, r), S)
         /\ Range(Without(q, r)) \subseteq Range(q)
         /\ FrameNos(Without(q, r)) = FrameNos(q) \ {r}
<1>. DEFINE at == {i \in DOMAIN q : q[i].frameNo = r}
<1>0. /\ DOMAIN q = 1..Len(q) /\ Len(q) \in Nat
      /\ \A i \in 1..Len(q) : q[i].frameNo \in Nat /\ q[i].frameNo \notin S
  <2>1. DOMAIN q = 1..Len(q) /\ Len(q) \in Nat
    OBVIOUS
  <2>2. \A i \in 1..Len(q) : q[i] \in InFlightItems
    OBVIOUS
  <2>3. \A x \in InFlightItems : x.frameNo \in Nat
    BY DEF InFlightItems, Requests
  <2>4. \A i \in 1..Len(q) : q[i].frameNo \notin S
    BY <2>1 DEF FrameNos
  <2>. QED BY <2>1, <2>2, <2>3, <2>4
<1>1. CASE at = {}
  <2>1. Without(q, r) = q
    BY <1>1, Zenon DEF Without
  <2>2. r \notin FrameNos(q)
    BY <1>1 DEF FrameNos
  <2>. QED BY <2>1, <2>2
<1>2. CASE at # {}
  <2>. DEFINE n == Min(at)
              p == SubSeq(q, 1, n - 1)
              t == Rest(q, n)
  <2>1. n \in at
    <3>1. at \in SUBSET Nat
      BY <1>0
    <3>. HIDE DEF at
    <3>. QED BY <1>2, <3>1, MinIs
  <2>2. Without(q, r) = p \o t
    BY <1>2, Zenon DEF Without, RemoveAt, Rest
  <2>3. n \in 1..Len(q) /\ n - 1 \in 0..Len(q) /\ n \in 0..Len(q) /\ q[n].frameNo = r
    BY <1>0, <2>1
  <2>. HIDE DEF n, at
  <2>4. /\ p \in Seq(InFlightItems) /\ Len(p) = n - 1
        /\ \A i \in 1..(n - 1) : p[i] = q[i]
    BY <2>3, CutAt
  <2>5. /\ t \in Seq(InFlightItems) /\ Len(t) = Len(q) - n
        /\ \A i \in 1..(Len(q) - n) : t[i] = q[n + i]
    BY <2>3, CutAt
  <2>. HIDE DEF p, t
  <2>6. DOMAIN p = 1..(n - 1) /\ DOMAIN t = 1..(Len(q) - n)
    BY <2>4, <2>5
  <2>7. \A i, j \in 1..Len(q) : i < j => q[i].frameNo < q[j].frameNo
    BY <1>0 DEF InOrder
  <2>8. \A i \in 1..(Len(q) - n) : n + i \in 1..Len(q) /\ n < n + i
    BY <1>0, <2>3
  <2>9. \A i \in 1..(n - 1) : i \in 1..Len(q) /\ i < n
    BY <1>0, <2>3
  <2>10. InOrder(p, S)
    BY <2>4, <2>6, <2>7, <2>9 DEF InOrder
  <2>11. InOrder(t, S)
    <3>. SUFFICES ASSUME NEW i \in 1..(Len(q) - n), NEW j \in 1..(Len(q) - n), i < j
                 PROVE  t[i].frameNo < t[j].frameNo
      BY <2>6 DEF InOrder
    <3>1. n + i < n + j
      BY <2>3
    <3>. QED BY <2>5, <2>7, <2>8, <3>1
  <2>12. \A a \in FrameNos(p) : a \in FrameNos(q) /\ a < r /\ a \in Nat
    BY <1>0, <2>3, <2>4, <2>6, <2>7, <2>9 DEF FrameNos
  <2>13. \A b \in FrameNos(t) : b \in FrameNos(q) /\ r < b /\ b \in Nat
    <3>. SUFFICES ASSUME NEW i \in 1..(Len(q) - n)
                 PROVE  t[i].frameNo \in FrameNos(q) /\ r < t[i].frameNo /\ t[i].frameNo \in Nat
      BY <2>6 DEF FrameNos
    <3>1. t[i] = q[n + i] /\ n + i \in 1..Len(q) /\ n < n + i
      BY <2>5, <2>8
    <3>2. q[n + i].frameNo \in FrameNos(q)
      BY <1>0, <3>1 DEF FrameNos
    <3>. QED BY <1>0, <2>3, <2>7, <3>1, <3>2
  <2>14. Below(FrameNos(p), FrameNos(t), S)
    BY <2>12, <2>13 DEF Below, Requests
  <2>15. InOrder(p \o t, S)
    BY <2>4, <2>5, <2>10, <2>11, <2>14, JoinedInOrder, Zenon
  <2>16. /\ p \o t \in Seq(InFlightItems)
         /\ Range(p \o t) = Range(p) \cup Range(t)
         /\ FrameNos(p \o t) = FrameNos(p) \cup FrameNos(t)
    BY <2>4, <2>5, Joined
  <2>17. Range(p) \cup Range(t) \subseteq Range(q)
    BY <1>0, <2>4, <2>5, <2>6, <2>8, <2>9 DEF Range
  <2>18. ASSUME NEW i \in 1..Len(q), i # n PROVE q[i].frameNo \in FrameNos(p) \cup FrameNos(t)
    <3>1. CASE i < n
      <4>1. i \in 1..(n - 1)
        BY <2>3, <3>1
      <4>. QED BY <2>4, <2>6, <4>1 DEF FrameNos
    <3>2. CASE i > n
      <4>1. i - n \in 1..(Len(q) - n) /\ n + (i - n) = i
        BY <1>0, <2>3, <3>2
      <4>. QED BY <2>5, <2>6, <4>1 DEF FrameNos
    <3>. QED BY <2>3, <2>18, <3>1, <3>2
  <2>19. FrameNos(q) \ {r} \subseteq FrameNos(p) \cup FrameNos(t)
    BY <1>0, <2>3, <2>18 DEF FrameNos
  <2>20. FrameNos(p) \cup FrameNos(t) \subseteq FrameNos(q) \ {r}
    BY <2>12, <2>13 DEF Requests
  <2>. QED BY <2>2, <2>15, <2>16, <2>17, <2>19, <2>20, Zenon
<1>. QED BY <1>1, <1>2

\* setRequestFinished() changes one item: that of the request drained last.
LEMMA FinishedIs ==
  ASSUME TypeOK, NEW u \in Uids
  PROVE  /\ Finished(u) \in Seq(ReqItems)
         /\ DOMAIN Finished(u) = DOMAIN mReqItems
         /\ \A i \in DOMAIN mReqItems : Finished(u)[i].frameNo = mReqItems[i].frameNo
         /\ \A x \in Range(Finished(u)) :
              \/ x \in Range(mReqItems)
              \/ /\ finishing[u] # 0
                 /\ x = ReqItem(finishing[u], u, "RELEASE", requestStatus[u])
<1>. DEFINE mine == {i \in DOMAIN mReqItems : mReqItems[i].frameNo = finishing[u]
                                              /\ mReqItems[i].uid = u}
            y == ReqItem(finishing[u], u, "RELEASE", requestStatus[u])
<1>1. mReqItems \in Seq(ReqItems) /\ DOMAIN mReqItems = 1..Len(mReqItems)
  BY DEF TypeOK
<1>2. CASE mine = {}
  <2>1. Finished(u) = mReqItems
    BY <1>2, Zenon DEF Finished
  <2>. QED BY <1>1, <2>1
<1>3. CASE mine # {}
  <2>. DEFINE n == Min(mine)
  <2>1. n \in mine
    <3>1. mine \in SUBSET Nat
      BY <1>1
    <3>. HIDE DEF mine
    <3>. QED BY <1>3, <3>1, MinIs
  <2>2. Finished(u) = [mReqItems EXCEPT ![n] = y]
    BY <1>3, Zenon DEF Finished
  <2>3. n \in 1..Len(mReqItems) /\ mReqItems[n].frameNo = finishing[u]
    BY <1>1, <2>1
  <2>4. finishing[u] \in Requests /\ finishing[u] # 0
    <3>1. mReqItems[n] \in ReqItems
      BY <1>1, <2>3
    <3>2. mReqItems[n].frameNo \in Requests
      BY <3>1 DEF ReqItems
    <3>. QED BY <2>3, <3>2 DEF Requests
  <2>5. y \in ReqItems /\ y.frameNo = finishing[u]
    BY <2>4 DEF TypeOK, ReqItems, ReqItem
  <2>. HIDE DEF y, n, mine
  <2>6. /\ Finished(u) \in Seq(ReqItems)
        /\ DOMAIN Finished(u) = DOMAIN mReqItems
        /\ \A i \in DOMAIN mReqItems : i # n => Finished(u)[i] = mReqItems[i]
        /\ Finished(u)[n] = y
    BY <1>1, <2>2, <2>3, <2>5
  <2>7. \A i \in DOMAIN mReqItems : Finished(u)[i].frameNo = mReqItems[i].frameNo
    BY <2>3, <2>5, <2>6
  <2>8. \A x \in Range(Finished(u)) : x \in Range(mReqItems) \/ x = y
    BY <2>6 DEF Range
  <2>. QED BY <2>4, <2>6, <2>7, <2>8, Zenon DEF y
<1>. QED BY <1>2, <1>3

\* What is handed out is reported at once or queued behind the items, all of it.
LEMMA HandOutIs ==
  ASSUME TypeOK, NEW q \in Seq(InFlightItems), FrameNos(q) \cap FrameNos(mReqItems) = {},
         HandOut(q)
  PROVE  /\ mPreReleaseCnt' = mPreReleaseCnt
         /\ \/ /\ mReqItems = <<>> /\ mReqItems' = mReqItems
               /\ \E R \in Seq(Reports) :
                    /\ reports' = reports \o R
                    /\ DOMAIN R = DOMAIN q
                    /\ \A i \in DOMAIN q : R[i] = [frameNo |-> q[i].frameNo,
                                                  status |-> OwnStatus(q[i].frameNo)]
            \/ mReqItems' = mReqItems \o EndedItems(q, 0) /\ reports' = reports
<1>1. mPreReleaseCnt' = mPreReleaseCnt
  BY DEF HandOut
<1>2. CASE mReqItems = <<>>
  <2>. DEFINE R == [i \in DOMAIN q |-> Report(EndedItems(q, 0)[i])]
  <2>1. reports' = reports \o R /\ mReqItems' = mReqItems
    BY <1>2, Zenon DEF HandOut
  <2>2. \A i \in DOMAIN q : EndedItems(q, 0)[i] =
          ReqItem(q[i].frameNo, 0, "RELEASE", OwnStatus(q[i].frameNo))
    BY EndedItemsAre
  <2>3. \A i \in DOMAIN q : R[i] = [frameNo |-> q[i].frameNo, status |-> OwnStatus(q[i].frameNo)]
    <3>. SUFFICES ASSUME NEW i \in DOMAIN q
                 PROVE  R[i] = [frameNo |-> q[i].frameNo, status |-> OwnStatus(q[i].frameNo)]
      OBVIOUS
    <3>1. R[i] = Report(ReqItem(q[i].frameNo, 0, "RELEASE", OwnStatus(q[i].frameNo)))
      BY <2>2, Zenon
    <3>. QED BY <3>1 DEF Report, ReqItem
  <2>4. \A i \in 1..Len(q) : R[i] \in Reports
    <3>1. \A i \in 1..Len(q) : q[i] \in InFlightItems
      OBVIOUS
    <3>2. \A x \in InFlightItems : x.frameNo \in Requests
      BY DEF InFlightItems
    <3>3. \A r \in Requests : [frameNo |-> r, status |-> OwnStatus(r)] \in Reports
      BY OwnStatusIs DEF Reports
    <3>4. \A i \in 1..Len(q) : R[i] = [frameNo |-> q[i].frameNo, status |-> OwnStatus(q[i].frameNo)]
      BY <2>3
    <3>. HIDE DEF R
    <3>. QED BY <3>1, <3>2, <3>3, <3>4, Zenon
  <2>5. R \in Seq(Reports)
    <3>1. R = [i \in 1..Len(q) |-> R[i]]
      OBVIOUS
    <3>. HIDE DEF R
    <3>. QED BY <2>4, <3>1
  <2>. QED BY <1>1, <1>2, <2>1, <2>3, <2>5
<1>3. CASE mReqItems # <<>>
  <2>1. FrameNos(q) \subseteq Requests \ InItems
    <3>1. FrameNos(q) \subseteq Requests
      BY FrameNosTyped
    <3>2. InItems \subseteq FrameNos(mReqItems)
      BY DEF InItems, FrameNos
    <3>. QED BY <3>1, <3>2
  <2>2. EntriesOf(q, Requests \ InItems) = q
    BY <2>1, EntriesOfAll
  <2>3. /\ mReqItems' = mReqItems \o EndedItems(EntriesOf(q, Requests \ InItems), 0)
        /\ reports' = reports
    BY <1>3, Zenon DEF HandOut
  <2>. QED BY <1>1, <2>2, <2>3, Zenon
<1>. QED BY <1>2, <1>3

\* The empty queue.
LEMMA InOrderOfEmpty ==
  ASSUME NEW S PROVE InOrder(<<>>, S) /\ FrameNos(<<>>) = {} /\ Range(<<>>) = {}
BY DEF InOrder, FrameNos, Range

\* FailureTold in terms of the reports.
LEMMA FailureToldIn ==
  FailureTold <=> \A x \in Range(reports) : Failed(x.frameNo) => x.status = "ERROR"
BY DEF FailureTold, Range

\* Handing out the queue q: where its captures go, and that the order stays.
LEMMA HandOutKeeps ==
  ASSUME TypeOK, NEW q \in Seq(InFlightItems), FrameNos(q) \cap FrameNos(mReqItems) = {},
         HandOut(q), NEW S,
         InOrder(reports, S), InOrder(mReqItems, S), InOrder(q, S),
         Below(FrameNos(reports), FrameNos(mReqItems), S),
         Below(FrameNos(reports), FrameNos(q), S), Below(FrameNos(mReqItems), FrameNos(q), S)
  PROVE  /\ mPreReleaseCnt' = mPreReleaseCnt
         /\ reports' \in Seq(Reports) /\ mReqItems' \in Seq(ReqItems)
         /\ InOrder(reports', S) /\ InOrder(mReqItems', S)
         /\ Below(FrameNos(reports'), FrameNos(mReqItems'), S)
         /\ FrameNos(reports') \cup FrameNos(mReqItems')
              = FrameNos(reports) \cup FrameNos(mReqItems) \cup FrameNos(q)
         /\ FrameNos(reports) \subseteq FrameNos(reports')
         /\ FrameNos(mReqItems) \subseteq FrameNos(mReqItems')
         /\ FrameNos(reports') \subseteq FrameNos(reports) \cup FrameNos(q)
         /\ \A x \in Range(mReqItems') :
              \/ x \in Range(mReqItems)
              \/ /\ x.frameNo \in FrameNos(q) /\ x.status = "RELEASE"
                 /\ x.requestStatus = OwnStatus(x.frameNo)
         /\ \A x \in Range(reports') :
              \/ x \in Range(reports)
              \/ x.frameNo \in FrameNos(q) /\ x.status = OwnStatus(x.frameNo)
<1>. DEFINE E == EndedItems(q, 0)
<1>1. reports \in Seq(Reports) /\ mReqItems \in Seq(ReqItems)
  BY DEF TypeOK
<1>2. CASE mReqItems = <<>> /\ mReqItems' = mReqItems
  <2>1. PICK R \in Seq(Reports) :
          /\ reports' = reports \o R
          /\ DOMAIN R = DOMAIN q
          /\ \A i \in DOMAIN q : R[i] = [frameNo |-> q[i].frameNo,
                                        status |-> OwnStatus(q[i].frameNo)]
    <3>1. CASE mReqItems' = mReqItems \o E /\ reports' = reports
      <4>1. Len(E) = Len(q) /\ E \in Seq(ReqItems)
        BY EndedItemsAre
      <4>2. Len(E) = 0
        BY <1>2, <3>1, <4>1
      <4>3. q = <<>>
        BY <4>1, <4>2
      <4>. WITNESS <<>> \in Seq(Reports)
      <4>. QED BY <1>1, <3>1, <4>3
    <3>. QED BY <3>1, HandOutIs
  <2>2. \A i \in DOMAIN q : R[i].frameNo = q[i].frameNo
    BY <2>1
  <2>3. FrameNos(R) = FrameNos(q) /\ InOrder(R, S)
    BY <2>1, <2>2, SameFrameNos
  <2>4. /\ reports' \in Seq(Reports)
        /\ Range(reports') = Range(reports) \cup Range(R)
        /\ FrameNos(reports') = FrameNos(reports) \cup FrameNos(q)
    BY <1>1, <2>1, <2>3, Joined
  <2>5. InOrder(reports', S)
    BY <1>1, <2>1, <2>3, JoinedInOrder, Zenon
  <2>6. FrameNos(mReqItems) = {} /\ FrameNos(mReqItems') = {}
    BY <1>2, InOrderOfEmpty, Zenon
  <2>7. Below(FrameNos(reports'), FrameNos(mReqItems'), S)
    BY <2>6 DEF Below
  <2>8. \A x \in Range(R) : x.frameNo \in FrameNos(q) /\ x.status = OwnStatus(x.frameNo)
    <3>1. \A i \in DOMAIN q : /\ R[i].frameNo \in FrameNos(q)
                              /\ R[i].status = OwnStatus(R[i].frameNo)
      BY <2>1 DEF FrameNos
    <3>. QED BY <2>1, <3>1 DEF Range
  <2>. QED BY <1>1, <1>2, <2>4, <2>5, <2>6, <2>7, <2>8, HandOutIs
<1>3. CASE mReqItems' = mReqItems \o E /\ reports' = reports
  <2>1. /\ E \in Seq(ReqItems) /\ DOMAIN E = DOMAIN q
        /\ \A i \in DOMAIN q : E[i] =
             ReqItem(q[i].frameNo, 0, "RELEASE", OwnStatus(q[i].frameNo))
    BY EndedItemsAre
  <2>. HIDE DEF E
  <2>2. \A i \in DOMAIN q : E[i].frameNo = q[i].frameNo
    BY <2>1 DEF ReqItem
  <2>3. FrameNos(E) = FrameNos(q) /\ InOrder(E, S)
    BY <2>1, <2>2, SameFrameNos
  <2>4. /\ mReqItems' \in Seq(ReqItems)
        /\ Range(mReqItems') = Range(mReqItems) \cup Range(E)
        /\ FrameNos(mReqItems') = FrameNos(mReqItems) \cup FrameNos(q)
    BY <1>1, <1>3, <2>1, <2>3, Joined
  <2>5. InOrder(mReqItems', S)
    BY <1>1, <1>3, <2>1, <2>3, JoinedInOrder, Zenon
  <2>6. Below(FrameNos(reports'), FrameNos(mReqItems'), S)
    BY <1>3, <2>4 DEF Below
  <2>7. \A x \in Range(E) : /\ x.frameNo \in FrameNos(q) /\ x.status = "RELEASE"
                            /\ x.requestStatus = OwnStatus(x.frameNo)
    <3>1. \A i \in DOMAIN q : /\ E[i].frameNo \in FrameNos(q) /\ E[i].status = "RELEASE"
                              /\ E[i].requestStatus = OwnStatus(E[i].frameNo)
      BY <2>1 DEF ReqItem, FrameNos
    <3>. QED BY <2>1, <3>1 DEF Range
  <2>. QED BY <1>1, <1>3, <2>4, <2>5, <2>6, <2>7, HandOutIs
<1>. QED BY <1>2, <1>3, HandOutIs

\* Setting more captures aside leaves the others in order.
LEMMA OrderOfMore ==
  ASSUME NEW S, NEW S2, S \subseteq S2
  PROVE  /\ \A q : InOrder(q, S) => InOrder(q, S2)
         /\ \A A, B : Below(A, B, S) => Below(A, B, S2)
BY DEF InOrder, Below

\* addPreReleaseRequest(): r and the captures that have ended behind it are
\* queued as items, in order, and the head of what stays has not ended.
LEMMA AddPreReleaseKeeps ==
  ASSUME IInv, NEW r \in Requests, NEW u \in Uids, notifying = -1,
         AddPreReleaseRequest(r, u), NEW S2, S2 = registered \cup {r}
  PROVE  /\ mReqItems' \in Seq(ReqItems) /\ mvInFlightRequests' \in Seq(InFlightItems)
         /\ Range(mvInFlightRequests') \subseteq Range(mvInFlightRequests)
         /\ r \notin FrameNos(mvInFlightRequests')
         /\ FrameNos(mvInFlightRequests') \cap FrameNos(mReqItems') = {}
         /\ FrameNos(mvInFlightRequests) \cup FrameNos(mReqItems)
              \subseteq FrameNos(mvInFlightRequests') \cup FrameNos(mReqItems')
         /\ \A x \in Range(mReqItems') :
              \/ x \in Range(mReqItems)
              \/ x.frameNo = r /\ x.status = "PRERELEASE"
              \/ /\ x.frameNo # r /\ frame[x.frameNo] = "left" /\ x.frameNo \notin registered
                 /\ x.status = "RELEASE" /\ x.requestStatus = OwnStatus(x.frameNo)
         /\ mvInFlightRequests' # <<>> => ~mvInFlightRequests'[1].bDone
         /\ InOrder(mReqItems', S2) /\ InOrder(mvInFlightRequests', S2)
         /\ Below(FrameNos(reports), FrameNos(mReqItems'), S2)
         /\ Below(FrameNos(reports), FrameNos(mvInFlightRequests'), S2)
         /\ Below(FrameNos(mReqItems'), FrameNos(mvInFlightRequests'), S2)
<1>. DEFINE q == Without(mvInFlightRequests, r)
            n == Len(DonePrefix(q))
            p == SubSeq(q, 1, n)
            t == Rest(q, n)
            I == ReqItem(r, u, "PRERELEASE", "UNKNOWN")
            E == EndedItems(p, u)
            S == registered
<1>1. /\ mvInFlightRequests \in Seq(InFlightItems) /\ mReqItems \in Seq(ReqItems)
      /\ InOrder(mvInFlightRequests, S) /\ FrameNos(mvInFlightRequests) \cap S = {}
  <2>1. mvInFlightRequests \in Seq(InFlightItems) /\ mReqItems \in Seq(ReqItems)
    BY DEF IInv, TypeOK
  <2>2. FrameNos(mvInFlightRequests) \cap S = {}
    BY FrameNosAre DEF IInv, InFlightSound
  <2>. QED BY <2>1, <2>2 DEF IInv, QueuesInOrder
<1>2. /\ q \in Seq(InFlightItems) /\ InOrder(q, S)
      /\ Range(q) \subseteq Range(mvInFlightRequests)
      /\ FrameNos(q) = FrameNos(mvInFlightRequests) \ {r}
  BY <1>1, WithoutIs
<1>3. /\ n \in 0..Len(q) /\ DonePrefix(q) = p
      /\ \A i \in 1..n : q[i].bDone
      /\ n < Len(q) => ~q[n + 1].bDone
  BY <1>2, DonePrefixIs
<1>4. /\ mReqItems' = Append(mReqItems, I) \o E
      /\ mvInFlightRequests' = t
  BY <1>3, Zenon DEF AddPreReleaseRequest
<1>. HIDE DEF q, n
<1>5. /\ p \in Seq(InFlightItems) /\ t \in Seq(InFlightItems)
      /\ Range(q) = Range(p) \cup Range(t)
      /\ FrameNos(q) = FrameNos(p) \cup FrameNos(t)
      /\ InOrder(p, S) /\ InOrder(t, S) /\ Below(FrameNos(p), FrameNos(t), S)
  BY <1>2, <1>3, Cut
<1>6. /\ Len(p) = n /\ Len(t) = Len(q) - n
      /\ \A i \in 1..n : p[i] = q[i]
      /\ \A i \in 1..(Len(q) - n) : t[i] = q[n + i]
  BY <1>2, <1>3, CutAt
<1>7. t # <<>> => ~t[1].bDone
  <2>. SUFFICES ASSUME t # <<>> PROVE ~t[1].bDone
    OBVIOUS
  <2>1. 1 \in 1..(Len(q) - n) /\ n < Len(q)
    BY <1>2, <1>3, <1>5, <1>6
  <2>. QED BY <1>3, <1>6, <2>1
<1>. HIDE DEF p, t
<1>8. \A x \in Range(p) : /\ x.frameNo # r /\ x.frameNo \notin registered
                          /\ frame[x.frameNo] = "left"
  <2>. SUFFICES ASSUME NEW x \in Range(p)
               PROVE  x.frameNo # r /\ x.frameNo \notin registered /\ frame[x.frameNo] = "left"
    OBVIOUS
  <2>1. x.bDone
    BY <1>3, <1>5, <1>6, InRange
  <2>2. x \in Range(mvInFlightRequests) /\ x.frameNo \in FrameNos(q)
    BY <1>2, <1>5, FrameNosAre
  <2>. QED BY <1>2, <2>1, <2>2 DEF IInv, InFlightSound, Completing
<1>9. /\ E \in Seq(ReqItems) /\ DOMAIN E = DOMAIN p
      /\ \A i \in DOMAIN p : E[i] =
           ReqItem(p[i].frameNo, u, "RELEASE", OwnStatus(p[i].frameNo))
  BY <1>5, EndedItemsAre
<1>. HIDE DEF E
<1>10. FrameNos(E) = FrameNos(p) /\ InOrder(E, S)
  <2>1. \A i \in DOMAIN p : E[i].frameNo = p[i].frameNo
    BY <1>9 DEF ReqItem
  <2>. QED BY <1>5, <1>9, <2>1, SameFrameNos
<1>11. \A x \in Range(E) : /\ x.frameNo # r /\ frame[x.frameNo] = "left" /\ x.frameNo \notin registered
                           /\ x.status = "RELEASE" /\ x.requestStatus = OwnStatus(x.frameNo)
  <2>1. \A i \in DOMAIN p : p[i] \in Range(p)
    BY DEF Range
  <2>2. \A i \in DOMAIN p : /\ E[i].frameNo = p[i].frameNo
                            /\ E[i].status = "RELEASE" /\ E[i].requestStatus = OwnStatus(E[i].frameNo)
    BY <1>9 DEF ReqItem
  <2>. QED BY <1>8, <1>9, <2>1, <2>2 DEF Range
<1>12. /\ I \in ReqItems /\ I.frameNo = r /\ I.status = "PRERELEASE"
  BY DEF ReqItem, ReqItems
<1>. DEFINE J == Append(mReqItems, I)
<1>13. /\ J = mReqItems \o <<I>> /\ <<I>> \in Seq(ReqItems)
       /\ Range(<<I>>) = {I} /\ FrameNos(<<I>>) = {r}
  BY <1>1, <1>12 DEF Range, FrameNos
<1>. HIDE DEF I, J
<1>14. /\ J \in Seq(ReqItems) /\ Range(J) = Range(mReqItems) \cup {I}
       /\ FrameNos(J) = FrameNos(mReqItems) \cup {r}
  <2>. DEFINE one == <<I>>
  <2>1. J = mReqItems \o one /\ one \in Seq(ReqItems) /\ Range(one) = {I} /\ FrameNos(one) = {r}
    BY <1>13
  <2>. HIDE DEF one
  <2>. QED BY <1>1, <2>1, Joined
<1>15. InOrder(J, S2)
  <2>1. InOrder(mReqItems, S2)
    BY OrderOfMore DEF IInv, QueuesInOrder
  <2>2. InOrder(<<I>>, S2)
    BY <1>12 DEF InOrder
  <2>3. Below(FrameNos(mReqItems), FrameNos(<<I>>), S2)
    BY <1>13 DEF Below
  <2>. QED BY <1>1, <1>13, <2>1, <2>2, <2>3, JoinedInOrder, Zenon
<1>16. /\ mReqItems' = J \o E
       /\ mReqItems' \in Seq(ReqItems) /\ Range(mReqItems') = Range(mReqItems) \cup {I} \cup Range(E)
       /\ FrameNos(mReqItems') = FrameNos(mReqItems) \cup {r} \cup FrameNos(p)
  <2>1. mReqItems' = J \o E
    BY <1>4, Zenon DEF J
  <2>. QED BY <1>9, <1>10, <1>14, <2>1, Joined
<1>17. InOrder(mReqItems', S2)
  <2>1. InOrder(E, S2) /\ Below(FrameNos(mReqItems), FrameNos(mvInFlightRequests), S2)
    BY <1>10, OrderOfMore DEF IInv, QueuesInOrder
  <2>2. Below(FrameNos(J), FrameNos(E), S2)
    BY <1>2, <1>5, <1>10, <1>14, <2>1 DEF Below
  <2>. QED BY <1>9, <1>14, <1>15, <1>16, <2>1, <2>2, JoinedInOrder, Zenon
<1>18. /\ Below(FrameNos(reports), FrameNos(mReqItems'), S2)
       /\ Below(FrameNos(reports), FrameNos(t), S2)
       /\ Below(FrameNos(mReqItems'), FrameNos(t), S2)
  BY <1>2, <1>5, <1>16 DEF Below, IInv, QueuesInOrder
<1>19. FrameNos(t) \cap FrameNos(mReqItems') = {}
  <2>1. FrameNos(p) \cap FrameNos(t) = {}
    <3>1. FrameNos(t) \cap S = {} /\ FrameNos(t) \subseteq Nat
      BY <1>1, <1>2, <1>5, FrameNosTyped DEF Requests
    <3>. QED BY <1>5, <3>1 DEF Below
  <2>. QED BY <1>2, <1>5, <1>16, <2>1 DEF IInv, InFlightSound
<1>20. InOrder(t, S2)
  BY <1>5, OrderOfMore
<1>21. FrameNos(mvInFlightRequests) \cup FrameNos(mReqItems) \subseteq FrameNos(t) \cup FrameNos(mReqItems')
  BY <1>2, <1>5, <1>16
<1>22. Range(t) \subseteq Range(mvInFlightRequests) /\ r \notin FrameNos(t)
  BY <1>2, <1>5
<1>23. \A x \in Range(mReqItems') :
         \/ x \in Range(mReqItems)
         \/ x.frameNo = r /\ x.status = "PRERELEASE"
         \/ /\ x.frameNo # r /\ frame[x.frameNo] = "left" /\ x.frameNo \notin registered
            /\ x.status = "RELEASE" /\ x.requestStatus = OwnStatus(x.frameNo)
  BY <1>11, <1>12, <1>16
<1>24. mvInFlightRequests' = t
  BY <1>4 DEF t
<1>. QED BY <1>5, <1>7, <1>16, <1>17, <1>18, <1>19, <1>20, <1>21, <1>22, <1>23, <1>24, Zenon

\* setRequestFinished(): the items before the first that is not released are
\* reported in their order; every other item stays.
LEMMA FinishKeeps ==
  ASSUME IInv, NEW u \in Uids, SetRequestFinished(u)
  PROVE  /\ mPreReleaseCnt' \in Int
         /\ reports' \in Seq(Reports) /\ mReqItems' \in Seq(ReqItems)
         /\ FrameNos(reports') \cup FrameNos(mReqItems') = FrameNos(reports) \cup FrameNos(mReqItems)
         /\ FrameNos(reports) \subseteq FrameNos(reports')
         /\ FrameNos(mReqItems') \subseteq FrameNos(mReqItems)
         /\ \A x \in Range(mReqItems') :
              /\ x.status = "PRERELEASE" => x.frameNo \in registered
              /\ x.status = "RELEASE" =>
                   Finishable(x.frameNo) /\ (Failed(x.frameNo) => x.requestStatus = "ERROR")
         /\ \A x \in Range(reports') :
              x \in Range(reports) \/
                (Finishable(x.frameNo) /\ (Failed(x.frameNo) => x.status = "ERROR"))
         /\ InOrder(reports', registered) /\ InOrder(mReqItems', registered)
         /\ Below(FrameNos(reports'), FrameNos(mReqItems'), registered)
<1>. DEFINE q == Finished(u)
            n == Len(ReleasedPrefix(q))
            p == SubSeq(q, 1, n)
            t == Rest(q, n)
            R == [i \in DOMAIN p |-> Report(p[i])]
            S == registered
<1>1. /\ reports \in Seq(Reports) /\ mReqItems \in Seq(ReqItems) /\ TypeOK
  BY DEF IInv, TypeOK
<1>2. /\ q \in Seq(ReqItems) /\ DOMAIN q = DOMAIN mReqItems
      /\ \A i \in DOMAIN mReqItems : q[i].frameNo = mReqItems[i].frameNo
      /\ \A x \in Range(q) :
           \/ x \in Range(mReqItems)
           \/ finishing[u] # 0 /\ x = ReqItem(finishing[u], u, "RELEASE", requestStatus[u])
  BY <1>1, FinishedIs
<1>3. /\ n \in 0..Len(q) /\ ReleasedPrefix(q) = p
      /\ \A i \in 1..n : q[i].status = "RELEASE"
  BY <1>2, ReleasedPrefixIs
<1>4. /\ mReqItems' = t /\ reports' = reports \o R
      /\ mPreReleaseCnt' = mPreReleaseCnt - (IF q = mReqItems THEN 0 ELSE 1)
  BY <1>3, Zenon DEF SetRequestFinished
<1>5. mPreReleaseCnt' \in Int
  BY <1>1, <1>4 DEF TypeOK
<1>. HIDE DEF q, n
<1>6. FrameNos(q) = FrameNos(mReqItems) /\ (InOrder(q, S) <=> InOrder(mReqItems, S))
  BY <1>2, SameFrameNos
<1>7. /\ p \in Seq(ReqItems) /\ t \in Seq(ReqItems)
      /\ Range(q) = Range(p) \cup Range(t)
      /\ FrameNos(q) = FrameNos(p) \cup FrameNos(t)
      /\ InOrder(p, S) /\ InOrder(t, S) /\ Below(FrameNos(p), FrameNos(t), S)
  <2>1. InOrder(q, S)
    BY <1>6 DEF IInv, QueuesInOrder
  <2>. QED BY <1>2, <1>3, <2>1, Cut
<1>8. Len(p) = n /\ \A i \in 1..n : p[i] = q[i]
  BY <1>2, <1>3, CutAt
<1>9. \A x \in Range(q) :
        /\ x.status = "PRERELEASE" => x.frameNo \in registered
        /\ x.status = "RELEASE" =>
             Finishable(x.frameNo) /\ (Failed(x.frameNo) => x.requestStatus = "ERROR")
  <2>1. CASE finishing[u] # 0
    <3>. DEFINE y == ReqItem(finishing[u], u, "RELEASE", requestStatus[u])
    <3>1. /\ y.status = "RELEASE" /\ y.frameNo = finishing[u] /\ y.requestStatus = requestStatus[u]
      BY DEF ReqItem
    <3>2. finishing[u] \in Requests
      BY <1>1, <2>1 DEF TypeOK
    <3>3. /\ Finishable(finishing[u])
          /\ Failed(finishing[u]) => requestStatus[u] = "ERROR"
      BY <3>2, Zenon DEF IInv, DrainSound
    <3>. QED BY <1>2, <3>1, <3>3 DEF IInv, ItemsSound
  <2>2. CASE finishing[u] = 0
    BY <1>2, <2>2, Zenon DEF IInv, ItemsSound
  <2>. QED BY <2>1, <2>2
<1>. HIDE DEF p, t
<1>10. /\ DOMAIN R = DOMAIN p /\ \A i \in DOMAIN p : R[i] = Report(p[i])
  OBVIOUS
<1>11. \A x \in ReqItems : Report(x) \in Reports /\ Report(x).frameNo = x.frameNo
                          /\ Report(x).status = x.requestStatus
  BY DEF Report, Reports, ReqItems
<1>12. R \in Seq(Reports)
  <2>1. \A i \in 1..Len(p) : Report(p[i]) \in Reports
    BY <1>7, <1>11
  <2>2. R = [i \in 1..Len(p) |-> Report(p[i])]
    BY <1>7
  <2>. QED BY <1>7, <2>1, <2>2
<1>. HIDE DEF R
<1>13. FrameNos(R) = FrameNos(p) /\ InOrder(R, S)
  <2>1. \A i \in DOMAIN p : R[i].frameNo = p[i].frameNo
    BY <1>7, <1>10, <1>11
  <2>. QED BY <1>7, <1>10, <2>1, SameFrameNos
<1>14. /\ reports' \in Seq(Reports) /\ Range(reports') = Range(reports) \cup Range(R)
       /\ FrameNos(reports') = FrameNos(reports) \cup FrameNos(p)
  BY <1>1, <1>4, <1>12, <1>13, Joined
<1>15. InOrder(reports', S)
  <2>1. InOrder(reports, S) /\ Below(FrameNos(reports), FrameNos(R), S)
    BY <1>6, <1>7, <1>13 DEF IInv, QueuesInOrder, Below
  <2>. QED BY <1>1, <1>4, <1>12, <1>13, <2>1, JoinedInOrder, Zenon
<1>16. Below(FrameNos(reports'), FrameNos(t), S)
  BY <1>6, <1>7, <1>14 DEF IInv, QueuesInOrder, Below
<1>17. \A x \in Range(R) : Finishable(x.frameNo) /\ (Failed(x.frameNo) => x.status = "ERROR")
  <2>1. \A i \in DOMAIN p : /\ p[i] \in ReqItems /\ p[i] \in Range(q)
                            /\ p[i].status = "RELEASE"
    <3>1. DOMAIN p = 1..n
      BY <1>7, <1>8
    <3>. QED BY <1>3, <1>7, <1>8, <3>1, InRange
  <2>2. \A i \in DOMAIN p : /\ Finishable(R[i].frameNo)
                            /\ Failed(R[i].frameNo) => R[i].status = "ERROR"
    BY <1>9, <1>10, <1>11, <2>1
  <2>3. \A x \in Range(R) : \E i \in DOMAIN p : x = R[i]
    BY <1>10, Zenon DEF Range
  <2>. QED BY <2>2, <2>3, Zenon
<1>. QED BY <1>4, <1>5, <1>6, <1>7, <1>9, <1>14, <1>15, <1>16, <1>17

\* Initially nothing is taken.
LEMMA InitIInv == Init => IInv
<1>. SUFFICES ASSUME Init PROVE IInv
  OBVIOUS
<1>1. TypeOK
  <2>1. /\ frame \in [Requests -> {"none", "running", "preReleased", "left", "released"}]
        /\ thread \in [Uids -> {"none", "waiting", "woken", "draining", "finishing",
                                "drained", "ended", "gone"}]
        /\ mbPreRelease \in [Uids -> BOOLEAN]
        /\ mPreReleaseRequests \in [Uids -> SUBSET Requests]
        /\ finishing \in [Uids -> Requests \cup {0}]
        /\ requestStatus \in [Uids -> {"SUCCESS", "ERROR"}]
        /\ released \in [Requests -> SUBSET Nat] /\ preReleaseBuffers \in [Requests -> SUBSET Nat]
    BY DEF Init
  <2>2. /\ mvInFlightRequests \in Seq(InFlightItems)
        /\ mReqItems \in Seq(ReqItems) /\ reports \in Seq(Reports)
    BY DEF Init
  <2>3. /\ registered \in SUBSET Requests
        /\ session \in {"open", "flushing", "starting", "closed", "waiting"}
        /\ mPreReleaseUid \in 0..MaxFlushes /\ mLock \in Requests \cup {0} /\ notifying \in Int
        /\ mvPendingRequests \in SUBSET Requests /\ mPreReleaseCnt \in Int
        /\ timedOut \in SUBSET Uids
    BY DEF Init
  <2>4. mbNeedWaitPreRelease \in BOOLEAN
    BY Zenon DEF Init
  <2>. QED BY <2>1, <2>2, <2>3, <2>4, Zenon DEF TypeOK
<1>2. FramesTaken /\ LockHolder /\ Counted /\ DrainSound
  BY DEF Init, FramesTaken, LockHolder, Counted, DrainSound, InContext, Requests
<1>3. InFlightSound /\ RegisteredSound /\ ItemsSound /\ QueuesInOrder
  BY DEF Init, InFlightSound, RegisteredSound, ItemsSound, QueuesInOrder, InOrder, Below,
         FrameNos, Range
<1>4. ToldWhenDone /\ FailureTold /\ NoneForgotten
  BY DEF Init, ToldWhenDone, FailureTold, NoneForgotten, Told, FrameNos
<1>. QED BY <1>1, <1>2, <1>3, <1>4 DEF IInv

\* The entries of the queues are of captures.
LEMMA EntriesTyped ==
  ASSUME TypeOK
  PROVE  /\ \A x \in Range(mvInFlightRequests) : x \in InFlightItems /\ x.frameNo \in Requests
         /\ \A x \in Range(mReqItems) : x \in ReqItems /\ x.frameNo \in Requests
         /\ \A x \in Range(reports) : x \in Reports /\ x.frameNo \in Requests
<1>1. /\ Range(mvInFlightRequests) \subseteq InFlightItems /\ Range(mReqItems) \subseteq ReqItems
      /\ Range(reports) \subseteq Reports
  BY InRange DEF TypeOK
<1>2. \A x \in InFlightItems : x.frameNo \in Requests
  BY DEF InFlightItems
<1>3. \A x \in ReqItems : x.frameNo \in Requests
  BY DEF ReqItems
<1>4. \A x \in Reports : x.frameNo \in Requests
  BY DEF Reports
<1>. QED BY <1>1, <1>2, <1>3, <1>4

(***************************************************************************)
(* What the app has been told, or may be, stays true: nobody takes a       *)
(* release back, and of a capture that has completed nothing is added.     *)
(***************************************************************************)
Steady ==
  /\ UNCHANGED <<registered, preReleaseBuffers>>
  /\ \A r \in Requests :
       /\ released[r] \subseteq released'[r]
       /\ frame[r] = "left" =>
            /\ frame'[r] = "left"
            /\ r \notin registered => (JpegNode \in released'[r] <=> JpegNode \in released[r])

\* What a step tells the app: of captures that have ended, and of their failures.
LEMMA ToldBySound ==
  ASSUME \A x \in Range(reports') : Finishable(x.frameNo)' /\
                                     (Failed(x.frameNo)' => x.status = "ERROR")
  PROVE  ToldWhenDone' /\ FailureTold'
<1>1. ToldWhenDone'
  <2>. SUFFICES ASSUME NEW r \in Requests, Told(r)' PROVE Finishable(r)'
    BY Zenon DEF ToldWhenDone, Finishable
  <2>. QED BY FrameNosAre DEF Told
<1>2. FailureTold'
  BY DEF FailureTold, Range, Failed, Checked
<1>. QED BY <1>1, <1>2

\* Before the step, the same of what was told.
LEMMA ToldIsSound ==
  ASSUME IInv
  PROVE  \A x \in Range(reports) : Finishable(x.frameNo) /\ (Failed(x.frameNo) => x.status = "ERROR")
<1>1. \A x \in Range(reports) : Finishable(x.frameNo)
  <2>. SUFFICES ASSUME NEW x \in Range(reports) PROVE Finishable(x.frameNo)
    OBVIOUS
  <2>1. x.frameNo \in Requests /\ x.frameNo \in FrameNos(reports)
    BY EntriesTyped, FrameNosAre DEF IInv
  <2>. QED BY <2>1, Zenon DEF IInv, ToldWhenDone, Told, Finishable
<1>2. \A x \in Range(reports) : Failed(x.frameNo) => x.status = "ERROR"
  BY FailureToldIn, Zenon DEF IInv
<1>. QED BY <1>1, <1>2

\* A capture the app may be told of stays so, with the failure it has.
LEMMA SteadyKeeps ==
  ASSUME IInv, Steady
  PROVE  /\ \A r \in Requests : Finishable(r) => Finishable(r)' /\ (Failed(r)' <=> Failed(r))
         /\ RegisteredSound'
         /\ reports' = reports => ToldWhenDone' /\ FailureTold'
         /\ mReqItems' = mReqItems => ItemsSound'
         /\ UNCHANGED <<mPreReleaseRequests, finishing, requestStatus>> => DrainSound'
<1>1. /\ registered' = registered /\ preReleaseBuffers' = preReleaseBuffers
      /\ \A r \in Requests :
           /\ released[r] \subseteq released'[r]
           /\ frame[r] = "left" =>
                /\ frame'[r] = "left"
                /\ r \notin registered => (JpegNode \in released'[r] <=> JpegNode \in released[r])
  BY DEF Steady
<1>2. ASSUME NEW r \in Requests, Finishable(r)
      PROVE  Finishable(r)' /\ (Failed(r)' <=> Failed(r))
  <2>1. Finishable(r)'
    BY <1>1, <1>2 DEF Finishable, LastNode
  <2>2. Checked(r)' = Checked(r)
    <3>1. CASE r \in registered
      BY <1>1, <3>1 DEF Checked, LastNode
    <3>2. CASE r \notin registered
      <4>1. JpegNode \in released'[r] <=> JpegNode \in released[r]
        BY <1>1, <1>2, <3>2 DEF Finishable
      <4>. QED BY <1>1, <3>2, <4>1 DEF Checked
    <3>. QED BY <3>1, <3>2
  <2>. QED BY <2>1, <2>2 DEF Failed
<1>3. RegisteredSound'
  BY <1>1 DEF IInv, RegisteredSound, LastNode
<1>4. ASSUME reports' = reports PROVE ToldWhenDone' /\ FailureTold'
  <2>1. \A x \in Range(reports) : x.frameNo \in Requests
    BY EntriesTyped DEF IInv
  <2>2. \A x \in Range(reports') : Finishable(x.frameNo)' /\ (Failed(x.frameNo)' => x.status = "ERROR")
    BY <1>2, <1>4, <2>1, ToldIsSound
  <2>. QED BY <2>2, ToldBySound
<1>5. ASSUME mReqItems' = mReqItems PROVE ItemsSound'
  <2>1. \A x \in Range(mReqItems) : x.frameNo \in Requests
    BY EntriesTyped DEF IInv
  <2>2. Range(mReqItems)' = Range(mReqItems)
    BY <1>5
  <2>. QED BY <1>1, <1>2, <2>1, <2>2 DEF IInv, ItemsSound
<1>6. ASSUME UNCHANGED <<mPreReleaseRequests, finishing, requestStatus>> PROVE DrainSound'
  BY <1>1, <1>2, <1>6 DEF IInv, DrainSound
<1>. QED BY <1>2, <1>3, <1>4, <1>5, <1>6

(***************************************************************************)
(* The steps that leave the queues alone.                                  *)
(***************************************************************************)
\* Frames only go on: to a flush, or out of the context by applyPreRelease().
GoesOn(r) ==
  \/ frame'[r] = frame[r]
  \/ frame[r] = "running" /\ frame'[r] = "preReleased"
  \/ frame[r] = "preReleased" /\ frame'[r] = "released"
Quiet ==
  /\ Steady
  /\ UNCHANGED <<queueVars, reports, mReqItems, notifying>>
  /\ \A r \in Requests : GoesOn(r)
  /\ mLock' = mLock \/ (mLock = 0 /\ mLock' # 0)

\* Such a step keeps what IInv says of the queues and of the app.
LEMMA QuietKeeps ==
  ASSUME IInv, Quiet
  PROVE  /\ Counted' /\ InFlightSound' /\ RegisteredSound' /\ ItemsSound' /\ QueuesInOrder'
         /\ ToldWhenDone' /\ FailureTold' /\ NoneForgotten'
<1>1. /\ UNCHANGED <<registered, mvInFlightRequests, mvPendingRequests, reports, mReqItems, notifying>>
      /\ Steady
      /\ \A r \in Requests : GoesOn(r)
      /\ mLock' = mLock \/ (mLock = 0 /\ mLock' # 0)
  BY DEF Quiet, Steady, queueVars
<1>2. mLock = 0 => notifying = -1
  BY DEF IInv, LockHolder
<1>3. Range(mvInFlightRequests) \subseteq InFlightItems
  BY InRange DEF IInv, TypeOK
<1>4. \A r \in Requests :
        /\ frame'[r] = "none" <=> frame[r] = "none"
        /\ frame'[r] = "left" <=> frame[r] = "left"
        /\ frame[r] = "released" => frame'[r] = "released"
  BY <1>1 DEF GoesOn
<1>5. \A r \in Requests : (r = mLock /\ notifying >= 0) <=> (r = mLock' /\ notifying' >= 0)
  BY <1>1, <1>2
<1>6. Counted' /\ QueuesInOrder'
  BY <1>1 DEF IInv, Counted, QueuesInOrder, InOrder, Below, FrameNos
<1>7. InFlightSound'
  <2>1. FrameNos(mvInFlightRequests)' = FrameNos(mvInFlightRequests) /\ FrameNos(mReqItems)' = FrameNos(mReqItems)
    BY <1>1 DEF FrameNos
  <2>2. \A x \in Range(mvInFlightRequests) : x.frameNo \in Requests
    BY <1>3 DEF InFlightItems
  <2>3. \A r \in Requests : Completing(r)' <=> Completing(r)
    BY <1>4, <1>5 DEF Completing
  <2>4. \A r \in mvPendingRequests : r \in Requests
    BY DEF IInv, TypeOK
  <2>5. Range(mvInFlightRequests)' = Range(mvInFlightRequests)
    BY <1>1
  <2>. QED BY <1>1, <1>4, <2>1, <2>2, <2>3, <2>4, <2>5 DEF IInv, InFlightSound
<1>8. RegisteredSound' /\ ItemsSound' /\ ToldWhenDone' /\ FailureTold'
  BY <1>1, SteadyKeeps
<1>9. NoneForgotten'
  BY <1>1, <1>4 DEF IInv, NoneForgotten, Told, FrameNos, Refused, Requests
<1>. QED BY <1>6, <1>7, <1>8, <1>9

\* What is left to show of a quiet step.
LEMMA QuietInv ==
  ASSUME IInv, Quiet, TypeOK', FramesTaken', LockHolder', DrainSound'
  PROVE  IInv'
BY QuietKeeps, Zenon DEF IInv

\* The session's steps that only change the session: a flush begins or ends
\* with the context drained.
LEMMA SessionQuiet ==
  ASSUME IInv, BeginFlush \/ EndFlush \/ CloseSession \/ SetImageReaderID
  PROVE  IInv'
<1>1. /\ UNCHANGED <<pipeVars, queueVars, itemVars, lockVars, mbPreRelease,
                     mPreReleaseRequests, finishing, requestStatus, timedOut>>
      /\ thread' \in [Uids -> {"none", "waiting", "woken", "draining", "finishing",
                               "drained", "ended", "gone"}]
      /\ session' \in {"open", "flushing", "starting", "closed", "waiting"}
      /\ session' = "starting" => \A r \in Requests : frame[r] \notin InContext
      /\ mPreReleaseUid' \in 0..MaxFlushes
  BY DEF BeginFlush, EndFlush, CloseSession, SetImageReaderID, flushVars, drainVars, IInv, TypeOK
<1>6. \/ mPreReleaseUid' \in Uids
      \/ /\ mPreReleaseUid' = mPreReleaseUid
         /\ session' \in {"flushing", "starting"} => session \in {"flushing", "starting"}
  BY DEF BeginFlush, EndFlush, CloseSession, SetImageReaderID, flushVars, IInv, TypeOK, Uids
<1>2. mbNeedWaitPreRelease' \in BOOLEAN
  BY Zenon DEF BeginFlush, EndFlush, CloseSession, SetImageReaderID, flushVars, IInv, TypeOK
<1>. USE DEF pipeVars, queueVars, itemVars, lockVars
<1>3. Quiet
  BY <1>1 DEF Quiet, Steady, GoesOn
<1>4. TypeOK'
  BY <1>1, <1>2, Zenon DEF IInv, TypeOK
<1>5. FramesTaken' /\ DrainSound'
  <2>1. FramesTaken'
    BY <1>1 DEF IInv, FramesTaken, Completing
  <2>2. DrainSound'
    BY <1>1, <1>3, SteadyKeeps DEF Quiet
  <2>. QED BY <2>1, <2>2
<1>7. LockHolder'
  BY <1>1, <1>6 DEF IInv, LockHolder, Current
<1>. QED BY <1>3, <1>4, <1>5, <1>7, QuietInv, Zenon

\* The steps of a thread that leave the queues alone.
LEMMA ThreadQuiet ==
  ASSUME IInv, NEW u \in Uids,
         WakeUp(u) \/ WaitTimesOut(u) \/ SetPreReleaseRequest(u) \/ Destroy(u) \/ Drain(u)
  PROVE  IInv'
<1>1. /\ UNCHANGED <<pipeVars, queueVars, itemVars, lockVars, mPreReleaseUid>>
      /\ thread' \in [Uids -> {"none", "waiting", "woken", "draining", "finishing",
                               "drained", "ended", "gone"}]
      /\ timedOut' \in SUBSET Uids
      /\ session' = session \/ session' = "open"
  BY DEF WakeUp, WaitTimesOut, SetPreReleaseRequest, Destroy, Drain, Leave, flushVars, IInv, TypeOK
<1>2. mbNeedWaitPreRelease' \in BOOLEAN /\ mbPreRelease' \in [Uids -> BOOLEAN]
  BY DEF WakeUp, WaitTimesOut, SetPreReleaseRequest, Destroy, Drain, flushVars, IInv, TypeOK
<1>3. /\ mPreReleaseRequests' \in [Uids -> SUBSET Requests]
      /\ finishing' \in [Uids -> Requests \cup {0}]
      /\ requestStatus' \in [Uids -> {"SUCCESS", "ERROR"}]
      /\ DrainSound'
  <2>1. CASE Drain(u)
    <3>1. PICK r \in mPreReleaseRequests[u] :
            /\ preReleaseBuffers[r] \subseteq released[r]
            /\ mPreReleaseRequests' = [mPreReleaseRequests EXCEPT ![u] = @ \ {r}]
            /\ finishing' = [finishing EXCEPT ![u] = r]
            /\ requestStatus' = [requestStatus EXCEPT ![u] = IF HasError(r) THEN "ERROR" ELSE @]
      BY <2>1, Zenon DEF Drain
    <3>2. r \in Requests /\ r \in registered
      BY DEF IInv, TypeOK, DrainSound
    <3>3. Finishable(r) /\ (Failed(r) => HasError(r))
      <4>1. \/ LastNode(r) \in preReleaseBuffers[r]
            \/ LastNode(r) # JpegNode /\ LastNode(r) \in released[r]
        BY <3>2 DEF IInv, RegisteredSound
      <4>2. LastNode(r) \in released[r]
        BY <3>1, <4>1
      <4>3. Checked(r) \subseteq preReleaseBuffers[r]
        BY <3>2, <4>1 DEF Checked
      <4>. QED BY <3>2, <4>2, <4>3 DEF Finishable, Failed, HasError
    <3>4. Steady
      BY <1>1 DEF Steady, pipeVars
    <3>5. /\ mPreReleaseRequests' \in [Uids -> SUBSET Requests]
          /\ finishing' \in [Uids -> Requests \cup {0}]
          /\ requestStatus' \in [Uids -> {"SUCCESS", "ERROR"}]
      BY <3>1, <3>2 DEF IInv, TypeOK
    <3>6. ASSUME NEW v \in Uids
          PROVE  /\ mPreReleaseRequests'[v] \subseteq registered
                 /\ \A q \in Requests : q = finishing'[v] =>
                      q \in registered /\ Finishable(q) /\ (Failed(q) => requestStatus'[v] = "ERROR")
      <4>1. CASE v = u
        <5>1. /\ mPreReleaseRequests'[v] \subseteq mPreReleaseRequests[v] /\ finishing'[v] = r
              /\ HasError(r) => requestStatus'[v] = "ERROR"
          BY <3>1, <4>1 DEF IInv, TypeOK
        <5>. QED BY <3>2, <3>3, <5>1 DEF IInv, DrainSound
      <4>2. CASE v # u
        <5>1. /\ mPreReleaseRequests'[v] = mPreReleaseRequests[v] /\ finishing'[v] = finishing[v]
              /\ requestStatus'[v] = requestStatus[v]
          BY <3>1, <4>2 DEF IInv, TypeOK
        <5>. QED BY <5>1 DEF IInv, DrainSound
      <4>. QED BY <4>1, <4>2
    <3>7. registered' = registered
      BY <3>4 DEF Steady
    <3>8. \A q \in Requests : Finishable(q) => Finishable(q)' /\ (Failed(q)' <=> Failed(q))
      BY <3>4, SteadyKeeps
    <3>9. DrainSound'
      BY <3>6, <3>7, <3>8 DEF DrainSound
    <3>. QED BY <3>5, <3>9
  <2>2. CASE ~Drain(u)
    <3>1. UNCHANGED <<mPreReleaseRequests, finishing, requestStatus>>
      BY <2>2 DEF WakeUp, WaitTimesOut, SetPreReleaseRequest, Destroy
    <3>2. Steady
      BY <1>1 DEF Steady, pipeVars
    <3>3. DrainSound'
      BY <3>1, <3>2, SteadyKeeps
    <3>. QED BY <3>1, <3>3 DEF IInv, TypeOK
  <2>. QED BY <2>1, <2>2
<1>. USE DEF pipeVars, queueVars, itemVars, lockVars
<1>4. Quiet
  BY <1>1 DEF Quiet, Steady, GoesOn
<1>5. TypeOK'
  <2>1. session' \in {"open", "flushing", "starting", "closed", "waiting"}
    BY <1>1 DEF IInv, TypeOK
  <2>. QED BY <1>1, <1>2, <1>3, <2>1, Zenon DEF IInv, TypeOK
<1>6. FramesTaken' /\ LockHolder'
  BY <1>1 DEF IInv, FramesTaken, Completing, LockHolder, Current
<1>. QED BY <1>3, <1>4, <1>5, <1>6, QuietInv, Zenon

\* A frame goes to a flush, leaves the context pre-released, or has buffers released.
LEMMA FrameQuiet ==
  ASSUME IInv, NEW r \in Requests, RegisterCapture(r) \/ LeavePreReleased(r) \/ Releases(r)
  PROVE  IInv'
<1>. DEFINE Act == RegisterCapture(r) \/ LeavePreReleased(r) \/ ReleaseBehind(r) \/ Encoded(r)
<1>0. Act
  BY DEF Releases
<1>1. /\ UNCHANGED <<registered, preReleaseBuffers, queueVars, itemVars, notifying, mPreReleaseUid,
                     mbNeedWaitPreRelease, drainVars>>
      /\ session' = session
  BY <1>0 DEF RegisterCapture, LeavePreReleased, ReleaseBehind, Encoded, lockVars, flushVars
<1>2. /\ released' \in [Requests -> SUBSET Nat]
      /\ \A q \in Requests :
           /\ released[q] \subseteq released'[q]
           /\ JpegNode \in released'[q] => JpegNode \in released[q] \/ q \in registered
  <2>1. CASE RegisterCapture(r) \/ LeavePreReleased(r)
    BY <2>1 DEF RegisterCapture, LeavePreReleased, IInv, TypeOK
  <2>2. CASE ReleaseBehind(r)
    <3>1. PICK n \in NodesOf[r] \ {JpegNode} : released' = [released EXCEPT ![r] = @ \cup {n}]
      BY <2>2 DEF ReleaseBehind
    <3>2. n \in Nat /\ n # JpegNode
      BY LastNodeIs
    <3>. QED BY <3>1, <3>2 DEF IInv, TypeOK
  <2>3. CASE Encoded(r)
    <3>1. r \in registered /\ released' = [released EXCEPT ![r] = @ \cup {JpegNode}]
      BY <2>3 DEF Encoded
    <3>2. JpegNode \in Nat
      BY DEF JpegNode
    <3>. QED BY <3>1, <3>2 DEF IInv, TypeOK
  <2>. QED BY <1>0, <2>1, <2>2, <2>3
<1>10. /\ frame' \in [Requests -> {"none", "running", "preReleased", "left", "released"}]
       /\ mLock' \in Requests \cup {0}
  BY <1>0 DEF RegisterCapture, LeavePreReleased, ReleaseBehind, Encoded, lockVars, IInv, TypeOK
<1>3. \A q \in Requests : GoesOn(q)
  BY <1>0 DEF RegisterCapture, LeavePreReleased, ReleaseBehind, Encoded, GoesOn, IInv, TypeOK
<1>4. mLock' = mLock \/ (mLock = 0 /\ mLock' # 0)
  BY <1>0 DEF RegisterCapture, LeavePreReleased, ReleaseBehind, Encoded, lockVars, Requests
<1>. HIDE DEF Act
<1>5. Quiet
  <2>1. Steady
    BY <1>1, <1>2, <1>3 DEF Steady, GoesOn
  <2>. QED BY <1>1, <1>3, <1>4, <2>1 DEF Quiet, itemVars
<1>6. TypeOK'
  BY <1>1, <1>2, <1>10, Zenon DEF IInv, TypeOK, queueVars, itemVars, drainVars
<1>7. FramesTaken'
  <2>1. \A q \in Requests : frame'[q] # "none" <=> frame[q] # "none"
    BY <1>3 DEF GoesOn
  <2>2. \A q \in Requests : frame[q] \notin {"none", "running"} => frame'[q] \notin {"none", "running"}
    BY <1>3 DEF GoesOn
  <2>3. session' = "starting" => \A q \in Requests : frame'[q] \notin InContext
    BY <1>1, <1>3 DEF IInv, FramesTaken, GoesOn, InContext
  <2>4. registered \subseteq Requests
    BY DEF IInv, TypeOK
  <2>5. \A q \in Requests : \A p \in 1..q : p \in Requests
    BY DEF Requests
  <2>6. \A q \in Requests : Completing(q) => Completing(q)'
    BY <1>1, <1>3, <1>4 DEF IInv, LockHolder, GoesOn, Completing
  <2>7. \A q \in Requests : JpegNode \in released'[q] => q \in registered \/ Completing(q)'
    BY <1>2, <2>6 DEF IInv, FramesTaken
  <2>. QED BY <1>1, <2>1, <2>2, <2>3, <2>4, <2>5, <2>7 DEF IInv, FramesTaken
<1>8. LockHolder'
  <2>1. CASE RegisterCapture(r)
    <3>1. r \notin registered /\ r # 0 /\ frame'[r] = "preReleased"
      BY <2>1 DEF RegisterCapture, IInv, FramesTaken, TypeOK, Requests
    <3>2. mLock = 0 /\ (mLock' = 0 \/ mLock' = r)
      BY <2>1 DEF RegisterCapture
    <3>3. session = "flushing"
      BY <2>1 DEF RegisterCapture
    <3>. QED BY <1>1, <3>1, <3>2, <3>3 DEF IInv, LockHolder, InContext, queueVars, Current
  <2>2. CASE LeavePreReleased(r) \/ ReleaseBehind(r) \/ Encoded(r)
    <3>1. mLock' = mLock /\ (mLock # 0 => frame'[mLock] = frame[mLock])
      BY <2>2 DEF LeavePreReleased, ReleaseBehind, Encoded, lockVars, IInv, TypeOK
    <3>. QED BY <1>1, <3>1 DEF IInv, LockHolder, queueVars, Current
  <2>. QED BY <1>0, <2>1, <2>2 DEF Act
<1>9. DrainSound'
  BY <1>1, <1>5, SteadyKeeps DEF Quiet, drainVars
<1>. QED BY <1>5, <1>6, <1>7, <1>8, <1>9, QuietInv, Zenon

(***************************************************************************)
(* The steps that change the queues.                                       *)
(***************************************************************************)
LEMMA QueuedAreTaken ==
  ASSUME IInv
  PROVE  \A r \in FrameNos(reports) \cup FrameNos(mReqItems) \cup FrameNos(mvInFlightRequests) :
           r \in Requests /\ frame[r] # "none"
<1>1. /\ FrameNos(reports) \subseteq Requests /\ FrameNos(mReqItems) \subseteq Requests
      /\ FrameNos(mvInFlightRequests) \subseteq Requests
  BY FrameNosTyped DEF IInv, TypeOK
<1>2. \A r \in Requests : Finishable(r) => frame[r] # "none"
  BY DEF IInv, FramesTaken, Finishable
<1>3. \A r \in FrameNos(reports) : frame[r] # "none"
  BY <1>1, <1>2 DEF IInv, ToldWhenDone, Told, Finishable
<1>4. \A r \in FrameNos(mReqItems) : frame[r] # "none"
  <2>. SUFFICES ASSUME NEW x \in Range(mReqItems) PROVE frame[x.frameNo] # "none"
    BY FrameNosAre
  <2>1. x \in ReqItems
    BY InRange DEF IInv, TypeOK
  <2>2. x.frameNo \in Requests /\ (x.status = "PRERELEASE" \/ x.status = "RELEASE")
    BY <2>1 DEF ReqItems
  <2>3. x.frameNo \in registered \/ Finishable(x.frameNo)
    BY <2>2, Zenon DEF IInv, ItemsSound
  <2>. QED BY <1>2, <2>2, <2>3 DEF IInv, FramesTaken
<1>5. \A r \in FrameNos(mvInFlightRequests) : frame[r] # "none"
  BY FrameNosAre DEF IInv, InFlightSound
<1>. QED BY <1>1, <1>3, <1>4, <1>5

\* A capture is queued behind all that were taken before.
LEMMA AddCaptureInv ==
  ASSUME IInv, NEW r \in Requests, AddCaptureRequest(r)
  PROVE  IInv'
<1>. DEFINE x == [frameNo |-> r, bDone |-> FALSE]
            q == mvInFlightRequests
            one == <<x>>
<1>1. /\ session = "open" /\ frame[r] = "none"
      /\ \A p \in 1..(r - 1) : frame[p] # "none"
      /\ frame' = [frame EXCEPT ![r] = "running"]
      /\ UNCHANGED <<registered, released, preReleaseBuffers, mvPendingRequests, itemVars, lockVars,
                     flushVars, drainVars>>
  BY DEF AddCaptureRequest
<1>2. /\ q \in Seq(InFlightItems) /\ x \in InFlightItems /\ x.frameNo = r /\ x.bDone = FALSE
  BY DEF IInv, TypeOK, InFlightItems
<1>. HIDE DEF x
<1>3. q' = q \o one /\ q' = Append(q, x)
  <2>1. q' = Append(q, x)
    BY DEF AddCaptureRequest, x
  <2>. QED BY <1>2, <2>1
<1>4. one \in Seq(InFlightItems) /\ Range(one) = {x} /\ FrameNos(one) = {r}
  BY <1>2 DEF Range, FrameNos
<1>5. /\ Len(q') = Len(q) + 1 /\ q'[Len(q) + 1] = x
      /\ \A i \in 1..Len(q) : q'[i] = q[i]
  BY <1>2, <1>3
<1>. HIDE DEF one
<1>6. /\ q' \in Seq(InFlightItems) /\ Range(q') = Range(q) \cup {x}
      /\ FrameNos(q') = FrameNos(q) \cup {r}
  <2>1. /\ q \o one \in Seq(InFlightItems) /\ Range(q \o one) = Range(q) \cup Range(one)
        /\ FrameNos(q \o one) = FrameNos(q) \cup FrameNos(one)
    BY <1>2, <1>4, Joined
  <2>. QED BY <1>3, <1>4, <2>1, Zenon
<1>7. \A p \in Requests : frame[p] # "none" => p < r
  BY <1>1 DEF IInv, FramesTaken, Requests
<1>8. /\ r \notin registered /\ r \notin mvPendingRequests /\ r \notin FrameNos(mReqItems)
      /\ r \notin FrameNos(q) /\ r \notin FrameNos(reports) /\ r # mLock
  <2>1. r \notin FrameNos(mReqItems) /\ r \notin FrameNos(q) /\ r \notin FrameNos(reports)
    BY <1>1, QueuedAreTaken
  <2>2. r \notin registered /\ r \notin mvPendingRequests
    BY <1>1 DEF IInv, FramesTaken, InFlightSound
  <2>3. r # mLock
    BY <1>1 DEF IInv, LockHolder, InContext, Requests
  <2>. QED BY <2>1, <2>2, <2>3
<1>9. \A p \in Requests :
        /\ p # r => frame'[p] = frame[p]
        /\ p = r => frame'[p] = "running"
  BY <1>1 DEF IInv, TypeOK
<1>10. /\ UNCHANGED <<mReqItems, reports, notifying, mLock, mPreReleaseUid, session>>
  BY <1>1 DEF itemVars, lockVars, flushVars
<1>11. TypeOK'
  <2>1. frame' \in [Requests -> {"none", "running", "preReleased", "left", "released"}]
    BY <1>1 DEF IInv, TypeOK
  <2>. QED BY <1>1, <1>6, <2>1, Zenon DEF IInv, TypeOK, itemVars, lockVars, flushVars, drainVars
<1>12. FramesTaken'
  <2>1. /\ registered \subseteq Requests
        /\ \A p \in Requests : \A b \in 1..p : b \in Requests
    BY DEF IInv, TypeOK, Requests
  <2>2. \A p \in Requests : frame'[p] # "none" => \A b \in 1..p : frame'[b] # "none"
    <3>. SUFFICES ASSUME NEW p \in Requests, frame'[p] # "none", NEW b \in 1..p
                 PROVE  frame'[b] # "none"
      OBVIOUS
    <3>1. CASE p = r
      BY <1>1, <1>9, <2>1, <3>1 DEF Requests
    <3>2. CASE p # r
      BY <1>9, <2>1, <3>2 DEF IInv, FramesTaken
    <3>. QED BY <3>1, <3>2
  <2>3. \A p \in registered : frame'[p] \notin {"none", "running"}
    BY <1>8, <1>9, <2>1 DEF IInv, FramesTaken
  <2>4. \A p \in Requests : JpegNode \in released[p] => p \in registered \/ Completing(p)'
    <3>1. \A p \in Requests : Completing(p) => Completing(p)'
      BY <1>1, <1>9, <1>10 DEF Completing
    <3>. QED BY <3>1 DEF IInv, FramesTaken
  <2>. QED BY <1>1, <1>10, <2>2, <2>3, <2>4 DEF IInv, FramesTaken
<1>13. LockHolder'
  <2>1. mLock # 0 => mLock \in Requests /\ frame'[mLock] = frame[mLock]
    BY <1>8, <1>9 DEF IInv, TypeOK
  <2>2. notifying \in -1..Len(q')
    BY <1>2, <1>5 DEF IInv, LockHolder
  <2>. QED BY <1>1, <1>10, <2>1, <2>2 DEF IInv, LockHolder, Current
<1>14. Counted'
  <2>. DEFINE n == IF notifying >= 0 THEN notifying ELSE 0
  <2>1. n \in 0..Len(q) /\ n' = n
    BY <1>2, <1>10 DEF IInv, LockHolder
  <2>2. /\ \A i \in 1..n : q[i].bDone
        /\ n < Len(q) => ~q[n + 1].bDone
    BY DEF IInv, Counted
  <2>. HIDE DEF n
  <2>3. /\ \A i \in 1..n : q'[i].bDone
        /\ n < Len(q') => ~q'[n + 1].bDone
    <3>1. CASE n < Len(q)
      BY <1>2, <1>5, <2>1, <2>2, <3>1
    <3>2. CASE n = Len(q)
      BY <1>2, <1>5, <2>1, <2>2, <3>2
    <3>. QED BY <1>2, <2>1, <3>1, <3>2
  <2>. QED BY <2>1, <2>3 DEF Counted, n
<1>15. InFlightSound'
  <2>1. \A p \in Range(q) : p.frameNo \in Requests /\ p.frameNo # r /\ p.frameNo \in FrameNos(q)
    BY <1>8, EntriesTyped, FrameNosAre DEF IInv
  <2>2. \A p \in Requests : p # r => (Completing(p)' <=> Completing(p))
    BY <1>9, <1>10 DEF Completing
  <2>3. ~Completing(r)'
    BY <1>8, <1>9, <1>10 DEF Completing
  <2>4. \A p \in Range(q') :
          /\ frame'[p.frameNo] # "none" /\ p.frameNo \notin registered
          /\ p.bDone <=> Completing(p.frameNo)'
    <3>1. ASSUME NEW p \in Range(q)
          PROVE  /\ frame'[p.frameNo] # "none" /\ p.frameNo \notin registered
                 /\ p.bDone <=> Completing(p.frameNo)'
      BY <1>9, <2>1, <2>2 DEF IInv, InFlightSound
    <3>2. /\ frame'[x.frameNo] # "none" /\ x.frameNo \notin registered
          /\ x.bDone <=> Completing(x.frameNo)'
      BY <1>2, <1>8, <1>9, <2>3
    <3>. QED BY <1>6, <3>1, <3>2
  <2>5. \A p \in mvPendingRequests : frame'[p] # "none"
    BY <1>9 DEF IInv, InFlightSound, TypeOK
  <2>6. /\ FrameNos(q') \cap mvPendingRequests = {}
        /\ FrameNos(q') \cap FrameNos(mReqItems) = {}
    BY <1>6, <1>8 DEF IInv, InFlightSound
  <2>7. /\ Range(q)' = Range(q') /\ FrameNos(q)' = FrameNos(q')
        /\ FrameNos(mReqItems)' = FrameNos(mReqItems)
    BY <1>10
  <2>. QED BY <1>1, <2>4, <2>5, <2>6, <2>7 DEF InFlightSound
<1>16. Steady
  BY <1>1, <1>9 DEF Steady
<1>17. RegisteredSound' /\ ItemsSound' /\ ToldWhenDone' /\ FailureTold'
  BY <1>10, <1>16, SteadyKeeps
<1>18. DrainSound'
  BY <1>1, <1>16, SteadyKeeps DEF drainVars
<1>19. QueuesInOrder'
  <2>1. InOrder(one, registered)
    BY DEF InOrder, one
  <2>2. \A p \in FrameNos(reports) \cup FrameNos(mReqItems) \cup FrameNos(q) : p < r
    BY <1>7, QueuedAreTaken
  <2>3. Below(FrameNos(q), FrameNos(one), registered)
    BY <1>4, <2>2 DEF Below
  <2>4. InOrder(q', registered)
    <3>1. InOrder(q, registered)
      BY DEF IInv, QueuesInOrder
    <3>2. InOrder(q \o one, registered)
      BY <1>2, <1>4, <2>1, <2>3, <3>1, JoinedInOrder, Zenon
    <3>. QED BY <1>3, <3>2, Zenon
  <2>5. /\ Below(FrameNos(reports), FrameNos(q'), registered)
        /\ Below(FrameNos(mReqItems), FrameNos(q'), registered)
    BY <1>6, <2>2 DEF IInv, QueuesInOrder, Below
  <2>. QED BY <1>1, <1>10, <2>4, <2>5 DEF IInv, QueuesInOrder
<1>20. NoneForgotten'
  BY <1>1, <1>6, <1>9, <1>10 DEF IInv, NoneForgotten, Told, Refused, Requests
<1>. QED BY <1>11, <1>12, <1>13, <1>14, <1>15, <1>17, <1>18, <1>19, <1>20, Zenon DEF IInv

\* A completed capture is marked wherever it is queued, and counted.
LEMMA CaptureCompletedInv ==
  ASSUME IInv, NEW r \in Requests, CaptureCompleted(r)
  PROVE  IInv'
<1>. DEFINE q == mvInFlightRequests
            w == MarkDone(q, r)
<1>1. /\ frame[r] \in InContext /\ mLock = 0 /\ mLock' = r /\ q' = w
      /\ notifying' = Len(DonePrefix(q'))
      /\ mvPendingRequests' = IF r \in FrameNos(q) THEN mvPendingRequests ELSE mvPendingRequests \cup {r}
      /\ released' = [released EXCEPT ![r] = IF frame[r] = "running" THEN @ \cup {JpegNode} ELSE @]
      /\ UNCHANGED <<frame, registered, preReleaseBuffers, itemVars, flushVars, drainVars>>
  BY Zenon DEF CaptureCompleted
<1>2. /\ UNCHANGED <<frame, registered, preReleaseBuffers, mReqItems, reports, session, mPreReleaseUid>>
      /\ r # 0 /\ notifying = -1
  BY <1>1 DEF itemVars, flushVars, IInv, LockHolder, Requests
<1>3. q \in Seq(InFlightItems)
  BY DEF IInv, TypeOK
<1>4. /\ w \in Seq(InFlightItems) /\ DOMAIN w = DOMAIN q /\ Len(w) = Len(q)
      /\ \A i \in DOMAIN q : /\ w[i].frameNo = q[i].frameNo
                             /\ w[i].bDone <=> q[i].bDone \/ q[i].frameNo = r
  BY <1>3, MarkDoneIs, Zenon
<1>. HIDE DEF w
<1>5. FrameNos(w) = FrameNos(q) /\ (InOrder(w, registered) <=> InOrder(q, registered))
  BY <1>4, SameFrameNos
<1>6. /\ notifying' \in 0..Len(w)
      /\ \A i \in 1..notifying' : w[i].bDone
      /\ notifying' < Len(w) => ~w[notifying' + 1].bDone
  BY <1>1, <1>4, DonePrefixIs
<1>7. TypeOK'
  <2>1. mvPendingRequests' \in SUBSET Requests
    BY <1>1 DEF IInv, TypeOK
  <2>2. notifying' \in Int /\ mLock' \in Requests \cup {0} /\ q' \in Seq(InFlightItems)
    BY <1>1, <1>4, <1>6
  <2>3. released' \in [Requests -> SUBSET Nat]
    BY <1>1 DEF IInv, TypeOK, JpegNode
  <2>. QED BY <1>1, <2>1, <2>2, <2>3, Zenon DEF IInv, TypeOK, itemVars, flushVars, drainVars
<1>15. /\ \A p \in Requests : p # r => released'[p] = released[p]
       /\ released[r] \subseteq released'[r]
  BY <1>1 DEF IInv, TypeOK
<1>16. Steady
  BY <1>1, <1>2, <1>15 DEF Steady, InContext
<1>8. FramesTaken' /\ DrainSound'
  <2>1. DrainSound'
    BY <1>1, <1>16, SteadyKeeps DEF drainVars
  <2>2. \A p \in Requests : JpegNode \in released'[p] => p \in registered \/ Completing(p)'
    <3>1. Completing(r)'
      BY <1>1, <1>6 DEF Completing
    <3>2. \A p \in Requests : Completing(p) => Completing(p)'
      BY <1>2 DEF Completing
    <3>. QED BY <1>15, <3>1, <3>2 DEF IInv, FramesTaken
  <2>. QED BY <1>2, <2>1, <2>2 DEF IInv, FramesTaken
<1>9. LockHolder'
  BY <1>1, <1>2, <1>6 DEF IInv, LockHolder, Current
<1>10. Counted'
  BY <1>1, <1>6 DEF Counted
<1>11. InFlightSound'
  <2>1. \A p \in Requests : Completing(p)' <=> Completing(p) \/ p = r
    BY <1>1, <1>2, <1>6 DEF Completing
  <2>2. \A x \in Range(w) : /\ frame[x.frameNo] # "none" /\ x.frameNo \notin registered
                            /\ x.bDone <=> Completing(x.frameNo)'
    <3>. SUFFICES ASSUME NEW x \in Range(w)
                 PROVE  /\ frame[x.frameNo] # "none" /\ x.frameNo \notin registered
                        /\ x.bDone <=> Completing(x.frameNo)'
      OBVIOUS
    <3>1. PICK i \in DOMAIN q : x = w[i]
      BY <1>4, Zenon DEF Range
    <3>2. q[i] \in Range(q)
      BY DEF Range
    <3>3. q[i].frameNo \in Requests
      BY <3>2, EntriesTyped DEF IInv
    <3>4. x.frameNo = q[i].frameNo /\ (x.bDone <=> q[i].bDone \/ q[i].frameNo = r)
      BY <1>4, <3>1
    <3>5. x.bDone <=> Completing(q[i].frameNo) \/ q[i].frameNo = r
      BY <3>2, <3>4 DEF IInv, InFlightSound
    <3>6. x.bDone <=> Completing(x.frameNo) \/ x.frameNo = r
      BY <3>4, <3>5
    <3>7. Completing(x.frameNo)' <=> Completing(x.frameNo) \/ x.frameNo = r
      BY <2>1, <3>3, <3>4
    <3>8. frame[x.frameNo] # "none" /\ x.frameNo \notin registered
      BY <3>2, <3>4 DEF IInv, InFlightSound
    <3>. QED BY <3>6, <3>7, <3>8
  <2>3. \A p \in mvPendingRequests' : frame[p] # "none"
    BY <1>1 DEF IInv, InFlightSound, InContext
  <2>4. /\ FrameNos(w) \cap mvPendingRequests' = {}
        /\ FrameNos(w) \cap FrameNos(mReqItems) = {}
    BY <1>1, <1>5 DEF IInv, InFlightSound
  <2>5. /\ Range(q)' = Range(w) /\ FrameNos(q)' = FrameNos(w)
        /\ FrameNos(mReqItems)' = FrameNos(mReqItems)
    BY <1>1, <1>2
  <2>. QED BY <1>2, <2>2, <2>3, <2>4, <2>5 DEF InFlightSound
<1>12. RegisteredSound' /\ ItemsSound' /\ ToldWhenDone' /\ FailureTold'
  BY <1>2, <1>16, SteadyKeeps
<1>13. QueuesInOrder'
  BY <1>1, <1>2, <1>5 DEF IInv, QueuesInOrder
<1>14. NoneForgotten'
  BY <1>1, <1>2, <1>5 DEF IInv, NoneForgotten, Told, Refused
<1>. QED BY <1>7, <1>8, <1>9, <1>10, <1>11, <1>12, <1>13, <1>14, Zenon DEF IInv

\* The counted entries are handed out, and the frame leaves.
LEMMA CallBackInv ==
  ASSUME IInv, CallBack
  PROVE  IInv'
<1>. DEFINE q == mvInFlightRequests
            p == SubSeq(q, 1, notifying)
            t == Rest(q, notifying)
            S == registered
<1>1. /\ notifying >= 0 /\ HandOut(p) /\ q' = t /\ mLock' = 0 /\ notifying' = -1
      /\ frame' = [frame EXCEPT ![mLock] = "left"]
      /\ UNCHANGED <<registered, released, preReleaseBuffers, mvPendingRequests, flushVars, drainVars>>
  BY Zenon DEF CallBack
<1>2. /\ notifying \in 0..Len(q) /\ mLock \in Requests /\ frame[mLock] \in InContext
      /\ q \in Seq(InFlightItems) /\ TypeOK /\ InOrder(q, S)
      /\ FrameNos(q) \cap S = {} /\ FrameNos(q) \cap FrameNos(mReqItems) = {}
  <2>1. notifying \in 0..Len(q) /\ mLock \in Requests /\ frame[mLock] \in InContext
    BY <1>1 DEF IInv, LockHolder, TypeOK
  <2>2. FrameNos(q) \cap S = {}
    BY FrameNosAre DEF IInv, InFlightSound
  <2>3. q \in Seq(InFlightItems) /\ TypeOK
    BY DEF IInv, TypeOK
  <2>4. InOrder(q, S) /\ FrameNos(q) \cap FrameNos(mReqItems) = {}
    BY DEF IInv, QueuesInOrder, InFlightSound
  <2>. QED BY <2>1, <2>2, <2>3, <2>4
<1>3. /\ p \in Seq(InFlightItems) /\ t \in Seq(InFlightItems)
      /\ Range(q) = Range(p) \cup Range(t) /\ FrameNos(q) = FrameNos(p) \cup FrameNos(t)
      /\ InOrder(p, S) /\ InOrder(t, S) /\ Below(FrameNos(p), FrameNos(t), S)
  BY <1>2, Cut
<1>4. /\ Len(p) = notifying /\ Len(t) = Len(q) - notifying
      /\ \A i \in 1..notifying : p[i] = q[i]
      /\ \A i \in 1..(Len(q) - notifying) : t[i] = q[notifying + i]
  BY <1>2, CutAt
<1>. HIDE DEF p, t
<1>5. FrameNos(p) \cap FrameNos(t) = {}
  <2>1. FrameNos(t) \subseteq Nat /\ FrameNos(t) \cap S = {}
    BY <1>2, <1>3, FrameNosTyped DEF Requests
  <2>. QED BY <1>3, <2>1 DEF Below
<1>6. /\ mPreReleaseCnt' = mPreReleaseCnt
      /\ reports' \in Seq(Reports) /\ mReqItems' \in Seq(ReqItems)
      /\ InOrder(reports', S) /\ InOrder(mReqItems', S)
      /\ Below(FrameNos(reports'), FrameNos(mReqItems'), S)
      /\ FrameNos(reports') \cup FrameNos(mReqItems')
           = FrameNos(reports) \cup FrameNos(mReqItems) \cup FrameNos(p)
      /\ FrameNos(reports) \subseteq FrameNos(reports')
      /\ FrameNos(mReqItems) \subseteq FrameNos(mReqItems')
      /\ FrameNos(reports') \subseteq FrameNos(reports) \cup FrameNos(p)
      /\ \A x \in Range(mReqItems') :
           \/ x \in Range(mReqItems)
           \/ /\ x.frameNo \in FrameNos(p) /\ x.status = "RELEASE"
              /\ x.requestStatus = OwnStatus(x.frameNo)
      /\ \A x \in Range(reports') :
           \/ x \in Range(reports)
           \/ x.frameNo \in FrameNos(p) /\ x.status = OwnStatus(x.frameNo)
  <2>1. /\ InOrder(reports, S) /\ InOrder(mReqItems, S)
        /\ Below(FrameNos(reports), FrameNos(mReqItems), S)
        /\ Below(FrameNos(reports), FrameNos(q), S) /\ Below(FrameNos(mReqItems), FrameNos(q), S)
    BY DEF IInv, QueuesInOrder
  <2>2. /\ Below(FrameNos(reports), FrameNos(p), S) /\ Below(FrameNos(mReqItems), FrameNos(p), S)
        /\ FrameNos(p) \cap FrameNos(mReqItems) = {}
    BY <1>2, <1>3, <2>1 DEF Below
  <2>. QED BY <1>1, <1>2, <1>3, <2>1, <2>2, HandOutKeeps
<1>7. /\ \A a \in Requests : a # mLock => frame'[a] = frame[a]
      /\ frame'[mLock] = "left"
      /\ frame' \in [Requests -> {"none", "running", "preReleased", "left", "released"}]
  BY <1>1, <1>2 DEF TypeOK
<1>8. \A a \in Requests : Completing(a)' <=> Completing(a)
  BY <1>1, <1>2, <1>7 DEF Completing, Requests
<1>20. Steady
  BY <1>1, <1>7 DEF Steady
<1>9. \A a \in Requests : Finishable(a) => Finishable(a)' /\ (Failed(a)' <=> Failed(a))
  BY <1>20, SteadyKeeps
<1>21. \A a \in Requests : a \notin registered /\ Failed(a)' => OwnStatus(a) = "ERROR"
  BY <1>1 DEF Failed, Checked, OwnStatus
<1>10. \A a \in FrameNos(p) : a \in Requests /\ a \notin registered /\ Finishable(a)'
  <2>. SUFFICES ASSUME NEW x \in Range(p)
               PROVE  x.frameNo \in Requests /\ x.frameNo \notin registered /\ Finishable(x.frameNo)'
    BY FrameNosAre
  <2>1. x.bDone
    <3>1. PICK i \in 1..Len(p) : x = p[i]
      BY <1>3, InRange
    <3>. QED BY <1>1, <1>4, <3>1 DEF IInv, Counted
  <2>2. x \in Range(q) /\ x.frameNo \in Requests
    BY <1>2, <1>3, EntriesTyped
  <2>3. Completing(x.frameNo) /\ x.frameNo \notin registered
    BY <2>1, <2>2 DEF IInv, InFlightSound
  <2>. QED BY <1>1, <1>2, <1>7, <2>2, <2>3 DEF Completing, Finishable
<1>11. TypeOK'
  <2>1. mLock' \in Requests \cup {0} /\ notifying' \in Int /\ mPreReleaseCnt' \in Int
    BY <1>1, <1>6 DEF IInv, TypeOK
  <2>2. mvInFlightRequests' \in Seq(InFlightItems)
    BY <1>1, <1>3, Zenon
  <2>. QED BY <1>1, <1>2, <1>6, <1>7, <2>1, <2>2, Zenon DEF TypeOK, flushVars, drainVars
<1>12. FramesTaken'
  <2>1. \A a \in Requests : frame'[a] # "none" <=> frame[a] # "none"
    BY <1>2, <1>7 DEF InContext
  <2>2. \A a \in Requests : frame[a] \notin {"none", "running"} => frame'[a] \notin {"none", "running"}
    BY <1>7
  <2>3. \A a \in Requests : frame[a] \notin InContext => frame'[a] \notin InContext
    BY <1>7 DEF InContext
  <2>4. registered \subseteq Requests /\ \A a \in Requests : \A b \in 1..a : b \in Requests
    BY <1>2 DEF TypeOK, Requests
  <2>5. \A a \in Requests : JpegNode \in released[a] => a \in registered \/ Completing(a)'
    BY <1>8 DEF IInv, FramesTaken
  <2>. QED BY <1>1, <2>1, <2>2, <2>3, <2>4, <2>5 DEF IInv, FramesTaken, flushVars
<1>13. LockHolder' /\ RegisteredSound' /\ DrainSound'
  <2>1. Len(q') \in Nat
    BY <1>1, <1>3
  <2>2. LockHolder'
    BY <1>1, <2>1 DEF IInv, LockHolder, flushVars, Current
  <2>. QED BY <1>1, <1>20, <2>2, SteadyKeeps DEF drainVars
<1>14. Counted'
  <2>. SUFFICES ASSUME 0 < Len(t) PROVE ~t[1].bDone
    BY <1>1 DEF Counted
  <2>1. 1 \in 1..(Len(q) - notifying) /\ notifying < Len(q)
    BY <1>2, <1>4
  <2>. QED BY <1>1, <1>4, <2>1 DEF IInv, Counted
<1>15. InFlightSound'
  <2>1. \A x \in Range(t) : /\ frame'[x.frameNo] # "none" /\ x.frameNo \notin registered
                            /\ x.bDone <=> Completing(x.frameNo)'
    <3>. SUFFICES ASSUME NEW x \in Range(t)
                 PROVE  /\ frame'[x.frameNo] # "none" /\ x.frameNo \notin registered
                        /\ x.bDone <=> Completing(x.frameNo)'
      OBVIOUS
    <3>1. x \in Range(q) /\ x.frameNo \in Requests
      BY <1>2, <1>3, EntriesTyped
    <3>2. frame[x.frameNo] # "none" => frame'[x.frameNo] # "none"
      BY <1>7, <3>1
    <3>. QED BY <1>8, <3>1, <3>2 DEF IInv, InFlightSound
  <2>2. \A a \in mvPendingRequests : frame'[a] # "none"
    BY <1>2, <1>7 DEF IInv, InFlightSound, TypeOK
  <2>3. /\ FrameNos(t) \cap mvPendingRequests = {}
        /\ FrameNos(t) \cap FrameNos(mReqItems') = {}
    <3>1. FrameNos(mReqItems') \subseteq FrameNos(mReqItems) \cup FrameNos(p)
      <4>. SUFFICES ASSUME NEW x \in Range(mReqItems')
                   PROVE  x.frameNo \in FrameNos(mReqItems) \cup FrameNos(p)
        BY FrameNosAre
      <4>. QED BY <1>6, FrameNosAre
    <3>. QED BY <1>2, <1>3, <1>5, <3>1 DEF IInv, InFlightSound
  <2>4. /\ Range(q)' = Range(t) /\ FrameNos(q)' = FrameNos(t)
    BY <1>1
  <2>. QED BY <1>1, <2>1, <2>2, <2>3, <2>4 DEF InFlightSound
<1>16. ItemsSound'
  <2>. SUFFICES ASSUME NEW x \in Range(mReqItems')
               PROVE  /\ x.status = "PRERELEASE" => x.frameNo \in registered
                      /\ x.status = "RELEASE" =>
                           Finishable(x.frameNo)' /\ (Failed(x.frameNo)' => x.requestStatus = "ERROR")
    BY <1>1 DEF ItemsSound
  <2>1. CASE x \in Range(mReqItems)
    <3>1. x.frameNo \in Requests
      BY <1>2, <2>1, EntriesTyped
    <3>. QED BY <1>9, <2>1, <3>1 DEF IInv, ItemsSound
  <2>2. CASE /\ x.frameNo \in FrameNos(p) /\ x.status = "RELEASE"
             /\ x.requestStatus = OwnStatus(x.frameNo)
    BY <1>10, <1>21, <2>2
  <2>. QED BY <1>6, <2>1, <2>2
<1>17. QueuesInOrder'
  <2>1. /\ Below(FrameNos(reports'), FrameNos(t), S)
        /\ Below(FrameNos(mReqItems'), FrameNos(t), S)
    BY <1>3, <1>6 DEF IInv, QueuesInOrder, Below
  <2>. QED BY <1>1, <1>3, <1>6, <2>1 DEF QueuesInOrder
<1>18. ToldWhenDone' /\ FailureTold'
  <2>1. ASSUME NEW x \in Range(reports')
        PROVE  Finishable(x.frameNo)' /\ (Failed(x.frameNo)' => x.status = "ERROR")
    <3>1. CASE x \in Range(reports)
      <4>1. /\ x.frameNo \in Requests /\ Finishable(x.frameNo)
            /\ Failed(x.frameNo) => x.status = "ERROR"
        BY <1>2, <3>1, EntriesTyped, ToldIsSound
      <4>. QED BY <1>9, <4>1
    <3>2. CASE x.frameNo \in FrameNos(p) /\ x.status = OwnStatus(x.frameNo)
      BY <1>10, <1>21, <3>2
    <3>. QED BY <1>6, <3>1, <3>2
  <2>. QED BY <2>1, ToldBySound
<1>19. NoneForgotten'
  <2>1. FrameNos(reports) \cup FrameNos(mReqItems) \cup FrameNos(q)
          \subseteq FrameNos(reports') \cup FrameNos(mReqItems') \cup FrameNos(t)
    BY <1>3, <1>6
  <2>2. \A a \in Requests : /\ frame[a] = "none" => frame'[a] = "none"
                            /\ frame[a] = "released" => frame'[a] = "released"
    BY <1>2, <1>7 DEF InContext
  <2>3. \A a \in Requests : \A b \in 1..a : b \in Requests
    BY DEF Requests
  <2>. QED BY <1>1, <2>1, <2>2, <2>3 DEF IInv, NoneForgotten, Told, Refused
<1>. QED BY <1>11, <1>12, <1>13, <1>14, <1>15, <1>16, <1>17, <1>18, <1>19, Zenon DEF IInv

\* The handler of a registration ends: too late, or with the capture taken.
LEMMA RegisterStreamBufferInv ==
  ASSUME IInv, RegisterStreamBuffer
  PROVE  IInv'
<1>. DEFINE r == mLock
            q == mvInFlightRequests
<1>1. /\ mLock # 0 /\ notifying = -1 /\ mLock' = 0
      /\ UNCHANGED <<frame, released, notifying, flushVars, thread, mbPreRelease, finishing,
                     requestStatus, timedOut>>
  BY DEF RegisterStreamBuffer
<1>2. /\ r \in Requests /\ Current \in Uids /\ frame[r] = "preReleased" /\ r \notin registered
      /\ TypeOK
  BY <1>1 DEF IInv, LockHolder, TypeOK
<1>3. CASE mbPreRelease[Current]
  <2>1. UNCHANGED <<registered, preReleaseBuffers, queueVars, itemVars, mPreReleaseRequests>>
    BY <1>3, Zenon DEF RegisterStreamBuffer
  <2>2. UNCHANGED <<mvInFlightRequests, mvPendingRequests, mReqItems, reports, session, mPreReleaseUid>>
    BY <1>1, <2>1 DEF queueVars, itemVars, flushVars
  <2>3. TypeOK'
    <3>1. mLock' \in Requests \cup {0}
      BY <1>1
    <3>. QED BY <1>1, <1>2, <2>1, <3>1, Zenon DEF TypeOK, queueVars, itemVars, flushVars
  <2>8. Steady
    BY <1>1, <2>1 DEF Steady
  <2>4. FramesTaken' /\ LockHolder' /\ Counted' /\ DrainSound' /\ QueuesInOrder'
    <3>1. FramesTaken' /\ DrainSound'
      <4>1. FramesTaken'
        BY <1>1, <2>1, <2>2 DEF IInv, FramesTaken, Completing
      <4>2. DrainSound'
        BY <1>1, <2>1, <2>8, SteadyKeeps
      <4>. QED BY <4>1, <4>2
    <3>2. LockHolder' /\ Counted'
      BY <1>1, <2>1, <2>2 DEF IInv, LockHolder, Counted, Current
    <3>3. QueuesInOrder'
      BY <2>1, <2>2 DEF IInv, QueuesInOrder
    <3>. QED BY <3>1, <3>2, <3>3
  <2>5. \A a \in Requests : Completing(a)' <=> Completing(a)
    BY <1>1 DEF Completing
  <2>6. InFlightSound'
    <3>1. \A x \in Range(q) : x.frameNo \in Requests
      BY <1>2, EntriesTyped
    <3>2. /\ Range(q)' = Range(q) /\ FrameNos(q)' = FrameNos(q)
          /\ FrameNos(mReqItems)' = FrameNos(mReqItems)
      BY <2>2
    <3>. QED BY <1>1, <2>1, <2>2, <2>5, <3>1, <3>2 DEF IInv, InFlightSound
  <2>7. RegisteredSound' /\ ItemsSound' /\ ToldWhenDone' /\ FailureTold' /\ NoneForgotten'
    <3>1. NoneForgotten'
      BY <1>1, <2>1, <2>2 DEF IInv, NoneForgotten, Told, Refused
    <3>. QED BY <2>2, <2>8, <3>1, SteadyKeeps
  <2>. QED BY <2>3, <2>4, <2>6, <2>7, Zenon DEF IInv
<1>4. CASE ~mbPreRelease[Current]
  <2>. DEFINE S2 == registered \cup {r}
              u == Current
              t == mvInFlightRequests'
  <2>1. /\ registered' = S2
        /\ mPreReleaseRequests' = [mPreReleaseRequests EXCEPT ![u] = @ \cup {r}]
        /\ preReleaseBuffers' = [preReleaseBuffers EXCEPT ![r] = {LastNode(r)} \ released[r]]
        /\ AddPreReleaseRequest(r, u)
    BY <1>4, Zenon DEF RegisterStreamBuffer
  <2>2. /\ mPreReleaseCnt' = mPreReleaseCnt + 1
        /\ UNCHANGED <<mvPendingRequests, reports, session, mPreReleaseUid>>
    BY <1>1, <2>1 DEF AddPreReleaseRequest, flushVars
  <2>3. /\ mReqItems' \in Seq(ReqItems) /\ t \in Seq(InFlightItems)
        /\ Range(t) \subseteq Range(q)
        /\ r \notin FrameNos(t)
        /\ FrameNos(t) \cap FrameNos(mReqItems') = {}
        /\ FrameNos(q) \cup FrameNos(mReqItems) \subseteq FrameNos(t) \cup FrameNos(mReqItems')
        /\ \A x \in Range(mReqItems') :
             \/ x \in Range(mReqItems)
             \/ x.frameNo = r /\ x.status = "PRERELEASE"
             \/ /\ x.frameNo # r /\ frame[x.frameNo] = "left" /\ x.frameNo \notin registered
                /\ x.status = "RELEASE" /\ x.requestStatus = OwnStatus(x.frameNo)
        /\ t # <<>> => ~t[1].bDone
        /\ InOrder(mReqItems', S2) /\ InOrder(t, S2)
        /\ Below(FrameNos(reports), FrameNos(mReqItems'), S2)
        /\ Below(FrameNos(reports), FrameNos(t), S2)
        /\ Below(FrameNos(mReqItems'), FrameNos(t), S2)
    BY <1>1, <1>2, <2>1, AddPreReleaseKeeps
  <2>4. TypeOK'
    <3>1. /\ registered' \in SUBSET Requests /\ mLock' \in Requests \cup {0}
          /\ mPreReleaseCnt' \in Int
          /\ mPreReleaseRequests' \in [Uids -> SUBSET Requests]
      BY <1>1, <1>2, <2>1, <2>2 DEF TypeOK
    <3>2. preReleaseBuffers' \in [Requests -> SUBSET Nat]
      <4>1. LastNode(r) \in Nat
        BY <1>2, LastNodeIs
      <4>. QED BY <1>2, <2>1, <4>1 DEF TypeOK
    <3>. QED BY <1>1, <1>2, <2>2, <2>3, <3>1, <3>2, Zenon DEF TypeOK, flushVars
  <2>5. FramesTaken'
    BY <1>1, <1>2, <2>1, <2>2 DEF IInv, FramesTaken, Completing
  <2>6. LockHolder'
    <3>1. Len(t) \in Nat
      BY <2>3
    <3>. QED BY <1>1, <2>2, <3>1 DEF IInv, LockHolder, Current
  <2>7. Counted'
    <3>. SUFFICES ASSUME 0 < Len(t) PROVE ~t[1].bDone
      BY <1>1 DEF Counted
    <3>1. t # <<>>
      BY <2>3
    <3>. QED BY <2>3, <3>1
  <2>8. \A a \in Requests : a # r => (Completing(a)' <=> Completing(a))
    BY <1>1 DEF Completing
  <2>9. InFlightSound'
    <3>1. \A x \in Range(t) : /\ frame[x.frameNo] # "none" /\ x.frameNo \notin S2
                              /\ x.bDone <=> Completing(x.frameNo)'
      <4>. SUFFICES ASSUME NEW x \in Range(t)
                   PROVE  /\ frame[x.frameNo] # "none" /\ x.frameNo \notin S2
                          /\ x.bDone <=> Completing(x.frameNo)'
        OBVIOUS
      <4>1. x \in Range(q) /\ x.frameNo \in Requests /\ x.frameNo # r
        BY <1>2, <2>3, EntriesTyped, FrameNosAre
      <4>. QED BY <2>8, <4>1 DEF IInv, InFlightSound
    <3>2. FrameNos(t) \cap mvPendingRequests = {}
      <4>1. FrameNos(t) \subseteq FrameNos(q)
        BY <2>3, FrameNosAre
      <4>. QED BY <4>1 DEF IInv, InFlightSound
    <3>. QED BY <1>1, <2>1, <2>2, <2>3, <3>1, <3>2 DEF IInv, InFlightSound
  <2>10. ASSUME NEW a \in Requests, Finishable(a)
         PROVE  Finishable(a)' /\ (Failed(a)' <=> Failed(a))
    <3>1. a # r
      BY <1>2, <2>10 DEF Finishable
    <3>2. (a \in registered' <=> a \in registered) /\ preReleaseBuffers'[a] = preReleaseBuffers[a]
      BY <1>2, <2>1, <3>1 DEF TypeOK
    <3>3. Finishable(a)'
      BY <1>1, <2>10, <3>2 DEF Finishable, LastNode
    <3>4. Checked(a)' = Checked(a)
      BY <1>1, <3>2 DEF Checked, LastNode
    <3>. QED BY <3>3, <3>4 DEF Failed
  <2>16. RegisteredSound'
    <3>. SUFFICES ASSUME NEW a \in Requests
                 PROVE  /\ preReleaseBuffers'[a] \subseteq {LastNode(a)}
                        /\ a \in S2 =>
                             \/ LastNode(a) \in preReleaseBuffers'[a]
                             \/ LastNode(a) # JpegNode /\ LastNode(a) \in released[a]
      BY <1>1, <2>1 DEF RegisteredSound, LastNode
    <3>1. CASE a = r
      <4>1. preReleaseBuffers'[a] = {LastNode(a)} \ released[a]
        BY <1>2, <2>1, <3>1 DEF TypeOK
      <4>2. JpegNode \notin released[a]
        BY <1>1, <1>2, <3>1 DEF IInv, FramesTaken, Completing
      <4>. QED BY <4>1, <4>2
    <3>2. CASE a # r
      <4>1. preReleaseBuffers'[a] = preReleaseBuffers[a] /\ (a \in S2 <=> a \in registered)
        BY <1>2, <2>1, <3>2 DEF TypeOK
      <4>. QED BY <4>1 DEF IInv, RegisteredSound
    <3>. QED BY <3>1, <3>2
  <2>11. ItemsSound'
    <3>. SUFFICES ASSUME NEW x \in Range(mReqItems')
                 PROVE  /\ x.status = "PRERELEASE" => x.frameNo \in S2
                        /\ x.status = "RELEASE" =>
                             Finishable(x.frameNo)' /\ (Failed(x.frameNo)' => x.requestStatus = "ERROR")
      BY <2>1 DEF ItemsSound
    <3>1. CASE x \in Range(mReqItems)
      <4>1. x.frameNo \in Requests
        BY <1>2, <3>1, EntriesTyped
      <4>. QED BY <2>10, <3>1, <4>1 DEF IInv, ItemsSound
    <3>2. CASE x.frameNo = r /\ x.status = "PRERELEASE"
      BY <3>2
    <3>3. CASE /\ x.frameNo # r /\ frame[x.frameNo] = "left" /\ x.frameNo \notin registered
               /\ x.status = "RELEASE" /\ x.requestStatus = OwnStatus(x.frameNo)
      BY <1>1, <1>2, <2>1, <3>3 DEF OwnStatus, Finishable, Failed, Checked
    <3>. QED BY <2>3, <3>1, <3>2, <3>3
  <2>12. DrainSound'
    <3>1. \A v \in Uids : mPreReleaseRequests'[v] \subseteq mPreReleaseRequests[v] \cup {r}
      BY <1>2, <2>1 DEF TypeOK
    <3>. QED BY <1>1, <2>1, <2>10, <3>1 DEF IInv, DrainSound
  <2>13. QueuesInOrder'
    <3>1. InOrder(reports, S2)
      BY OrderOfMore DEF IInv, QueuesInOrder
    <3>. QED BY <2>1, <2>2, <2>3, <3>1 DEF QueuesInOrder
  <2>14. ToldWhenDone' /\ FailureTold'
    <3>1. ASSUME NEW x \in Range(reports')
          PROVE  Finishable(x.frameNo)' /\ (Failed(x.frameNo)' => x.status = "ERROR")
      <4>1. x \in Range(reports) /\ x.frameNo \in Requests
        BY <1>2, <2>2, EntriesTyped
      <4>. QED BY <2>10, <4>1, ToldIsSound
    <3>. QED BY <3>1, ToldBySound
  <2>15. NoneForgotten'
    <3>1. \A a \in Requests : Refused(a) => Refused(a)'
      BY <1>1, <1>2, <2>1 DEF Refused
    <3>2. \A a \in Requests : \A b \in 1..a : b \in Requests
      BY DEF Requests
    <3>. QED BY <1>1, <2>2, <2>3, <3>1, <3>2 DEF IInv, NoneForgotten, Told
  <2>. QED BY <2>4, <2>5, <2>6, <2>7, <2>9, <2>11, <2>12, <2>13, <2>14, <2>15, <2>16, Zenon DEF IInv
<1>. QED BY <1>3, <1>4

\* start() hands out nothing: what completed before it was added has been.
LEMMA StartHandsOutNone ==
  ASSUME IInv, Start
  PROVE  /\ mPreReleaseCnt' = mPreReleaseCnt
         /\ reports' \in Seq(Reports) /\ mReqItems' \in Seq(ReqItems)
         /\ reports' = reports /\ mReqItems' = mReqItems
<1>. DEFINE q == mvInFlightRequests
            none == EntriesOf(q, mvPendingRequests)
<1>1. /\ session = "starting" /\ session' = "open" /\ HandOut(none)
      /\ q' = <<>> /\ mvPendingRequests' = {}
      /\ mbPreRelease' = [mbPreRelease EXCEPT ![Current] = TRUE]
      /\ UNCHANGED <<pipeVars, lockVars, mPreReleaseUid, mbNeedWaitPreRelease, thread,
                     mPreReleaseRequests, finishing, requestStatus, timedOut>>
  BY Zenon DEF Start, CheckInFlightRequest
<1>2. /\ q \in Seq(InFlightItems) /\ TypeOK
      /\ \A r \in Requests : frame[r] \notin InContext
      /\ mLock = 0 /\ notifying = -1
      /\ UNCHANGED <<frame, registered, released, preReleaseBuffers, mLock, notifying>>
  <2>1. \A r \in Requests : frame[r] \notin InContext
    BY <1>1 DEF IInv, FramesTaken
  <2>2. mLock = 0 /\ notifying = -1
    BY <2>1 DEF IInv, LockHolder, TypeOK
  <2>3. q \in Seq(InFlightItems) /\ TypeOK
    BY DEF IInv, TypeOK
  <2>4. UNCHANGED <<frame, registered, released, preReleaseBuffers, mLock, notifying>>
    BY <1>1 DEF pipeVars, lockVars
  <2>. QED BY <2>1, <2>2, <2>3, <2>4
<1>3. none = <<>>
  <2>1. FrameNos(q) \cap mvPendingRequests = {}
    BY DEF IInv, InFlightSound
  <2>. QED BY <1>2, <2>1, EntriesOfNone
<1>. HIDE DEF none
<1>4. /\ mPreReleaseCnt' = mPreReleaseCnt
      /\ reports' \in Seq(Reports) /\ mReqItems' \in Seq(ReqItems)
      /\ reports' = reports /\ mReqItems' = mReqItems
  <2>1. none \in Seq(InFlightItems) /\ FrameNos(none) = {} /\ Len(none) = 0 /\ DOMAIN none = {}
    BY <1>3, InOrderOfEmpty
  <2>2. reports \in Seq(Reports) /\ mReqItems \in Seq(ReqItems)
    BY <1>2 DEF TypeOK
  <2>3. /\ mPreReleaseCnt' = mPreReleaseCnt
        /\ \/ /\ mReqItems' = mReqItems
              /\ \E R \in Seq(Reports) : reports' = reports \o R /\ DOMAIN R = DOMAIN none
           \/ mReqItems' = mReqItems \o EndedItems(none, 0) /\ reports' = reports
    BY <1>1, <1>2, <2>1, HandOutIs
  <2>4. ASSUME NEW R \in Seq(Reports), DOMAIN R = DOMAIN none PROVE reports \o R = reports
    BY <2>1, <2>2, <2>4
  <2>5. mReqItems \o EndedItems(none, 0) = mReqItems
    <3>1. EndedItems(none, 0) \in Seq(ReqItems) /\ DOMAIN EndedItems(none, 0) = {}
      BY <2>1, EndedItemsAre
    <3>. QED BY <2>2, <3>1
  <2>. QED BY <2>2, <2>3, <2>4, <2>5
<1>. QED BY <1>4

\* start(): every capture has left the context, so that none in flight was
\* pending; one that is forgotten stands behind a refused one.
LEMMA StartInv ==
  ASSUME IInv, Start
  PROVE  IInv'
<1>. DEFINE q == mvInFlightRequests
<1>1. /\ session = "starting" /\ session' = "open"
      /\ q' = <<>> /\ mvPendingRequests' = {}
      /\ mbPreRelease' = [mbPreRelease EXCEPT ![Current] = TRUE]
      /\ UNCHANGED <<pipeVars, lockVars, mPreReleaseUid, mbNeedWaitPreRelease, thread,
                     mPreReleaseRequests, finishing, requestStatus, timedOut>>
  BY Zenon DEF Start, CheckInFlightRequest
<1>2. /\ q \in Seq(InFlightItems) /\ TypeOK
      /\ \A r \in Requests : frame[r] \notin InContext
      /\ mLock = 0 /\ notifying = -1
      /\ UNCHANGED <<frame, registered, released, preReleaseBuffers, mLock, notifying>>
  <2>1. \A r \in Requests : frame[r] \notin InContext
    BY <1>1 DEF IInv, FramesTaken
  <2>2. mLock = 0 /\ notifying = -1
    BY <2>1 DEF IInv, LockHolder, TypeOK
  <2>3. q \in Seq(InFlightItems) /\ TypeOK
    BY DEF IInv, TypeOK
  <2>4. UNCHANGED <<frame, registered, released, preReleaseBuffers, mLock, notifying>>
    BY <1>1 DEF pipeVars, lockVars
  <2>. QED BY <2>1, <2>2, <2>3, <2>4
<1>4. /\ mPreReleaseCnt' = mPreReleaseCnt
      /\ reports' \in Seq(Reports) /\ mReqItems' \in Seq(ReqItems)
      /\ reports' = reports /\ mReqItems' = mReqItems
  BY StartHandsOutNone
<1>5. TypeOK'
  <2>1. /\ session' \in {"open", "flushing", "starting", "closed", "waiting"}
        /\ mvPendingRequests' \in SUBSET Requests
    BY <1>1
  <2>2. mbPreRelease' \in [Uids -> BOOLEAN]
    BY <1>1, <1>2 DEF TypeOK
  <2>3. mvInFlightRequests' \in Seq(InFlightItems)
    BY <1>1
  <2>. QED BY <1>1, <1>2, <1>4, <2>1, <2>2, <2>3, Zenon DEF TypeOK, pipeVars, lockVars
<1>11. Steady
  BY <1>2 DEF Steady
<1>6. FramesTaken' /\ DrainSound' /\ Counted'
  <2>1. FramesTaken'
    BY <1>1, <1>2 DEF IInv, FramesTaken, Completing
  <2>2. Counted'
    BY <1>1, <1>2 DEF Counted
  <2>3. DrainSound'
    BY <1>1, <1>11, SteadyKeeps
  <2>. QED BY <2>1, <2>2, <2>3
<1>7. LockHolder'
  BY <1>1, <1>2 DEF IInv, LockHolder, Current
<1>8. InFlightSound' /\ QueuesInOrder'
  <2>1. FrameNos(q') = {} /\ Range(q') = {} /\ InOrder(q', registered)
    BY <1>1, InOrderOfEmpty, Zenon
  <2>2. InFlightSound'
    BY <1>1, <2>1 DEF InFlightSound
  <2>3. QueuesInOrder'
    BY <1>2, <1>4, <2>1 DEF IInv, QueuesInOrder, Below
  <2>. QED BY <2>2, <2>3
<1>9. RegisteredSound' /\ ItemsSound' /\ ToldWhenDone' /\ FailureTold'
  BY <1>4, <1>11, SteadyKeeps
<1>10. NoneForgotten'
  <2>. SUFFICES ASSUME NEW r \in Requests, r \in FrameNos(q)
               PROVE  \E h \in 1..r : Refused(h)
    BY <1>2, <1>4 DEF IInv, NoneForgotten, Told, Refused
  <2>1. PICK i \in 1..Len(q) : r = q[i].frameNo
    BY <1>2 DEF FrameNos
  <2>. DEFINE h == q[1].frameNo
  <2>2. 1 \in 1..Len(q) /\ q[1] \in Range(q) /\ q[i] \in Range(q) /\ ~q[1].bDone
    <3>1. 1 \in 1..Len(q) /\ 0 < Len(q)
      BY <1>2, <2>1
    <3>2. ~q[1].bDone
      BY <1>2, <3>1 DEF IInv, Counted
    <3>. QED BY <1>2, <2>1, <3>1, <3>2, InRange
  <2>3. /\ h \in Requests /\ frame[h] # "none" /\ h \notin registered /\ ~Completing(h)
        /\ r \notin registered
    BY <1>2, <2>1, <2>2, EntriesTyped DEF IInv, InFlightSound
  <2>4. frame[h] = "released"
    BY <1>2, <2>3 DEF Completing, InContext, TypeOK
  <2>5. h <= r
    <3>1. CASE i = 1
      BY <2>1, <2>3, <3>1 DEF Requests
    <3>2. CASE 1 < i
      <4>1. 1 \in DOMAIN q /\ i \in DOMAIN q
        BY <1>2, <2>1, <2>2
      <4>2. h < r
        BY <2>1, <2>3, <3>2, <4>1 DEF IInv, QueuesInOrder, InOrder
      <4>. QED BY <2>3, <4>2 DEF Requests
    <3>. QED BY <1>2, <3>1, <3>2
  <2>6. h \in 1..r /\ Refused(h)
    BY <2>3, <2>4, <2>5 DEF Refused, Requests
  <2>. QED BY <2>6
<1>. QED BY <1>5, <1>6, <1>7, <1>8, <1>9, <1>10, Zenon DEF IInv

\* A thread reports what it has drained, and what waited for it.
LEMMA SetRequestFinishedInv ==
  ASSUME IInv, NEW u \in Uids, SetRequestFinished(u)
  PROVE  IInv'
<1>1. /\ UNCHANGED <<pipeVars, queueVars, lockVars, flushVars, mbPreRelease,
                     mPreReleaseRequests, requestStatus, timedOut>>
      /\ finishing' = [finishing EXCEPT ![u] = 0]
      /\ thread' \in [Uids -> {"none", "waiting", "woken", "draining", "finishing",
                               "drained", "ended", "gone"}]
  BY DEF SetRequestFinished, IInv, TypeOK
<1>2. UNCHANGED <<frame, registered, released, preReleaseBuffers, mvInFlightRequests, mvPendingRequests,
                  mLock, notifying, session, mPreReleaseUid>>
  BY <1>1 DEF pipeVars, queueVars, lockVars, flushVars
<1>3. TypeOK'
  <2>1. finishing' \in [Uids -> Requests \cup {0}]
    BY <1>1 DEF IInv, TypeOK
  <2>2. mPreReleaseCnt' \in Int /\ reports' \in Seq(Reports) /\ mReqItems' \in Seq(ReqItems)
    BY FinishKeeps, Zenon
  <2>. QED BY <1>1, <2>1, <2>2, Zenon DEF IInv, TypeOK, pipeVars, queueVars, lockVars, flushVars
<1>4. FramesTaken' /\ LockHolder' /\ Counted'
  BY <1>2 DEF IInv, FramesTaken, Completing, LockHolder, Counted, Current
<1>13. Steady
  BY <1>2 DEF Steady
<1>7. \A a \in Requests : Finishable(a) => Finishable(a)' /\ (Failed(a)' <=> Failed(a))
  BY <1>13, SteadyKeeps
<1>5. DrainSound'
  <2>1. \A v \in Uids : \A a \in Requests : a = finishing'[v] => a = finishing[v]
    BY <1>1 DEF IInv, TypeOK, Requests
  <2>. QED BY <1>1, <1>2, <1>7, <2>1 DEF IInv, DrainSound
<1>6. InFlightSound'
  <2>1. \A a : Completing(a)' <=> Completing(a)
    BY <1>2 DEF Completing
  <2>2. FrameNos(mReqItems') \subseteq FrameNos(mReqItems)
    BY FinishKeeps, Zenon
  <2>. QED BY <1>2, <2>1, <2>2 DEF IInv, InFlightSound
<1>14. RegisteredSound'
  BY <1>13, SteadyKeeps
<1>8. ItemsSound'
  <2>1. \A x \in Range(mReqItems') :
          /\ x.status = "PRERELEASE" => x.frameNo \in registered
          /\ x.status = "RELEASE" =>
               Finishable(x.frameNo) /\ (Failed(x.frameNo) => x.requestStatus = "ERROR")
    BY FinishKeeps, Zenon
  <2>2. \A x \in Range(mReqItems') : x.frameNo \in Requests
    <3>1. mReqItems' \in Seq(ReqItems)
      BY FinishKeeps, Zenon
    <3>2. \A x \in ReqItems : x.frameNo \in Requests
      BY DEF ReqItems
    <3>. QED BY <3>1, <3>2, InRange
  <2>. QED BY <1>2, <1>7, <2>1, <2>2 DEF ItemsSound
<1>9. ToldWhenDone' /\ FailureTold'
  <2>1. \A x \in Range(reports') :
          x \in Range(reports) \/
            (Finishable(x.frameNo) /\ (Failed(x.frameNo) => x.status = "ERROR"))
    BY FinishKeeps, Zenon
  <2>3. \A x \in Range(reports') : x.frameNo \in Requests
    <3>1. reports' \in Seq(Reports)
      BY FinishKeeps, Zenon
    <3>2. \A x \in Reports : x.frameNo \in Requests
      BY DEF Reports
    <3>. QED BY <3>1, <3>2, InRange
  <2>2. \A x \in Range(reports') : Finishable(x.frameNo)' /\ (Failed(x.frameNo)' => x.status = "ERROR")
    BY <1>7, <2>1, <2>3, ToldIsSound
  <2>. QED BY <2>2, ToldBySound
<1>10. /\ FrameNos(reports') \cup FrameNos(mReqItems') = FrameNos(reports) \cup FrameNos(mReqItems)
       /\ InOrder(reports', registered) /\ InOrder(mReqItems', registered)
       /\ Below(FrameNos(reports'), FrameNos(mReqItems'), registered)
  BY FinishKeeps, Zenon
<1>11. NoneForgotten'
  BY <1>2, <1>10 DEF IInv, NoneForgotten, Told, Refused
<1>12. QueuesInOrder'
  <2>1. /\ Below(FrameNos(reports'), FrameNos(mvInFlightRequests), registered)
        /\ Below(FrameNos(mReqItems'), FrameNos(mvInFlightRequests), registered)
    BY <1>10 DEF IInv, QueuesInOrder, Below
  <2>. QED BY <1>2, <1>10, <2>1 DEF IInv, QueuesInOrder
<1>. QED BY <1>3, <1>4, <1>5, <1>6, <1>8, <1>9, <1>11, <1>12, <1>14, Zenon DEF IInv

\* No step disturbs IInv.
LEMMA NextIInv == IInv /\ [Next]_vars => IInv'
<1>. SUFFICES ASSUME IInv, [Next]_vars PROVE IInv'
  OBVIOUS
<1>1. ASSUME Handler \/ Session \/ BeginFlush \/ CloseSession PROVE IInv'
  BY <1>1, CallBackInv, RegisterStreamBufferInv, StartInv, SessionQuiet, Zenon DEF Handler, Session
<1>2. ASSUME NEW r \in Requests,
             AddCaptureRequest(r) \/ RegisterCapture(r) \/ Leaves(r) \/ Releases(r)
      PROVE  IInv'
  BY <1>2, AddCaptureInv, CaptureCompletedInv, FrameQuiet, Zenon DEF Leaves
<1>3. ASSUME NEW u \in Uids, Thread(u) \/ WaitTimesOut(u) PROVE IInv'
  BY <1>3, ThreadQuiet, SetRequestFinishedInv, Zenon DEF Thread
<1>4. CASE UNCHANGED vars
  <2>1. /\ UNCHANGED <<pipeVars, queueVars, itemVars, lockVars, flushVars, drainVars>>
    BY <1>4 DEF vars
  <2>2. Quiet
    BY <2>1 DEF Quiet, Steady, GoesOn, pipeVars, itemVars, lockVars
  <2>3. TypeOK'
    BY <2>1, Zenon
       DEF IInv, TypeOK, pipeVars, queueVars, itemVars, lockVars, flushVars, drainVars
  <2>4. FramesTaken' /\ LockHolder' /\ DrainSound'
    <3>1. FramesTaken' /\ LockHolder'
      BY <2>1 DEF IInv, FramesTaken, Completing, LockHolder, Current,
                  pipeVars, queueVars, lockVars, flushVars
    <3>. QED BY <2>1, <2>2, <3>1, SteadyKeeps DEF Quiet, drainVars
  <2>. QED BY <2>2, <2>3, <2>4, QuietInv, Zenon
<1>. QED BY <1>1, <1>2, <1>3, <1>4, Zenon DEF Next

\* The inductive invariant: where each capture is, who holds the manager's
\* lock, what it has counted, and what the threads have drained.
THEOREM Invariance == Spec => []IInv
BY InitIInv, NextIInv, PTL DEF Spec

\* The app is told of a capture only when its frame has completed, or when every
\* user has released what registration kept of a pre-released one: the buffers of
\* the last node of its frame, whatever nodes come behind JpegNode.
THEOREM ToldWhenDoneHolds == Spec => []ToldWhenDone
<1>1. IInv => ToldWhenDone
  BY DEF IInv
<1>. QED BY <1>1, Invariance, PTL

\* A failure in what a report looks at is never reported as a success: JpegNode's
\* own, if its frame completed, or that of the buffers registration kept.
THEOREM FailureToldHolds == Spec => []FailureTold
<1>1. IInv => FailureTold
  BY DEF IInv
<1>. QED BY <1>1, Invariance, PTL

\* Where no node comes behind JpegNode in any frame, what registration keeps is
\* the picture: the app is told of a pre-released capture only when its picture
\* is there, and never of success if the picture failed.
THEOREM PictureThereHolds ==
  ASSUME \A r \in Requests : LastNode(r) = JpegNode
  PROVE  Spec => [](PictureThere /\ PictureFailureTold)
<1>1. IInv => PictureThere
  BY DEF IInv, TypeOK, ToldWhenDone, PictureThere
<1>2. IInv => PictureFailureTold
  <2>. SUFFICES ASSUME IInv, NEW i \in DOMAIN reports, NEW r, r = reports[i].frameNo,
                       r \in registered, <<r, JpegNode>> \in Bad
               PROVE  reports[i].status = "ERROR"
    BY DEF PictureFailureTold
  <2>1. r \in Requests
    BY DEF IInv, TypeOK
  <2>2. Failed(r)
    BY <2>1 DEF Failed, Checked
  <2>. QED BY <2>2 DEF IInv, FailureTold
<1>. QED BY <1>1, <1>2, Invariance, PTL

\* The queues lose no capture, unless one whose flush timed out is in its way.
THEOREM NoneForgottenHolds == Spec => []NoneForgotten
<1>1. IInv => NoneForgotten
  BY DEF IInv
<1>. QED BY <1>1, Invariance, PTL

\* Captures that no flush pre-released are reported in the order they were taken.
THEOREM OthersInOrderHolds == Spec => []OthersInOrder
<1>1. IInv => OthersInOrder
  BY DEF IInv, QueuesInOrder, InOrder, OthersInOrder
<1>. QED BY <1>1, Invariance, PTL

-----------------------------------------------------------------------------
(***************************************************************************)
(* What has been reported and, behind it, the items that wait to be, are   *)
(* one line of captures.  It only grows at its end, and nobody stands in   *)
(* it twice.                                                               *)
(***************************************************************************)
Nos(q) == [i \in DOMAIN q |-> q[i].frameNo]
Line == Nos(reports) \o Nos(mReqItems)
Distinct(s) == \A i, j \in DOMAIN s : i # j => s[i] # s[j]

\* What a step does to it: captures that do not stand in it yet, each once,
\* queue up at its end.
QueueUp ==
  \E s \in Seq(Requests) :
    /\ Line' = Line \o s
    /\ Distinct(s)
    /\ Range(s) \cap Range(Line) = {}

\* The captures of a queue, as a sequence.
LEMMA NosAre ==
  ASSUME NEW T, \A x \in T : x.frameNo \in Requests, NEW q \in Seq(T)
  PROVE  /\ Nos(q) \in Seq(Requests) /\ Len(Nos(q)) = Len(q)
         /\ \A i \in 1..Len(q) : Nos(q)[i] = q[i].frameNo
         /\ Range(Nos(q)) = FrameNos(q)
<1>1. DOMAIN q = 1..Len(q) /\ Len(q) \in Nat /\ \A i \in 1..Len(q) : q[i].frameNo \in Requests
  OBVIOUS
<1>2. Nos(q) = [i \in 1..Len(q) |-> q[i].frameNo]
  BY <1>1, Zenon DEF Nos
<1>3. Nos(q) \in Seq(Requests) /\ Len(Nos(q)) = Len(q)
  BY <1>1, <1>2
<1>4. Range(Nos(q)) = FrameNos(q)
  BY <1>1, <1>2 DEF Range, FrameNos
<1>. QED BY <1>2, <1>3, <1>4

\* The entries of each queue are of captures.
LEMMA TypedNos ==
  /\ \A x \in InFlightItems : x.frameNo \in Requests
  /\ \A x \in ReqItems : x.frameNo \in Requests
  /\ \A x \in Reports : x.frameNo \in Requests
BY DEF InFlightItems, ReqItems, Reports

\* The captures of two queues joined.
LEMMA NosJoined ==
  ASSUME NEW T, \A x \in T : x.frameNo \in Requests, NEW p \in Seq(T), NEW q \in Seq(T)
  PROVE  Nos(p \o q) = Nos(p) \o Nos(q)
<1>1. /\ p \o q \in Seq(T) /\ Len(p \o q) = Len(p) + Len(q)
      /\ \A i \in 1..Len(p) : (p \o q)[i] = p[i]
      /\ \A i \in 1..Len(q) : (p \o q)[Len(p) + i] = q[i]
  OBVIOUS
<1>. DEFINE v == Nos(p) \o Nos(q)
            w == Nos(p \o q)
<1>2. /\ w \in Seq(Requests) /\ Len(w) = Len(p) + Len(q)
      /\ \A i \in 1..(Len(p) + Len(q)) : w[i] = (p \o q)[i].frameNo
  BY <1>1, NosAre
<1>3. /\ v \in Seq(Requests) /\ Len(v) = Len(p) + Len(q)
      /\ \A i \in 1..Len(p) : v[i] = p[i].frameNo
      /\ \A i \in 1..Len(q) : v[Len(p) + i] = q[i].frameNo
  <2>. DEFINE a == Nos(p)
              b == Nos(q)
  <2>1. /\ a \in Seq(Requests) /\ Len(a) = Len(p)
        /\ \A i \in 1..Len(p) : a[i] = p[i].frameNo
        /\ b \in Seq(Requests) /\ Len(b) = Len(q)
        /\ \A i \in 1..Len(q) : b[i] = q[i].frameNo
    BY NosAre
  <2>2. v = a \o b
    OBVIOUS
  <2>. HIDE DEF a, b, v
  <2>3. /\ v \in Seq(Requests) /\ Len(v) = Len(a) + Len(b)
        /\ \A i \in 1..Len(a) : v[i] = a[i]
        /\ \A i \in 1..Len(b) : v[Len(a) + i] = b[i]
    <3>1. a \in Seq(Requests) /\ b \in Seq(Requests)
      BY <2>1
    <3>2. /\ a \o b \in Seq(Requests) /\ Len(a \o b) = Len(a) + Len(b)
          /\ \A i \in 1..Len(a) : (a \o b)[i] = a[i]
          /\ \A i \in 1..Len(b) : (a \o b)[Len(a) + i] = b[i]
      BY <3>1
    <3>. QED BY <2>2, <3>2, Zenon
  <2>. QED BY <2>1, <2>3
<1>. HIDE DEF v, w
<1>4. ASSUME NEW i \in 1..(Len(p) + Len(q)) PROVE w[i] = v[i]
  <2>1. CASE i \in 1..Len(p)
    BY <1>1, <1>2, <1>3, <2>1
  <2>2. CASE i \notin 1..Len(p)
    <3>1. i - Len(p) \in 1..Len(q) /\ i = Len(p) + (i - Len(p))
      BY <2>2
    <3>. QED BY <1>1, <1>2, <1>3, <3>1
  <2>. QED BY <2>1, <2>2
<1>5. w = v
  BY <1>2, <1>3, <1>4
<1>. QED BY <1>5 DEF v, w

\* Two queues of the same captures stand for the same sequence.
LEMMA SameNos ==
  ASSUME NEW p, NEW q, DOMAIN p = DOMAIN q,
         \A i \in DOMAIN p : p[i].frameNo = q[i].frameNo
  PROVE  Nos(p) = Nos(q)
BY DEF Nos

\* Joining is associative.
LEMMA JoinThree ==
  ASSUME NEW T, NEW a \in Seq(T), NEW b \in Seq(T), NEW c \in Seq(T)
  PROVE  (a \o b) \o c = a \o (b \o c)
<1>. DEFINE v == (a \o b) \o c
            w == a \o (b \o c)
            n == Len(a) + Len(b) + Len(c)
<1>1. /\ v \in Seq(T) /\ Len(v) = n /\ w \in Seq(T) /\ Len(w) = n
  OBVIOUS
<1>2. ASSUME NEW i \in 1..n PROVE v[i] = w[i]
  <2>1. CASE i <= Len(a)
    BY <2>1
  <2>2. CASE Len(a) < i /\ i <= Len(a) + Len(b)
    BY <2>2
  <2>3. CASE Len(a) + Len(b) < i
    BY <2>3
  <2>. QED BY <2>1, <2>2, <2>3
<1>. HIDE DEF v, w
<1>3. v = w
  BY <1>1, <1>2
<1>. QED BY <1>3 DEF v, w

\* Joining two sequences that share nothing repeats nothing.
LEMMA DistinctJoined ==
  ASSUME NEW T, NEW p \in Seq(T), NEW q \in Seq(T),
         Distinct(p), Distinct(q), Range(p) \cap Range(q) = {}
  PROVE  Distinct(p \o q)
<1>. DEFINE n == Len(p)
            w == p \o q
<1>1. /\ n \in Nat /\ Len(q) \in Nat
      /\ DOMAIN p = 1..n /\ DOMAIN q = 1..Len(q) /\ DOMAIN w = 1..(n + Len(q))
      /\ \A i \in 1..n : w[i] = p[i]
      /\ \A i \in 1..Len(q) : w[n + i] = q[i]
  OBVIOUS
<1>2. \A i \in 1..n, j \in 1..Len(q) : p[i] # q[j]
  <2>1. /\ \A i \in 1..n : p[i] \in Range(p)
        /\ \A i \in 1..Len(q) : q[i] \in Range(q)
    BY InRange
  <2>. QED BY <2>1
<1>3. \A i \in 1..(n + Len(q)) : i \in 1..n \/ \E a \in 1..Len(q) : i = n + a
  <2>. SUFFICES ASSUME NEW i \in 1..(n + Len(q)), i \notin 1..n
               PROVE  \E a \in 1..Len(q) : i = n + a
    OBVIOUS
  <2>1. i - n \in 1..Len(q) /\ i = n + (i - n)
    BY <1>1
  <2>. QED BY <2>1
<1>. HIDE DEF n, w
<1>. SUFFICES ASSUME NEW i \in 1..(n + Len(q)), NEW j \in 1..(n + Len(q)), i # j
             PROVE  w[i] # w[j]
  BY <1>1, Zenon DEF Distinct, w
<1>4. CASE i \in 1..n /\ j \in 1..n
  BY <1>1, <1>4 DEF Distinct
<1>5. CASE i \in 1..n /\ j \notin 1..n
  BY <1>1, <1>2, <1>3, <1>5
<1>6. CASE i \notin 1..n /\ j \in 1..n
  BY <1>1, <1>2, <1>3, <1>6
<1>7. CASE i \notin 1..n /\ j \notin 1..n
  <2>1. PICK a \in 1..Len(q) : i = n + a
    BY <1>3, <1>7
  <2>2. PICK b \in 1..Len(q) : j = n + b
    BY <1>3, <1>7
  <2>3. a # b
    BY <2>1, <2>2
  <2>. QED BY <1>1, <2>1, <2>2, <2>3 DEF Distinct
<1>. QED BY <1>4, <1>5, <1>6, <1>7

\* A queue in order, none of whose captures is set aside, holds each once.
LEMMA InOrderDistinct ==
  ASSUME NEW q \in Seq(InFlightItems), NEW S, InOrder(q, S), FrameNos(q) \cap S = {}
  PROVE  Distinct(Nos(q))
<1>1. DOMAIN q = 1..Len(q) /\ Len(q) \in Nat /\ DOMAIN Nos(q) = 1..Len(q)
  BY DEF Nos
<1>2. \A i \in 1..Len(q) : q[i].frameNo \in Requests /\ q[i].frameNo \notin S
  BY <1>1, TypedNos DEF FrameNos
<1>3. \A i \in 1..Len(q) : Nos(q)[i] = q[i].frameNo
  BY <1>1 DEF Nos
<1>. SUFFICES ASSUME NEW i \in 1..Len(q), NEW j \in 1..Len(q), i # j
             PROVE  q[i].frameNo # q[j].frameNo
  BY <1>1, <1>3 DEF Distinct
<1>4. i < j \/ j < i
  OBVIOUS
<1>. QED BY <1>1, <1>2, <1>4 DEF InOrder, Requests

\* The items of captures that have ended stand for the same captures.
LEMMA NosOfEnded ==
  ASSUME NEW q \in Seq(InFlightItems), NEW u \in Uids \cup {0}
  PROVE  EndedItems(q, u) \in Seq(ReqItems) /\ Nos(EndedItems(q, u)) = Nos(q)
<1>. DEFINE E == EndedItems(q, u)
<1>1. /\ E \in Seq(ReqItems) /\ DOMAIN E = DOMAIN q
      /\ \A i \in DOMAIN q : E[i] = ReqItem(q[i].frameNo, u, "RELEASE", OwnStatus(q[i].frameNo))
  BY EndedItemsAre, Zenon
<1>. HIDE DEF E
<1>2. \A i \in DOMAIN E : E[i].frameNo = q[i].frameNo
  BY <1>1 DEF ReqItem
<1>3. Nos(E) = Nos(q)
  BY <1>1, <1>2, SameNos
<1>. QED BY <1>1, <1>3 DEF E

\* Who stands in the line.
LEMMA LineIs ==
  ASSUME TypeOK
  PROVE  /\ Nos(reports) \in Seq(Requests) /\ Nos(mReqItems) \in Seq(Requests)
         /\ Line \in Seq(Requests)
         /\ Range(Line) = FrameNos(reports) \cup FrameNos(mReqItems)
<1>1. reports \in Seq(Reports) /\ mReqItems \in Seq(ReqItems)
  BY DEF TypeOK
<1>2. /\ Nos(reports) \in Seq(Requests) /\ Range(Nos(reports)) = FrameNos(reports)
      /\ Nos(mReqItems) \in Seq(Requests) /\ Range(Nos(mReqItems)) = FrameNos(mReqItems)
  BY <1>1, TypedNos, NosAre
<1>. QED BY <1>2, Joined DEF Line

\* A step that reports nothing and queues nothing.
LEMMA LineStays ==
  ASSUME TypeOK, Line' = Line
  PROVE  QueueUp
<1>1. Line \in Seq(Requests)
  BY LineIs
<1>2. Line \o <<>> = Line /\ <<>> \in Seq(Requests) /\ Distinct(<<>>) /\ Range(<<>>) = {}
  BY <1>1 DEF Distinct, Range
<1>. QED BY <1>2 DEF QueueUp

\* No capture in flight stands in the line.
LEMMA InFlightApart ==
  ASSUME IInv
  PROVE  /\ FrameNos(mvInFlightRequests) \cap Range(Line) = {}
         /\ FrameNos(mvInFlightRequests) \cap registered = {}
<1>1. TypeOK /\ FrameNos(mvInFlightRequests) \subseteq Requests
  BY FrameNosTyped DEF IInv, TypeOK
<1>2. FrameNos(mvInFlightRequests) \cap registered = {}
  BY FrameNosAre DEF IInv, InFlightSound
<1>3. FrameNos(mvInFlightRequests) \cap FrameNos(reports) = {}
  <2>. SUFFICES ASSUME NEW r \in Requests, r \in FrameNos(mvInFlightRequests), r \in FrameNos(reports)
               PROVE  FALSE
    BY <1>1
  <2>1. r \notin registered
    BY <1>2
  <2>2. r < r
    BY <2>1 DEF IInv, QueuesInOrder, Below
  <2>. QED BY <2>2 DEF Requests
<1>4. FrameNos(mvInFlightRequests) \cap FrameNos(mReqItems) = {}
  BY DEF IInv, InFlightSound
<1>. QED BY <1>1, <1>2, <1>3, <1>4, LineIs

\* notifyCaptureCompleted() hands out the head of the queue in flight: reported
\* when nothing waits, else queued as items.
LEMMA CallBackLine ==
  ASSUME IInv, CallBack
  PROVE  QueueUp
<1>. DEFINE q == SubSeq(mvInFlightRequests, 1, notifying)
            E == EndedItems(q, 0)
<1>1. /\ TypeOK /\ mvInFlightRequests \in Seq(InFlightItems)
      /\ notifying \in 0..Len(mvInFlightRequests) /\ HandOut(q)
  BY DEF IInv, TypeOK, LockHolder, CallBack
<1>2. /\ q \in Seq(InFlightItems)
      /\ FrameNos(q) \subseteq FrameNos(mvInFlightRequests)
      /\ InOrder(q, registered)
  <2>1. InOrder(mvInFlightRequests, registered)
    BY DEF IInv, QueuesInOrder
  <2>. QED BY <1>1, <2>1, Cut
<1>. HIDE DEF q
<1>3. FrameNos(q) \cap Range(Line) = {} /\ FrameNos(q) \cap registered = {}
  BY <1>2, InFlightApart
<1>4. /\ Nos(q) \in Seq(Requests) /\ Range(Nos(q)) = FrameNos(q) /\ Distinct(Nos(q))
  BY <1>2, <1>3, TypedNos, NosAre, InOrderDistinct
<1>5. /\ Nos(reports) \in Seq(Requests) /\ Nos(mReqItems) \in Seq(Requests)
      /\ FrameNos(q) \cap FrameNos(mReqItems) = {}
      /\ reports \in Seq(Reports) /\ mReqItems \in Seq(ReqItems)
  BY <1>1, <1>3, LineIs DEF TypeOK
<1>6. Line' = Line \o Nos(q)
  <2>1. CASE /\ mReqItems = <<>> /\ mReqItems' = mReqItems
             /\ \E R \in Seq(Reports) :
                  /\ reports' = reports \o R
                  /\ DOMAIN R = DOMAIN q
                  /\ \A i \in DOMAIN q : R[i] = [frameNo |-> q[i].frameNo,
                                                status |-> OwnStatus(q[i].frameNo)]
    <3>1. PICK R \in Seq(Reports) :
            /\ reports' = reports \o R
            /\ DOMAIN R = DOMAIN q
            /\ \A i \in DOMAIN q : R[i] = [frameNo |-> q[i].frameNo,
                                          status |-> OwnStatus(q[i].frameNo)]
      BY <2>1, Zenon
    <3>2. Nos(R) = Nos(q)
      <4>1. \A i \in DOMAIN q : R[i].frameNo = q[i].frameNo
        BY <3>1
      <4>. QED BY <3>1, <4>1, SameNos
    <3>3. Nos(reports') = Nos(reports) \o Nos(q)
      BY <1>5, <3>1, <3>2, TypedNos, NosJoined
    <3>4. Nos(mReqItems) = <<>> /\ Nos(mReqItems') = <<>>
      <4>1. Nos(<<>>) = <<>>
        BY DEF Nos
      <4>. QED BY <2>1, <4>1, Zenon
    <3>5. Line' = (Nos(reports) \o Nos(q)) \o <<>> /\ Line = Nos(reports) \o <<>>
      BY <3>3, <3>4, Zenon DEF Line
    <3>. QED BY <1>4, <1>5, <3>5
  <2>2. CASE mReqItems' = mReqItems \o E /\ reports' = reports
    <3>1. E \in Seq(ReqItems) /\ Nos(E) = Nos(q)
      <4>1. 0 \in Uids \cup {0}
        OBVIOUS
      <4>. QED BY <1>2, <4>1, NosOfEnded, Zenon
    <3>. HIDE DEF E
    <3>2. Nos(mReqItems') = Nos(mReqItems) \o Nos(q)
      BY <1>5, <2>2, <3>1, TypedNos, NosJoined
    <3>3. Line' = Nos(reports) \o (Nos(mReqItems) \o Nos(q))
      BY <2>2, <3>2, Zenon DEF Line
    <3>4. (Nos(reports) \o Nos(mReqItems)) \o Nos(q) = Nos(reports) \o (Nos(mReqItems) \o Nos(q))
      <4>1. \A a, b, c \in Seq(Requests) : (a \o b) \o c = a \o (b \o c)
        BY JoinThree
      <4>. QED BY <1>4, <1>5, <4>1, Zenon
    <3>. QED BY <3>3, <3>4, Zenon DEF Line
  <2>. QED BY <1>1, <1>2, <1>5, <2>1, <2>2, HandOutIs
<1>. QED BY <1>3, <1>4, <1>6 DEF QueueUp

\* registerStreamBuffer(): the capture and those that have ended behind it.
LEMMA RegisterLine ==
  ASSUME IInv, RegisterStreamBuffer
  PROVE  QueueUp
<1>. DEFINE r == mLock
            u == Current
<1>1. CASE mbPreRelease[u]
  <2>1. reports' = reports /\ mReqItems' = mReqItems
    BY <1>1 DEF RegisterStreamBuffer, itemVars
  <2>2. Line' = Line
    BY <2>1, Zenon DEF Line
  <2>. QED BY <2>2, LineStays DEF IInv
<1>2. CASE ~mbPreRelease[u]
  <2>. DEFINE w == Without(mvInFlightRequests, r)
              p == DonePrefix(w)
              E == EndedItems(p, u)
              x == ReqItem(r, u, "PRERELEASE", "UNKNOWN")
  <2>1. /\ TypeOK /\ mvInFlightRequests \in Seq(InFlightItems)
        /\ reports \in Seq(Reports) /\ mReqItems \in Seq(ReqItems)
        /\ mLock # 0 /\ notifying = -1
        /\ r \in Requests /\ u \in Uids
        /\ frame[r] = "preReleased" /\ r \notin registered
    BY DEF IInv, TypeOK, LockHolder, RegisterStreamBuffer, Current
  <2>2. mReqItems' = Append(mReqItems, x) \o E /\ reports' = reports
    BY <1>2, Zenon DEF RegisterStreamBuffer, AddPreReleaseRequest
  <2>3. /\ InOrder(mvInFlightRequests, registered)
        /\ FrameNos(mvInFlightRequests) \cap registered = {}
        /\ FrameNos(mvInFlightRequests) \cap Range(Line) = {}
    BY InFlightApart DEF IInv, QueuesInOrder
  <2>4. /\ w \in Seq(InFlightItems) /\ InOrder(w, registered)
        /\ FrameNos(w) = FrameNos(mvInFlightRequests) \ {r}
    BY <2>1, <2>3, WithoutIs
  <2>. HIDE DEF w
  <2>5. /\ p \in Seq(InFlightItems) /\ InOrder(p, registered) /\ FrameNos(p) \subseteq FrameNos(w)
    <3>1. PICK n \in 0..Len(w) : p = SubSeq(w, 1, n)
      BY <2>4, DonePrefixIs
    <3>2. /\ SubSeq(w, 1, n) \in Seq(InFlightItems) /\ InOrder(SubSeq(w, 1, n), registered)
          /\ FrameNos(SubSeq(w, 1, n)) \subseteq FrameNos(w)
      BY <2>4, Cut
    <3>. QED BY <3>1, <3>2, Zenon
  <2>. HIDE DEF p
  <2>6. E \in Seq(ReqItems) /\ Nos(E) = Nos(p)
    <3>1. u \in Uids \cup {0}
      BY <2>1
    <3>. HIDE DEF u
    <3>. QED BY <2>5, <3>1, NosOfEnded, Zenon
  <2>7. x \in ReqItems /\ x.frameNo = r
    BY <2>1 DEF ReqItem, ReqItems
  <2>. HIDE DEF E, x
  <2>8. /\ Nos(E) = Nos(p) /\ Nos(p) \in Seq(Requests) /\ Range(Nos(p)) = FrameNos(p)
        /\ Distinct(Nos(p))
    <3>1. FrameNos(p) \cap registered = {}
      BY <2>3, <2>4, <2>5
    <3>. QED BY <2>5, <2>6, <3>1, TypedNos, NosAre, InOrderDistinct
  <2>. DEFINE s == <<r>> \o Nos(p)
  <2>9. /\ <<r>> \in Seq(Requests) /\ Range(<<r>>) = {r} /\ Distinct(<<r>>)
    BY <2>1 DEF Range, Distinct
  <2>10. /\ s \in Seq(Requests) /\ Range(s) = {r} \cup FrameNos(p) /\ Distinct(s)
    <3>1. r \notin FrameNos(p)
      BY <2>4, <2>5
    <3>2. s \in Seq(Requests) /\ Range(s) = Range(<<r>>) \cup Range(Nos(p))
      <4>1. ASSUME NEW a \in Seq(Requests), NEW b \in Seq(Requests)
            PROVE  a \o b \in Seq(Requests) /\ Range(a \o b) = Range(a) \cup Range(b)
        BY Joined
      <4>. QED BY <2>8, <2>9, <4>1, Zenon
    <3>. QED BY <2>8, <2>9, <3>1, <3>2, DistinctJoined
  <2>11. r \notin Range(Line)
    <3>1. ~Finishable(r)
      BY <2>1 DEF Finishable
    <3>2. r \notin FrameNos(reports)
      BY <2>1, <3>1 DEF IInv, ToldWhenDone, Told, Finishable
    <3>3. r \notin FrameNos(mReqItems)
      <4>. SUFFICES ASSUME NEW y \in Range(mReqItems), y.frameNo = r PROVE FALSE
        BY FrameNosAre
      <4>1. y.status \in {"RELEASE", "PRERELEASE"}
        BY <2>1, EntriesTyped DEF ReqItems
      <4>. QED BY <2>1, <3>1, <4>1 DEF IInv, ItemsSound
    <3>. QED BY <2>1, <3>2, <3>3, LineIs
  <2>12. Line' = Line \o s
    <3>1. /\ Nos(reports) \in Seq(Requests) /\ Nos(mReqItems) \in Seq(Requests)
      BY <2>1, LineIs
    <3>2. /\ <<x>> \in Seq(ReqItems) /\ Append(mReqItems, x) = mReqItems \o <<x>>
          /\ Nos(<<x>>) = <<r>>
      BY <2>1, <2>7 DEF Nos
    <3>3. mReqItems' = mReqItems \o (<<x>> \o E) /\ <<x>> \o E \in Seq(ReqItems)
      BY <2>1, <2>2, <2>6, <3>2, JoinThree
    <3>4. Nos(<<x>> \o E) = s
      <4>1. Nos(<<x>> \o E) = Nos(<<x>>) \o Nos(E)
        BY <2>6, <3>2, TypedNos, NosJoined
      <4>. QED BY <2>8, <3>2, <4>1, Zenon
    <3>. HIDE DEF s
    <3>5. Nos(mReqItems') = Nos(mReqItems) \o s
      <4>1. Nos(mReqItems \o (<<x>> \o E)) = Nos(mReqItems) \o Nos(<<x>> \o E)
        BY <2>1, <3>3, TypedNos, NosJoined
      <4>. QED BY <3>3, <3>4, <4>1, Zenon
    <3>6. Line' = Nos(reports) \o (Nos(mReqItems) \o s)
      BY <2>2, <3>5, Zenon DEF Line
    <3>7. (Nos(reports) \o Nos(mReqItems)) \o s = Nos(reports) \o (Nos(mReqItems) \o s)
      <4>1. s \in Seq(Requests)
        BY <2>10
      <4>. QED BY <3>1, <4>1, JoinThree
    <3>. QED BY <3>6, <3>7, Zenon DEF Line
  <2>13. Range(s) \cap Range(Line) = {}
    BY <2>3, <2>4, <2>5, <2>10, <2>11
  <2>. HIDE DEF s
  <2>. QED BY <2>10, <2>12, <2>13 DEF QueueUp
<1>. QED BY <1>1, <1>2

\* setRequestFinished(): the items at the head become reports; the line stays.
LEMMA FinishLine ==
  ASSUME IInv, NEW u \in Uids, SetRequestFinished(u)
  PROVE  QueueUp
<1>. DEFINE q == Finished(u)
            n == Len(ReleasedPrefix(q))
            p == SubSeq(q, 1, n)
            t == Rest(q, n)
            R == [i \in DOMAIN p |-> Report(p[i])]
<1>1. /\ reports \in Seq(Reports) /\ mReqItems \in Seq(ReqItems) /\ TypeOK
  BY DEF IInv, TypeOK
<1>2. /\ q \in Seq(ReqItems) /\ DOMAIN q = DOMAIN mReqItems
      /\ \A i \in DOMAIN mReqItems : q[i].frameNo = mReqItems[i].frameNo
  BY <1>1, FinishedIs
<1>3. n \in 0..Len(q) /\ ReleasedPrefix(q) = p
  BY <1>2, ReleasedPrefixIs
<1>4. mReqItems' = t /\ reports' = reports \o R
  BY <1>3, Zenon DEF SetRequestFinished
<1>. HIDE DEF q, n
<1>5. p \in Seq(ReqItems) /\ t \in Seq(ReqItems) /\ q = p \o t
  BY <1>2, <1>3, CutAt
<1>. HIDE DEF p, t
<1>6. Nos(mReqItems) = Nos(p) \o Nos(t)
  <2>1. Nos(q) = Nos(mReqItems)
    BY <1>2, SameNos
  <2>. QED BY <1>5, <2>1, TypedNos, NosJoined
<1>7. R \in Seq(Reports) /\ Nos(R) = Nos(p)
  <2>1. \A x \in ReqItems : Report(x) \in Reports /\ Report(x).frameNo = x.frameNo
    BY DEF Report, Reports, ReqItems
  <2>2. \A i \in 1..Len(p) : p[i] \in ReqItems
    BY <1>5
  <2>3. DOMAIN p = 1..Len(p) /\ Len(p) \in Nat
    BY <1>5
  <2>4. R = [i \in 1..Len(p) |-> Report(p[i])]
    BY <2>3
  <2>5. R \in Seq(Reports)
    <3>1. \A i \in 1..Len(p) : Report(p[i]) \in Reports
      BY <2>1, <2>2
    <3>. HIDE DEF R
    <3>. QED BY <2>3, <2>4, <3>1
  <2>6. DOMAIN R = DOMAIN p /\ \A i \in DOMAIN R : R[i].frameNo = p[i].frameNo
    BY <2>1, <2>2, <2>3
  <2>. HIDE DEF R
  <2>7. Nos(R) = Nos(p)
    BY <2>6, SameNos
  <2>. QED BY <2>5, <2>7
<1>. HIDE DEF R
<1>8. Nos(reports') = Nos(reports) \o Nos(p)
  BY <1>1, <1>4, <1>7, TypedNos, NosJoined
<1>9. /\ Nos(reports) \in Seq(Requests) /\ Nos(p) \in Seq(Requests) /\ Nos(t) \in Seq(Requests)
  BY <1>1, <1>5, TypedNos, NosAre
<1>10. Line' = (Nos(reports) \o Nos(p)) \o Nos(t) /\ Line = Nos(reports) \o (Nos(p) \o Nos(t))
  BY <1>4, <1>6, <1>8, Zenon DEF Line
<1>11. Line' = Line
  BY <1>9, <1>10, JoinThree
<1>. QED BY <1>1, <1>11, LineStays

\* Every step only queues up.
LEMMA NextLine ==
  IInv /\ [Next]_vars => QueueUp
<1>. SUFFICES ASSUME IInv, [Next]_vars PROVE QueueUp
  OBVIOUS
<1>1. ASSUME reports' = reports, mReqItems' = mReqItems PROVE QueueUp
  <2>1. Line' = Line
    BY <1>1, Zenon DEF Line
  <2>. QED BY <2>1, LineStays DEF IInv
<1>2. ASSUME UNCHANGED itemVars PROVE QueueUp
  BY <1>1, <1>2 DEF itemVars
<1>3. ASSUME Handler PROVE QueueUp
  BY <1>3, CallBackLine, RegisterLine, Zenon DEF Handler
<1>4. ASSUME Session \/ BeginFlush \/ CloseSession PROVE QueueUp
  <2>1. CASE Start
    BY <1>1, <2>1, StartHandsOutNone, Zenon
  <2>2. CASE EndFlush \/ SetImageReaderID \/ BeginFlush \/ CloseSession
    BY <1>2, <2>2, Zenon DEF EndFlush, SetImageReaderID, BeginFlush, CloseSession
  <2>. QED BY <1>4, <2>1, <2>2, Zenon DEF Session
<1>5. ASSUME NEW r \in Requests,
             AddCaptureRequest(r) \/ RegisterCapture(r) \/ Leaves(r) \/ Releases(r)
      PROVE  QueueUp
  BY <1>2, <1>5, Zenon
     DEF AddCaptureRequest, RegisterCapture, Leaves, CaptureCompleted, LeavePreReleased,
         Releases, ReleaseBehind, Encoded
<1>6. ASSUME NEW u \in Uids, Thread(u) \/ WaitTimesOut(u) PROVE QueueUp
  <2>1. CASE SetRequestFinished(u)
    BY <2>1, FinishLine
  <2>2. CASE WakeUp(u) \/ SetPreReleaseRequest(u) \/ Drain(u) \/ Destroy(u) \/ WaitTimesOut(u)
    BY <1>2, <2>2, Zenon DEF WakeUp, SetPreReleaseRequest, Drain, Destroy, WaitTimesOut
  <2>. QED BY <1>6, <2>1, <2>2, Zenon DEF Thread
<1>7. CASE UNCHANGED vars
  BY <1>2, <1>7, Zenon DEF vars
<1>. QED BY <1>3, <1>4, <1>5, <1>6, <1>7, Zenon DEF Next

(***************************************************************************)
(* Nobody is passed over: a step, whichever callback, registration or      *)
(* thread takes it, leaves the line as it stands and lets captures queue   *)
(* up at its end only, pre-released ones and the ones behind them alike.   *)
(***************************************************************************)
THEOREM LineOnlyGrows == Spec => [][QueueUp]_vars
<1>1. IInv /\ [Next]_vars => [QueueUp]_vars
  BY NextLine
<1>. QED BY <1>1, Invariance, PTL DEF Spec

\* The app is told of each capture at most once.
ToldOnce == \A i, j \in DOMAIN reports : i # j => reports[i].frameNo # reports[j].frameNo

\* At first the line is empty.
LEMMA InitLine == Init => Distinct(Line)
<1>. SUFFICES ASSUME Init PROVE Distinct(Line)
  OBVIOUS
<1>1. reports = <<>> /\ mReqItems = <<>>
  BY DEF Init
<1>2. Nos(<<>>) = <<>>
  BY DEF Nos
<1>3. Line = <<>> \o <<>>
  BY <1>1, <1>2, Zenon DEF Line
<1>. QED BY <1>3 DEF Distinct

\* Queueing up repeats nobody.
LEMMA DistinctLine ==
  ASSUME IInv, Distinct(Line), QueueUp
  PROVE  Distinct(Line')
<1>1. PICK s \in Seq(Requests) :
        Line' = Line \o s /\ Distinct(s) /\ Range(s) \cap Range(Line) = {}
  BY DEF QueueUp
<1>2. Line \in Seq(Requests)
  BY LineIs DEF IInv
<1>3. Distinct(Line \o s)
  BY <1>1, <1>2, DistinctJoined
<1>. QED BY <1>1, <1>3, Zenon

\* The app is told of each capture at most once, by its own completion, by the
\* flush it was pre-released with, or behind another one's.
THEOREM ToldOnceHolds == Spec => []ToldOnce
<1>1. IInv /\ Distinct(Line) /\ [Next]_vars => Distinct(Line)'
  <2>. SUFFICES ASSUME IInv, Distinct(Line), [Next]_vars PROVE Distinct(Line')
    BY Zenon
  <2>. QED BY NextLine, DistinctLine
<1>2. IInv /\ Distinct(Line) => ToldOnce
  <2>. SUFFICES ASSUME IInv, Distinct(Line) PROVE ToldOnce
    OBVIOUS
  <2>1. /\ Nos(reports) \in Seq(Requests) /\ Nos(mReqItems) \in Seq(Requests)
        /\ reports \in Seq(Reports)
    BY LineIs DEF IInv, TypeOK
  <2>2. /\ DOMAIN reports = 1..Len(reports) /\ Len(Nos(reports)) = Len(reports)
        /\ \A i \in 1..Len(reports) : Nos(reports)[i] = reports[i].frameNo
    <3>1. DOMAIN reports = 1..Len(reports)
      BY <2>1
    <3>2. \A x \in Reports : x.frameNo \in Requests
      BY TypedNos
    <3>3. /\ Len(Nos(reports)) = Len(reports)
          /\ \A i \in 1..Len(reports) : Nos(reports)[i] = reports[i].frameNo
      BY <2>1, <3>2, NosAre, SMTT(30)
    <3>. QED BY <3>1, <3>3, Zenon
  <2>3. /\ \A i \in 1..Len(reports) : Line[i] = reports[i].frameNo
        /\ 1..Len(reports) \subseteq DOMAIN Line
    <3>1. /\ \A i \in 1..Len(Nos(reports)) : Line[i] = Nos(reports)[i]
          /\ Line \in Seq(Requests) /\ Len(Line) = Len(Nos(reports)) + Len(Nos(mReqItems))
      BY <2>1, Joined DEF Line
    <3>. QED BY <2>1, <2>2, <3>1
  <2>. QED BY <2>2, <2>3 DEF Distinct, ToldOnce
<1>. QED BY <1>1, <1>2, InitLine, Invariance, PTL DEF Spec
=============================================================================
