---------------------------- MODULE FileStreamProofs ----------------------------
(***************************************************************************)
(* Lemmas about what travels on a connection, for the proofs about XUpload *)
(* and XDownload.  The items that one end writes to a connection are       *)
(* numbered from 1; what is left of them in a buffer or on the wire is a   *)
(* run: the items behind the first a.  Reading, sending and writing keep   *)
(* runs that follow each other runs that follow each other.                *)
(***************************************************************************)
EXTENDS FileStream, SequenceTheorems, TLAPS

\* s holds the items behind the first a of those that f numbers.
Run(s, f, a) == \A k \in 1 .. Len(s) : s[k] = f[a + k]

\* The bytes of a file, by their number.
Bytes == [j \in Nat \ {0} |-> Data(j)]

\* A run cut in two.
LEMMA RunCut ==
  ASSUME NEW S, NEW s \in Seq(S), NEW n \in 0 .. Len(s)
  PROVE  /\ Upto(s, n) \in Seq(S) /\ Len(Upto(s, n)) = n
         /\ Behind(s, n) \in Seq(S) /\ Len(Behind(s, n)) = Len(s) - n
         /\ \A f : \A a \in Nat : Run(s, f, a) =>
              Run(Upto(s, n), f, a) /\ Run(Behind(s, n), f, a + n)
<1>1. Len(s) \in Nat /\ n \in Nat /\ \A k \in 1 .. Len(s) : s[k] \in S
    BY LenProperties, ElementOfSeq
<1>2. /\ Upto(s, n) \in Seq(S) /\ Len(Upto(s, n)) = n
      /\ \A k \in 1 .. n : Upto(s, n)[k] = s[k]
  <2>1. \A i \in 1 .. n : s[i] \in S
      BY <1>1
  <2>2. 1 \in Int /\ n \in Int
      BY <1>1
  <2>3. /\ SubSeq(s, 1, n) \in Seq(S)
        /\ Len(SubSeq(s, 1, n)) = IF 1 <= n THEN n - 1 + 1 ELSE 0
        /\ \A i \in 1 .. n - 1 + 1 : SubSeq(s, 1, n)[i] = s[1 + i - 1]
      BY <2>1, <2>2, SubSeqProperties
  <2> QED
      BY <1>1, <2>3 DEF Upto
<1>3. /\ Behind(s, n) \in Seq(S) /\ Len(Behind(s, n)) = Len(s) - n
      /\ \A k \in 1 .. Len(s) - n : Behind(s, n)[k] = s[n + k]
  <2>1. \A i \in n + 1 .. Len(s) : s[i] \in S
      BY <1>1
  <2>2. n + 1 \in Int /\ Len(s) \in Int
      BY <1>1
  <2>3. /\ SubSeq(s, n + 1, Len(s)) \in Seq(S)
        /\ Len(SubSeq(s, n + 1, Len(s))) = IF n + 1 <= Len(s) THEN Len(s) - (n + 1) + 1 ELSE 0
        /\ \A i \in 1 .. Len(s) - (n + 1) + 1 : SubSeq(s, n + 1, Len(s))[i] = s[n + 1 + i - 1]
      BY <2>1, <2>2, SubSeqProperties
  <2> QED
      BY <1>1, <2>3 DEF Behind
<1>4. ASSUME NEW f, NEW a \in Nat, Run(s, f, a)
      PROVE  Run(Upto(s, n), f, a) /\ Run(Behind(s, n), f, a + n)
  <2>1. \A k \in 1 .. Len(s) : s[k] = f[a + k]
      BY <1>4 DEF Run
  <2>2. ASSUME NEW k \in 1 .. Len(s) - n PROVE Behind(s, n)[k] = f[(a + n) + k]
    <3>1. n + k \in 1 .. Len(s) /\ a + (n + k) = (a + n) + k
        BY <1>1
    <3> QED
        BY <1>3, <2>1, <3>1
  <2>3. ASSUME NEW k \in 1 .. n PROVE Upto(s, n)[k] = f[a + k]
    <3>1. k \in 1 .. Len(s)
        BY <1>1
    <3> QED
        BY <1>2, <2>1, <3>1
  <2> QED
      BY <1>2, <1>3, <2>2, <2>3 DEF Run
<1> QED
    BY <1>2, <1>3, <1>4

\* A run and the one that follows it.
LEMMA RunConcat ==
  ASSUME NEW S, NEW s \in Seq(S), NEW t \in Seq(S)
  PROVE  /\ s \o t \in Seq(S) /\ Len(s \o t) = Len(s) + Len(t)
         /\ \A f : \A a \in Nat : Run(s, f, a) /\ Run(t, f, a + Len(s)) => Run(s \o t, f, a)
<1>1. Len(s) \in Nat /\ Len(t) \in Nat
    BY LenProperties
<1>2. /\ s \o t \in Seq(S) /\ Len(s \o t) = Len(s) + Len(t)
      /\ \A k \in 1 .. Len(s) + Len(t) :
           (s \o t)[k] = IF k <= Len(s) THEN s[k] ELSE t[k - Len(s)]
    BY ConcatProperties
<1>3. ASSUME NEW f, NEW a \in Nat, Run(s, f, a), Run(t, f, a + Len(s)),
             NEW k \in 1 .. Len(s) + Len(t)
      PROVE  (s \o t)[k] = f[a + k]
  <2>1. CASE k <= Len(s)
      BY <1>1, <1>2, <1>3, <2>1 DEF Run
  <2>2. CASE k > Len(s)
    <3>1. k - Len(s) \in 1 .. Len(t) /\ (a + Len(s)) + (k - Len(s)) = a + k
        BY <1>1, <2>2
    <3>2. t[k - Len(s)] = f[a + k]
        BY <1>3, <3>1 DEF Run
    <3> QED
        BY <1>1, <1>2, <2>2, <3>2
  <2> QED
      BY <1>1, <2>1, <2>2
<1> QED
    BY <1>2, <1>3 DEF Run

\* One more item is written.
LEMMA RunAppend ==
  ASSUME NEW S, NEW s \in Seq(S), NEW e \in S
  PROVE  /\ Append(s, e) \in Seq(S) /\ Len(Append(s, e)) = Len(s) + 1
         /\ \A f : \A a \in Nat : Run(s, f, a) /\ e = f[a + Len(s) + 1] => Run(Append(s, e), f, a)
<1>1. Len(s) \in Nat
    BY LenProperties
<1>2. /\ Append(s, e) \in Seq(S) /\ Len(Append(s, e)) = Len(s) + 1
      /\ \A i \in 1 .. Len(s) : Append(s, e)[i] = s[i]
      /\ Append(s, e)[Len(s) + 1] = e
    BY AppendProperties
<1>3. ASSUME NEW f, NEW a \in Nat, Run(s, f, a), e = f[a + Len(s) + 1],
             NEW k \in 1 .. Len(s) + 1
      PROVE  Append(s, e)[k] = f[a + k]
  <2>1. CASE k \in 1 .. Len(s)
      BY <1>2, <1>3, <2>1 DEF Run
  <2>2. CASE k = Len(s) + 1
    <3>1. a + k = a + Len(s) + 1
        BY <1>1, <2>2
    <3> QED
        BY <1>2, <1>3, <2>2, <3>1
  <2> QED
      BY <1>1, <2>1, <2>2
<1> QED
    BY <1>2, <1>3 DEF Run

\* A direction of a connection: the reader has taken the first a items of those that
\* f numbers, and the next, up to the e-th, are in its input buffer s, on the wire t
\* and in the output buffer u of the writer.
Pipe(s, t, u, f, a, e) ==
  /\ Run(s, f, a) /\ Run(t, f, a + Len(s)) /\ Run(u, f, a + Len(s) + Len(t))
  /\ a + Len(s) + Len(t) + Len(u) = e

\* The reader takes n items of its buffer.
LEMMA PipeTake ==
  ASSUME NEW S, NEW s \in Seq(S), NEW t \in Seq(S), NEW u \in Seq(S), NEW f,
         NEW a \in Nat, NEW e \in Nat, Pipe(s, t, u, f, a, e), NEW n \in 0 .. Len(s)
  PROVE  /\ Run(Upto(s, n), f, a)
         /\ Pipe(Behind(s, n), t, u, f, a + n, e)
         /\ a + n \in Nat /\ a + n <= e
<1>1. {Len(s), Len(t), Len(u), n} \subseteq Nat /\ n <= Len(s)
    BY LenProperties
<1>2. /\ Len(Behind(s, n)) = Len(s) - n
      /\ Run(Upto(s, n), f, a) /\ Run(Behind(s, n), f, a + n)
    BY RunCut DEF Pipe
<1>3. /\ (a + n) + Len(Behind(s, n)) = a + Len(s)
      /\ (a + n) + Len(Behind(s, n)) + Len(t) = a + Len(s) + Len(t)
      /\ a + Len(s) + Len(t) + Len(u) = e
    BY <1>1, <1>2 DEF Pipe
<1>4. Pipe(Behind(s, n), t, u, f, a + n, e)
    BY <1>2, <1>3 DEF Pipe
<1> QED
    BY <1>1, <1>2, <1>3, <1>4

\* A read event: n items of the wire come behind those of the input buffer.
LEMMA PipeReceive ==
  ASSUME NEW S, NEW s \in Seq(S), NEW t \in Seq(S), NEW u \in Seq(S), NEW f,
         NEW a \in Nat, NEW e \in Nat, Pipe(s, t, u, f, a, e), NEW n \in 0 .. Len(t)
  PROVE  Pipe(s \o Upto(t, n), Behind(t, n), u, f, a, e)
<1>1. {Len(s), Len(t), Len(u), n} \subseteq Nat /\ a + Len(s) \in Nat
    BY LenProperties
<1>2. /\ Upto(t, n) \in Seq(S) /\ Len(Upto(t, n)) = n /\ Len(Behind(t, n)) = Len(t) - n
      /\ Run(Upto(t, n), f, a + Len(s)) /\ Run(Behind(t, n), f, a + Len(s) + n)
    BY <1>1, RunCut DEF Pipe
<1>3. Len(s \o Upto(t, n)) = Len(s) + n /\ Run(s \o Upto(t, n), f, a)
    BY <1>2, RunConcat DEF Pipe
<1>4. /\ a + Len(s \o Upto(t, n)) = a + Len(s) + n
      /\ a + Len(s \o Upto(t, n)) + Len(Behind(t, n)) = a + Len(s) + Len(t)
    BY <1>1, <1>2, <1>3
<1> QED
    BY <1>2, <1>3, <1>4 DEF Pipe

\* A write event: n items of the output buffer come behind those of the wire.
LEMMA PipeSend ==
  ASSUME NEW S, NEW s \in Seq(S), NEW t \in Seq(S), NEW u \in Seq(S), NEW f,
         NEW a \in Nat, NEW e \in Nat, Pipe(s, t, u, f, a, e), NEW n \in 0 .. Len(u)
  PROVE  Pipe(s, t \o Upto(u, n), Behind(u, n), f, a, e)
<1>1. {Len(s), Len(t), Len(u), n} \subseteq Nat /\ a + Len(s) \in Nat /\ a + Len(s) + Len(t) \in Nat
    BY LenProperties
<1>2. /\ Upto(u, n) \in Seq(S) /\ Len(Upto(u, n)) = n /\ Len(Behind(u, n)) = Len(u) - n
      /\ Run(Upto(u, n), f, a + Len(s) + Len(t)) /\ Run(Behind(u, n), f, a + Len(s) + Len(t) + n)
  <2>1. PICK k \in Nat : k = a + Len(s) + Len(t)
      BY <1>1
  <2>2. Run(u, f, k)
      BY <2>1 DEF Pipe
  <2> QED
      BY <2>1, <2>2, RunCut
<1>3. Len(t \o Upto(u, n)) = Len(t) + n /\ Run(t \o Upto(u, n), f, a + Len(s))
  <2>1. PICK k \in Nat : k = a + Len(s)
      BY <1>1
  <2>2. Run(t, f, k) /\ Run(Upto(u, n), f, k + Len(t))
      BY <1>2, <2>1 DEF Pipe
  <2> QED
      BY <1>2, <2>1, <2>2, RunConcat
<1>4. PICK k \in Nat, l \in Nat : k = a + Len(s) /\ l = Len(t)
    BY <1>1
<1>5. PICK m \in Nat : m = Len(u) /\ n <= m
    BY <1>1
<1>6. k + l + m = e /\ k + (l + n) + (m - n) = k + l + m /\ k + (l + n) = k + l + n
    BY <1>4, <1>5 DEF Pipe
<1> QED
    BY <1>2, <1>3, <1>4, <1>5, <1>6 DEF Pipe

\* The writer writes what comes next.
LEMMA PipeWrite ==
  ASSUME NEW S, NEW s \in Seq(S), NEW t \in Seq(S), NEW u \in Seq(S), NEW f,
         NEW a \in Nat, NEW e \in Nat, Pipe(s, t, u, f, a, e), NEW w \in Seq(S), Run(w, f, e)
  PROVE  Pipe(s, t, u \o w, f, a, e + Len(w))
<1>1. PICK k \in Nat : k = a + Len(s) + Len(t)
    BY LenProperties
<1>2. PICK m \in Nat : m = Len(u)
    BY LenProperties
<1>3. k + m = e /\ Run(u, f, k)
    BY <1>1, <1>2 DEF Pipe
<1>4. Len(u \o w) = m + Len(w) /\ Run(u \o w, f, k)
    BY <1>2, <1>3, RunConcat
<1>5. k + Len(u \o w) = e + Len(w)
  <2>1. PICK l \in Nat : l = Len(w)
      BY LenProperties
  <2>2. Len(u \o w) = m + l
      BY <1>4, <2>1
  <2>3. k + (m + l) = e + l
      BY <1>3
  <2> QED
      BY <2>1, <2>2, <2>3
<1> QED
    BY <1>1, <1>4, <1>5 DEF Pipe

\* One more item is written.
LEMMA PipeAppend ==
  ASSUME NEW S, NEW s \in Seq(S), NEW t \in Seq(S), NEW u \in Seq(S), NEW f,
         NEW a \in Nat, NEW e \in Nat, Pipe(s, t, u, f, a, e), NEW x \in S, x = f[e + 1]
  PROVE  Pipe(s, t, Append(u, x), f, a, e + 1)
<1>1. {Len(s), Len(t), Len(u)} \subseteq Nat /\ a + Len(s) + Len(t) \in Nat
    BY LenProperties
<1>2. x = f[a + Len(s) + Len(t) + Len(u) + 1]
    BY DEF Pipe
<1>3. Len(Append(u, x)) = Len(u) + 1 /\ Run(Append(u, x), f, a + Len(s) + Len(t))
    BY <1>1, <1>2, RunAppend DEF Pipe
<1>4. a + Len(s) + Len(t) + Len(Append(u, x)) = e + 1
    BY <1>1, <1>3 DEF Pipe
<1> QED
    BY <1>3, <1>4 DEF Pipe

\* The output of a task that closes is lost.
LEMMA PipeCut ==
  ASSUME NEW S, NEW s \in Seq(S), NEW t \in Seq(S), NEW u \in Seq(S), NEW f,
         NEW a \in Nat, NEW e \in Nat, Pipe(s, t, u, f, a, e)
  PROVE  \E d \in Nat : a <= d /\ d <= e /\ Pipe(s, t, <<>>, f, a, d)
<1>1. {Len(s), Len(t), Len(u)} \subseteq Nat /\ a + Len(s) + Len(t) + Len(u) = e
    BY LenProperties DEF Pipe
<1>2. Len(<<>>) = 0 /\ Run(<<>>, f, a + Len(s) + Len(t))
    BY DEF Run
<1>3. Pipe(s, t, <<>>, f, a, a + Len(s) + Len(t))
    BY <1>1, <1>2 DEF Pipe
<1> QED
    BY <1>1, <1>3

\* What comes next is at the head of the input buffer.
LEMMA PipeHead ==
  ASSUME NEW S, NEW s \in Seq(S), NEW t \in Seq(S), NEW u \in Seq(S), NEW f,
         NEW a \in Nat, NEW e \in Nat, Pipe(s, t, u, f, a, e), s # <<>>
  PROVE  Head(s) = f[a + 1] /\ a + 1 <= e /\ 1 <= Len(s)
<1>1. {Len(s), Len(t), Len(u)} \subseteq Nat /\ a + Len(s) + Len(t) + Len(u) = e
    BY LenProperties DEF Pipe
<1>2. Len(s) >= 1
    BY <1>1, EmptySeq
<1> QED
    BY <1>1, <1>2 DEF Pipe, Run

\* What is on the way, in the order it was written.
LEMMA PipeAll ==
  ASSUME NEW S, NEW s \in Seq(S), NEW t \in Seq(S), NEW u \in Seq(S), NEW f,
         NEW a \in Nat, NEW e \in Nat, Pipe(s, t, u, f, a, e)
  PROVE  /\ s \o t \o u \in Seq(S) /\ Run(s \o t \o u, f, a)
         /\ a + Len(s \o t \o u) = e
<1>1. {Len(s), Len(t), Len(u)} \subseteq Nat
    BY LenProperties
<1>2. s \o t \in Seq(S) /\ Len(s \o t) = Len(s) + Len(t) /\ Run(s \o t, f, a)
    BY RunConcat DEF Pipe
<1>3. a + Len(s) + Len(t) = a + Len(s \o t)
    BY <1>1, <1>2
<1>4. Run(u, f, a + Len(s \o t))
    BY <1>3 DEF Pipe
<1>5. /\ s \o t \o u \in Seq(S) /\ Len(s \o t \o u) = Len(s \o t) + Len(u)
      /\ Run(s \o t \o u, f, a)
    BY <1>2, <1>4, RunConcat
<1>6. a + Len(s) + Len(t) + Len(u) = e
    BY DEF Pipe
<1> QED
    BY <1>2, <1>5, <1>6

\* The beginning of a file.
LEMMA ContentOK ==
  ASSUME NEW k \in Nat
  PROVE  /\ Content(k) \in Seq({Data(j) : j \in Nat \ {0}}) /\ Len(Content(k)) = k
         /\ Run(Content(k), Bytes, 0)
<1>1. \A i \in 1 .. k : Data(i) \in {Data(j) : j \in Nat \ {0}}
    OBVIOUS
<1>2. Content(k) \in [1 .. k -> {Data(j) : j \in Nat \ {0}}]
    BY <1>1 DEF Content
<1>3. Content(k) \in Seq({Data(j) : j \in Nat \ {0}}) /\ Len(Content(k)) = k
    BY <1>2
<1> QED
    BY <1>3 DEF Content, Bytes, Run

LEMMA ContentZero == Content(0) = <<>>
  BY ContentOK, EmptySeq

\* A sequence that is a run from the start is a beginning of the file.
LEMMA RunIsContent ==
  ASSUME NEW S, NEW s \in Seq(S), Run(s, Bytes, 0)
  PROVE  s = Content(Len(s))
<1>1. Len(s) \in Nat /\ s \in [1 .. Len(s) -> S]
    BY LenProperties
<1>2. ASSUME NEW k \in 1 .. Len(s) PROVE s[k] = Data(k)
  <2>1. k \in Nat \ {0} /\ 0 + k = k
      BY <1>1
  <2> QED
      BY <2>1 DEF Run, Bytes
<1> QED
    BY <1>1, <1>2 DEF Content

\* WriteCB reads the next bytes of the file, some unless it meets the end.
LEMMA PieceOK ==
  ASSUME NEW pos \in Nat, NEW size \in Nat, pos <= size
  PROVE  /\ Piece(pos, size) \in Seq({Data(j) : j \in Nat \ {0}})
         /\ Len(Piece(pos, size)) \in Nat /\ pos + Len(Piece(pos, size)) <= size
         /\ Run(Piece(pos, size), Bytes, pos)
         /\ ~ReadsEof(pos, size) => Len(Piece(pos, size)) > 0
         /\ ReadsEof(pos, size) => pos + Len(Piece(pos, size)) = size
<1> DEFINE n == AtMost(BufSize, size - pos)
<1>1. /\ n \in Nat /\ pos + n <= size
      /\ ~ReadsEof(pos, size) => n > 0
      /\ ReadsEof(pos, size) => pos + n = size
    BY StreamAssumption DEF AtMost, ReadsEof
<1>2. Piece(pos, size) = [i \in 1 .. n |-> Data(pos + i)]
    BY DEF Piece
<1> HIDE DEF n
<1>3. \A i \in 1 .. n : Data(pos + i) \in {Data(j) : j \in Nat \ {0}}
  <2>1. \A i \in 1 .. n : pos + i \in Nat \ {0}
      BY <1>1
  <2> QED
      BY <2>1
<1>4. Piece(pos, size) \in [1 .. n -> {Data(j) : j \in Nat \ {0}}]
    BY <1>2, <1>3
<1>5. Piece(pos, size) \in Seq({Data(j) : j \in Nat \ {0}}) /\ Len(Piece(pos, size)) = n
    BY <1>1, <1>4
<1>6. Run(Piece(pos, size), Bytes, pos)
  <2>1. ASSUME NEW k \in 1 .. n PROVE Piece(pos, size)[k] = Bytes[pos + k]
    <3>1. pos + k \in Nat \ {0}
        BY <1>1
    <3> QED
        BY <1>2, <3>1 DEF Bytes
  <2> QED
      BY <1>5, <2>1 DEF Run
<1> QED
    BY <1>1, <1>5, <1>6
--------------------------------------------------------------------------------
\* The same for the items of a connection, in the form in which the proofs about
\* actions cite it.
LEMMA Cut ==
  \A s \in Seq(Items) : \A n \in 0 .. Len(s) :
    /\ Upto(s, n) \in Seq(Items) /\ Len(Upto(s, n)) = n
    /\ Behind(s, n) \in Seq(Items) /\ Len(Behind(s, n)) = Len(s) - n
  BY RunCut

LEMMA Concat ==
  \A s, t \in Seq(Items) : s \o t \in Seq(Items) /\ Len(s \o t) = Len(s) + Len(t)
  BY RunConcat

LEMMA Take ==
  \A s, t, u \in Seq(Items) : \A n \in 0 .. Len(s) :
    \A f : \A a, e \in Nat : Pipe(s, t, u, f, a, e) =>
      /\ Run(Upto(s, n), f, a) /\ Pipe(Behind(s, n), t, u, f, a + n, e)
      /\ a + n \in Nat /\ a + n <= e
<1> SUFFICES ASSUME NEW s \in Seq(Items), NEW t \in Seq(Items), NEW u \in Seq(Items),
                    NEW n \in 0 .. Len(s), NEW f, NEW a \in Nat, NEW e \in Nat,
                    Pipe(s, t, u, f, a, e)
             PROVE  /\ Run(Upto(s, n), f, a) /\ Pipe(Behind(s, n), t, u, f, a + n, e)
                    /\ a + n \in Nat /\ a + n <= e
    OBVIOUS
<1> QED
    BY PipeTake

LEMMA Receive ==
  \A s, t, u \in Seq(Items) : \A n \in 0 .. Len(t) :
    /\ s \o Upto(t, n) \in Seq(Items) /\ Len(s \o Upto(t, n)) = Len(s) + n
    /\ Behind(t, n) \in Seq(Items) /\ Len(Behind(t, n)) = Len(t) - n
    /\ \A f : \A a, e \in Nat :
         Pipe(s, t, u, f, a, e) => Pipe(s \o Upto(t, n), Behind(t, n), u, f, a, e)
<1> TAKE s, t, u \in Seq(Items)
<1> TAKE n \in 0 .. Len(t)
<1>1. ASSUME NEW f, NEW a \in Nat, NEW e \in Nat, Pipe(s, t, u, f, a, e)
      PROVE  Pipe(s \o Upto(t, n), Behind(t, n), u, f, a, e)
    BY <1>1, PipeReceive
<1>2. /\ Upto(t, n) \in Seq(Items) /\ Len(Upto(t, n)) = n
      /\ Behind(t, n) \in Seq(Items) /\ Len(Behind(t, n)) = Len(t) - n
    BY Cut
<1>3. s \o Upto(t, n) \in Seq(Items) /\ Len(s \o Upto(t, n)) = Len(s) + n
  <2>1. PICK v \in Seq(Items) : v = Upto(t, n) /\ Len(v) = n
      BY <1>2
  <2>2. s \o v \in Seq(Items) /\ Len(s \o v) = Len(s) + Len(v)
      BY Concat
  <2> QED
      BY <2>1, <2>2
<1> QED
    BY <1>1, <1>2, <1>3, Zenon

LEMMA Send ==
  \A s, t, u \in Seq(Items) : \A n \in 0 .. Len(u) :
    /\ t \o Upto(u, n) \in Seq(Items) /\ Len(t \o Upto(u, n)) = Len(t) + n
    /\ Behind(u, n) \in Seq(Items) /\ Len(Behind(u, n)) = Len(u) - n
    /\ \A f : \A a, e \in Nat :
         Pipe(s, t, u, f, a, e) => Pipe(s, t \o Upto(u, n), Behind(u, n), f, a, e)
<1> TAKE s, t, u \in Seq(Items)
<1> TAKE n \in 0 .. Len(u)
<1>1. ASSUME NEW f, NEW a \in Nat, NEW e \in Nat, Pipe(s, t, u, f, a, e)
      PROVE  Pipe(s, t \o Upto(u, n), Behind(u, n), f, a, e)
    BY <1>1, PipeSend
<1>2. /\ Upto(u, n) \in Seq(Items) /\ Len(Upto(u, n)) = n
      /\ Behind(u, n) \in Seq(Items) /\ Len(Behind(u, n)) = Len(u) - n
    BY Cut
<1>3. t \o Upto(u, n) \in Seq(Items) /\ Len(t \o Upto(u, n)) = Len(t) + n
  <2>1. PICK v \in Seq(Items) : v = Upto(u, n) /\ Len(v) = n
      BY <1>2
  <2>2. t \o v \in Seq(Items) /\ Len(t \o v) = Len(t) + Len(v)
      BY Concat
  <2> QED
      BY <2>1, <2>2
<1> QED
    BY <1>1, <1>2, <1>3, Zenon

LEMMA Write ==
  \A s, t, u, w \in Seq(Items) :
    /\ u \o w \in Seq(Items) /\ Len(u \o w) = Len(u) + Len(w)
    /\ \A f : \A a, e \in Nat :
         Pipe(s, t, u, f, a, e) /\ Run(w, f, e) => Pipe(s, t, u \o w, f, a, e + Len(w))
<1> TAKE s, t, u, w \in Seq(Items)
<1>1. ASSUME NEW f, NEW a \in Nat, NEW e \in Nat, Pipe(s, t, u, f, a, e), Run(w, f, e)
      PROVE  Pipe(s, t, u \o w, f, a, e + Len(w))
    BY <1>1, PipeWrite
<1>2. u \o w \in Seq(Items) /\ Len(u \o w) = Len(u) + Len(w)
    BY Concat
<1> QED
    BY <1>1, <1>2, Zenon

LEMMA WriteOne ==
  \A s, t, u \in Seq(Items) : \A x \in Items :
    /\ Append(u, x) \in Seq(Items) /\ Len(Append(u, x)) = Len(u) + 1
    /\ \A f : \A a, e \in Nat :
         Pipe(s, t, u, f, a, e) /\ x = f[e + 1] => Pipe(s, t, Append(u, x), f, a, e + 1)
<1> TAKE s, t, u \in Seq(Items)
<1> TAKE x \in Items
<1>1. ASSUME NEW f, NEW a \in Nat, NEW e \in Nat, Pipe(s, t, u, f, a, e), x = f[e + 1]
      PROVE  Pipe(s, t, Append(u, x), f, a, e + 1)
    BY <1>1, PipeAppend
<1>2. Append(u, x) \in Seq(Items) /\ Len(Append(u, x)) = Len(u) + 1
    BY AppendProperties
<1> QED
    BY <1>1, <1>2, Zenon

LEMMA Lost ==
  \A s, t, u \in Seq(Items) : \A f : \A a, e \in Nat :
    Pipe(s, t, u, f, a, e) =>
      \E d \in Nat : a <= d /\ d <= e /\ Pipe(s, t, <<>>, f, a, d)
  BY PipeCut

LEMMA First ==
  \A s, t, u \in Seq(Items) : \A f : \A a, e \in Nat :
    Pipe(s, t, u, f, a, e) /\ s # <<>> => Head(s) = f[a + 1] /\ a + 1 <= e /\ 1 <= Len(s)
  BY PipeHead

LEMMA All ==
  \A s, t, u \in Seq(Items) : \A f : \A a, e \in Nat :
    Pipe(s, t, u, f, a, e) =>
      /\ s \o t \o u \in Seq(Items) /\ Run(s \o t \o u, f, a)
      /\ a + Len(s \o t \o u) = e
  BY PipeAll

===============================================================================
