---------------------------- MODULE FramingProofs ---------------------------
(***************************************************************************)
(* Proofs about Chunking and Framing, for messages of any length over any  *)
(* characters of any width, any size of a chunk and any noise: the chunks  *)
(* are the message, a disturbed frame is refused, a frame is heard as it   *)
(* was sent.                                                               *)
(***************************************************************************)
EXTENDS Framing, WellFoundedInduction, SequenceTheorems, TLAPS

-----------------------------------------------------------------------------
(* Induction                                                               *)

(* A set of numbers that is not empty has a smallest member.               *)
LEMMA SmallestExists ==
  ASSUME NEW S \in SUBSET Nat, S # {}
  PROVE  \E k \in S : \A j \in S : k <= j
<1> DEFINE R == OpToRel(<, Nat)
<1>1. PICK k \in S : \A j \in S : ~(<<j, k>> \in R)
  <2>1. IsWellFoundedOn(R, Nat) BY NatLessThanWellFounded
  <2> HIDE DEF R
  <2> QED BY <2>1, WFMin
<1>2. \A j \in S : ~(j < k) BY <1>1 DEF OpToRel
<1> QED BY <1>2

(* A set of numbers with 0 and the successor of every member is Nat.       *)
LEMMA NatByInduction ==
  ASSUME NEW S \in SUBSET Nat, 0 \in S, \A n \in S : n + 1 \in S
  PROVE  S = Nat
<1> DEFINE T == Nat \ S
<1> SUFFICES ASSUME T # {} PROVE FALSE OBVIOUS
<1>1. PICK m \in T : \A k \in T : m <= k
  <2>1. T \in SUBSET Nat OBVIOUS
  <2> HIDE DEF T
  <2> QED BY <2>1, SmallestExists
<1>2. m # 0 /\ m - 1 \in Nat /\ (m - 1) + 1 = m OBVIOUS
<1>3. m - 1 \notin T BY <1>1, <1>2
<1>4. (m - 1) + 1 \in S BY <1>2, <1>3
<1> QED BY <1>1, <1>2, <1>4

(* Recursion along a sequence                                              *)
Folds(f, base, step, seq) ==
  \A n \in 0 .. Len(seq) : f[n] = IF n = 0 THEN base ELSE step[<<f[n - 1], seq[n]>>]

(* A value that one step at a time is taken to a value is defined for a    *)
(* sequence of any length.                                                 *)
LEMMA FoldExists ==
  ASSUME NEW W, NEW T, NEW base \in W, NEW step \in [W \X T -> W], NEW seq \in Seq(T)
  PROVE  \E f \in [0 .. Len(seq) -> W] : Folds(f, base, step, seq)
<1> DEFINE L == Len(seq)
           Upto(m, f) == \A n \in 0 .. m :
                           f[n] = IF n = 0 THEN base ELSE step[<<f[n - 1], seq[n]>>]
           S == {m \in Nat : m <= L => \E f \in [0 .. m -> W] : Upto(m, f)}
<1>1. L \in Nat OBVIOUS
<1>2. 0 \in S
  <2>1. [n \in 0 .. 0 |-> base] \in [0 .. 0 -> W] /\ Upto(0, [n \in 0 .. 0 |-> base])
    OBVIOUS
  <2> QED BY <2>1
<1>3. ASSUME NEW m \in S PROVE m + 1 \in S
  <2>a. m \in Nat /\ m + 1 \in Nat OBVIOUS
  <2> SUFFICES ASSUME m + 1 <= L PROVE \E f \in [0 .. m + 1 -> W] : Upto(m + 1, f)
    BY <2>a
  <2>1. m \in Nat /\ m <= L BY <1>1, <2>a
  <2>2. PICK f \in [0 .. m -> W] : Upto(m, f) BY <2>1
  <2> DEFINE e == step[<<f[m], seq[m + 1]>>]
             g == [n \in 0 .. m + 1 |-> IF n <= m THEN f[n] ELSE e]
  <2>3. e \in W
    <3>1. seq[m + 1] \in T /\ f[m] \in W BY <1>1, <2>1
    <3> QED BY <3>1
  <2> HIDE DEF e
  <2>4. g \in [0 .. m + 1 -> W] BY <2>1, <2>3
  <2>5. ASSUME NEW n \in 0 .. m + 1
        PROVE  g[n] = IF n = 0 THEN base ELSE step[<<g[n - 1], seq[n]>>]
    <3>1. CASE n <= m
      <4>1. n \in 0 .. m /\ (n # 0 => n - 1 \in 0 .. m) BY <2>1, <3>1
      <4>2. g[n] = f[n] /\ (n # 0 => g[n - 1] = f[n - 1]) BY <2>1, <3>1, <4>1
      <4> QED BY <2>2, <4>1, <4>2
    <3>2. CASE n = m + 1
      <4>1. g[n] = e /\ g[n - 1] = f[m] /\ n # 0 BY <2>1, <3>2
      <4> QED BY <3>2, <4>1 DEF e
    <3> QED BY <2>1, <3>1, <3>2
  <2> HIDE DEF g
  <2> QED BY <2>4, <2>5
<1>4. L \in S
  <2> HIDE DEF S
  <2>1. S \in SUBSET Nat BY DEF S
  <2>2. S = Nat BY <1>2, <1>3, <2>1, NatByInduction
  <2> QED BY <1>1, <2>2
<1> QED BY <1>1, <1>4 DEF Folds

(* What begins alike and goes on alike is alike.                           *)
LEMMA SameUpward ==
  ASSUME NEW m \in Nat, NEW f, NEW g, f[0] = g[0],
         \A n \in 1 .. m : f[n - 1] = g[n - 1] => f[n] = g[n]
  PROVE  f[m] = g[m]
<1> DEFINE S == {n \in Nat : n <= m => f[n] = g[n]}
<1>1. 0 \in S OBVIOUS
<1>2. ASSUME NEW n \in S PROVE n + 1 \in S
  <2>1. n \in Nat /\ n + 1 \in Nat OBVIOUS
  <2> SUFFICES ASSUME n + 1 <= m PROVE f[n + 1] = g[n + 1] BY <2>1
  <2>2. n + 1 \in 1 .. m /\ (n + 1) - 1 = n /\ f[n] = g[n] BY <2>1
  <2> QED BY <2>2
<1>3. S = Nat
  <2> HIDE DEF S
  <2>1. S \in SUBSET Nat BY DEF S
  <2> QED BY <1>1, <1>2, <2>1, NatByInduction
<1> QED BY <1>3

(* A set of sequences with the empty one and, with every member, the       *)
(* longer ones is the set of all.                                          *)
LEMMA SeqByInduction ==
  ASSUME NEW T, NEW S \in SUBSET Seq(T), <<>> \in S,
         \A s \in S, x \in T : Append(s, x) \in S
  PROVE  S = Seq(T)
<1> DEFINE N == {n \in Nat : \A s \in Seq(T) : Len(s) = n => s \in S}
<1>1. 0 \in N
  <2>1. \A s \in Seq(T) : Len(s) = 0 => s = <<>> OBVIOUS
  <2> QED BY <2>1
<1>2. ASSUME NEW n \in N PROVE n + 1 \in N
  <2>1. n \in Nat /\ n + 1 \in Nat /\ \A s \in Seq(T) : Len(s) = n => s \in S OBVIOUS
  <2> SUFFICES ASSUME NEW s \in Seq(T), Len(s) = n + 1 PROVE s \in S BY <2>1
  <2>2. s # <<>> BY <2>1
  <2>3. PICK t \in Seq(T), x \in T : s = Append(t, x) BY <2>2, SequenceEmptyOrAppend
  <2>4. Len(t) = n BY <2>1, <2>3
  <2> QED BY <2>1, <2>3, <2>4
<1>3. N = Nat
  <2> HIDE DEF N
  <2>1. N \in SUBSET Nat BY DEF N
  <2> QED BY <1>1, <1>2, <2>1, NatByInduction
<1>4. \A s \in Seq(T) : Len(s) \in Nat OBVIOUS
<1> QED BY <1>3, <1>4

-----------------------------------------------------------------------------
(* Bytes: the recursive function it is defined with exists, is determined  *)
(* by the text, and so one more character adds its width.                  *)

Counts(f, text) ==
  \A n \in 0 .. Len(text) : f[n] = IF n = 0 THEN 0 ELSE f[n - 1] + Width[text[n]]

LEMMA CountsExists ==
  ASSUME NEW text \in Seq(Char)
  PROVE  \E f \in [0 .. Len(text) -> Nat] : Counts(f, text)
<1> DEFINE step == [p \in Nat \X Char |-> p[1] + Width[p[2]]]
<1>1. step \in [Nat \X Char -> Nat] BY ChunkingAssumption
<1>2. \A x \in Nat, c \in Char : step[<<x, c>>] = x + Width[c] OBVIOUS
<1> HIDE DEF step
<1>3. 0 \in Nat OBVIOUS
<1>4. PICK f \in [0 .. Len(text) -> Nat] : Folds(f, 0, step, text)
  BY <1>1, <1>3, FoldExists
<1>5. ASSUME NEW n \in 0 .. Len(text), n # 0
      PROVE  step[<<f[n - 1], text[n]>>] = f[n - 1] + Width[text[n]]
  <2>1. f[n - 1] \in Nat /\ text[n] \in Char BY <1>5
  <2> QED BY <1>2, <2>1
<1> QED BY <1>4, <1>5 DEF Folds, Counts

(* Two such functions agree as long as the texts do.                       *)
LEMMA CountsAgree ==
  ASSUME NEW s \in Seq(Char), NEW t \in Seq(Char), NEW f, NEW g, NEW m \in Nat,
         Counts(f, s), Counts(g, t), m <= Len(s), m <= Len(t),
         \A i \in 1 .. m : s[i] = t[i]
  PROVE  f[m] = g[m]
<1>1. f[0] = g[0] BY DEF Counts
<1>2. ASSUME NEW n \in 1 .. m, f[n - 1] = g[n - 1] PROVE f[n] = g[n]
  <2>1. n \in 0 .. Len(s) /\ n \in 0 .. Len(t) /\ n # 0 /\ s[n] = t[n] OBVIOUS
  <2>2. f[n] = f[n - 1] + Width[s[n]] BY <2>1 DEF Counts
  <2>3. g[n] = g[n - 1] + Width[t[n]] BY <2>1 DEF Counts
  <2> QED BY <1>2, <2>1, <2>2, <2>3
<1> QED BY <1>1, <1>2, SameUpward

LEMMA BytesIsCount ==
  ASSUME NEW text \in Seq(Char)
  PROVE  \E f \in [0 .. Len(text) -> Nat] : Counts(f, text) /\ Bytes(text) = f[Len(text)]
<1> DEFINE Eqn(h) == h = [n \in 0 .. Len(text) |->
                           IF n = 0 THEN 0 ELSE h[n - 1] + Width[text[n]]]
           u == CHOOSE h : Eqn(h)
<1>1. PICK f \in [0 .. Len(text) -> Nat] : Counts(f, text) BY CountsExists
<1>2. Eqn(f) BY <1>1 DEF Counts
<1>3. Eqn(u) BY <1>2
<1>4. Bytes(text) = u[Len(text)] BY DEF Bytes
<1>5. Counts(u, text)
  <2> HIDE DEF u
  <2> QED BY <1>3 DEF Counts
<1>6. Len(text) \in Nat OBVIOUS
<1> HIDE DEF u
<1>7. u[Len(text)] = f[Len(text)] BY <1>1, <1>5, <1>6, CountsAgree
<1> QED BY <1>1, <1>4, <1>7

LEMMA BytesType ==
  ASSUME NEW text \in Seq(Char) PROVE Bytes(text) \in Nat
<1>1. Len(text) \in Nat OBVIOUS
<1> QED BY <1>1, BytesIsCount

LEMMA BytesEmpty == Bytes(<<>>) = 0
<1>1. <<>> \in Seq(Char) /\ Len(<<>>) = 0 OBVIOUS
<1>2. PICK f \in [0 .. Len(<<>>) -> Nat] :
        Counts(f, <<>>) /\ Bytes(<<>>) = f[Len(<<>>)]
  BY <1>1, BytesIsCount
<1> QED BY <1>1, <1>2 DEF Counts

LEMMA BytesAppend ==
  ASSUME NEW text \in Seq(Char), NEW c \in Char
  PROVE  Bytes(Append(text, c)) = Bytes(text) + Width[c]
<1> DEFINE more == Append(text, c)
           L == Len(text)
<1>1. /\ more \in Seq(Char) /\ Len(more) = L + 1 /\ L \in Nat
      /\ more[L + 1] = c /\ \A i \in 1 .. L : text[i] = more[i]
  OBVIOUS
<1>2. PICK f \in [0 .. L -> Nat] : Counts(f, text) /\ Bytes(text) = f[L]
  BY BytesIsCount
<1> HIDE DEF more
<1>3. PICK g \in [0 .. Len(more) -> Nat] : Counts(g, more) /\ Bytes(more) = g[Len(more)]
  BY <1>1, BytesIsCount
<1>4. f[L] = g[L]
  <2>1. L <= Len(more) /\ L <= Len(text) BY <1>1
  <2>2. \A i \in 1 .. L : text[i] = more[i] BY <1>1
  <2>3. ASSUME NEW m \in Nat, m <= Len(text), m <= Len(more),
               \A i \in 1 .. m : text[i] = more[i]
        PROVE  f[m] = g[m]
    BY <1>1, <1>2, <1>3, <2>3, CountsAgree
  <2> HIDE DEF L
  <2> QED BY <1>1, <2>1, <2>2, <2>3
<1>5. g[L + 1] = g[L] + Width[c]
  <2>1. L + 1 \in 0 .. Len(more) /\ L + 1 # 0 /\ (L + 1) - 1 = L BY <1>1
  <2> QED BY <1>1, <1>3, <2>1 DEF Counts
<1> QED BY <1>1, <1>2, <1>3, <1>4, <1>5 DEF more

-----------------------------------------------------------------------------
(* FlattenSeq, in the same way: one more sequence is put at the end.       *)

Joins(f, seqs) ==
  \A n \in 1 .. Len(seqs) : f[n] = IF n = 1 THEN seqs[n] ELSE f[n - 1] \o seqs[n]

LEMMA JoinsExists ==
  ASSUME NEW T, NEW seqs \in Seq(Seq(T))
  PROVE  \E f \in [1 .. Len(seqs) -> Seq(T)] : Joins(f, seqs)
<1> DEFINE L == Len(seqs)
           Upto(m, f) == \A n \in 1 .. m : f[n] = IF n = 1 THEN seqs[n] ELSE f[n - 1] \o seqs[n]
           S == {m \in Nat : m <= L => \E f \in [1 .. m -> Seq(T)] : Upto(m, f)}
<1>1. L \in Nat OBVIOUS
<1>2. 0 \in S
  <2>1. [n \in 1 .. 0 |-> <<>>] \in [1 .. 0 -> Seq(T)]
        /\ Upto(0, [n \in 1 .. 0 |-> <<>>])
    OBVIOUS
  <2> QED BY <2>1
<1>3. ASSUME NEW m \in S PROVE m + 1 \in S
  <2>a. m \in Nat /\ m + 1 \in Nat OBVIOUS
  <2> SUFFICES ASSUME m + 1 <= L
               PROVE  \E f \in [1 .. m + 1 -> Seq(T)] : Upto(m + 1, f)
    BY <2>a
  <2>1. m \in Nat /\ m <= L BY <1>1, <2>a
  <2>2. PICK f \in [1 .. m -> Seq(T)] : Upto(m, f) BY <2>1
  <2>3. seqs[m + 1] \in Seq(T) BY <1>1, <2>1
  <2> DEFINE e == IF m = 0 THEN seqs[1] ELSE f[m] \o seqs[m + 1]
             g == [n \in 1 .. m + 1 |-> IF n <= m THEN f[n] ELSE e]
  <2>4. e \in Seq(T)
    <3>1. CASE m = 0 BY <2>3, <3>1
    <3>2. CASE m # 0
      <4>1. f[m] \in Seq(T) BY <2>1, <3>2
      <4> QED BY <2>3, <3>2, <4>1, ConcatProperties
    <3> QED BY <3>1, <3>2
  <2> HIDE DEF e
  <2>5. g \in [1 .. m + 1 -> Seq(T)] BY <2>1, <2>4
  <2>6. ASSUME NEW n \in 1 .. m + 1
        PROVE  g[n] = IF n = 1 THEN seqs[n] ELSE g[n - 1] \o seqs[n]
    <3>1. CASE n <= m
      <4>1. n \in 1 .. m /\ (n # 1 => n - 1 \in 1 .. m) BY <2>1, <3>1
      <4>2. g[n] = f[n] /\ (n # 1 => g[n - 1] = f[n - 1]) BY <2>1, <3>1, <4>1
      <4> QED BY <2>2, <4>1, <4>2
    <3>2. CASE n = m + 1
      <4>1. g[n] = e BY <2>1, <3>2
      <4>2. m # 0 => g[n - 1] = f[m] BY <2>1, <3>2
      <4>3. n = 1 <=> m = 0 BY <2>1, <3>2
      <4> QED BY <3>2, <4>1, <4>2, <4>3 DEF e
    <3> QED BY <2>1, <3>1, <3>2
  <2> HIDE DEF g
  <2> QED BY <2>5, <2>6
<1>4. L \in S
  <2> HIDE DEF S
  <2>1. S \in SUBSET Nat BY DEF S
  <2>2. S = Nat BY <1>2, <1>3, <2>1, NatByInduction
  <2> QED BY <1>1, <2>2
<1> QED BY <1>1, <1>4 DEF Joins

LEMMA JoinsAgree ==
  ASSUME NEW s, NEW t, NEW f, NEW g, NEW m \in Nat \ {0},
         Len(s) \in Nat, Len(t) \in Nat, m <= Len(s), m <= Len(t),
         Joins(f, s), Joins(g, t),
         \A i \in 1 .. m : s[i] = t[i]
  PROVE  f[m] = g[m]
<1> DEFINE S == {n \in Nat : n + 1 <= m => f[n + 1] = g[n + 1]}
<1>1. 0 + 1 = 1 /\ 1 \in 1 .. Len(s) /\ 1 \in 1 .. Len(t) /\ 1 \in 1 .. m OBVIOUS
<1>2. 0 \in S BY <1>1 DEF Joins
<1>3. ASSUME NEW n \in S PROVE n + 1 \in S
  <2>a. n \in Nat /\ n + 1 \in Nat OBVIOUS
  <2> SUFFICES ASSUME (n + 1) + 1 <= m PROVE f[(n + 1) + 1] = g[(n + 1) + 1] BY <2>a
  <2> DEFINE k == (n + 1) + 1
  <2>1. k \in Nat /\ k \in 1 .. m /\ k # 1 /\ k - 1 = n + 1 /\ f[n + 1] = g[n + 1]
    BY <2>a
  <2> HIDE DEF k
  <2>2. k \in 1 .. Len(s) /\ k \in 1 .. Len(t) /\ s[k] = t[k] BY <2>1
  <2>3. f[k] = f[k - 1] \o s[k] BY <2>1, <2>2 DEF Joins
  <2>4. g[k] = g[k - 1] \o t[k] BY <2>1, <2>2 DEF Joins
  <2> QED BY <2>1, <2>2, <2>3, <2>4 DEF k
<1>4. S = Nat
  <2> HIDE DEF S
  <2>1. S \in SUBSET Nat BY DEF S
  <2> QED BY <1>2, <1>3, <2>1, NatByInduction
<1>5. m - 1 \in Nat /\ (m - 1) + 1 = m OBVIOUS
<1>6. m - 1 \in S
  <2> HIDE DEF S
  <2> QED BY <1>4, <1>5
<1> QED BY <1>5, <1>6

LEMMA FlattenIsJoin ==
  ASSUME NEW T, NEW seqs \in Seq(Seq(T)), seqs # <<>>
  PROVE  \E f \in [1 .. Len(seqs) -> Seq(T)] :
           Joins(f, seqs) /\ FlattenSeq(seqs) = f[Len(seqs)]
<1> DEFINE Eqn(h) == h = [n \in 1 .. Len(seqs) |->
                           IF n = 1 THEN seqs[n] ELSE h[n - 1] \o seqs[n]]
           u == CHOOSE h : Eqn(h)
<1>1. PICK f \in [1 .. Len(seqs) -> Seq(T)] : Joins(f, seqs) BY JoinsExists
<1>2. Eqn(f) BY <1>1 DEF Joins
<1>3. Eqn(u) BY <1>2
<1>4. Len(seqs) \in Nat \ {0} OBVIOUS
<1>5. FlattenSeq(seqs) = u[Len(seqs)] BY <1>4 DEF FlattenSeq
<1> HIDE DEF u
<1>6. Joins(u, seqs) BY <1>3 DEF Joins
<1>7. u[Len(seqs)] = f[Len(seqs)] BY <1>1, <1>4, <1>6, JoinsAgree
<1> QED BY <1>1, <1>5, <1>7

LEMMA FlattenEmpty == FlattenSeq(<<>>) = <<>>
BY DEF FlattenSeq

LEMMA FlattenType ==
  ASSUME NEW T, NEW seqs \in Seq(Seq(T))
  PROVE  FlattenSeq(seqs) \in Seq(T)
<1>1. FlattenSeq(<<>>) = <<>> /\ <<>> \in Seq(T) BY FlattenEmpty
<1>2. CASE seqs # <<>>
  <2>1. Len(seqs) \in 1 .. Len(seqs) BY <1>2
  <2>2. PICK f \in [1 .. Len(seqs) -> Seq(T)] : FlattenSeq(seqs) = f[Len(seqs)]
    BY <1>2, FlattenIsJoin
  <2> QED BY <1>1, <2>1, <2>2
<1> QED BY <1>1, <1>2

LEMMA FlattenAppend ==
  ASSUME NEW T, NEW seqs \in Seq(Seq(T)), NEW s \in Seq(T)
  PROVE  FlattenSeq(Append(seqs, s)) = FlattenSeq(seqs) \o s
<1> DEFINE more == Append(seqs, s)
           L == Len(seqs)
<1>1. /\ more \in Seq(Seq(T)) /\ Len(more) = L + 1 /\ L \in Nat /\ more # <<>>
      /\ more[L + 1] = s /\ \A i \in 1 .. L : seqs[i] = more[i]
  BY AppendProperties
<1> HIDE DEF more
<1>2. PICK g \in [1 .. Len(more) -> Seq(T)] :
        Joins(g, more) /\ FlattenSeq(more) = g[Len(more)]
  BY <1>1, FlattenIsJoin
<1>3. CASE seqs = <<>>
  <2>1. Len(more) = 1 /\ more[1] = s BY <1>1, <1>3
  <2>2. FlattenSeq(more) = s BY <1>2, <2>1 DEF Joins
  <2>3. FlattenSeq(seqs) = <<>> BY <1>3, FlattenEmpty
  <2>4. <<>> \o s = s OBVIOUS
  <2> QED BY <2>2, <2>3, <2>4 DEF more
<1>4. CASE seqs # <<>>
  <2>1. L \in Nat \ {0} BY <1>4
  <2>2. PICK f \in [1 .. L -> Seq(T)] : Joins(f, seqs) /\ FlattenSeq(seqs) = f[L]
    BY <1>4, FlattenIsJoin
  <2>3. f[L] = g[L]
    <3>1. L <= Len(more) /\ Len(more) \in Nat BY <1>1
    <3>2. L <= Len(seqs) /\ Len(seqs) \in Nat BY <1>1
    <3>3. \A i \in 1 .. L : seqs[i] = more[i] BY <1>1
    <3>4. Joins(f, seqs) /\ Joins(g, more) BY <1>2, <2>2
    <3>5. ASSUME NEW m \in Nat \ {0}, m <= Len(seqs), m <= Len(more),
                 \A i \in 1 .. m : seqs[i] = more[i]
          PROVE  f[m] = g[m]
      BY <3>1, <3>2, <3>4, <3>5, JoinsAgree
    <3> HIDE DEF L
    <3> QED BY <2>1, <3>1, <3>2, <3>3, <3>5
  <2>4. L + 1 \in 1 .. Len(more) /\ L + 1 # 1 /\ (L + 1) - 1 = L BY <1>1, <2>1
  <2>5. g[L + 1] = g[L] \o more[L + 1] BY <1>2, <2>4 DEF Joins
  <2> QED BY <1>1, <1>2, <2>2, <2>3, <2>5 DEF more
<1> QED BY <1>3, <1>4

-----------------------------------------------------------------------------
(* The inductive invariant of the cutting loop                             *)

Chunk == [id : Nat, text : Seq(Char)]

TextsOf(cs) == [i \in DOMAIN cs |-> cs[i].text]

Numbered(cs) == \A i \in DOMAIN cs : cs[i].id = i

Fits(cs, size) == \A i \in DOMAIN cs : Bytes(cs[i].text) <= size /\ cs[i].text # <<>>

NotEarly(cs, size) ==
  \A i \in 1 .. Len(cs) - 1 :
    Bytes(cs[i].text) + Width[Head(cs[i + 1].text)] > size

TypeInv ==
  /\ message \in Seq(Char) /\ Len(message) <= MaxLength
  /\ max_size \in MaxSizes
  /\ pos \in 0 .. Len(message)
  /\ chunks \in Seq(Chunk)
  /\ current \in Seq(Char)
  /\ chunk_id \in Nat
  /\ pc \in {"loop", "done"}

(* What was cut off is in order, numbered, filled and not cut early, ...   *)
CutInv ==
  /\ Numbered(chunks) /\ Fits(chunks, max_size) /\ NotEarly(chunks, max_size)
  /\ FlattenSeq(TextsOf(chunks)) \o (IF pc = "loop" THEN current ELSE <<>>)
       = SubSeq(message, 1, pos)

(* ... the chunk being filled fits, is empty at the start only and could   *)
(* not have gone into the last chunk, ...                                  *)
FillInv ==
  pc = "loop" =>
    /\ chunk_id = Len(chunks) + 1
    /\ Bytes(current) <= max_size
    /\ pos = 0 => chunks = <<>> /\ current = <<>>
    /\ pos > 0 => current # <<>> /\ chunk_id <= pos
    /\ chunks # <<>> =>
         Bytes(chunks[Len(chunks)].text) + Width[Head(current)] > max_size

(* ... and a second chunk is begun exactly when the first is too small for *)
(* what was passed; there are never more chunks than characters.           *)
CountInv ==
  /\ pc = "loop" => (chunks # <<>> <=> Bytes(SubSeq(message, 1, pos)) > max_size)
  /\ pc = "done" => /\ pos = Len(message) /\ Len(chunks) <= pos
                    /\ Len(chunks) > 1 <=> Bytes(message) > max_size

ChunkInv == TypeInv /\ CutInv /\ FillInv /\ CountInv

(* The texts of the chunks are texts.                                      *)
LEMMA TextsType ==
  ASSUME NEW cs \in Seq(Chunk)
  PROVE  TextsOf(cs) \in Seq(Seq(Char)) /\ Len(TextsOf(cs)) = Len(cs)
<1>1. DOMAIN cs = 1 .. Len(cs) /\ Len(cs) \in Nat OBVIOUS
<1>2. \A i \in 1 .. Len(cs) : cs[i].text \in Seq(Char)
  <2>1. \A i \in 1 .. Len(cs) : cs[i] \in Chunk OBVIOUS
  <2> QED BY <2>1 DEF Chunk
<1> QED BY <1>1, <1>2 DEF TextsOf

(* A chunk that fits, is not empty and could not begin in the last one     *)
(* goes to the end of the list.                                            *)
LEMMA CutAppends ==
  ASSUME max_size \in Nat, chunks \in Seq(Chunk), NEW text \in Seq(Char),
         Cut(text), chunk_id = Len(chunks) + 1,
         Numbered(chunks), Fits(chunks, max_size), NotEarly(chunks, max_size),
         text # <<>>, Bytes(text) <= max_size,
         chunks # <<>> => Bytes(chunks[Len(chunks)].text) + Width[Head(text)] > max_size
  PROVE  /\ chunks' \in Seq(Chunk) /\ Len(chunks') = Len(chunks) + 1
         /\ chunks'[Len(chunks')].text = text
         /\ Numbered(chunks') /\ Fits(chunks', max_size) /\ NotEarly(chunks', max_size)
         /\ FlattenSeq(TextsOf(chunks')) = FlattenSeq(TextsOf(chunks)) \o text
<1> DEFINE c == [id |-> chunk_id, text |-> text]
<1>1. /\ c \in Chunk /\ c.text = text /\ c.id = Len(chunks) + 1
      /\ chunks' = Append(chunks, c)
  BY DEF Chunk, Cut
<1> HIDE DEF c
<1>2. /\ chunks' \in Seq(Chunk) /\ Len(chunks') = Len(chunks) + 1 /\ Len(chunks) \in Nat
      /\ chunks'[Len(chunks) + 1] = c /\ \A i \in 1 .. Len(chunks) : chunks'[i] = chunks[i]
  BY <1>1, AppendProperties
<1>3. /\ DOMAIN chunks = 1 .. Len(chunks) /\ DOMAIN chunks' = 1 .. Len(chunks) + 1
      /\ \A i \in DOMAIN chunks' : i \in DOMAIN chunks \/ i = Len(chunks) + 1
  BY <1>2
<1>4. Numbered(chunks') /\ Fits(chunks', max_size)
  BY <1>1, <1>2, <1>3 DEF Numbered, Fits
<1>5. NotEarly(chunks', max_size)
  <2> SUFFICES ASSUME NEW i \in 1 .. Len(chunks)
               PROVE  Bytes(chunks'[i].text) + Width[Head(chunks'[i + 1].text)] > max_size
    BY <1>2 DEF NotEarly
  <2>1. CASE i = Len(chunks)
    <3>1. chunks # <<>> /\ chunks'[i] = chunks[i] /\ chunks'[i + 1] = c BY <1>2, <2>1
    <3> QED BY <1>1, <2>1, <3>1
  <2>2. CASE i # Len(chunks)
    <3>1. i \in 1 .. Len(chunks) - 1 /\ i + 1 \in 1 .. Len(chunks) BY <1>2, <2>2
    <3>2. chunks'[i] = chunks[i] /\ chunks'[i + 1] = chunks[i + 1] BY <1>2, <3>1
    <3> QED BY <3>1, <3>2 DEF NotEarly
  <2> QED BY <2>1, <2>2
<1>6. TextsOf(chunks) \in Seq(Seq(Char)) /\ TextsOf(chunks') = Append(TextsOf(chunks), text)
  <2>1. TextsOf(chunks) \in Seq(Seq(Char)) /\ Len(TextsOf(chunks)) = Len(chunks)
    BY TextsType
  <2>2. Append(TextsOf(chunks), text) =
          [i \in 1 .. Len(chunks) + 1 |-> IF i <= Len(chunks) THEN chunks[i].text ELSE text]
    BY <1>2, <1>3, <2>1 DEF TextsOf
  <2>3. TextsOf(chunks') =
          [i \in 1 .. Len(chunks) + 1 |-> IF i <= Len(chunks) THEN chunks[i].text ELSE text]
    BY <1>1, <1>2, <1>3 DEF TextsOf
  <2> QED BY <2>1, <2>2, <2>3
<1>7. FlattenSeq(TextsOf(chunks')) = FlattenSeq(TextsOf(chunks)) \o text
  BY <1>6, FlattenAppend
<1> QED BY <1>1, <1>2, <1>4, <1>5, <1>7

LEMMA BytesOne ==
  ASSUME NEW c \in Char
  PROVE  Bytes(<<c>>) = Width[c] /\ Width[c] \in Nat /\ Width[c] > 0
<1>1. <<>> \in Seq(Char) /\ Append(<<>>, c) = <<c>> OBVIOUS
<1>2. Width[c] \in Nat /\ Width[c] > 0 BY ChunkingAssumption
<1>3. Bytes(Append(<<>>, c)) = Bytes(<<>>) + Width[c] BY <1>1, BytesAppend
<1> QED BY <1>1, <1>2, <1>3, BytesEmpty

(* Nothing is cut yet: the loop has passed what it is filling.             *)
LEMMA NothingCut ==
  ASSUME ChunkInv, pc = "loop", chunks = <<>>
  PROVE  SubSeq(message, 1, pos) = current
<1>1. TextsOf(chunks) = <<>>
  <2>1. TextsOf(chunks) \in Seq(Seq(Char)) /\ Len(TextsOf(chunks)) = Len(chunks)
    BY TextsType DEF ChunkInv, TypeInv
  <2> QED BY <2>1
<1>2. FlattenSeq(<<>>) = <<>> BY FlattenEmpty
<1>3. <<>> \o current = current BY DEF ChunkInv, TypeInv
<1> QED BY <1>1, <1>2, <1>3 DEF ChunkInv, CutInv

(* One more character is passed.                                           *)
LEMMA OneMore ==
  ASSUME ChunkInv, pos < Len(message)
  PROVE  /\ message[pos + 1] \in Char
         /\ SubSeq(message, 1, pos) \in Seq(Char)
         /\ SubSeq(message, 1, pos + 1) = Append(SubSeq(message, 1, pos), message[pos + 1])
         /\ Bytes(SubSeq(message, 1, pos + 1))
              = Bytes(SubSeq(message, 1, pos)) + Width[message[pos + 1]]
         /\ Bytes(SubSeq(message, 1, pos)) \in Nat
<1>1. /\ message \in Seq(Char) /\ Len(message) \in Nat /\ pos \in Nat
      /\ pos + 1 \in 1 .. Len(message)
  BY DEF ChunkInv, TypeInv
<1>2. message[pos + 1] \in Char BY <1>1
<1>3. SubSeq(message, 1, pos) \in Seq(Char) BY <1>1
<1>4. SubSeq(message, 1, pos + 1) = Append(SubSeq(message, 1, pos), message[pos + 1])
  BY <1>1
<1> QED BY <1>2, <1>3, <1>4, BytesAppend, BytesType

(* A step that cuts before the character                                   *)
LEMMA CutStep ==
  ASSUME ChunkInv, pc = "loop", pos < Len(message), pos' = pos + 1,
         NEW char, char = message[pos + 1],
         Bytes(Append(current, char)) > max_size, Cut(current),
         current' = <<char>>, chunk_id' = chunk_id + 1,
         UNCHANGED <<message, max_size, pc>>
  PROVE  ChunkInv'
<1> DEFINE passed == SubSeq(message, 1, pos)
<1>1. /\ char \in Char /\ passed \in Seq(Char) /\ Bytes(passed) \in Nat
      /\ SubSeq(message, 1, pos + 1) = Append(passed, char)
      /\ Bytes(SubSeq(message, 1, pos + 1)) = Bytes(passed) + Width[char]
  BY OneMore
<1>2. /\ max_size \in Nat /\ Width[char] \in Nat /\ Width[char] <= max_size
      /\ Width[char] > 0 /\ Bytes(<<char>>) = Width[char]
  BY <1>1, BytesOne, ChunkingAssumption DEF ChunkInv, TypeInv
<1>3. /\ current \in Seq(Char) /\ Bytes(current) \in Nat
      /\ Bytes(Append(current, char)) = Bytes(current) + Width[char]
  BY <1>1, BytesAppend, BytesType DEF ChunkInv, TypeInv
<1>4. current # <<>> /\ pos > 0
  <2>1. current # <<>> BY <1>2, <1>3, BytesEmpty
  <2> QED BY <2>1 DEF ChunkInv, TypeInv, FillInv
<1>5. /\ chunks' \in Seq(Chunk) /\ Len(chunks') = Len(chunks) + 1
      /\ chunks'[Len(chunks')].text = current
      /\ Numbered(chunks') /\ Fits(chunks', max_size) /\ NotEarly(chunks', max_size)
      /\ FlattenSeq(TextsOf(chunks')) = FlattenSeq(TextsOf(chunks)) \o current
  <2>1. chunk_id = Len(chunks) + 1 BY DEF ChunkInv, FillInv
  <2>2. /\ chunks \in Seq(Chunk) /\ Numbered(chunks) /\ Fits(chunks, max_size)
        /\ NotEarly(chunks, max_size) /\ Bytes(current) <= max_size
        /\ chunks # <<>> =>
             Bytes(chunks[Len(chunks)].text) + Width[Head(current)] > max_size
    BY DEF ChunkInv, TypeInv, CutInv, FillInv
  <2> QED BY <1>2, <1>3, <1>4, <2>1, <2>2, CutAppends
<1>6. TypeInv'
  BY <1>1, <1>5 DEF ChunkInv, TypeInv
<1>7. CutInv'
  <2>1. FlattenSeq(TextsOf(chunks)) \o current = passed BY DEF ChunkInv, CutInv
  <2>2. FlattenSeq(TextsOf(chunks')) \o current' = SubSeq(message, 1, pos + 1)
    BY <1>1, <1>5, <2>1
  <2> QED BY <1>5, <2>2 DEF CutInv
<1>8. FillInv'
  <2>1. Len(chunks) \in Nat /\ pos \in Nat /\ chunk_id = Len(chunks) + 1 /\ chunk_id <= pos
    BY <1>4 DEF ChunkInv, TypeInv, FillInv
  <2>2. Head(<<char>>) = char /\ <<char>> # <<>> OBVIOUS
  <2> QED BY <1>2, <1>3, <1>5, <2>1, <2>2 DEF FillInv
<1>9. CountInv'
  <2>1. chunks' # <<>>
    <3>1. Len(chunks) \in Nat BY DEF ChunkInv, TypeInv
    <3> QED BY <1>5, <3>1
  <2>2. Bytes(SubSeq(message, 1, pos + 1)) > max_size
    <3>1. CASE chunks = <<>> BY <1>1, <3>1, NothingCut
    <3>2. CASE chunks # <<>> BY <1>1, <1>2, <3>2 DEF ChunkInv, CountInv
    <3> QED BY <3>1, <3>2
  <2> QED BY <2>1, <2>2 DEF CountInv
<1> QED BY <1>6, <1>7, <1>8, <1>9 DEF ChunkInv

LEMMA ConcatAppend ==
  ASSUME NEW T, NEW s \in Seq(T), NEW t \in Seq(T), NEW e \in T
  PROVE  s \o Append(t, e) = Append(s \o t, e)
OBVIOUS

(* A step that goes on filling                                             *)
LEMMA FillStep ==
  ASSUME ChunkInv, pc = "loop", pos < Len(message), pos' = pos + 1,
         NEW char, char = message[pos + 1],
         Bytes(Append(current, char)) <= max_size,
         current' = Append(current, char),
         UNCHANGED <<message, max_size, pc, chunks, chunk_id>>
  PROVE  ChunkInv'
<1> DEFINE passed == SubSeq(message, 1, pos)
           cut == FlattenSeq(TextsOf(chunks))
<1>1. /\ char \in Char /\ passed \in Seq(Char) /\ Bytes(passed) \in Nat
      /\ SubSeq(message, 1, pos + 1) = Append(passed, char)
      /\ Bytes(SubSeq(message, 1, pos + 1)) = Bytes(passed) + Width[char]
  BY OneMore
<1>2. max_size \in Nat /\ Width[char] \in Nat
  BY <1>1, BytesOne, ChunkingAssumption DEF ChunkInv, TypeInv
<1>3. /\ current \in Seq(Char) /\ current' \in Seq(Char) /\ current' # <<>>
      /\ current # <<>> => Head(current') = Head(current)
  BY <1>1 DEF ChunkInv, TypeInv
<1>4. TypeInv' BY <1>3 DEF ChunkInv, TypeInv
<1>5. CutInv'
  <2>1. cut \in Seq(Char)
    <3>1. TextsOf(chunks) \in Seq(Seq(Char)) BY TextsType DEF ChunkInv, TypeInv
    <3> QED BY <3>1, FlattenType
  <2>2. cut \o current = passed BY DEF ChunkInv, CutInv
  <2> HIDE DEF cut
  <2>3. cut \o Append(current, char) = Append(cut \o current, char)
    <3>1. \A t, u \in Seq(Char), e \in Char : t \o Append(u, e) = Append(t \o u, e)
      BY ConcatAppend
    <3> QED BY <1>1, <1>3, <2>1, <3>1
  <2>4. cut \o current' = SubSeq(message, 1, pos + 1) BY <1>1, <2>2, <2>3
  <2> QED BY <2>4 DEF ChunkInv, CutInv, cut
<1>6. FillInv'
  <2>1. pos \in Nat /\ Len(chunks) \in Nat BY DEF ChunkInv, TypeInv
  <2>2. chunks # <<>> => current # <<>> BY <2>1 DEF ChunkInv, FillInv
  <2>3. chunk_id <= pos + 1 BY <2>1 DEF ChunkInv, FillInv
  <2> QED BY <1>3, <2>1, <2>2, <2>3 DEF ChunkInv, FillInv
<1>7. CountInv'
  <2>1. CASE chunks = <<>>
    <3>1. SubSeq(message, 1, pos + 1) = current' BY <1>1, <2>1, NothingCut
    <3>2. ~(Bytes(SubSeq(message, 1, pos + 1)) > max_size)
      <4>1. Bytes(current') \in Nat BY <1>3, BytesType
      <4>2. Bytes(SubSeq(message, 1, pos + 1)) = Bytes(current') BY <3>1
      <4>3. Bytes(current') <= max_size OBVIOUS
      <4> QED BY <1>2, <4>1, <4>2, <4>3
    <3> QED BY <2>1, <3>2 DEF CountInv
  <2>2. CASE chunks # <<>>
    <3>1. Bytes(SubSeq(message, 1, pos + 1)) > max_size
      BY <1>1, <1>2, <2>2 DEF ChunkInv, CountInv
    <3> QED BY <2>2, <3>1 DEF CountInv
  <2> QED BY <2>1, <2>2
<1> QED BY <1>4, <1>5, <1>6, <1>7 DEF ChunkInv

(* The step after the last character                                       *)
LEMMA RestStep ==
  ASSUME ChunkInv, SplitRest
  PROVE  ChunkInv'
<1>1. /\ pc = "loop" /\ pc' = "done" /\ pos = Len(message)
      /\ UNCHANGED <<message, max_size, pos, current, chunk_id>>
  BY DEF SplitRest
<1>2. /\ message \in Seq(Char) /\ pos \in Nat /\ Len(chunks) \in Nat /\ max_size \in Nat
      /\ chunks \in Seq(Chunk) /\ current \in Seq(Char)
      /\ SubSeq(message, 1, pos) = message /\ Bytes(message) \in Nat
  BY <1>1, BytesType, ChunkingAssumption DEF ChunkInv, TypeInv
<1>3. FlattenSeq(TextsOf(chunks)) \o current = message
  BY <1>1, <1>2 DEF ChunkInv, CutInv
<1>4. CASE current = <<>>
  <2>1. pos = 0 /\ chunks = <<>> /\ chunks' = chunks
    BY <1>1, <1>2, <1>4 DEF SplitRest, ChunkInv, FillInv
  <2>2. CutInv'
    BY <1>1, <1>2, <1>3, <1>4, <2>1 DEF ChunkInv, CutInv
  <2>3. CountInv'
    <3>1. ~(Bytes(message) > max_size)
      BY <1>1, <1>2, <2>1 DEF ChunkInv, CountInv
    <3>2. Len(chunks) = 0 BY <2>1
    <3> QED BY <1>1, <1>2, <2>1, <3>1, <3>2 DEF CountInv
  <2> QED BY <1>1, <2>1, <2>2, <2>3 DEF ChunkInv, TypeInv, FillInv
<1>5. CASE current # <<>>
  <2>1. Cut(current) /\ chunk_id = Len(chunks) + 1 /\ chunk_id <= pos
    BY <1>1, <1>2, <1>5 DEF SplitRest, ChunkInv, FillInv
  <2>2. /\ Numbered(chunks) /\ Fits(chunks, max_size)
        /\ NotEarly(chunks, max_size) /\ Bytes(current) <= max_size
        /\ chunks # <<>> =>
             Bytes(chunks[Len(chunks)].text) + Width[Head(current)] > max_size
    BY <1>1 DEF ChunkInv, CutInv, FillInv
  <2>3. /\ chunks' \in Seq(Chunk) /\ Len(chunks') = Len(chunks) + 1
        /\ Numbered(chunks') /\ Fits(chunks', max_size) /\ NotEarly(chunks', max_size)
        /\ FlattenSeq(TextsOf(chunks')) = message
    BY <1>2, <1>3, <1>5, <2>1, <2>2, CutAppends
  <2>4. message \o <<>> = message BY <1>2
  <2>5. CutInv' BY <1>1, <1>2, <2>3, <2>4 DEF CutInv
  <2>6. CountInv'
    <3>1. Len(chunks') > 1 <=> chunks # <<>> BY <1>2, <2>3
    <3>2. chunks # <<>> <=> Bytes(message) > max_size
      BY <1>1, <1>2 DEF ChunkInv, CountInv
    <3> QED BY <1>1, <1>2, <2>1, <2>3, <3>1, <3>2 DEF CountInv
  <2> QED BY <1>1, <2>3, <2>5, <2>6 DEF ChunkInv, TypeInv, FillInv
<1> QED BY <1>4, <1>5

LEMMA ChunkInit == Init => ChunkInv
<1> SUFFICES ASSUME Init PROVE ChunkInv OBVIOUS
<1>1. /\ pos = 0 /\ chunks = <<>> /\ current = <<>> /\ chunk_id = 1 /\ pc = "loop"
      /\ max_size \in MaxSizes /\ max_size \in Nat
  BY ChunkingAssumption DEF Init
<1>2. message \in Seq(Char) /\ Len(message) <= MaxLength
  <2>1. PICK n \in 0 .. MaxLength : message \in [1 .. n -> Char] BY DEF Init, Message
  <2> QED BY <2>1, ChunkingAssumption
<1>3. TypeInv BY <1>1, <1>2 DEF TypeInv
<1>4. SubSeq(message, 1, 0) = <<>> BY <1>2
<1>5. FlattenSeq(TextsOf(<<>>)) \o <<>> = <<>>
  <2>1. <<>> \in Seq(Chunk) /\ Len(<<>>) = 0 OBVIOUS
  <2>2. TextsOf(<<>>) \in Seq(Seq(Char)) /\ Len(TextsOf(<<>>)) = 0
    BY <2>1, TextsType
  <2>3. TextsOf(<<>>) = <<>> BY <2>2
  <2>4. <<>> \o <<>> = <<>> OBVIOUS
  <2> QED BY <2>3, <2>4, FlattenEmpty
<1>6. CutInv
  <2>1. Numbered(chunks) /\ Fits(chunks, max_size) BY <1>1 DEF Numbered, Fits
  <2>2. NotEarly(chunks, max_size)
    <3>1. Len(chunks) - 1 = -1 BY <1>1
    <3> QED BY <3>1 DEF NotEarly
  <2> QED BY <1>1, <1>4, <1>5, <2>1, <2>2 DEF CutInv
<1>7. FillInv /\ CountInv
  <2>1. Len(chunks) = 0 BY <1>1
  <2>2. Bytes(current) = 0 /\ Bytes(SubSeq(message, 1, pos)) = 0
    BY <1>1, <1>4, BytesEmpty
  <2> QED BY <1>1, <2>1, <2>2 DEF FillInv, CountInv
<1> QED BY <1>3, <1>6, <1>7 DEF ChunkInv

LEMMA ChunkStep == ChunkInv /\ [Next]_vars => ChunkInv'
<1> SUFFICES ASSUME ChunkInv, [Next]_vars PROVE ChunkInv' OBVIOUS
<1>1. CASE SplitChar
  <2> DEFINE char == message[pos + 1]
  <2>1. /\ pc = "loop" /\ pos < Len(message) /\ pos' = pos + 1
        /\ UNCHANGED <<message, max_size, pc>>
    BY <1>1 DEF SplitChar
  <2>2. CASE /\ Bytes(Append(current, char)) > max_size /\ Cut(current)
             /\ current' = <<char>> /\ chunk_id' = chunk_id + 1
    BY <2>1, <2>2, CutStep
  <2>3. CASE /\ Bytes(Append(current, char)) <= max_size
             /\ current' = Append(current, char) /\ UNCHANGED <<chunks, chunk_id>>
    BY <2>1, <2>3, FillStep
  <2> QED BY <1>1, <2>2, <2>3 DEF SplitChar
<1>2. CASE SplitRest BY <1>2, RestStep
<1>3. CASE UNCHANGED vars
  BY <1>3 DEF vars, ChunkInv, TypeInv, CutInv, FillInv, CountInv
<1> QED BY <1>1, <1>2, <1>3 DEF Next

LEMMA ChunkCorrect ==
  ChunkInv => NothingLost /\ TextsFilled /\ BatchesAgree
<1> SUFFICES ASSUME ChunkInv PROVE NothingLost /\ TextsFilled /\ BatchesAgree
  OBVIOUS
<1>1. Texts = TextsOf(chunks) BY DEF Texts, TextsOf
<1>2. NothingLost BY <1>1 DEF ChunkInv, CutInv, Numbered, NothingLost
<1>3. TextsFilled
  BY DEF ChunkInv, CutInv, Fits, NotEarly, TextsFilled
<1>4. BatchesAgree
  <2> SUFFICES ASSUME pc = "done"
               PROVE  message # <<>> /\ Bytes(message) > max_size <=> Len(chunks) > 1
    BY DEF BatchesAgree, is_it_in_batches
  <2>1. Len(chunks) > 1 <=> Bytes(message) > max_size BY DEF ChunkInv, CountInv
  <2>2. max_size \in Nat BY ChunkingAssumption DEF ChunkInv, TypeInv
  <2>3. Bytes(message) > max_size => message # <<>> BY <2>2, BytesEmpty
  <2> QED BY <2>1, <2>3
<1> QED BY <1>2, <1>3, <1>4

(* split_into_chunks: at every turn of the loop the texts cut off and the  *)
(* one being filled are the characters passed, in order and numbered 1, 2, *)
(* ...; at the end the chunks are the message.                             *)
THEOREM ChunksAreTheMessage == Spec => []NothingLost
<1>1. ChunkInv => NothingLost BY ChunkCorrect
<1> QED BY <1>1, ChunkInit, ChunkStep, PTL DEF Spec

(* split_into_chunks: leaving markers aside, no text is empty or longer    *)
(* than max_size bytes, and none ends before the next character did not    *)
(* fit.                                                                    *)
THEOREM TextsAreFilled == Spec => []TextsFilled
<1>1. ChunkInv => TextsFilled BY ChunkCorrect
<1> QED BY <1>1, ChunkInit, ChunkStep, PTL DEF Spec

(* is_it_in_batches and split_into_chunks agree on which messages without  *)
(* a marker are cut.                                                       *)
THEOREM CutWhenInBatches == Spec => []BatchesAgree
<1>1. ChunkInv => BatchesAgree BY ChunkCorrect
<1> QED BY <1>1, ChunkInit, ChunkStep, PTL DEF Spec

-----------------------------------------------------------------------------
(* Framing composes the loop of Chunking with a radio: what it does to the *)
(* variables of Chunking is a step of Chunking or none.                    *)
THEOREM FramingCutsAsChunking == FramingSpec => Spec
<1>1. FramingInit => Init BY DEF FramingInit
<1>2. [FramingNext]_framingVars => [Next]_vars
  BY DEF FramingNext, framingVars, Cutting, HearClean, HearNoisy, Hear, Next
<1> QED BY <1>1, <1>2, PTL DEF Spec, FramingSpec

-----------------------------------------------------------------------------
(* The checksum                                                            *)

Sums(f, text) ==
  \A n \in 0 .. Len(text) : f[n] = IF n = 0 THEN {} ELSE Xor(f[n - 1], Code[text[n]])

LEMMA SumsExist ==
  ASSUME NEW text \in Seq(Symbol)
  PROVE  \E f \in [0 .. Len(text) -> SUBSET (1 .. Bits)] : Sums(f, text)
<1> DEFINE W == SUBSET (1 .. Bits)
           step == [p \in W \X Symbol |-> Xor(p[1], Code[p[2]])]
<1>1. \A A \in W, c \in Symbol : Xor(A, Code[c]) \in W BY WireAssumption DEF Xor
<1>2. step \in [W \X Symbol -> W]
  <2> HIDE DEF W
  <2> QED BY <1>1
<1>3. \A A \in W, c \in Symbol : step[<<A, c>>] = Xor(A, Code[c]) OBVIOUS
<1>4. {} \in W OBVIOUS
<1> HIDE DEF step, W
<1>5. PICK f \in [0 .. Len(text) -> W] : Folds(f, {}, step, text)
  BY <1>2, <1>4, FoldExists
<1>6. ASSUME NEW n \in 0 .. Len(text), n # 0
      PROVE  step[<<f[n - 1], text[n]>>] = Xor(f[n - 1], Code[text[n]])
  <2>1. f[n - 1] \in W /\ text[n] \in Symbol BY <1>6
  <2> QED BY <1>3, <2>1
<1>7. Sums(f, text) BY <1>5, <1>6 DEF Folds, Sums
<1> QED BY <1>7 DEF W

LEMMA SumsAgree ==
  ASSUME NEW text \in Seq(Symbol), NEW f, NEW g, NEW m \in Nat,
         Sums(f, text), Sums(g, text), m <= Len(text)
  PROVE  f[m] = g[m]
<1>1. f[0] = g[0] BY DEF Sums
<1>2. ASSUME NEW n \in 1 .. m, f[n - 1] = g[n - 1] PROVE f[n] = g[n]
  <2>1. n \in 0 .. Len(text) /\ n # 0 OBVIOUS
  <2>2. f[n] = Xor(f[n - 1], Code[text[n]]) BY <2>1 DEF Sums
  <2>3. g[n] = Xor(g[n - 1], Code[text[n]]) BY <2>1 DEF Sums
  <2> QED BY <1>2, <2>2, <2>3
<1> QED BY <1>1, <1>2, SameUpward

LEMMA CrcIsSum ==
  ASSUME NEW text \in Seq(Symbol)
  PROVE  \E f \in [0 .. Len(text) -> SUBSET (1 .. Bits)] :
           Sums(f, text) /\ calculate_crc(text) = Digits(f[Len(text)])
<1> DEFINE Eqn(h) == h = [n \in 0 .. Len(text) |->
                           IF n = 0 THEN {} ELSE Xor(h[n - 1], Code[text[n]])]
           u == CHOOSE h : Eqn(h)
<1>1. PICK f \in [0 .. Len(text) -> SUBSET (1 .. Bits)] : Sums(f, text) BY SumsExist
<1>2. Eqn(f) BY <1>1 DEF Sums
<1>3. Eqn(u) BY <1>2
<1>4. calculate_crc(text) = Digits(u[Len(text)]) BY DEF calculate_crc
<1>5. Sums(u, text)
  <2> HIDE DEF u
  <2> QED BY <1>3 DEF Sums
<1>6. Len(text) \in Nat OBVIOUS
<1> HIDE DEF u
<1>7. u[Len(text)] = f[Len(text)] BY <1>1, <1>5, <1>6, SumsAgree
<1> QED BY <1>1, <1>4, <1>7

(* Exclusive or with the same set, or to the same set, keeps sets apart.   *)
LEMMA XorCancels ==
  ASSUME NEW A, NEW B, NEW C, A # B
  PROVE  Xor(A, C) # Xor(B, C) /\ Xor(C, A) # Xor(C, B)
BY DEF Xor

LEMMA DigitsApart ==
  ASSUME NEW A \in SUBSET (1 .. Bits), NEW B \in SUBSET (1 .. Bits), A # B
  PROVE  Digits(A) # Digits(B)
<1>1. PICK b \in 1 .. Bits : (b \in A) # (b \in B) OBVIOUS
<1>2. Digits(A)[b] # Digits(B)[b] BY <1>1 DEF Digits
<1> QED BY <1>2

LEMMA CrcType ==
  ASSUME NEW text \in Seq(Symbol)
  PROVE  calculate_crc(text) \in Seq({"A", "0"}) /\ Len(calculate_crc(text)) = Bits
<1>1. PICK f \in [0 .. Len(text) -> SUBSET (1 .. Bits)] :
        calculate_crc(text) = Digits(f[Len(text)])
  BY CrcIsSum
<1>2. calculate_crc(text) = [b \in 1 .. Bits |-> IF b \in f[Len(text)] THEN "A" ELSE "0"]
  BY <1>1 DEF Digits
<1> QED BY <1>2, WireAssumption

(* A text and the same text with another symbol at one place have two      *)
(* checksums.                                                              *)
LEMMA CrcApart ==
  ASSUME NEW p \in Seq(Symbol), NEW i \in 1 .. Len(p), NEW s \in Symbol, s # p[i]
  PROVE  calculate_crc([p EXCEPT ![i] = s]) # calculate_crc(p)
<1> DEFINE q == [p EXCEPT ![i] = s]
           L == Len(p)
<1>1. /\ L \in Nat /\ q \in Seq(Symbol) /\ Len(q) = L /\ q[i] = s
      /\ \A n \in 1 .. L : n # i => q[n] = p[n]
  OBVIOUS
<1> HIDE DEF q
<1>2. PICK f \in [0 .. L -> SUBSET (1 .. Bits)] :
        Sums(f, p) /\ calculate_crc(p) = Digits(f[L])
  BY CrcIsSum
<1>3. PICK g \in [0 .. Len(q) -> SUBSET (1 .. Bits)] :
        Sums(g, q) /\ calculate_crc(q) = Digits(g[Len(q)])
  BY <1>1, CrcIsSum
<1>4. Code[p[i]] # Code[q[i]]
  <2>1. p[i] \in Symbol OBVIOUS
  <2> QED BY <1>1, <2>1, WireAssumption
<1> DEFINE S == {n \in Nat : n <= L => (f[n] = g[n] <=> n < i)}
<1>5. 0 \in S
  <2>1. f[0] = {} /\ g[0] = {} BY <1>1, <1>2, <1>3 DEF Sums
  <2> QED BY <2>1
<1>6. ASSUME NEW n \in S PROVE n + 1 \in S
  <2>a. n \in Nat /\ n + 1 \in Nat OBVIOUS
  <2> SUFFICES ASSUME n + 1 <= L PROVE f[n + 1] = g[n + 1] <=> n + 1 < i BY <2>a
  <2>1. /\ n + 1 \in 1 .. L /\ n + 1 \in 0 .. L /\ n + 1 \in 0 .. Len(q) /\ n + 1 # 0
        /\ (n + 1) - 1 = n /\ (f[n] = g[n] <=> n < i)
    BY <1>1, <2>a
  <2> HIDE DEF S
  <2>2. f[n + 1] = Xor(f[n], Code[p[n + 1]]) BY <1>2, <2>1 DEF Sums
  <2>3. g[n + 1] = Xor(g[n], Code[q[n + 1]]) BY <1>3, <2>1 DEF Sums
  <2>4. CASE n + 1 < i
    <3>1. f[n] = g[n] /\ p[n + 1] = q[n + 1] BY <1>1, <2>1, <2>a, <2>4
    <3> QED BY <2>2, <2>3, <2>4, <3>1
  <2>5. CASE n + 1 = i
    <3>1. f[n] = g[n] BY <2>1, <2>a, <2>5
    <3>2. f[n + 1] # g[n + 1] BY <1>4, <2>2, <2>3, <2>5, <3>1, XorCancels
    <3> QED BY <2>5, <3>2
  <2>6. CASE i < n + 1
    <3>1. f[n] # g[n] /\ p[n + 1] = q[n + 1] BY <1>1, <2>1, <2>a, <2>6
    <3>2. f[n + 1] # g[n + 1] BY <2>2, <2>3, <3>1, XorCancels
    <3> QED BY <2>a, <2>6, <3>2
  <2> QED BY <2>a, <2>4, <2>5, <2>6
<1>7. S = Nat
  <2> HIDE DEF S
  <2>1. S \in SUBSET Nat BY DEF S
  <2> QED BY <1>5, <1>6, <2>1, NatByInduction
<1>8. f[L] # g[L] BY <1>1, <1>7
<1>9. f[L] \in SUBSET (1 .. Bits) /\ g[L] \in SUBSET (1 .. Bits) BY <1>1, <1>2, <1>3
<1> QED BY <1>1, <1>2, <1>3, <1>8, <1>9, DigitsApart DEF q

-----------------------------------------------------------------------------
(* Taking a frame apart                                                    *)

(* A set of numbers up to n that is not empty has a largest member.        *)
LEMMA LargestExists ==
  ASSUME NEW n \in Nat, NEW S \in SUBSET (1 .. n), S # {}
  PROVE  \E k \in S : \A j \in S : j <= k
<1> DEFINE Has(m) == \A U \in SUBSET (1 .. m) : U # {} => \E k \in U : \A j \in U : j <= k
           N == {m \in Nat : Has(m)}
<1>1. 0 \in N
  <2>1. \A U \in SUBSET (1 .. 0) : U = {} OBVIOUS
  <2> QED BY <2>1
<1>2. ASSUME NEW m \in N PROVE m + 1 \in N
  <2>a. m \in Nat /\ m + 1 \in Nat /\ Has(m) OBVIOUS
  <2> SUFFICES ASSUME NEW U \in SUBSET (1 .. m + 1), U # {}
               PROVE  \E k \in U : \A j \in U : j <= k
    BY <2>a
  <2>1. CASE m + 1 \in U BY <2>a, <2>1
  <2>2. CASE m + 1 \notin U
    <3>1. U \in SUBSET (1 .. m) BY <2>a, <2>2
    <3> QED BY <2>a, <3>1
  <2> QED BY <2>1, <2>2
<1>3. N = Nat
  <2> HIDE DEF N
  <2>1. N \in SUBSET Nat BY DEF N
  <2> QED BY <1>1, <1>2, <2>1, NatByInduction
<1>4. Has(n) BY <1>3
<1> QED BY <1>4

LEMMA MaxIs ==
  ASSUME NEW S \in SUBSET Nat, NEW k \in S, \A j \in S : j <= k
  PROVE  Max(S) = k
<1>1. \A x \in S : (\A y \in S : x >= y) => x = k OBVIOUS
<1>2. \A y \in S : k >= y OBVIOUS
<1> QED BY <1>1, <1>2 DEF Max

LEMMA MinIs ==
  ASSUME NEW S \in SUBSET Nat, NEW k \in S, \A j \in S : k <= j
  PROVE  Min(S) = k
<1>1. \A x \in S : (\A y \in S : x <= y) => x = k OBVIOUS
<1> QED BY <1>1 DEF Min

(* The last "*" separates the payload from the checksum.                   *)
LEMMA ParseAtStar ==
  ASSUME NEW raw \in Seq(Symbol), NEW k \in 1 .. Len(raw), raw[k] = "*",
         \A j \in k + 1 .. Len(raw) : raw[j] # "*"
  PROVE  parse_message(raw) =
           IF Upper(SubSeq(raw, k + 1, Len(raw))) = calculate_crc(SubSeq(raw, 1, k - 1))
           THEN Parsed(SubSeq(raw, 1, k - 1)) ELSE Invalid
<1>1. At("*", raw) \in SUBSET Nat /\ k \in At("*", raw) BY DEF At
<1>2. \A j \in At("*", raw) : j <= k BY DEF At
<1>3. Max(At("*", raw)) = k BY <1>1, <1>2, MaxIs
<1> QED BY <1>1, <1>3 DEF parse_message

LEMMA ParseNoStar ==
  ASSUME NEW raw \in Seq(Symbol), \A j \in 1 .. Len(raw) : raw[j] # "*"
  PROVE  parse_message(raw) = Invalid
<1>1. At("*", raw) = {} BY DEF At
<1> QED BY <1>1 DEF parse_message

LEMMA UpperLen ==
  ASSUME NEW text \in Seq(Symbol) PROVE Len(Upper(text)) = Len(text)
BY DEF Upper

LEMMA UpperDigits ==
  ASSUME NEW text \in Seq({"A", "0"}) PROVE Upper(text) = text
<1>1. \A i \in DOMAIN text : text[i] # "a"
  <2>1. \A i \in DOMAIN text : text[i] \in {"A", "0"} OBVIOUS
  <2> QED BY <2>1
<1>2. text = [i \in DOMAIN text |-> text[i]] OBVIOUS
<1> QED BY <1>1, <1>2 DEF Upper

(* A checksum of another length is refused.                                *)
LEMMA WrongLength ==
  ASSUME NEW raw \in Seq(Symbol), NEW k \in 1 .. Len(raw), raw[k] = "*",
         \A j \in k + 1 .. Len(raw) : raw[j] # "*", Len(raw) - k # Bits
  PROVE  parse_message(raw) = Invalid
<1> DEFINE payload == SubSeq(raw, 1, k - 1)
           crc == SubSeq(raw, k + 1, Len(raw))
<1>1. payload \in Seq(Symbol) OBVIOUS
<1>2. crc \in Seq(Symbol) /\ Len(crc) = Len(raw) - k OBVIOUS
<1>3. Len(calculate_crc(payload)) = Bits BY <1>1, CrcType
<1> HIDE DEF payload, crc
<1>4. Upper(crc) # calculate_crc(payload) BY <1>2, <1>3, UpperLen
<1> QED BY <1>4, ParseAtStar DEF payload, crc

FrameOf(p) == p \o <<"*">> \o calculate_crc(p)

LEMMA FrameShape ==
  ASSUME NEW p \in Seq(Symbol)
  PROVE  LET L == Len(p)
             F == FrameOf(p)
         IN  /\ F \in Seq(Symbol) /\ Len(F) = L + 1 + Bits
             /\ \A j \in 1 .. L : F[j] = p[j]
             /\ F[L + 1] = "*"
             /\ \A j \in 1 .. Bits : F[L + 1 + j] = calculate_crc(p)[j]
             /\ \A j \in L + 2 .. L + 1 + Bits : F[j] \in {"A", "0"}
<1> DEFINE d == calculate_crc(p)
<1>1. d \in Seq({"A", "0"}) /\ Len(d) = Bits /\ Bits \in Nat BY CrcType, WireAssumption
<1>2. d \in Seq(Symbol) /\ "*" \in Symbol
  <2>1. {"A", "0"} \subseteq Symbol /\ "*" \in Symbol BY WireAssumption
  <2> QED BY <1>1, <2>1
<1> HIDE DEF d
<1> DEFINE q == p \o <<"*">>
<1>3. /\ q \in Seq(Symbol) /\ Len(q) = Len(p) + 1 /\ Len(p) \in Nat
      /\ \A j \in 1 .. Len(p) : q[j] = p[j]
      /\ q[Len(p) + 1] = "*"
  BY <1>2
<1> HIDE DEF q
<1>4. /\ q \o d \in Seq(Symbol) /\ Len(q \o d) = Len(q) + Len(d)
      /\ \A j \in 1 .. Len(q) + Len(d) :
           (q \o d)[j] = IF j <= Len(q) THEN q[j] ELSE d[j - Len(q)]
  BY <1>2, <1>3, ConcatProperties
<1>5. FrameOf(p) = q \o d BY DEF FrameOf, q, d
<1> DEFINE F == q \o d
<1> HIDE DEF F
<1>6. \A j \in 1 .. Len(p) : F[j] = p[j] BY <1>1, <1>3, <1>4 DEF F
<1>7. F[Len(p) + 1] = "*" BY <1>1, <1>3, <1>4 DEF F
<1>8. ASSUME NEW j \in 1 .. Bits PROVE F[Len(p) + 1 + j] = d[j]
  <2> DEFINE m == Len(p) + 1 + j
  <2>1. m \in 1 .. Len(q) + Len(d) /\ ~(m <= Len(q)) /\ m - Len(q) = j
    BY <1>1, <1>3
  <2> QED BY <1>4, <2>1 DEF F
<1>9. ASSUME NEW j \in Len(p) + 2 .. Len(p) + 1 + Bits PROVE F[j] \in {"A", "0"}
  <2>1. j \in 1 .. Len(q) + Len(d) /\ ~(j <= Len(q)) /\ j - Len(q) \in 1 .. Len(d)
    BY <1>1, <1>3
  <2>2. F[j] = d[j - Len(q)] BY <1>4, <2>1 DEF F
  <2> QED BY <1>1, <2>1, <2>2
<1> QED BY <1>1, <1>3, <1>4, <1>5, <1>6, <1>7, <1>8, <1>9 DEF F, d

LEMMA ParseFrame ==
  ASSUME NEW p \in Seq(Symbol) PROVE parse_message(FrameOf(p)) = Parsed(p)
<1> DEFINE F == FrameOf(p)
           L == Len(p)
           d == calculate_crc(p)
<1>1. /\ F \in Seq(Symbol) /\ Len(F) = L + 1 + Bits /\ L \in Nat /\ Bits \in Nat
      /\ \A j \in 1 .. L : F[j] = p[j]
      /\ F[L + 1] = "*"
      /\ \A j \in 1 .. Bits : F[L + 1 + j] = d[j]
      /\ \A j \in L + 2 .. L + 1 + Bits : F[j] \in {"A", "0"}
  BY FrameShape, WireAssumption
<1>2. d \in Seq({"A", "0"}) /\ Len(d) = Bits BY CrcType
<1> HIDE DEF F, d
<1>3. SubSeq(F, 1, L) = p BY <1>1
<1>4. SubSeq(F, L + 2, Len(F)) = d
  <2>1. SubSeq(F, L + 2, Len(F)) = [j \in 1 .. Bits |-> F[L + 1 + j]]
    <3>1. /\ Len(SubSeq(F, L + 2, Len(F))) = Bits
          /\ \A j \in 1 .. Bits : SubSeq(F, L + 2, Len(F))[j] = F[L + 1 + j]
      BY <1>1
    <3>2. SubSeq(F, L + 2, Len(F)) \in Seq(Symbol) BY <1>1
    <3> QED BY <3>1, <3>2
  <2>2. d = [j \in 1 .. Bits |-> d[j]] BY <1>2
  <2> QED BY <1>1, <2>1, <2>2
<1>5. /\ L + 1 \in 1 .. Len(F) /\ (L + 1) + 1 = L + 2 /\ (L + 1) - 1 = L
      /\ \A j \in (L + 1) + 1 .. Len(F) : F[j] # "*"
  <2>1. \A j \in (L + 1) + 1 .. Len(F) : j \in L + 2 .. L + 1 + Bits BY <1>1
  <2> QED BY <1>1, <2>1
<1>6. parse_message(F) = IF Upper(d) = d THEN Parsed(p) ELSE Invalid
  <2>1. parse_message(F) =
          IF Upper(SubSeq(F, (L + 1) + 1, Len(F))) = calculate_crc(SubSeq(F, 1, (L + 1) - 1))
          THEN Parsed(SubSeq(F, 1, (L + 1) - 1)) ELSE Invalid
    BY <1>1, <1>5, ParseAtStar
  <2> QED BY <1>3, <1>4, <1>5, <2>1 DEF d
<1>7. Upper(d) = d BY <1>2, UpperDigits
<1> QED BY <1>6, <1>7 DEF F

(* One symbol of a frame is another one: the payload's checksum is another *)
(* one, or the checksum has another length, or nothing but the checksum    *)
(* was hurt.                                                               *)
LEMMA HurtFrame ==
  ASSUME NEW p \in Seq(Symbol), NEW i \in DOMAIN FrameOf(p), NEW s \in Symbol,
         s # FrameOf(p)[i]
  PROVE  parse_message([FrameOf(p) EXCEPT ![i] = s]) \in {Invalid, Parsed(p)}
<1> DEFINE F == FrameOf(p)
           G == [F EXCEPT ![i] = s]
           L == Len(p)
           d == calculate_crc(p)
<1>1. /\ F \in Seq(Symbol) /\ Len(F) = L + 1 + Bits /\ L \in Nat /\ Bits \in Nat
      /\ \A j \in 1 .. L : F[j] = p[j]
      /\ F[L + 1] = "*"
      /\ \A j \in 1 .. Bits : F[L + 1 + j] = d[j]
      /\ \A j \in L + 2 .. L + 1 + Bits : F[j] \in {"A", "0"}
  BY FrameShape, WireAssumption
<1>2. d \in Seq({"A", "0"}) /\ Len(d) = Bits BY CrcType
<1>a. i \in DOMAIN F /\ s # F[i] OBVIOUS
<1> HIDE DEF F, d
<1>3. /\ i \in 1 .. L + 1 + Bits /\ DOMAIN F = 1 .. L + 1 + Bits
      /\ G \in Seq(Symbol) /\ Len(G) = L + 1 + Bits /\ G[i] = s
      /\ \A j \in 1 .. L + 1 + Bits : j # i => G[j] = F[j]
  BY <1>1, <1>a
<1> HIDE DEF G
<1>b. \A j \in L + 2 .. L + 1 + Bits : j # i => G[j] # "*"
  <2> SUFFICES ASSUME NEW j \in L + 2 .. L + 1 + Bits, j # i PROVE G[j] # "*" OBVIOUS
  <2>1. F[j] \in {"A", "0"} BY <1>1
  <2>2. j \in 1 .. L + 1 + Bits BY <1>1
  <2> QED BY <1>3, <2>1, <2>2
<1>4. CASE i \in 1 .. L
  <2> DEFINE q == [p EXCEPT ![i] = s]
  <2>1. q \in Seq(Symbol) /\ Len(q) = L /\ SubSeq(G, 1, L) = q
    <3>1. q \in Seq(Symbol) /\ Len(q) = L /\ q[i] = s
          /\ \A j \in 1 .. L : j # i => q[j] = p[j]
      BY <1>4
    <3>2. \A j \in 1 .. L : G[j] = q[j]
      <4> SUFFICES ASSUME NEW j \in 1 .. L PROVE G[j] = q[j] OBVIOUS
      <4>1. j \in 1 .. L + 1 + Bits BY <1>1
      <4> QED BY <1>1, <1>3, <3>1, <4>1
    <3> HIDE DEF q
    <3>3. SubSeq(G, 1, L) = [j \in 1 .. L |-> G[j]] BY <1>1, <1>3
    <3>4. q = [j \in 1 .. L |-> q[j]] BY <3>1
    <3> QED BY <3>1, <3>2, <3>3, <3>4
  <2>2. calculate_crc(q) # d
    <3>1. s # p[i] BY <1>1, <1>a, <1>4
    <3> QED BY <1>4, <3>1, CrcApart DEF d
  <2> HIDE DEF q
  <2>3. SubSeq(G, L + 2, Len(G)) = d
    <3>1. ASSUME NEW j \in 1 .. Bits PROVE G[L + 1 + j] = d[j]
      <4>1. L + 1 + j \in 1 .. L + 1 + Bits /\ L + 1 + j # i BY <1>1, <1>4
      <4> QED BY <1>1, <1>3, <4>1
    <3>2. SubSeq(G, L + 2, Len(G)) = [j \in 1 .. Bits |-> G[L + 1 + j]]
      <4>1. /\ Len(SubSeq(G, L + 2, Len(G))) = Bits
            /\ \A j \in 1 .. Bits : SubSeq(G, L + 2, Len(G))[j] = G[L + 1 + j]
        BY <1>1, <1>3
      <4>2. SubSeq(G, L + 2, Len(G)) \in Seq(Symbol) BY <1>1, <1>3
      <4> QED BY <4>1, <4>2
    <3>3. d = [j \in 1 .. Bits |-> d[j]] BY <1>2
    <3> QED BY <3>1, <3>2, <3>3
  <2>4. /\ L + 1 \in 1 .. Len(G) /\ (L + 1) + 1 = L + 2 /\ (L + 1) - 1 = L
        /\ G[L + 1] = "*" /\ \A j \in (L + 1) + 1 .. Len(G) : G[j] # "*"
    <3>1. G[L + 1] = "*" BY <1>1, <1>3, <1>4
    <3>2. \A j \in (L + 1) + 1 .. Len(G) : j \in L + 2 .. L + 1 + Bits /\ j # i
      BY <1>1, <1>3, <1>4
    <3>3. \A j \in (L + 1) + 1 .. Len(G) : G[j] # "*" BY <1>b, <3>2
    <3> QED BY <1>1, <1>3, <3>1, <3>3
  <2>5. parse_message(G) =
          IF Upper(SubSeq(G, (L + 1) + 1, Len(G))) = calculate_crc(SubSeq(G, 1, (L + 1) - 1))
          THEN Parsed(SubSeq(G, 1, (L + 1) - 1)) ELSE Invalid
    BY <1>3, <2>4, ParseAtStar
  <2>6. Upper(d) # calculate_crc(q) BY <1>2, <2>2, UpperDigits
  <2>7. parse_message(G) = Invalid BY <2>1, <2>3, <2>4, <2>5, <2>6
  <2> QED BY <2>7 DEF G, F
<1>5. CASE i = L + 1
  <2>1. \A j \in L + 1 .. L + 1 + Bits : G[j] # "*"
    <3>1. \A j \in L + 2 .. L + 1 + Bits : G[j] # "*"
      <4>1. \A j \in L + 2 .. L + 1 + Bits : j # i BY <1>1, <1>5
      <4> QED BY <1>b, <4>1
    <3>2. G[L + 1] # "*" BY <1>1, <1>3, <1>5, <1>a
    <3>3. \A j \in L + 1 .. L + 1 + Bits : j = L + 1 \/ j \in L + 2 .. L + 1 + Bits
      BY <1>1
    <3> QED BY <3>1, <3>2, <3>3
  <2> DEFINE stars == {j \in 1 .. L : G[j] = "*"}
  <2>2. CASE stars = {}
    <3>1. \A j \in 1 .. Len(G) : G[j] # "*"
      <4> SUFFICES ASSUME NEW j \in 1 .. Len(G) PROVE G[j] # "*" OBVIOUS
      <4>1. CASE j \in 1 .. L BY <2>2, <4>1
      <4>2. CASE j \in L + 1 .. L + 1 + Bits BY <2>1, <4>2
      <4> QED BY <1>1, <1>3, <4>1, <4>2
    <3>2. parse_message(G) = Invalid BY <1>3, <3>1, ParseNoStar
    <3> QED BY <3>2 DEF G, F
  <2>3. CASE stars # {}
    <3>1. PICK k \in stars : \A j \in stars : j <= k BY <1>1, <2>3, LargestExists
    <3>2. k \in 1 .. L /\ k \in 1 .. Len(G) /\ G[k] = "*" /\ Len(G) - k # Bits
      BY <1>1, <1>3, <3>1
    <3>3. \A j \in k + 1 .. Len(G) : G[j] # "*"
      <4> SUFFICES ASSUME NEW j \in k + 1 .. Len(G) PROVE G[j] # "*" OBVIOUS
      <4>1. CASE j \in 1 .. L BY <3>1, <3>2, <4>1
      <4>2. CASE j \in L + 1 .. L + 1 + Bits BY <2>1, <4>2
      <4> QED BY <1>1, <1>3, <3>2, <4>1, <4>2
    <3>4. parse_message(G) = Invalid BY <1>3, <3>2, <3>3, WrongLength
    <3> QED BY <3>4 DEF G, F
  <2> QED BY <2>2, <2>3
<1>6. CASE i > L + 1
  <2>2. CASE s = "*"
    <3>1. i \in 1 .. Len(G) /\ G[i] = "*" /\ Len(G) - i # Bits
      BY <1>1, <1>3, <1>6, <2>2
    <3>2. \A j \in i + 1 .. Len(G) : G[j] # "*"
      <4>1. \A j \in i + 1 .. Len(G) : j \in L + 2 .. L + 1 + Bits /\ j # i
        BY <1>1, <1>3, <1>6
      <4> QED BY <1>b, <4>1
    <3>3. parse_message(G) = Invalid BY <1>3, <3>1, <3>2, WrongLength
    <3> QED BY <3>3 DEF G, F
  <2>3. CASE s # "*"
    <3>1. SubSeq(G, 1, L) = p
      <4>1. \A j \in 1 .. L : G[j] = p[j] BY <1>1, <1>3, <1>6
      <4> QED BY <1>1, <1>3, <4>1
    <3>2. /\ L + 1 \in 1 .. Len(G) /\ (L + 1) - 1 = L /\ G[L + 1] = "*"
          /\ \A j \in (L + 1) + 1 .. Len(G) : G[j] # "*"
      <4>1. L + 1 \in 1 .. Len(G) /\ (L + 1) - 1 = L /\ G[L + 1] = "*"
        BY <1>1, <1>3, <1>6
      <4> SUFFICES ASSUME NEW j \in (L + 1) + 1 .. Len(G) PROVE G[j] # "*"
        BY <4>1
      <4>2. j \in L + 2 .. L + 1 + Bits BY <1>1, <1>3
      <4> QED BY <1>3, <1>b, <2>3, <4>2
    <3>3. parse_message(G) =
            IF Upper(SubSeq(G, (L + 1) + 1, Len(G))) = calculate_crc(SubSeq(G, 1, (L + 1) - 1))
            THEN Parsed(SubSeq(G, 1, (L + 1) - 1)) ELSE Invalid
      BY <1>3, <3>2, ParseAtStar
    <3>4. parse_message(G) \in {Invalid, Parsed(p)} BY <3>1, <3>2, <3>3
    <3> QED BY <3>4 DEF G, F
  <2> QED BY <2>2, <2>3
<1> QED BY <1>1, <1>3, <1>4, <1>5, <1>6

LEMMA ConcatType ==
  ASSUME NEW s \in Seq(Symbol), NEW t \in Seq(Symbol)
  PROVE  s \o t \in Seq(Symbol)
BY ConcatProperties

-----------------------------------------------------------------------------
(* The fields of a payload, and the values of those with one key           *)

Text == Seq(Symbol)
FieldList == Seq(Text) \ {<<>>}

LEMMA WithType ==
  ASSUME NEW F \in FieldList, NEW s \in Symbol
  PROVE  With(F, s) \in FieldList
<1>1. F \in Seq(Text) /\ Len(F) \in 1 .. Len(F) /\ F # <<>> BY DEF FieldList
<1>2. CASE s = "|"
  <2>1. <<>> \in Text BY DEF Text
  <2>2. Append(F, <<>>) \in Seq(Text) /\ Append(F, <<>>) # <<>>
    BY <1>1, <2>1, AppendProperties
  <2> QED BY <1>2, <2>2 DEF With, FieldList
<1>3. CASE s # "|"
  <2> DEFINE e == Append(F[Len(F)], s)
  <2>1. F[Len(F)] \in Text BY <1>1
  <2>2. e \in Text BY <2>1 DEF Text
  <2> HIDE DEF e
  <2>3. [F EXCEPT ![Len(F)] = e] \in Seq(Text) /\ Len([F EXCEPT ![Len(F)] = e]) = Len(F)
    BY <1>1, <2>2, ExceptSeq
  <2>4. [F EXCEPT ![Len(F)] = e] # <<>> BY <1>1, <2>3
  <2>5. With(F, s) = [F EXCEPT ![Len(F)] = e] BY <1>3 DEF With, e
  <2> QED BY <2>3, <2>4, <2>5 DEF FieldList
<1> QED BY <1>2, <1>3

Cuts(f, text) ==
  \A n \in 0 .. Len(text) : f[n] = IF n = 0 THEN << <<>> >> ELSE With(f[n - 1], text[n])

LEMMA FieldsAreCut ==
  ASSUME NEW text \in Text
  PROVE  \E f \in [0 .. Len(text) -> FieldList] : Cuts(f, text) /\ Fields(text) = f[Len(text)]
<1> DEFINE Eqn(h) == h = [n \in 0 .. Len(text) |->
                           IF n = 0 THEN << <<>> >> ELSE With(h[n - 1], text[n])]
           u == CHOOSE h : Eqn(h)
           step == [p \in FieldList \X Symbol |-> With(p[1], p[2])]
<1>0. text \in Seq(Symbol) /\ Len(text) \in Nat BY DEF Text
<1>1. step \in [FieldList \X Symbol -> FieldList] BY WithType
<1>2. \A F \in FieldList, c \in Symbol : step[<<F, c>>] = With(F, c) OBVIOUS
<1>3. << <<>> >> \in FieldList
  <2>1. <<>> \in Text BY DEF Text
  <2> QED BY <2>1 DEF FieldList
<1> HIDE DEF step
<1>4. PICK f \in [0 .. Len(text) -> FieldList] : Folds(f, << <<>> >>, step, text)
  BY <1>0, <1>1, <1>3, FoldExists
<1>5. ASSUME NEW n \in 0 .. Len(text), n # 0
      PROVE  step[<<f[n - 1], text[n]>>] = With(f[n - 1], text[n])
  <2>1. f[n - 1] \in FieldList /\ text[n] \in Symbol BY <1>0, <1>5
  <2> QED BY <1>2, <2>1
<1>6. Cuts(f, text) BY <1>4, <1>5 DEF Folds, Cuts
<1>7. Eqn(f) BY <1>6 DEF Cuts
<1>8. Eqn(u) BY <1>7
<1>9. Fields(text) = u[Len(text)] BY DEF Fields
<1>10. Cuts(u, text)
  <2> HIDE DEF u
  <2> QED BY <1>8 DEF Cuts
<1> HIDE DEF u
<1>11. u[Len(text)] = f[Len(text)]
  <2>1. u[0] = f[0] BY <1>0, <1>6, <1>10 DEF Cuts
  <2>2. ASSUME NEW n \in 1 .. Len(text), u[n - 1] = f[n - 1] PROVE u[n] = f[n]
    <3>1. n \in 0 .. Len(text) /\ n # 0 BY <1>0
    <3>2. u[n] = With(u[n - 1], text[n]) BY <1>10, <3>1 DEF Cuts
    <3>3. f[n] = With(f[n - 1], text[n]) BY <1>6, <3>1 DEF Cuts
    <3> QED BY <2>2, <3>2, <3>3
  <2> QED BY <1>0, <2>1, <2>2, SameUpward
<1> QED BY <1>6, <1>9, <1>11

LEMMA FieldsType ==
  ASSUME NEW text \in Text
  PROVE  Fields(text) \in FieldList
<1>1. Len(text) \in Nat BY DEF Text
<1> QED BY <1>1, FieldsAreCut

LEMMA FieldsEmpty == Fields(<<>>) = << <<>> >>
<1>1. <<>> \in Text /\ Len(<<>>) = 0 BY DEF Text
<1>2. PICK f \in [0 .. Len(<<>>) -> FieldList] :
        Cuts(f, <<>>) /\ Fields(<<>>) = f[Len(<<>>)]
  BY <1>1, FieldsAreCut
<1> QED BY <1>1, <1>2 DEF Cuts

LEMMA FieldsAppend ==
  ASSUME NEW text \in Text, NEW s \in Symbol
  PROVE  Fields(Append(text, s)) = With(Fields(text), s)
<1> DEFINE more == Append(text, s)
           L == Len(text)
<1>1. /\ more \in Text /\ Len(more) = L + 1 /\ L \in Nat
      /\ more[L + 1] = s /\ \A i \in 1 .. L : text[i] = more[i]
  BY AppendProperties DEF Text
<1>2. PICK f \in [0 .. L -> FieldList] : Cuts(f, text) /\ Fields(text) = f[L]
  BY FieldsAreCut
<1> HIDE DEF more
<1>3. PICK g \in [0 .. Len(more) -> FieldList] : Cuts(g, more) /\ Fields(more) = g[Len(more)]
  BY <1>1, FieldsAreCut
<1>4. f[L] = g[L]
  <2>1. f[0] = g[0] BY <1>1, <1>2, <1>3 DEF Cuts
  <2>2. ASSUME NEW n \in 1 .. L, f[n - 1] = g[n - 1] PROVE f[n] = g[n]
    <3>1. n \in 0 .. L /\ n \in 0 .. Len(more) /\ n # 0 /\ text[n] = more[n] BY <1>1
    <3>2. f[n] = With(f[n - 1], text[n]) BY <1>2, <3>1 DEF Cuts
    <3>3. g[n] = With(g[n - 1], more[n]) BY <1>3, <3>1 DEF Cuts
    <3> QED BY <2>2, <3>1, <3>2, <3>3
  <2> QED BY <1>1, <2>1, <2>2, SameUpward
<1>5. g[L + 1] = With(g[L], s)
  <2>1. L + 1 \in 0 .. Len(more) /\ L + 1 # 0 /\ (L + 1) - 1 = L BY <1>1
  <2> QED BY <1>1, <1>3, <2>1 DEF Cuts
<1> QED BY <1>1, <1>2, <1>3, <1>4, <1>5 DEF more

(* What is put to the end of a list of fields changes nothing before.      *)
LEMMA WithConcat ==
  ASSUME NEW F \in FieldList, NEW G \in FieldList, NEW s \in Symbol
  PROVE  With(F \o G, s) = F \o With(G, s)
<1>1. /\ F \in Seq(Text) /\ G \in Seq(Text) /\ G # <<>> /\ Len(F) \in Nat
      /\ Len(G) \in 1 .. Len(G) /\ Len(G) \in Nat
  BY DEF FieldList
<1>2. /\ F \o G \in Seq(Text) /\ Len(F \o G) = Len(F) + Len(G)
      /\ \A i \in 1 .. Len(F) + Len(G) :
           (F \o G)[i] = IF i <= Len(F) THEN F[i] ELSE G[i - Len(F)]
  BY <1>1, ConcatProperties
<1>3. CASE s = "|"
  <2>1. <<>> \in Text BY DEF Text
  <2>2. << <<>> >> \in Seq(Text) BY <2>1
  <2>3. Append(F \o G, <<>>) = (F \o G) \o << <<>> >> BY <1>2, <2>1, AppendIsConcat
  <2>4. Append(G, <<>>) = G \o << <<>> >> BY <1>1, <2>1, AppendIsConcat
  <2>5. (F \o G) \o << <<>> >> = F \o (G \o << <<>> >>) BY <1>1, <2>2, ConcatAssociative
  <2> QED BY <1>3, <2>3, <2>4, <2>5 DEF With
<1>4. CASE s # "|"
  <2> DEFINE e == Append(G[Len(G)], s)
             H == [G EXCEPT ![Len(G)] = e]
             K == [F \o G EXCEPT ![Len(F) + Len(G)] = e]
  <2>1. (F \o G)[Len(F \o G)] = G[Len(G)]
    <3>1. Len(F) + Len(G) \in 1 .. Len(F) + Len(G) /\ ~(Len(F) + Len(G) <= Len(F))
          /\ (Len(F) + Len(G)) - Len(F) = Len(G)
      BY <1>1
    <3> QED BY <1>2, <3>1
  <2>2. With(G, s) = H BY <1>4 DEF With
  <2>3. With(F \o G, s) = K BY <1>2, <1>4, <2>1 DEF With
  <2>4. e \in Text
    <3>1. G[Len(G)] \in Text BY <1>1
    <3> QED BY <3>1 DEF Text
  <2> HIDE DEF e
  <2>5. H \in Seq(Text) /\ Len(H) = Len(G)
        /\ \A i \in 1 .. Len(G) : H[i] = IF i = Len(G) THEN e ELSE G[i]
    BY <1>1, <2>4, ExceptSeq
  <2>6. K \in Seq(Text) /\ Len(K) = Len(F) + Len(G)
        /\ \A i \in 1 .. Len(F) + Len(G) :
             K[i] = IF i = Len(F) + Len(G) THEN e ELSE (F \o G)[i]
    <3> DEFINE FG == F \o G
               k == Len(F) + Len(G)
    <3>1. FG \in Seq(Text) /\ Len(FG) = k /\ k \in 1 .. Len(FG) BY <1>1, <1>2
    <3> HIDE DEF FG, k
    <3>2. /\ [FG EXCEPT ![k] = e] \in Seq(Text) /\ Len([FG EXCEPT ![k] = e]) = Len(FG)
          /\ \A i \in 1 .. Len(FG) :
               [FG EXCEPT ![k] = e][i] = IF i = k THEN e ELSE FG[i]
      BY <2>4, <3>1, ExceptSeq
    <3> QED BY <3>1, <3>2 DEF FG, k
  <2> HIDE DEF H, K
  <2>7. /\ F \o H \in Seq(Text) /\ Len(F \o H) = Len(F) + Len(G)
        /\ \A i \in 1 .. Len(F) + Len(G) :
             (F \o H)[i] = IF i <= Len(F) THEN F[i] ELSE H[i - Len(F)]
    <3>1. /\ F \o H \in Seq(Text) /\ Len(F \o H) = Len(F) + Len(H)
          /\ \A i \in 1 .. Len(F) + Len(H) :
               (F \o H)[i] = IF i <= Len(F) THEN F[i] ELSE H[i - Len(F)]
      BY <1>1, <2>5, ConcatProperties
    <3> QED BY <2>5, <3>1
  <2>8. ASSUME NEW i \in 1 .. Len(F) + Len(G) PROVE K[i] = (F \o H)[i]
    <3>1. CASE i <= Len(F) BY <1>1, <1>2, <2>6, <2>7, <3>1
    <3>2. CASE ~(i <= Len(F))
      <4> DEFINE j == i - Len(F)
      <4>1. j \in 1 .. Len(G) /\ (j = Len(G) <=> i = Len(F) + Len(G))
        BY <1>1, <3>2
      <4>2. (F \o G)[i] = G[j] BY <1>2, <3>2
      <4>3. (F \o H)[i] = H[j] BY <2>7, <3>2
      <4>4. K[i] = IF i = Len(F) + Len(G) THEN e ELSE (F \o G)[i] BY <2>6
      <4> HIDE DEF j
      <4>5. H[j] = IF j = Len(G) THEN e ELSE G[j] BY <2>5, <4>1
      <4> QED BY <4>1, <4>2, <4>3, <4>4, <4>5
    <3> QED BY <3>1, <3>2
  <2>9. K = F \o H
    <3> DEFINE FH == F \o H
    <3>1. FH \in Seq(Text) /\ Len(K) = Len(FH) /\ \A i \in 1 .. Len(K) : K[i] = FH[i]
      BY <2>6, <2>7, <2>8
    <3> HIDE DEF FH
    <3>2. K = FH BY <2>6, <3>1, SeqEqual
    <3> QED BY <3>2 DEF FH
  <2> QED BY <2>2, <2>3, <2>9
<1> QED BY <1>3, <1>4

(* What "|" joins are the fields of the one and those of the other.        *)
Join(s, t) == s \o <<"|">> \o t

LEMMA JoinType ==
  ASSUME NEW s \in Text, NEW t \in Text
  PROVE  s \o <<"|">> \in Text /\ Join(s, t) \in Text
<1>1. <<"|">> \in Seq(Symbol) BY WireAssumption
<1>2. s \o <<"|">> \in Seq(Symbol) BY <1>1, ConcatType DEF Text
<1>3. (s \o <<"|">>) \o t \in Seq(Symbol) BY <1>2, ConcatType DEF Text
<1> QED BY <1>2, <1>3 DEF Text, Join

LEMMA FieldsJoin ==
  ASSUME NEW s \in Text, NEW t \in Text
  PROVE  Fields(Join(s, t)) = Fields(s) \o Fields(t)
<1> DEFINE S == {r \in Text : Fields(Join(s, r)) = Fields(s) \o Fields(r)}
<1>0. "|" \in Symbol BY WireAssumption
<1>1. <<>> \in S
  <2>1. <<>> \in Text /\ s \in Seq(Symbol) BY DEF Text
  <2>2. s \o <<"|">> \in Seq(Symbol) BY JoinType DEF Text
  <2>3. (s \o <<"|">>) \o <<>> = s \o <<"|">> BY <2>2, ConcatEmptySeq
  <2>4. Append(s, "|") = s \o <<"|">> BY <1>0, <2>1, AppendIsConcat
  <2>5. Fields(Append(s, "|")) = With(Fields(s), "|") BY <1>0, FieldsAppend
  <2>6. With(Fields(s), "|") = Append(Fields(s), <<>>) BY DEF With
  <2>7. Fields(s) \in Seq(Text) BY FieldsType DEF FieldList
  <2>8. Append(Fields(s), <<>>) = Fields(s) \o << <<>> >> BY <2>1, <2>7, AppendIsConcat
  <2>9. Fields(Join(s, <<>>)) = Fields(s) \o Fields(<<>>)
    BY <2>3, <2>4, <2>5, <2>6, <2>8, FieldsEmpty DEF Join
  <2> QED BY <2>1, <2>9
<1>2. ASSUME NEW r \in S, NEW x \in Symbol PROVE Append(r, x) \in S
  <2>1. r \in Text /\ Fields(Join(s, r)) = Fields(s) \o Fields(r) OBVIOUS
  <2> HIDE DEF S
  <2>2. r \in Seq(Symbol) /\ Append(r, x) \in Text
    BY <2>1, AppendProperties DEF Text
  <2>3. Join(s, Append(r, x)) = Append(Join(s, r), x)
    <3> DEFINE h == s \o <<"|">>
    <3>1. h \in Seq(Symbol) BY JoinType DEF Text
    <3> HIDE DEF h
    <3>2. <<x>> \in Seq(Symbol) /\ h \o r \in Seq(Symbol) BY <2>2, <3>1, ConcatType
    <3>3. Append(r, x) = r \o <<x>> BY <2>2, AppendIsConcat
    <3>4. h \o (r \o <<x>>) = (h \o r) \o <<x>> BY <2>2, <3>1, <3>2, ConcatAssociative
    <3>5. Append(h \o r, x) = (h \o r) \o <<x>> BY <3>2, AppendIsConcat
    <3>6. h \o Append(r, x) = Append(h \o r, x) BY <3>3, <3>4, <3>5
    <3> QED BY <3>6 DEF Join, h
  <2>4. Join(s, r) \in Text BY <2>1, JoinType
  <2>5. Fields(Append(Join(s, r), x)) = With(Fields(Join(s, r)), x) BY <2>4, FieldsAppend
  <2>6. Fields(s) \in FieldList /\ Fields(r) \in FieldList BY <2>1, FieldsType
  <2>7. With(Fields(s) \o Fields(r), x) = Fields(s) \o With(Fields(r), x)
    BY <2>6, WithConcat
  <2>8. With(Fields(r), x) = Fields(Append(r, x)) BY <2>1, FieldsAppend
  <2>9. Fields(Join(s, Append(r, x))) = Fields(s) \o Fields(Append(r, x))
    BY <2>1, <2>3, <2>5, <2>7, <2>8
  <2> QED BY <2>2, <2>9 DEF S
<1>3. S = Text
  <2> HIDE DEF S
  <2>1. S \in SUBSET Seq(Symbol) BY DEF S, Text
  <2>2. S = Seq(Symbol) BY <1>1, <1>2, <2>1, SeqByInduction
  <2> QED BY <2>2 DEF Text
<1> QED BY <1>3

(* A text without "|" is one field.                                        *)
LEMMA FieldsOne ==
  ASSUME NEW t \in Text, \A i \in 1 .. Len(t) : t[i] # "|"
  PROVE  Fields(t) = <<t>>
<1> DEFINE S == {r \in Text : (\A i \in 1 .. Len(r) : r[i] # "|") => Fields(r) = <<r>>}
<1>1. <<>> \in S
  <2>1. <<>> \in Text BY DEF Text
  <2> QED BY <2>1, FieldsEmpty
<1>2. ASSUME NEW r \in S, NEW x \in Symbol PROVE Append(r, x) \in S
  <2> DEFINE q == Append(r, x)
  <2>1. r \in Text /\ ((\A i \in 1 .. Len(r) : r[i] # "|") => Fields(r) = <<r>>) OBVIOUS
  <2> HIDE DEF S
  <2>2. /\ q \in Text /\ r \in Seq(Symbol) /\ Len(r) \in Nat
        /\ Len(q) = Len(r) + 1 /\ q[Len(r) + 1] = x
        /\ \A i \in 1 .. Len(r) : q[i] = r[i]
    BY <2>1, AppendProperties DEF Text
  <2> SUFFICES ASSUME \A i \in 1 .. Len(q) : q[i] # "|" PROVE Fields(q) = <<q>>
    BY <2>2 DEF S
  <2>3. \A i \in 1 .. Len(r) : r[i] # "|" BY <2>2
  <2>4. x # "|"
    <3>1. Len(r) + 1 \in 1 .. Len(q) BY <2>2
    <3> QED BY <2>2, <3>1
  <2>5. Fields(q) = With(<<r>>, x) BY <2>1, <2>3, FieldsAppend
  <2>6. With(<<r>>, x) = <<q>> BY <2>4 DEF With
  <2> QED BY <2>5, <2>6
<1>3. S = Text
  <2> HIDE DEF S
  <2>1. S \in SUBSET Seq(Symbol) BY DEF S, Text
  <2>2. S = Seq(Symbol) BY <1>1, <1>2, <2>1, SeqByInduction
  <2> QED BY <2>2 DEF Text
<1> QED BY <1>3

(* No field has a symbol the text has not.                                 *)
Free(fields, k) == \A n \in 1 .. Len(fields) : \A i \in 1 .. Len(fields[n]) : fields[n][i] # k

LEMMA FieldsFree ==
  ASSUME NEW t \in Text, NEW k, \A i \in 1 .. Len(t) : t[i] # k
  PROVE  Free(Fields(t), k)
<1> DEFINE S == {r \in Text : (\A i \in 1 .. Len(r) : r[i] # k) => Free(Fields(r), k)}
<1>1. <<>> \in S
  <2>1. <<>> \in Text BY DEF Text
  <2>2. Free(<< <<>> >>, k) BY DEF Free
  <2> QED BY <2>1, <2>2, FieldsEmpty
<1>2. ASSUME NEW r \in S, NEW x \in Symbol PROVE Append(r, x) \in S
  <2> DEFINE q == Append(r, x)
  <2>1. r \in Text /\ ((\A i \in 1 .. Len(r) : r[i] # k) => Free(Fields(r), k)) OBVIOUS
  <2> HIDE DEF S
  <2>2. /\ q \in Text /\ r \in Seq(Symbol) /\ Len(r) \in Nat
        /\ Len(q) = Len(r) + 1 /\ q[Len(r) + 1] = x
        /\ \A i \in 1 .. Len(r) : q[i] = r[i]
    BY <2>1, AppendProperties DEF Text
  <2> SUFFICES ASSUME \A i \in 1 .. Len(q) : q[i] # k PROVE Free(Fields(q), k)
    BY <2>2 DEF S
  <2>3. x # k
    <3>1. Len(r) + 1 \in 1 .. Len(q) BY <2>2
    <3> QED BY <2>2, <3>1
  <2>4. Free(Fields(r), k) BY <2>1, <2>2
  <2> DEFINE F == Fields(r)
             G == With(F, x)
  <2>5. Fields(q) = G BY <2>1, FieldsAppend
  <2>6. F \in Seq(Text) /\ Len(F) \in 1 .. Len(F) /\ Len(F) \in Nat
    <3>1. F \in Seq(Text) /\ F # <<>> BY <2>1, FieldsType DEF FieldList
    <3> QED BY <3>1
  <2> HIDE DEF F, q
  <2>7. CASE x = "|"
    <3>1. <<>> \in Text BY DEF Text
    <3>2. G = Append(F, <<>>) BY <2>7 DEF With
    <3>3. /\ Len(G) = Len(F) + 1 /\ G[Len(F) + 1] = <<>>
          /\ \A n \in 1 .. Len(F) : G[n] = F[n]
      BY <2>6, <3>1, <3>2, AppendProperties
    <3> HIDE DEF G
    <3>4. ASSUME NEW n \in 1 .. Len(G), NEW i \in 1 .. Len(G[n]) PROVE G[n][i] # k
      <4>1. CASE n = Len(F) + 1 BY <3>3, <4>1
      <4>2. CASE n # Len(F) + 1
        <5>1. n \in 1 .. Len(F) /\ G[n] = F[n] BY <2>6, <3>3, <4>2
        <5> QED BY <2>4, <5>1 DEF Free, F
      <4> QED BY <4>1, <4>2
    <3> QED BY <2>5, <3>4 DEF Free
  <2>8. CASE x # "|"
    <3> DEFINE last == F[Len(F)]
               e == Append(last, x)
    <3>0. last \in Seq(Symbol) BY <2>6 DEF Text
    <3> HIDE DEF last
    <3>1. /\ Len(e) = Len(last) + 1 /\ Len(last) \in Nat /\ e[Len(last) + 1] = x
          /\ \A i \in 1 .. Len(last) : e[i] = last[i]
          /\ e \in Text
      BY <3>0, AppendProperties DEF Text
    <3>2. G = [F EXCEPT ![Len(F)] = e] BY <2>8 DEF With, last
    <3> HIDE DEF e
    <3>3. Len(G) = Len(F) /\ \A n \in 1 .. Len(F) : G[n] = IF n = Len(F) THEN e ELSE F[n]
      BY <2>6, <3>1, <3>2, ExceptSeq
    <3> HIDE DEF G
    <3>4. ASSUME NEW n \in 1 .. Len(G), NEW i \in 1 .. Len(G[n]) PROVE G[n][i] # k
      <4>1. CASE n = Len(F)
        <5>1. G[n] = e BY <3>3, <4>1
        <5>2. i = Len(last) + 1 \/ i \in 1 .. Len(last) BY <3>1, <5>1
        <5>3. i \in 1 .. Len(last) => last[i] # k BY <2>4, <2>6 DEF Free, F, last
        <5> QED BY <2>3, <3>1, <5>1, <5>2, <5>3
      <4>2. CASE n # Len(F)
        <5>1. n \in 1 .. Len(F) /\ G[n] = F[n] BY <2>6, <3>3, <4>2
        <5> QED BY <2>4, <5>1 DEF Free, F
      <4> QED BY <4>1, <4>2
    <3> QED BY <2>5, <3>4 DEF Free
  <2> QED BY <2>7, <2>8
<1>3. S = Text
  <2> HIDE DEF S
  <2>1. S \in SUBSET Seq(Symbol) BY DEF S, Text
  <2>2. S = Seq(Symbol) BY <1>1, <1>2, <2>1, SeqByInduction
  <2> QED BY <2>2 DEF Text
<1> QED BY <1>3

(* The values of the fields with a key                                     *)
Found == {Value(field) : field \in Text}

One(field, key) == IF Keyed(field, key) THEN <<Value(field)>> ELSE <<>>

Picks(f, fields, key) ==
  \A n \in 0 .. Len(fields) :
    f[n] = IF n = 0 THEN <<>> ELSE f[n - 1] \o One(fields[n], key)

LEMMA OneType ==
  ASSUME NEW field \in Text, NEW key
  PROVE  One(field, key) \in Seq(Found)
<1>1. Value(field) \in Found BY DEF Found
<1> QED BY <1>1 DEF One

LEMMA ValuesArePicked ==
  ASSUME NEW F \in Seq(Text), NEW key
  PROVE  \E f \in [0 .. Len(F) -> Seq(Found)] : Picks(f, F, key) /\ Values(F, key) = f[Len(F)]
<1> DEFINE W == Seq(Found)
           Eqn(h) == h = [n \in 0 .. Len(F) |->
                           IF n = 0 THEN <<>>
                           ELSE h[n - 1] \o IF Keyed(F[n], key) THEN <<Value(F[n])>> ELSE <<>>]
           u == CHOOSE h : Eqn(h)
           step == [p \in W \X Text |-> p[1] \o One(p[2], key)]
<1>0. Len(F) \in Nat OBVIOUS
<1>1. \A v \in W, t \in Text : v \o One(t, key) \in W
  <2>1. \A v \in Seq(Found), t \in Text : v \o One(t, key) \in Seq(Found)
    BY OneType, ConcatProperties
  <2> QED BY <2>1
<1>2. step \in [W \X Text -> W]
  <2> HIDE DEF W
  <2> QED BY <1>1
<1>3. \A v \in W, t \in Text : step[<<v, t>>] = v \o One(t, key) OBVIOUS
<1>4. <<>> \in W OBVIOUS
<1> HIDE DEF step, W
<1>5. PICK f \in [0 .. Len(F) -> W] : Folds(f, <<>>, step, F)
  BY <1>2, <1>4, FoldExists
<1>6. ASSUME NEW n \in 0 .. Len(F), n # 0
      PROVE  step[<<f[n - 1], F[n]>>] = f[n - 1] \o One(F[n], key)
  <2>1. f[n - 1] \in W /\ F[n] \in Text BY <1>6
  <2> QED BY <1>3, <2>1
<1>7. Picks(f, F, key) BY <1>5, <1>6 DEF Folds, Picks
<1>8. Eqn(f) BY <1>7 DEF Picks, One
<1>9. Eqn(u) BY <1>8
<1>10. Values(F, key) = u[Len(F)] BY DEF Values
<1>11. Picks(u, F, key)
  <2> HIDE DEF u
  <2> QED BY <1>9 DEF Picks, One
<1> HIDE DEF u
<1>12. u[Len(F)] = f[Len(F)]
  <2>1. u[0] = f[0]
    <3>1. 0 \in 0 .. Len(F) BY <1>0
    <3>2. u[0] = <<>> BY <1>11, <3>1 DEF Picks
    <3>3. f[0] = <<>> BY <1>7, <3>1 DEF Picks
    <3> QED BY <3>2, <3>3
  <2>2. ASSUME NEW n \in 1 .. Len(F), u[n - 1] = f[n - 1] PROVE u[n] = f[n]
    <3>1. n \in 0 .. Len(F) /\ n # 0 BY <1>0
    <3>2. u[n] = u[n - 1] \o One(F[n], key) BY <1>11, <3>1 DEF Picks
    <3>3. f[n] = f[n - 1] \o One(F[n], key) BY <1>7, <3>1 DEF Picks
    <3> QED BY <2>2, <3>2, <3>3
  <2> QED BY <1>0, <2>1, <2>2, SameUpward
<1> QED BY <1>7, <1>10, <1>12 DEF W

LEMMA ValuesType ==
  ASSUME NEW F \in Seq(Text), NEW key
  PROVE  Values(F, key) \in Seq(Found)
<1>1. Len(F) \in Nat OBVIOUS
<1> QED BY <1>1, ValuesArePicked

LEMMA ValuesEmpty ==
  ASSUME NEW key
  PROVE  Values(<<>>, key) = <<>>
<1>1. <<>> \in Seq(Text) /\ Len(<<>>) = 0 OBVIOUS
<1>2. PICK f \in [0 .. Len(<<>>) -> Seq(Found)] :
        Picks(f, <<>>, key) /\ Values(<<>>, key) = f[Len(<<>>)]
  BY <1>1, ValuesArePicked
<1> QED BY <1>1, <1>2 DEF Picks

LEMMA ValuesAppend ==
  ASSUME NEW F \in Seq(Text), NEW t \in Text, NEW key
  PROVE  Values(Append(F, t), key) = Values(F, key) \o One(t, key)
<1> DEFINE more == Append(F, t)
           L == Len(F)
<1>1. /\ more \in Seq(Text) /\ Len(more) = L + 1 /\ L \in Nat
      /\ more[L + 1] = t /\ \A i \in 1 .. L : F[i] = more[i]
  BY AppendProperties
<1>2. PICK f \in [0 .. L -> Seq(Found)] : Picks(f, F, key) /\ Values(F, key) = f[L]
  BY ValuesArePicked
<1> HIDE DEF more
<1>3. PICK g \in [0 .. Len(more) -> Seq(Found)] :
        Picks(g, more, key) /\ Values(more, key) = g[Len(more)]
  BY <1>1, ValuesArePicked
<1>4. f[L] = g[L]
  <2>1. f[0] = g[0]
    <3>1. 0 \in 0 .. L /\ 0 \in 0 .. Len(more) BY <1>1
    <3>2. f[0] = <<>> BY <1>2, <3>1 DEF Picks
    <3>3. g[0] = <<>> BY <1>3, <3>1 DEF Picks
    <3> QED BY <3>2, <3>3
  <2>2. ASSUME NEW n \in 1 .. L, f[n - 1] = g[n - 1] PROVE f[n] = g[n]
    <3>1. n \in 0 .. L /\ n \in 0 .. Len(more) /\ n # 0 /\ F[n] = more[n] BY <1>1
    <3>2. f[n] = f[n - 1] \o One(F[n], key) BY <1>2, <3>1 DEF Picks
    <3>3. g[n] = g[n - 1] \o One(more[n], key) BY <1>3, <3>1 DEF Picks
    <3> QED BY <2>2, <3>1, <3>2, <3>3
  <2> QED BY <1>1, <2>1, <2>2, SameUpward
<1>5. g[L + 1] = g[L] \o One(t, key)
  <2>1. L + 1 \in 0 .. Len(more) /\ L + 1 # 0 /\ (L + 1) - 1 = L BY <1>1
  <2> QED BY <1>1, <1>3, <2>1 DEF Picks
<1> QED BY <1>1, <1>2, <1>3, <1>4, <1>5 DEF more

LEMMA ValuesConcat ==
  ASSUME NEW F \in Seq(Text), NEW G \in Seq(Text), NEW key
  PROVE  Values(F \o G, key) = Values(F, key) \o Values(G, key)
<1> DEFINE S == {H \in Seq(Text) : Values(F \o H, key) = Values(F, key) \o Values(H, key)}
<1>1. <<>> \in S
  <2>1. <<>> \in Seq(Text) /\ F \o <<>> = F BY ConcatEmptySeq
  <2>2. Values(F, key) \o <<>> = Values(F, key) BY ValuesType, ConcatEmptySeq
  <2> QED BY <2>1, <2>2, ValuesEmpty
<1>2. ASSUME NEW H \in S, NEW t \in Text PROVE Append(H, t) \in S
  <2>1. H \in Seq(Text) /\ Values(F \o H, key) = Values(F, key) \o Values(H, key) OBVIOUS
  <2> HIDE DEF S
  <2> DEFINE FH == F \o H
             o == One(t, key)
  <2>2. FH \in Seq(Text) /\ Append(H, t) \in Seq(Text)
    BY <2>1, ConcatProperties, AppendProperties
  <2>3. F \o Append(H, t) = Append(FH, t)
    <3>1. <<t>> \in Seq(Text) OBVIOUS
    <3>2. Append(H, t) = H \o <<t>> BY <2>1, AppendIsConcat
    <3>3. F \o (H \o <<t>>) = (F \o H) \o <<t>> BY <2>1, <3>1, ConcatAssociative
    <3>4. Append(FH, t) = FH \o <<t>> BY <2>2, AppendIsConcat
    <3> QED BY <3>2, <3>3, <3>4
  <2> HIDE DEF FH
  <2>4. Values(Append(FH, t), key) = Values(FH, key) \o o BY <2>2, ValuesAppend
  <2>5. Values(Append(H, t), key) = Values(H, key) \o o BY <2>1, ValuesAppend
  <2>6. /\ Values(F, key) \in Seq(Found) /\ Values(H, key) \in Seq(Found)
        /\ o \in Seq(Found)
    BY <2>1, ValuesType, OneType
  <2> HIDE DEF o
  <2>7. (Values(F, key) \o Values(H, key)) \o o = Values(F, key) \o (Values(H, key) \o o)
    BY <2>6, ConcatAssociative
  <2>8. Values(FH, key) = Values(F, key) \o Values(H, key) BY <2>1 DEF FH
  <2>9. Values(F \o Append(H, t), key) = Values(F, key) \o Values(Append(H, t), key)
    BY <2>3, <2>4, <2>5, <2>7, <2>8
  <2> QED BY <2>2, <2>9 DEF S
<1>3. S = Seq(Text)
  <2> HIDE DEF S
  <2>1. S \in SUBSET Seq(Text) BY DEF S
  <2> QED BY <1>1, <1>2, <2>1, SeqByInduction
<1> QED BY <1>3

LEMMA ValuesOne ==
  ASSUME NEW t \in Text, NEW key
  PROVE  Values(<<t>>, key) = One(t, key)
<1>1. <<>> \in Seq(Text) /\ Append(<<>>, t) = <<t>> OBVIOUS
<1>2. Values(Append(<<>>, t), key) = Values(<<>>, key) \o One(t, key)
  BY <1>1, ValuesAppend
<1>3. <<>> \o One(t, key) = One(t, key) BY OneType, ConcatEmptySeq
<1> QED BY <1>1, <1>2, <1>3, ValuesEmpty

(* A field with a key has the symbol.                                      *)
LEMMA ValuesFree ==
  ASSUME NEW F \in Seq(Text), NEW key, Free(F, key)
  PROVE  Values(F, key) = <<>>
<1> DEFINE S == {H \in Seq(Text) : Free(H, key) => Values(H, key) = <<>>}
<1>1. <<>> \in S BY ValuesEmpty
<1>2. ASSUME NEW H \in S, NEW t \in Text PROVE Append(H, t) \in S
  <2> DEFINE K == Append(H, t)
  <2>1. H \in Seq(Text) /\ (Free(H, key) => Values(H, key) = <<>>) OBVIOUS
  <2> HIDE DEF S
  <2>2. /\ K \in Seq(Text) /\ Len(H) \in Nat /\ Len(K) = Len(H) + 1
        /\ K[Len(H) + 1] = t /\ \A i \in 1 .. Len(H) : K[i] = H[i]
    BY <2>1, AppendProperties
  <2> SUFFICES ASSUME Free(K, key) PROVE Values(K, key) = <<>> BY <2>2 DEF S
  <2> HIDE DEF K
  <2>3. Free(H, key) BY <2>2 DEF Free
  <2>4. \A i \in 1 .. Len(t) : t[i] # key
    <3>1. Len(H) + 1 \in 1 .. Len(K) BY <2>2
    <3> QED BY <2>2, <3>1 DEF Free
  <2>5. ~Keyed(t, key)
    <3> SUFFICES ASSUME Keyed(t, key) PROVE FALSE OBVIOUS
    <3> DEFINE colons == At(":", t)
               m == Min(colons) - 1
    <3>1. colons # {} /\ SubSeq(t, 1, m) = <<key>> BY DEF Keyed
    <3>2. colons \in SUBSET (1 .. Len(t)) /\ Len(t) \in Nat BY DEF At, Text
    <3> HIDE DEF colons
    <3>3. Min(colons) \in 1 .. Len(t)
      <4>1. PICK k \in colons : \A j \in colons : k <= j BY <3>1, <3>2, SmallestExists
      <4> QED BY <3>2, <4>1, MinIs
    <3>4. m \in Int /\ m <= Len(t) BY <3>2, <3>3
    <3> HIDE DEF m
    <3>5. Len(SubSeq(t, 1, m)) = 1
      <4>1. Len(<<key>>) = 1 OBVIOUS
      <4> QED BY <3>1, <4>1
    <3>6. t \in Seq(Symbol) /\ \A i \in 1 .. m : t[i] \in Symbol BY <3>2, <3>4 DEF Text
    <3>7. /\ Len(SubSeq(t, 1, m)) = IF 1 <= m THEN m - 1 + 1 ELSE 0
          /\ \A i \in 1 .. m - 1 + 1 : SubSeq(t, 1, m)[i] = t[1 + i - 1]
      BY <3>4, <3>6, SubSeqProperties
    <3>8. m = 1 BY <3>4, <3>5, <3>7
    <3>9. SubSeq(t, 1, m)[1] = t[1] BY <3>7, <3>8
    <3>10. t[1] = key
      <4>1. <<key>>[1] = key OBVIOUS
      <4> QED BY <3>1, <3>9, <4>1
    <3> QED BY <2>4, <3>2, <3>4, <3>10, <3>8
  <2>6. Values(K, key) = Values(H, key) \o One(t, key) BY <2>1, ValuesAppend DEF K
  <2>7. One(t, key) = <<>> BY <2>5 DEF One
  <2> QED BY <2>1, <2>3, <2>6, <2>7
<1>3. S = Seq(Text)
  <2> HIDE DEF S
  <2>1. S \in SUBSET Seq(Text) BY DEF S
  <2> QED BY <1>1, <1>2, <2>1, SeqByInduction
<1> QED BY <1>3

(* A field                                                                 *)
FieldOf(key, value) == <<key, ":">> \o value

Plain(text) == \A i \in 1 .. Len(text) : text[i] # "|"

FoundIn(text, key) == Values(Fields(text), key)

LEMMA FieldShape ==
  ASSUME NEW k \in Symbol, NEW v \in Text
  PROVE  /\ FieldOf(k, v) \in Text /\ Len(FieldOf(k, v)) = Len(v) + 2 /\ Len(v) \in Nat
         /\ FieldOf(k, v)[1] = k /\ FieldOf(k, v)[2] = ":"
         /\ \A i \in 1 .. Len(v) : FieldOf(k, v)[i + 2] = v[i]
<1> DEFINE h == <<k, ":">>
<1>1. h \in Seq(Symbol) /\ Len(h) = 2 /\ h[1] = k /\ h[2] = ":" BY WireAssumption
<1>2. v \in Seq(Symbol) /\ Len(v) \in Nat BY DEF Text
<1> HIDE DEF h
<1> DEFINE F == h \o v
<1>3. /\ F \in Seq(Symbol) /\ Len(F) = 2 + Len(v)
      /\ \A i \in 1 .. 2 + Len(v) : F[i] = IF i <= 2 THEN h[i] ELSE v[i - 2]
  <2>1. /\ F \in Seq(Symbol) /\ Len(F) = Len(h) + Len(v)
        /\ \A i \in 1 .. Len(h) + Len(v) :
             F[i] = IF i <= Len(h) THEN h[i] ELSE v[i - Len(h)]
    BY <1>1, <1>2, ConcatProperties
  <2> QED BY <1>1, <2>1
<1> HIDE DEF F
<1>4. F[1] = k /\ F[2] = ":" BY <1>1, <1>2, <1>3
<1>5. ASSUME NEW i \in 1 .. Len(v) PROVE F[i + 2] = v[i]
  <2>1. i + 2 \in 1 .. 2 + Len(v) /\ ~(i + 2 <= 2) /\ (i + 2) - 2 = i BY <1>2
  <2> QED BY <1>3, <2>1
<1>6. FieldOf(k, v) = F BY DEF F, h, FieldOf
<1>7. F \in Text /\ Len(F) = Len(v) + 2 BY <1>2, <1>3 DEF Text
<1>8. \A i \in 1 .. Len(v) : F[i + 2] = v[i] BY <1>5
<1> HIDE DEF F
<1> QED BY <1>2, <1>4, <1>6, <1>7, <1>8

LEMMA FieldKeyValue ==
  ASSUME NEW k \in Symbol \ {":"}, NEW v \in Text, NEW key
  PROVE  One(FieldOf(k, v), key) = IF key = k THEN <<v>> ELSE <<>>
<1> DEFINE f == FieldOf(k, v)
<1>1. /\ f \in Seq(Symbol) /\ Len(f) = Len(v) + 2 /\ Len(v) \in Nat
      /\ f[1] = k /\ f[2] = ":" /\ \A i \in 1 .. Len(v) : f[i + 2] = v[i]
  BY FieldShape DEF Text
<1> HIDE DEF f
<1>2. Min(At(":", f)) = 2 /\ At(":", f) # {}
  <2>1. At(":", f) \in SUBSET Nat /\ 2 \in At(":", f) BY <1>1 DEF At
  <2>2. \A j \in At(":", f) : 2 <= j BY <1>1 DEF At
  <2> QED BY <2>1, <2>2, MinIs
<1>3. SubSeq(f, 1, 2 - 1) = <<k>>
  <2>1. 2 - 1 = 1 /\ 1 \in 1 .. Len(f) BY <1>1
  <2>2. SubSeq(f, 1, 1) = <<f[1]>> \o SubSeq(f, 2, 1)
    BY <1>1, <2>1, SubSeqRecursiveFirst
  <2>3. SubSeq(f, 2, 1) = <<>> BY SubSeqEmpty
  <2>4. <<k>> \o <<>> = <<k>> OBVIOUS
  <2> QED BY <1>1, <2>1, <2>2, <2>3, <2>4
<1>4. SubSeq(f, 2 + 1, Len(f)) = v
  <2> DEFINE w == SubSeq(f, 3, Len(f))
  <2>1. \A i \in 3 .. Len(f) : f[i] \in Symbol BY <1>1
  <2>2. /\ w \in Seq(Symbol) /\ Len(w) = IF 3 <= Len(f) THEN Len(f) - 3 + 1 ELSE 0
        /\ \A i \in 1 .. Len(f) - 3 + 1 : w[i] = f[3 + i - 1]
    BY <1>1, <2>1, SubSeqProperties
  <2> HIDE DEF w
  <2>3. Len(w) = Len(v) BY <1>1, <2>2
  <2>4. ASSUME NEW i \in 1 .. Len(w) PROVE w[i] = v[i]
    <3>1. i \in 1 .. Len(v) /\ i \in 1 .. Len(f) - 3 + 1 /\ 3 + i - 1 = i + 2
      BY <1>1, <2>3
    <3> QED BY <1>1, <2>2, <3>1
  <2>5. v \in Seq(Symbol) BY DEF Text
  <2>6. w = v BY <2>2, <2>3, <2>4, <2>5, SeqEqual
  <2> QED BY <2>6 DEF w
<1>5. Keyed(f, key) <=> <<k>> = <<key>> BY <1>2, <1>3 DEF Keyed
<1>6. Value(f) = v BY <1>2, <1>4 DEF Value
<1>7. <<k>> = <<key>> <=> k = key
  <2>1. <<k>>[1] = k /\ <<key>>[1] = key OBVIOUS
  <2> QED BY <2>1
<1> QED BY <1>5, <1>6, <1>7 DEF One, f

LEMMA FoundType ==
  ASSUME NEW t \in Text, NEW key
  PROVE  FoundIn(t, key) \in Seq(Found)
BY FieldsType, ValuesType DEF FieldList, FoundIn

LEMMA FoundJoin ==
  ASSUME NEW s \in Text, NEW t \in Text, NEW key
  PROVE  FoundIn(Join(s, t), key) = FoundIn(s, key) \o FoundIn(t, key)
<1>1. Fields(s) \in Seq(Text) /\ Fields(t) \in Seq(Text) BY FieldsType DEF FieldList
<1>2. Values(Fields(s) \o Fields(t), key) = Values(Fields(s), key) \o Values(Fields(t), key)
  BY <1>1, ValuesConcat
<1> QED BY <1>2, FieldsJoin DEF FoundIn

LEMMA FoundField ==
  ASSUME NEW k \in Symbol \ {":", "|"}, NEW v \in Text, Plain(v), NEW key
  PROVE  FoundIn(FieldOf(k, v), key) = IF key = k THEN <<v>> ELSE <<>>
<1> DEFINE f == FieldOf(k, v)
<1>1. /\ f \in Text /\ Len(f) = Len(v) + 2 /\ Len(v) \in Nat
      /\ f[1] = k /\ f[2] = ":" /\ \A i \in 1 .. Len(v) : f[i + 2] = v[i]
  BY FieldShape
<1>2. One(f, key) = IF key = k THEN <<v>> ELSE <<>> BY FieldKeyValue
<1> HIDE DEF f
<1>3. ASSUME NEW i \in 1 .. Len(f) PROVE f[i] # "|"
  <2>1. CASE i = 1 BY <1>1, <2>1
  <2>2. CASE i = 2 BY <1>1, <2>2
  <2>3. CASE i > 2
    <3>1. i - 2 \in 1 .. Len(v) /\ (i - 2) + 2 = i BY <1>1, <2>3
    <3> QED BY <1>1, <3>1 DEF Plain
  <2> QED BY <1>1, <2>1, <2>2, <2>3
<1>4. Fields(f) = <<f>> BY <1>1, <1>3, FieldsOne
<1>5. Values(<<f>>, key) = One(f, key) BY <1>1, ValuesOne
<1> QED BY <1>2, <1>4, <1>5 DEF FoundIn, f

LEMMA FoundNone ==
  ASSUME NEW k \in Symbol, NEW v \in Text, NEW key, key # k, key # ":",
         \A i \in 1 .. Len(v) : v[i] # key
  PROVE  FoundIn(FieldOf(k, v), key) = <<>>
<1> DEFINE f == FieldOf(k, v)
<1>1. /\ f \in Text /\ Len(f) = Len(v) + 2 /\ Len(v) \in Nat
      /\ f[1] = k /\ f[2] = ":" /\ \A i \in 1 .. Len(v) : f[i + 2] = v[i]
  BY FieldShape
<1> HIDE DEF f
<1>2. ASSUME NEW i \in 1 .. Len(f) PROVE f[i] # key
  <2>1. CASE i = 1 BY <1>1, <2>1
  <2>2. CASE i = 2 BY <1>1, <2>2
  <2>3. CASE i > 2
    <3>1. i - 2 \in 1 .. Len(v) /\ (i - 2) + 2 = i BY <1>1, <2>3
    <3> QED BY <1>1, <3>1
  <2> QED BY <1>1, <2>1, <2>2, <2>3
<1>3. Free(Fields(f), key) BY <1>1, <1>2, FieldsFree
<1>4. Fields(f) \in Seq(Text) BY <1>1, FieldsType DEF FieldList
<1>5. Values(Fields(f), key) = <<>> BY <1>3, <1>4, ValuesFree
<1> QED BY <1>5 DEF FoundIn, f

-----------------------------------------------------------------------------
(* The frame of an entry                                                   *)

(* prepare writes six fields.                                              *)
FromField          == FieldOf("from", Entry.from)
MessageField(text) == FieldOf("message", text)
ChecksumField      == FieldOf("checksum", Entry.checksum)
IdField            == FieldOf("chunk_id", Entry.chunk_id)
BatchField         == FieldOf("chunk_batch", Entry.chunk_batch)
TimeField          == FieldOf("timestamp", Entry.timestamp)

Two(text)     == Join(FromField, MessageField(text))
Three(text)   == Join(Two(text), ChecksumField)
Four(text)    == Join(Three(text), IdField)
Five(text)    == Join(Four(text), BatchField)
Payload(text) == Join(Five(text), TimeField)

LEMMA EntryIsText ==
  /\ Entry.from \in Text /\ Entry.checksum \in Text /\ Entry.chunk_id \in Text
  /\ Entry.chunk_batch \in Text /\ Entry.timestamp \in Text
  /\ {"from", "message", "checksum", "chunk_id", "chunk_batch", "timestamp"}
       \subseteq Symbol \ {":", "|"}
BY FramingAssumption, WireAssumption DEF Text

LEMMA PayloadType ==
  ASSUME NEW text \in Text
  PROVE  /\ FromField \in Text /\ MessageField(text) \in Text /\ ChecksumField \in Text
         /\ IdField \in Text /\ BatchField \in Text /\ TimeField \in Text
         /\ Two(text) \in Text /\ Three(text) \in Text /\ Four(text) \in Text
         /\ Five(text) \in Text /\ Payload(text) \in Text
<1>1. /\ FromField \in Text /\ MessageField(text) \in Text /\ ChecksumField \in Text
      /\ IdField \in Text /\ BatchField \in Text /\ TimeField \in Text
  BY EntryIsText, FieldShape
     DEF FromField, MessageField, ChecksumField, IdField, BatchField, TimeField
<1>2. Two(text) \in Text BY <1>1, JoinType DEF Two
<1>3. Three(text) \in Text BY <1>1, <1>2, JoinType DEF Three
<1>4. Four(text) \in Text BY <1>1, <1>3, JoinType DEF Four
<1>5. Five(text) \in Text BY <1>1, <1>4, JoinType DEF Five
<1>6. Payload(text) \in Text BY <1>1, <1>5, JoinType DEF Payload
<1> QED BY <1>1, <1>2, <1>3, <1>4, <1>5, <1>6

(* One more field                                                          *)
LEMMA JoinField ==
  ASSUME NEW t \in Text, NEW k \in Symbol, NEW v \in Text
  PROVE  Join(t, FieldOf(k, v)) = t \o <<"|", k, ":">> \o v
<1> DEFINE bar == <<"|">>
           key == <<k, ":">>
           tb == t \o bar
<1>1. bar \in Seq(Symbol) /\ key \in Seq(Symbol) BY WireAssumption
<1>2. t \in Seq(Symbol) /\ v \in Seq(Symbol) BY DEF Text
<1>3. bar \o key = <<"|", k, ":">>
  <2> DEFINE w == <<"|", k, ":">>
  <2>1. /\ w \in Seq(Symbol) /\ Len(w) = 3 /\ w[1] = "|" /\ w[2] = k /\ w[3] = ":"
        /\ Len(bar) = 1 /\ bar[1] = "|" /\ Len(key) = 2 /\ key[1] = k /\ key[2] = ":"
    BY WireAssumption
  <2> HIDE DEF bar, key, w
  <2>2. /\ bar \o key \in Seq(Symbol) /\ Len(bar \o key) = Len(bar) + Len(key)
        /\ \A i \in 1 .. Len(bar) + Len(key) :
             (bar \o key)[i] = IF i <= Len(bar) THEN bar[i] ELSE key[i - Len(bar)]
    BY <1>1, ConcatProperties
  <2>3. \A i \in 1 .. 3 : i = 1 \/ i = 2 \/ i = 3 OBVIOUS
  <2>4. \A i \in 1 .. 3 : (bar \o key)[i] = w[i] BY <2>1, <2>2, <2>3
  <2>5. bar \o key = w BY <2>1, <2>2, <2>4, SeqEqual
  <2> QED BY <2>5 DEF w
<1>4. Join(t, FieldOf(k, v)) = tb \o (key \o v) BY DEF Join, FieldOf
<1> HIDE DEF bar, key
<1>5. tb \in Seq(Symbol) BY <1>1, <1>2, ConcatType
<1>6. tb \o key = t \o (bar \o key) BY <1>1, <1>2, ConcatAssociative
<1> HIDE DEF tb
<1>7. (tb \o key) \o v = tb \o (key \o v)
  <2>1. key \in Seq(Symbol) /\ v \in Seq(Symbol) BY <1>1, <1>2
  <2> QED BY <1>5, <2>1, ConcatAssociative
<1> QED BY <1>3, <1>7, <1>6, <1>4

LEMMA FrameIs ==
  ASSUME NEW text \in Text
  PROVE  Frame(text) = FrameOf(Payload(text))
<1> DEFINE E == [Entry EXCEPT !.message = text]
           t1 == <<"from", ":">> \o Entry.from
           t2 == t1 \o <<"|", "message", ":">> \o text
           t3 == t2 \o <<"|", "checksum", ":">> \o Entry.checksum
           t4 == t3 \o <<"|", "chunk_id", ":">> \o Entry.chunk_id
           t5 == t4 \o <<"|", "chunk_batch", ":">> \o Entry.chunk_batch
           t6 == t5 \o <<"|", "timestamp", ":">> \o Entry.timestamp
<1>1. /\ E.from = Entry.from /\ E.message = text /\ E.checksum = Entry.checksum
      /\ E.chunk_id = Entry.chunk_id /\ E.chunk_batch = Entry.chunk_batch
      /\ E.timestamp = Entry.timestamp
  BY FramingAssumption
<1>2. Frame(text) = FrameOf(t6)
  <2> HIDE DEF E
  <2>1. prepare(E) = FrameOf(t6) BY <1>1 DEF prepare, FrameOf
  <2> QED BY <2>1 DEF Frame, E
<1>3. t1 = FromField BY DEF FromField, FieldOf
<1> HIDE DEF E, t1
<1>4. t2 = Two(text)
  <2>1. t1 \in Text BY <1>3, PayloadType
  <2>2. t2 = Join(t1, MessageField(text))
    BY <2>1, EntryIsText, JoinField DEF MessageField
  <2> QED BY <1>3, <2>2 DEF Two
<1> HIDE DEF t2
<1>5. t3 = Three(text)
  <2>1. t2 \in Text BY <1>4, PayloadType
  <2>2. t3 = Join(t2, ChecksumField) BY <2>1, EntryIsText, JoinField DEF ChecksumField
  <2> QED BY <1>4, <2>2 DEF Three
<1> HIDE DEF t3
<1>6. t4 = Four(text)
  <2>1. t3 \in Text BY <1>5, PayloadType
  <2>2. t4 = Join(t3, IdField) BY <2>1, EntryIsText, JoinField DEF IdField
  <2> QED BY <1>5, <2>2 DEF Four
<1> HIDE DEF t4
<1>7. t5 = Five(text)
  <2>1. t4 \in Text BY <1>6, PayloadType
  <2>2. t5 = Join(t4, BatchField) BY <2>1, EntryIsText, JoinField DEF BatchField
  <2> QED BY <1>6, <2>2 DEF Five
<1> HIDE DEF t5
<1>8. t6 = Payload(text)
  <2>1. t5 \in Text BY <1>7, PayloadType
  <2>2. t6 = Join(t5, TimeField) BY <2>1, EntryIsText, JoinField DEF TimeField
  <2> QED BY <1>7, <2>2 DEF Payload
<1> QED BY <1>2, <1>8

LEMMA PlainFields ==
  ASSUME PlainEntry
  PROVE  /\ Plain(Entry.from) /\ Plain(Entry.checksum) /\ Plain(Entry.chunk_id)
         /\ Plain(Entry.timestamp) /\ Plain(Entry.chunk_batch)
<1>1. ASSUME NEW t \in Text, "|" \notin ToSet(t) PROVE Plain(t)
  BY <1>1 DEF ToSet, Plain, Text
<1>2. ASSUME NEW t \in Text, IsInt(t) PROVE Plain(t)
  <2>1. "|" \notin {"0", "1"} OBVIOUS
  <2>2. "|" \notin ToSet(t) BY <1>2, <2>1 DEF IsInt
  <2> QED BY <1>1, <2>2
<1> QED BY <1>1, <1>2, EntryIsText DEF PlainEntry

(* What is found in a payload under a key: at most one field beside the    *)
(* message has it.                                                         *)
LEMMA FoundPayload ==
  ASSUME NEW text \in Text, PlainEntry, NEW key
  PROVE  FoundIn(Payload(text), key) =
           (IF key = "from" THEN <<Entry.from>> ELSE <<>>)
             \o FoundIn(MessageField(text), key)
             \o (IF key = "checksum" THEN <<Entry.checksum>> ELSE <<>>)
             \o (IF key = "chunk_id" THEN <<Entry.chunk_id>> ELSE <<>>)
             \o (IF key = "chunk_batch" THEN <<Entry.chunk_batch>> ELSE <<>>)
             \o (IF key = "timestamp" THEN <<Entry.timestamp>> ELSE <<>>)
<1>1. FoundIn(FromField, key) = IF key = "from" THEN <<Entry.from>> ELSE <<>>
  BY EntryIsText, PlainFields, FoundField DEF FromField
<1>2. FoundIn(ChecksumField, key) = IF key = "checksum" THEN <<Entry.checksum>> ELSE <<>>
  BY EntryIsText, PlainFields, FoundField DEF ChecksumField
<1>3. FoundIn(IdField, key) = IF key = "chunk_id" THEN <<Entry.chunk_id>> ELSE <<>>
  BY EntryIsText, PlainFields, FoundField DEF IdField
<1>4. FoundIn(BatchField, key) = IF key = "chunk_batch" THEN <<Entry.chunk_batch>> ELSE <<>>
  BY EntryIsText, PlainFields, FoundField DEF BatchField
<1>5. FoundIn(TimeField, key) = IF key = "timestamp" THEN <<Entry.timestamp>> ELSE <<>>
  BY EntryIsText, PlainFields, FoundField DEF TimeField
<1>6. FoundIn(Two(text), key) = FoundIn(FromField, key) \o FoundIn(MessageField(text), key)
  <2>1. FromField \in Text /\ MessageField(text) \in Text BY PayloadType
  <2> QED BY <2>1, FoundJoin DEF Two
<1>7. FoundIn(Three(text), key) = FoundIn(Two(text), key) \o FoundIn(ChecksumField, key)
  <2>1. Two(text) \in Text /\ ChecksumField \in Text BY PayloadType
  <2> QED BY <2>1, FoundJoin DEF Three
<1>8. FoundIn(Four(text), key) = FoundIn(Three(text), key) \o FoundIn(IdField, key)
  <2>1. Three(text) \in Text /\ IdField \in Text BY PayloadType
  <2> QED BY <2>1, FoundJoin DEF Four
<1>9. FoundIn(Five(text), key) = FoundIn(Four(text), key) \o FoundIn(BatchField, key)
  <2>1. Four(text) \in Text /\ BatchField \in Text BY PayloadType
  <2> QED BY <2>1, FoundJoin DEF Five
<1>10. FoundIn(Payload(text), key) = FoundIn(Five(text), key) \o FoundIn(TimeField, key)
  <2>1. Five(text) \in Text /\ TimeField \in Text BY PayloadType
  <2> QED BY <2>1, FoundJoin DEF Payload
<1> QED BY <1>1, <1>2, <1>3, <1>4, <1>5, <1>6, <1>7, <1>8, <1>9, <1>10

(* What is sent is made of symbols that have codes.                        *)
LEMMA SendableType ==
  ASSUME ChunkInv, pc = "done", NEW text \in Sendable
  PROVE  text \in Seq(Symbol)
<1>1. Char \subseteq Symbol /\ {"|", "c"} \subseteq Symbol
  BY WireAssumption, FramingAssumption
<1>2. CASE text = message BY <1>1, <1>2 DEF ChunkInv, TypeInv
<1>3. ASSUME NEW i \in DOMAIN chunks, text = format_chunk(chunks[i])
      PROVE  text \in Seq(Symbol)
  <2>1. /\ Len(chunks) \in Nat /\ i \in 1 .. Len(chunks) /\ chunks[i] \in Chunk
        /\ MaxLength \in Nat /\ pos \in Nat /\ pos <= MaxLength
    BY ChunkingAssumption DEF ChunkInv, TypeInv
  <2>2. chunks[i].id = i /\ i \in 1 .. MaxLength
    BY <2>1 DEF ChunkInv, CutInv, CountInv, Numbered
  <2>3. IdText[chunks[i].id] \in Seq(Symbol) BY <2>2, FramingAssumption
  <2>4. chunks[i].text \in Seq(Symbol) BY <1>1, <2>1 DEF Chunk
  <2>5. <<"|", "c">> \in Seq(Symbol) /\ <<"|">> \in Seq(Symbol) BY <1>1
  <2>6. <<"|", "c">> \o IdText[chunks[i].id] \in Seq(Symbol) BY <2>3, <2>5, ConcatType
  <2>7. <<"|", "c">> \o IdText[chunks[i].id] \o <<"|">> \in Seq(Symbol)
    BY <2>5, <2>6, ConcatType
  <2>8. <<"|", "c">> \o IdText[chunks[i].id] \o <<"|">> \o chunks[i].text \in Seq(Symbol)
    BY <2>4, <2>7, ConcatType
  <2> QED BY <1>3, <2>8 DEF format_chunk
<1> QED BY <1>2, <1>3 DEF Sendable

LEMMA DisturbedRefused ==
  ASSUME NEW text \in Seq(Symbol), NEW raw \in Disturbed(Frame(text))
  PROVE  parse_message(raw) \in {Invalid, parse_message(Frame(text))}
<1>1. PICK p \in Seq(Symbol) : Frame(text) = FrameOf(p)
  BY FrameIs, PayloadType DEF Text
<1>2. PICK i \in DOMAIN FrameOf(p), s \in Noise : raw = [FrameOf(p) EXCEPT ![i] = s]
  BY <1>1 DEF Disturbed
<1>3. s \in Symbol BY FramingAssumption
<1>4. FrameOf(p) \in Seq(Symbol) BY FrameShape
<1>5. s # FrameOf(p)[i]
  <2>1. raw # FrameOf(p) BY <1>1 DEF Disturbed
  <2> QED BY <1>2, <1>4, <2>1
<1>6. parse_message(raw) \in {Invalid, Parsed(p)} BY <1>2, <1>3, <1>5, HurtFrame
<1> QED BY <1>1, <1>6, ParseFrame

(* What was heard through noise                                            *)
NoiseInv == noisy => heard \in {Invalid, parse_message(Frame(sent))}

(* parse_message: whatever single symbol of a frame changes on the air,    *)
(* payload, "*" or checksum, the frame is refused or says what was sent.   *)
THEOREM CorruptionIsRefused == FramingSpec => []CorruptionRefused
<1>1. FramingSpec => []ChunkInv
  BY ChunkInit, ChunkStep, FramingCutsAsChunking, PTL DEF Spec
<1>2. FramingInit => NoiseInv BY DEF FramingInit, NoiseInv
<1>3. ChunkInv /\ NoiseInv /\ [FramingNext]_framingVars => NoiseInv'
  <2> SUFFICES ASSUME ChunkInv, NoiseInv, [FramingNext]_framingVars, noisy'
               PROVE  heard' \in {Invalid, parse_message(Frame(sent'))}
    BY DEF NoiseInv
  <2>1. CASE UNCHANGED <<sent, noisy, heard>> BY <2>1 DEF NoiseInv
  <2>2. CASE HearClean BY <2>2 DEF HearClean
  <2>3. CASE HearNoisy
    <3>0. PICK text \in Sendable : \E raw \in Disturbed(Frame(text)) : Hear(text, raw)
      BY <2>3 DEF HearNoisy
    <3>1. PICK raw \in Disturbed(Frame(text)) : Hear(text, raw) BY <3>0
    <3>2. text \in Seq(Symbol) BY <3>1, SendableType DEF Hear
    <3>3. parse_message(raw) \in {Invalid, parse_message(Frame(text))}
      BY <3>2, DisturbedRefused
    <3> QED BY <3>1, <3>3 DEF Hear
  <2> QED BY <2>1, <2>2, <2>3 DEF FramingNext, framingVars, Cutting
<1>4. NoiseInv => CorruptionRefused BY DEF NoiseInv, CorruptionRefused, Invalid
<1> QED BY <1>1, <1>2, <1>3, <1>4, PTL DEF FramingSpec

-----------------------------------------------------------------------------
(* What is heard                                                           *)

(* A key of the header, when the message does not spell it out             *)
LEMMA HeaderFound ==
  ASSUME NEW text \in Text, PlainEntry,
         NEW key \in {"from", "chunk_batch", "timestamp"},
         FoundIn(MessageField(text), key) = <<>>
  PROVE  FoundIn(Payload(text), key) = <<Entry[key]>>
<1>1. FoundIn(Payload(text), key) =
        (IF key = "from" THEN <<Entry.from>> ELSE <<>>) \o <<>> \o <<>> \o <<>>
          \o (IF key = "chunk_batch" THEN <<Entry.chunk_batch>> ELSE <<>>)
          \o (IF key = "timestamp" THEN <<Entry.timestamp>> ELSE <<>>)
  BY FoundPayload
<1>2. \A t \in Text : <<t>> \in Seq(Text) OBVIOUS
<1>3. \A v \in Seq(Text) : v \o <<>> = v /\ <<>> \o v = v BY ConcatEmptySeq
<1>4. <<>> \in Seq(Text) OBVIOUS
<1>5. CASE key = "from" BY <1>1, <1>2, <1>3, <1>5, EntryIsText
<1>6. CASE key = "chunk_batch" BY <1>1, <1>2, <1>3, <1>4, <1>6, EntryIsText
<1>7. CASE key = "timestamp" BY <1>1, <1>2, <1>3, <1>4, <1>7, EntryIsText
<1> QED BY <1>5, <1>6, <1>7

LEMMA MessageFound ==
  ASSUME NEW text \in Text, PlainEntry, Plain(text)
  PROVE  FoundIn(Payload(text), "message") = <<text>>
<1>1. FoundIn(MessageField(text), "message") = <<text>>
  BY EntryIsText, FoundField DEF MessageField
<1>2. FoundIn(Payload(text), "message") =
        <<>> \o <<text>> \o <<>> \o <<>> \o <<>> \o <<>>
  BY <1>1, FoundPayload
<1>3. <<text>> \in Seq(Text) OBVIOUS
<1>4. <<>> \o <<text>> = <<text>> /\ <<text>> \o <<>> = <<text>> BY <1>3, ConcatEmptySeq
<1> QED BY <1>2, <1>4

LEMMA OneMember == \A v : ToSet(<<v>>) = {v} /\ Last(<<v>>) = v /\ <<v>> # <<>>
<1> TAKE v
<1>1. Len(<<v>>) = 1 /\ <<v>>[1] = v /\ DOMAIN <<v>> = {1} OBVIOUS
<1> QED BY <1>1 DEF ToSet, Last

(* The frame of a plain entry is taken, and its header is what it was.     *)
LEMMA HeaderParsed ==
  ASSUME NEW text \in Text, PlainEntry,
         \A key \in {"from", "chunk_batch", "timestamp"} :
           FoundIn(MessageField(text), key) = <<>>
  PROVE  LET found == FoundIn(Payload(text), "message")
         IN  parse_message(Frame(text)) =
               [valid |-> TRUE, from |-> Entry.from,
                timestamp |-> ToInt(Entry.timestamp), batch |-> ToInt(Entry.chunk_batch),
                chunk |-> [i \in DOMAIN found |-> [id |-> 1, message |-> found[i]]]]
<1> DEFINE p == Payload(text)
           fields == Fields(p)
           from == Values(fields, "from")
           timestamp == Values(fields, "timestamp")
           batch == Values(fields, "chunk_batch")
           found == Values(fields, "message")
<1>1. parse_message(Frame(text)) = Parsed(p)
  BY PayloadType, FrameIs, ParseFrame DEF Text
<1>2. from = <<Entry.from>> BY HeaderFound DEF FoundIn
<1>3. timestamp = <<Entry.timestamp>> BY HeaderFound DEF FoundIn
<1>4. batch = <<Entry.chunk_batch>> BY HeaderFound DEF FoundIn
<1>5. Parsed(p) =
        IF /\ \A v \in ToSet(timestamp) \cup ToSet(batch) : IsInt(v)
           /\ from # <<>> /\ Last(from) # <<>>
           /\ timestamp # <<>> /\ ToInt(Last(timestamp)) # 0
           /\ batch # <<>> /\ ToInt(Last(batch)) # 0
        THEN [valid |-> TRUE, from |-> Last(from),
              timestamp |-> ToInt(Last(timestamp)), batch |-> ToInt(Last(batch)),
              chunk |-> [i \in DOMAIN found |-> [id |-> 1, message |-> found[i]]]]
        ELSE Invalid
  BY DEF Parsed
<1> HIDE DEF from, timestamp, batch, found, fields, p
<1>6. /\ ToSet(timestamp) = {Entry.timestamp} /\ ToSet(batch) = {Entry.chunk_batch}
      /\ Last(timestamp) = Entry.timestamp /\ Last(batch) = Entry.chunk_batch
      /\ Last(from) = Entry.from
      /\ from # <<>> /\ timestamp # <<>> /\ batch # <<>>
  BY <1>2, <1>3, <1>4, OneMember
<1>7. /\ Entry.from # <<>>
      /\ IsInt(Entry.timestamp) /\ ToInt(Entry.timestamp) # 0
      /\ IsInt(Entry.chunk_batch) /\ ToInt(Entry.chunk_batch) # 0
  BY DEF PlainEntry
<1>8. Parsed(p) =
        [valid |-> TRUE, from |-> Entry.from,
         timestamp |-> ToInt(Entry.timestamp), batch |-> ToInt(Entry.chunk_batch),
         chunk |-> [i \in DOMAIN found |-> [id |-> 1, message |-> found[i]]]]
  BY <1>5, <1>6, <1>7
<1>9. FoundIn(Payload(text), "message") = found BY DEF FoundIn, found, fields, p
<1> QED BY <1>1, <1>8, <1>9

(* A text without "|" spells out no field.                                 *)
LEMMA PlainSpellsNone ==
  ASSUME NEW text \in Text, Plain(text), NEW key \in {"from", "chunk_batch", "timestamp"}
  PROVE  FoundIn(MessageField(text), key) = <<>>
<1>1. key # "message" OBVIOUS
<1> QED BY <1>1, EntryIsText, FoundField DEF MessageField

LEMMA PlainHeard ==
  ASSUME NEW text \in Text, PlainEntry, "|" \notin ToSet(text)
  PROVE  parse_message(Frame(text)) =
           [valid |-> TRUE, from |-> Entry.from,
            timestamp |-> ToInt(Entry.timestamp), batch |-> ToInt(Entry.chunk_batch),
            chunk |-> <<[id |-> 1, message |-> text]>>]
<1>1. Plain(text) BY DEF ToSet, Plain, Text
<1> DEFINE found == FoundIn(Payload(text), "message")
           chunk == [i \in DOMAIN found |-> [id |-> 1, message |-> found[i]]]
<1>2. chunk = <<[id |-> 1, message |-> text]>>
  <2>1. found = <<text>> BY <1>1, MessageFound
  <2> QED BY <2>1
<1>3. \A key \in {"from", "chunk_batch", "timestamp"} :
        FoundIn(MessageField(text), key) = <<>>
  BY <1>1, PlainSpellsNone
<1>4. parse_message(Frame(text)) =
        [valid |-> TRUE, from |-> Entry.from,
         timestamp |-> ToInt(Entry.timestamp), batch |-> ToInt(Entry.chunk_batch),
         chunk |-> chunk]
  BY <1>3, HeaderParsed
<1> HIDE DEF chunk
<1> QED BY <1>2, <1>4

LEMMA HeaderHeard ==
  ASSUME NEW text \in Text, PlainEntry,
         {"from", "chunk_batch", "timestamp"} \cap ToSet(text) = {}
  PROVE  LET h == parse_message(Frame(text))
         IN  /\ h.valid /\ h.from = Entry.from
             /\ h.timestamp = ToInt(Entry.timestamp) /\ h.batch = ToInt(Entry.chunk_batch)
<1>1. ASSUME NEW key \in {"from", "chunk_batch", "timestamp"}
      PROVE  FoundIn(MessageField(text), key) = <<>>
  <2>1. key # "message" /\ key # ":" OBVIOUS
  <2>2. key \notin ToSet(text) OBVIOUS
  <2>3. \A i \in 1 .. Len(text) : text[i] \in ToSet(text) BY DEF ToSet, Text
  <2>4. \A i \in 1 .. Len(text) : text[i] # key BY <2>2, <2>3
  <2> QED BY <2>1, <2>4, EntryIsText, FoundNone DEF MessageField
<1> QED BY <1>1, HeaderParsed

(* What was heard without noise                                            *)
HeardInv ==
  heard # Unheard /\ ~noisy => sent \in Text /\ heard = parse_message(Frame(sent))

LEMMA HeardStep ==
  ASSUME ChunkInv, HeardInv, [FramingNext]_framingVars
  PROVE  HeardInv'
<1>1. CASE UNCHANGED <<sent, noisy, heard>> BY <1>1 DEF HeardInv, Unheard
<1>2. CASE HearClean
  <2>1. PICK text \in Sendable : Hear(text, Frame(text)) BY <1>2 DEF HearClean
  <2>2. text \in Text BY <2>1, SendableType DEF Hear, Text
  <2>3. Frame(sent') = Frame(text) BY <2>1 DEF Hear
  <2> QED BY <2>1, <2>2, <2>3 DEF Hear, HeardInv
<1>3. CASE HearNoisy BY <1>3 DEF HearNoisy, HeardInv
<1> QED BY <1>1, <1>2, <1>3 DEF FramingNext, framingVars, Cutting

LEMMA HeardAlways == FramingSpec => []HeardInv
<1>1. FramingSpec => []ChunkInv
  BY ChunkInit, ChunkStep, FramingCutsAsChunking, PTL DEF Spec
<1>2. FramingInit => HeardInv BY DEF FramingInit, HeardInv
<1>3. ChunkInv /\ HeardInv /\ [FramingNext]_framingVars => HeardInv' BY HeardStep
<1> QED BY <1>1, <1>2, <1>3, PTL DEF FramingSpec

(* parse_message of what prepare wrote: with no "|" in the text, and a     *)
(* sender, a time and a batch that can be told, what it reads (sender,     *)
(* time, batch and text) is what was put in, be there ":" or "*" in the    *)
(* text.                                                                   *)
THEOREM TextIsHeard == FramingSpec => []TextHeard
<1>1. HeardInv => TextHeard
  <2> SUFFICES ASSUME HeardInv, heard # Unheard, ~noisy, PlainEntry,
                      "|" \notin ToSet(sent)
               PROVE  /\ heard.valid
                      /\ heard.from = Entry.from
                      /\ heard.timestamp = ToInt(Entry.timestamp)
                      /\ heard.batch = ToInt(Entry.chunk_batch)
                      /\ Len(heard.chunk) = 1 /\ heard.chunk[1].message = sent
    BY DEF TextHeard
  <2>1. sent \in Text /\ heard = parse_message(Frame(sent)) BY DEF HeardInv
  <2>2. heard = [valid |-> TRUE, from |-> Entry.from,
                 timestamp |-> ToInt(Entry.timestamp),
                 batch |-> ToInt(Entry.chunk_batch),
                 chunk |-> <<[id |-> 1, message |-> sent]>>]
    BY <2>1, PlainHeard
  <2> QED BY <2>2
<1> QED BY <1>1, HeardAlways, PTL

(* parse_message: a message of any length, with any "|" in it, takes       *)
(* nothing from the sender, the batch and the time of its frame, as long   *)
(* as the name of the field is not in it.                                  *)
THEOREM MetadataIsKept == FramingSpec => []MetadataKept
<1>1. HeardInv => MetadataKept
  <2> SUFFICES ASSUME HeardInv, heard # Unheard, ~noisy, PlainEntry,
                      {"from", "chunk_batch", "timestamp"} \cap ToSet(sent) = {}
               PROVE  /\ heard.valid /\ heard.from = Entry.from
                      /\ heard.timestamp = ToInt(Entry.timestamp)
                      /\ heard.batch = ToInt(Entry.chunk_batch)
    BY DEF MetadataKept
  <2>1. sent \in Text /\ heard = parse_message(Frame(sent)) BY DEF HeardInv
  <2> QED BY <2>1, HeaderHeard
<1> QED BY <1>1, HeardAlways, PTL
=============================================================================
