---------------------------- MODULE ArchiveProofs ---------------------------
(***************************************************************************)
(* Proofs about Archive, for any number of savers, entries and crashes.    *)
(***************************************************************************)
EXTENDS Archive, FiniteSetTheorems, TLAPS

TypeInv ==
  /\ keyed \in BOOLEAN
  /\ kind \in {"missing", "empty", "json", "damaged"}
  /\ content \in Seq(Item)
  /\ at \in [Saver -> {"idle", "load", "open", "write"}]
  /\ entry \in [Saver -> Item \cup {0}]
  /\ \A s \in Saver : at[s] # "idle" => entry[s] \in Item
  /\ messages \in [Saver -> Seq(Item)]
  /\ alone \subseteq Saver
  /\ kept \subseteq Item

(* No save has overlapped that of a saver in alone: the others are idle.   *)
AloneInv == \A s \in alone : \A t \in Saver \ {s} : at[t] = "idle"

(* What a saver is about to write holds every kept entry and its own.      *)
ReadInv ==
  \A s \in Saver :
    at[s] \in {"open", "write"} => kept \cup {entry[s]} \subseteq ToSet(messages[s])

IInv == TypeInv /\ AloneInv /\ ReadInv /\ NothingForgotten

-----------------------------------------------------------------------------
LEMMA AddedHolds ==
  ASSUME NEW list \in Seq(Item), NEW e \in Item
  PROVE  /\ Added(list, e) \in Seq(Item)
         /\ ToSet(Added(list, e)) = ToSet(list) \cup {e}
<1>1. CASE keyed /\ e \in ToSet(list) BY <1>1 DEF Added
<1>2. CASE ~(keyed /\ e \in ToSet(list))
  <2>1. Added(list, e) = Append(list, e) BY <1>2 DEF Added
  <2>2. /\ DOMAIN list = 1 .. Len(list) /\ Len(list) \in Nat
        /\ DOMAIN Append(list, e) = 1 .. Len(list) + 1
        /\ Append(list, e) \in Seq(Item) /\ Append(list, e)[Len(list) + 1] = e
        /\ \A i \in 1 .. Len(list) : Append(list, e)[i] = list[i]
    OBVIOUS
  <2>3. \A i \in 1 .. Len(list) + 1 : i \in 1 .. Len(list) \/ i = Len(list) + 1
    BY <2>2
  <2>4. /\ 1 .. Len(list) \subseteq 1 .. Len(list) + 1
        /\ Len(list) + 1 \in 1 .. Len(list) + 1
    BY <2>2
  <2>5. ToSet(Append(list, e)) = ToSet(list) \cup {e}
    BY <2>2, <2>3, <2>4 DEF ToSet
  <2> QED BY <2>1, <2>2, <2>5
<1> QED BY <1>1, <1>2

LEMMA InitHolds == ArchiveInit => IInv
<1> SUFFICES ASSUME ArchiveInit PROVE IInv OBVIOUS
<1>1. TypeInv BY DEF ArchiveInit, Idle, TypeInv
<1>2. AloneInv /\ ReadInv /\ NothingForgotten
  BY DEF ArchiveInit, Idle, AloneInv, ReadInv, NothingForgotten
<1> QED BY <1>1, <1>2 DEF IInv

LEMMA Step == IInv /\ [ArchiveNext]_archiveVars => IInv'
<1> SUFFICES ASSUME IInv, [ArchiveNext]_archiveVars PROVE IInv' OBVIOUS
<1> USE ArchiveAssumption DEF IInv
<1>1. ASSUME NEW s \in Saver, NEW e \in Item, SaveStart(s, e) PROVE IInv'
  <2>1. TypeInv' BY <1>1 DEF TypeInv, SaveStart, Goto, fileVars
  <2>2. AloneInv'
    BY <1>1 DEF TypeInv, AloneInv, SaveStart, Goto, Idle, fileVars
  <2>3. ReadInv' /\ NothingForgotten'
    BY <1>1 DEF TypeInv, ReadInv, NothingForgotten, SaveStart, Goto, fileVars
  <2> QED BY <2>1, <2>2, <2>3
<1>2. ASSUME NEW s \in Saver, SaveLoad(s) PROVE IInv'
  <2>1. /\ kind \in {"missing", "json"} /\ at[s] = "load"
        /\ at' = [at EXCEPT ![s] = "open"]
        /\ messages' = [messages EXCEPT ![s] = Added(content, entry[s])]
        /\ UNCHANGED <<keyed, kind, content, entry, tried, saved, alone, kept>>
    BY <1>2 DEF SaveLoad, Goto, fileVars, history
  <2>2. entry[s] \in Item BY <2>1 DEF TypeInv
  <2>3. /\ Added(content, entry[s]) \in Seq(Item)
        /\ ToSet(Added(content, entry[s])) = ToSet(content) \cup {entry[s]}
    BY <2>2, AddedHolds DEF TypeInv
  <2>4. TypeInv' BY <2>1, <2>3 DEF TypeInv
  <2>5. AloneInv' BY <2>1 DEF TypeInv, AloneInv
  <2>6. ReadInv' BY <2>1, <2>3 DEF TypeInv, ReadInv, NothingForgotten
  <2>7. NothingForgotten' BY <2>1 DEF NothingForgotten
  <2> QED BY <2>4, <2>5, <2>6, <2>7
<1>3. ASSUME NEW s \in Saver, SaveLoadRaises(s) PROVE IInv'
  BY <1>3 DEF SaveLoadRaises, Goto, fileVars, history, TypeInv, AloneInv, ReadInv,
              NothingForgotten
<1>4. ASSUME NEW s \in Saver, SaveOpen(s) PROVE IInv'
  <2>1. <<>> \in Seq(Item) OBVIOUS
  <2> QED BY <1>4, <2>1 DEF SaveOpen, Goto, history, TypeInv, AloneInv, ReadInv,
                            NothingForgotten
<1>5. ASSUME NEW s \in Saver, SaveWrite(s) PROVE IInv'
  <2>1. /\ at[s] = "write" /\ at' = [at EXCEPT ![s] = "idle"]
        /\ kept' = IF s \in alone THEN kept \cup {entry[s]} ELSE kept
        /\ UNCHANGED <<keyed, entry, messages, tried, alone>>
    BY <1>5 DEF SaveWrite, Goto
  <2>2. \/ kind' = "json" /\ content' = messages[s]
        \/ kind' = "damaged" /\ content' = <<>>
    BY <1>5 DEF SaveWrite
  <2>3. kept \cup {entry[s]} \subseteq ToSet(messages[s]) BY <2>1 DEF ReadInv
  <2>4. <<>> \in Seq(Item) OBVIOUS
  <2>5. TypeInv' BY <2>1, <2>2, <2>4 DEF TypeInv
  <2>6. AloneInv' BY <2>1 DEF TypeInv, AloneInv
  <2>7. ReadInv' BY <2>1 DEF TypeInv, AloneInv, ReadInv
  <2>8. NothingForgotten' BY <2>1, <2>2, <2>3 DEF NothingForgotten
  <2> QED BY <2>5, <2>6, <2>7, <2>8
<1>6. CASE Crash
  <2>1. <<>> \in Seq(Item) OBVIOUS
  <2> QED BY <1>6, <2>1 DEF Crash, fileVars, history, TypeInv, AloneInv, ReadInv,
                            NothingForgotten
<1>7. CASE UNCHANGED archiveVars
  BY <1>7 DEF archiveVars, fileVars, history, TypeInv, AloneInv, ReadInv, NothingForgotten
<1> QED BY <1>1, <1>2, <1>3, <1>4, <1>5, <1>6, <1>7 DEF ArchiveNext, SaveStep

(* NothingForgotten is not inductive: a saver writes what it read, so what *)
(* it read must hold every kept entry, and it does because an entry is     *)
(* kept only by a save that nobody overlapped.                             *)
THEOREM Invariant == ArchiveSpec => []IInv
<1> QED BY InitHolds, Step, PTL DEF ArchiveSpec

(* An entry saved without an overlap is in the file as long as the file    *)
(* can be read (save_message, save_message_async, save_chunk_data),        *)
(* however many savers race later and however often the process dies.      *)
THEOREM NothingIsForgotten == ArchiveSpec => []NothingForgotten
<1>1. IInv => NothingForgotten BY DEF IInv
<1> QED BY <1>1, Invariant, PTL

-----------------------------------------------------------------------------
(* Sorting                                                                 *)

(* A set of numbers with 0 and the successor of every member is Nat.       *)
LEMMA NatByInduction ==
  ASSUME NEW S \in SUBSET Nat, 0 \in S, \A n \in S : n + 1 \in S
  PROVE  S = Nat
<1> DEFINE T == Nat \ S
           R == OpToRel(<, Nat)
<1> SUFFICES ASSUME T # {} PROVE FALSE OBVIOUS
<1>1. PICK m \in T : \A k \in T : ~(<<k, m>> \in R)
  <2>1. IsWellFoundedOn(R, Nat) BY NatLessThanWellFounded
  <2>2. T \subseteq Nat OBVIOUS
  <2> HIDE DEF T, R
  <2> QED BY <2>1, <2>2, WFMin
<1>2. m # 0 /\ m - 1 \in Nat /\ (m - 1) + 1 = m OBVIOUS
<1>3. m - 1 \notin T
  <2>1. <<m - 1, m>> \in R BY <1>2 DEF OpToRel
  <2> QED BY <1>1, <2>1
<1>4. (m - 1) + 1 \in S BY <1>2, <1>3
<1> QED BY <1>1, <1>2, <1>4

LEMMA LeastExists ==
  ASSUME NEW S \in SUBSET Nat, S # {}
  PROVE  \E m \in S : \A k \in S : m <= k
<1> DEFINE R == OpToRel(<, Nat)
<1>1. PICK m \in S : \A k \in S : ~(<<k, m>> \in R)
  <2>1. IsWellFoundedOn(R, Nat) BY NatLessThanWellFounded
  <2> HIDE DEF R
  <2> QED BY <2>1, WFMin
<1>2. \A k \in S : ~(k < m) BY <1>1 DEF OpToRel
<1> QED BY <1>2

Ascends(text, n) == \A i, j \in 1 .. n : i < j => text[i] < text[j]

(* A finite set of numbers can be sorted: the least one, then the others.  *)
LEMMA SortedExists ==
  ASSUME NEW A \in SUBSET Nat, IsFiniteSet(A)
  PROVE  \E text \in [1 .. Cardinality(A) -> A] : Ascends(text, Cardinality(A))
<1> DEFINE Sorts(S, n) == \E text \in [1 .. n -> S] : Ascends(text, n)
           N == {n \in Nat : \A S \in SUBSET Nat :
                   IsFiniteSet(S) /\ Cardinality(S) = n => Sorts(S, n)}
<1>1. 0 \in N
  <2> SUFFICES ASSUME NEW S \in SUBSET Nat PROVE Sorts(S, 0) OBVIOUS
  <2> DEFINE none == [i \in 1 .. 0 |-> 0]
  <2>1. \A i \in 1 .. 0 : FALSE OBVIOUS
  <2>2. none \in [1 .. 0 -> S] /\ Ascends(none, 0) BY <2>1 DEF Ascends
  <2> HIDE DEF none
  <2> QED BY <2>2
<1>2. ASSUME NEW n \in N PROVE n + 1 \in N
  <2>a. n \in Nat /\ n + 1 \in Nat OBVIOUS
  <2> SUFFICES ASSUME NEW S \in SUBSET Nat, IsFiniteSet(S), Cardinality(S) = n + 1
               PROVE  Sorts(S, n + 1)
    BY <2>a
  <2>1. S # {} BY <2>a, FS_EmptySet
  <2>2. PICK m \in S : \A k \in S : m <= k BY <2>1, LeastExists
  <2>b. \A k \in S : k # m => m < k
    <3> SUFFICES ASSUME NEW k \in S, k # m PROVE m < k OBVIOUS
    <3>1. k \in Nat /\ m \in Nat /\ m <= k BY <2>2
    <3> QED BY <3>1
  <2> DEFINE T == S \ {m}
  <2>3. T \in SUBSET Nat /\ IsFiniteSet(T) /\ Cardinality(T) = n
    BY <2>a, FS_RemoveElement
  <2>4. PICK rest \in [1 .. n -> T] : Ascends(rest, n) BY <2>a, <2>3
  <2> DEFINE text == [i \in 1 .. n + 1 |-> IF i = 1 THEN m ELSE rest[i - 1]]
  <2>5. \A i \in 1 .. n + 1 : i # 1 => i - 1 \in 1 .. n /\ rest[i - 1] \in T
    BY <2>a, <2>4
  <2>6. \A i \in 1 .. n + 1 : text[i] \in S BY <2>5
  <2>7. text \in [1 .. n + 1 -> S] BY <2>6
  <2>8. ASSUME NEW i \in 1 .. n + 1, NEW j \in 1 .. n + 1, i < j
        PROVE  text[i] < text[j]
    <3>1. j # 1 /\ j - 1 \in 1 .. n /\ text[j] = rest[j - 1] /\ rest[j - 1] \in T
      BY <2>a, <2>5, <2>8
    <3>2. CASE i = 1
      <4>0. rest[j - 1] \in S /\ rest[j - 1] # m BY <3>1
      <4>1. m < rest[j - 1] BY <2>b, <4>0
      <4> QED BY <3>1, <3>2, <4>1
    <3>3. CASE i # 1
      <4>1. i - 1 \in 1 .. n /\ text[i] = rest[i - 1] /\ i - 1 < j - 1
        BY <2>a, <2>5, <2>8, <3>3
      <4>2. rest[i - 1] < rest[j - 1] BY <2>4, <3>1, <4>1 DEF Ascends
      <4> QED BY <3>1, <4>1, <4>2
    <3> QED BY <3>2, <3>3
  <2>9. Ascends(text, n + 1) BY <2>8 DEF Ascends
  <2> HIDE DEF text
  <2> QED BY <2>7, <2>9
<1>3. N = Nat
  <2> HIDE DEF N
  <2>1. N \in SUBSET Nat BY DEF N
  <2> QED BY <1>1, <1>2, <2>1, NatByInduction
<1>4. Cardinality(A) \in Nat BY FS_CardinalityType
<1>5. Sorts(A, Cardinality(A)) BY <1>3, <1>4
<1> QED BY <1>5

(* The ids in the order in which reassemble_chunks takes them              *)
IdsOf(S) == Sorted(S, {p \in S \X S : p[1] < p[2]})

LEMMA IdsSorted ==
  ASSUME NEW S \in SUBSET Nat, IsFiniteSet(S)
  PROVE  /\ IdsOf(S) \in [1 .. Cardinality(S) -> S]
         /\ Ascends(IdsOf(S), Cardinality(S))
<1>1. \E text \in [1 .. Cardinality(S) -> S] : Ascends(text, Cardinality(S))
  BY SortedExists
<1> DEFINE n == Cardinality(S)
           Less == {p \in S \X S : p[1] < p[2]}
           Fits(text) == \A i, j \in 1 .. n : i < j => <<text[i], text[j]>> \in Less
<1>2. \A text \in [1 .. n -> S] : Fits(text) <=> Ascends(text, n) BY DEF Ascends
<1>3. IdsOf(S) = CHOOSE text \in [1 .. n -> S] : Fits(text)
  BY DEF IdsOf, Sorted
<1>4. \E text \in [1 .. n -> S] : Fits(text) BY <1>1, <1>2
<1> HIDE DEF n, Fits
<1>5. IdsOf(S) \in [1 .. n -> S] /\ Fits(IdsOf(S))
  BY <1>3, <1>4
<1>6. IdsOf(S) \in [1 .. n -> S] /\ Ascends(IdsOf(S), n)
  BY <1>2, <1>5
<1> QED BY <1>6 DEF n

(* The place of an id is the number of ids up to it.                       *)
LEMMA IdAtItsPlace ==
  ASSUME NEW S \in SUBSET Nat, IsFiniteSet(S), NEW e \in S
  PROVE  LET place == Cardinality({d \in S : d <= e})
         IN  place \in 1 .. Cardinality(S) /\ IdsOf(S)[place] = e
<1> DEFINE n == Cardinality(S)
           ids == IdsOf(S)
           I == 1 .. n
<1>1. n \in Nat BY FS_CardinalityType
<1>2. ids \in [I -> S] /\ Ascends(ids, n) BY IdsSorted
<1>3. IsFiniteSet(I) /\ Cardinality(I) = n BY <1>1, FS_Interval
<1> HIDE DEF ids, n
<1>4. \A i, j \in I : ids[i] = ids[j] => i = j
  <2> SUFFICES ASSUME NEW i \in I, NEW j \in I, ids[i] = ids[j], i # j PROVE FALSE
    OBVIOUS
  <2>1. ids[i] \in Nat /\ ids[j] \in Nat BY <1>2
  <2>2. i < j \/ j < i BY <1>1
  <2>3. ids[i] < ids[j] \/ ids[j] < ids[i] BY <1>2, <2>2 DEF Ascends
  <2> QED BY <2>1, <2>3
<1>5. \A d \in S : \E i \in I : ids[i] = d
  <2> DEFINE R == {ids[i] : i \in I}
  <2>1. R \subseteq S BY <1>2
  <2>2. ids \in Bijection(I, R)
    <3>1. ids \in [I -> R] BY <1>2
    <3>2. \A y \in R : \E x \in I : ids[x] = y OBVIOUS
    <3> HIDE DEF R, I
    <3> QED BY <1>4, <3>1, <3>2 DEF Bijection, Injection, Surjection, IsInjective
  <2> HIDE DEF R, I
  <2>3. IsFiniteSet(R) /\ Cardinality(R) = n
    BY <1>3, <2>2, FS_Bijection DEF ExistsBijection
  <2>4. R = S BY <2>1, <2>3, FS_Subset DEF n
  <2> QED BY <2>4 DEF R
<1>6. PICK i \in I : ids[i] = e BY <1>5
<1>7. i \in Nat /\ 1 .. i \subseteq I BY <1>1, <1>6
<1> DEFINE Below == {d \in S : d <= e}
<1>8. Below = {ids[j] : j \in 1 .. i}
  <2>1. ASSUME NEW j \in 1 .. i PROVE ids[j] \in Below
    <3>1. j \in I /\ ids[j] \in S /\ ids[j] \in Nat /\ e \in Nat BY <1>2, <1>7
    <3>2. j = i \/ j < i BY <1>7
    <3>3. ids[j] <= e
      <4>1. CASE j = i BY <1>6, <3>1, <4>1
      <4>2. CASE j < i BY <1>2, <1>6, <3>1, <4>2 DEF Ascends
      <4> QED BY <3>2, <4>1, <4>2
    <3> QED BY <3>1, <3>3
  <2>2. ASSUME NEW d \in Below PROVE \E j \in 1 .. i : ids[j] = d
    <3>1. d \in S /\ d \in Nat /\ e \in Nat /\ d <= e OBVIOUS
    <3>2. PICK j \in I : ids[j] = d BY <1>5, <3>1
    <3>3. ~(i < j) BY <1>2, <1>6, <3>1, <3>2 DEF Ascends
    <3>4. j \in 1 .. i BY <1>1, <1>7, <3>2, <3>3
    <3> QED BY <3>2, <3>4
  <2> QED BY <2>1, <2>2
<1>9. IsFiniteSet(1 .. i) /\ Cardinality(1 .. i) = i BY <1>7, FS_Interval
<1>10. Cardinality(Below) = i
  <2> DEFINE J == 1 .. i
             f == [j \in J |-> ids[j]]
  <2>1. f \in [J -> Below] BY <1>8
  <2>2. \A a, b \in J : f[a] = f[b] => a = b BY <1>4, <1>7
  <2>3. \A y \in Below : \E x \in J : f[x] = y BY <1>8
  <2> HIDE DEF J, f, Below
  <2>4. f \in Bijection(J, Below)
    BY <2>1, <2>2, <2>3 DEF Bijection, Injection, Surjection, IsInjective
  <2>5. Cardinality(Below) = Cardinality(J)
    BY <1>9, <2>4, FS_Bijection DEF ExistsBijection, J
  <2> QED BY <1>9, <2>5 DEF J
<1> QED BY <1>6, <1>10 DEF ids, n

(* A text that begins with "|" loses just that.                            *)
LEMMA AfterFirstBar ==
  ASSUME NEW chunk \in Seq(STRING), chunk # <<>>, Head(chunk) = "|"
  PROVE  AfterBar(chunk) = Tail(chunk)
<1> DEFINE First(i) == chunk[i] = "|" /\ \A j \in 1 .. i - 1 : chunk[j] # "|"
           bar == CHOOSE i \in DOMAIN chunk : First(i)
<1>1. 1 \in DOMAIN chunk /\ chunk[1] = "|" OBVIOUS
<1>2. First(1) BY <1>1
<1>3. \A i \in DOMAIN chunk : First(i) => i = 1
  <2> SUFFICES ASSUME NEW i \in DOMAIN chunk, First(i), i # 1 PROVE FALSE OBVIOUS
  <2>1. i \in Nat /\ 1 \in 1 .. i - 1 OBVIOUS
  <2> QED BY <1>1, <2>1
<1> HIDE DEF First
<1>4. bar = 1 BY <1>1, <1>2, <1>3
<1>5. AfterBar(chunk) = SubSeq(chunk, bar + 1, Len(chunk)) BY DEF AfterBar, First
<1> HIDE DEF bar
<1>6. AfterBar(chunk) = SubSeq(chunk, 2, Len(chunk)) BY <1>4, <1>5
<1> QED BY <1>6

-----------------------------------------------------------------------------
(* When every chunk of a message was saved without an overlap, the file    *)
(* holds each of them once, and Parser.reassemble_chunks joins them in the *)
(* order of their ids, whatever saves raced or died before or after, as    *)
(* they were stored or less the first "|" of their marker.                 *)
THEOREM TextIsReassembled == ArchiveSpec => []ReassembledText
<1>1. IInv => ReassembledText
  <2> SUFFICES ASSUME IInv, keyed, kept = Item, kind = "json"
               PROVE  LET place(e) == Cardinality({d \in Item : d <= e})
                      IN  /\ Len(reassemble_chunks) = Cardinality(Item)
                          /\ \A e \in Item :
                               /\ ~HasMarker(Text[e]) => reassemble_chunks[place(e)] = Text[e]
                               /\ HasMarker(Text[e]) /\ Head(Text[e]) = "|"
                                    => reassemble_chunks[place(e)] = Tail(Text[e])
    BY DEF ReassembledText
  <2> DEFINE S == ToSet(content)
             n == Cardinality(S)
  <2>1. content \in Seq(Item) BY DEF IInv, TypeInv
  <2>2. S \subseteq Item BY <2>1 DEF ToSet
  <2>3. Item \subseteq S BY DEF IInv, NothingForgotten
  <2>4. S = Item BY <2>2, <2>3
  <2>5. S \in SUBSET Nat BY <2>2, ArchiveAssumption
  <2>6. IsFiniteSet(S)
    <3>1. DOMAIN content = 1 .. Len(content) /\ Len(content) \in Nat BY <2>1
    <3>2. IsFiniteSet(1 .. Len(content)) BY <3>1, FS_Interval
    <3>3. S = {content[i] : i \in 1 .. Len(content)} BY <3>1 DEF ToSet
    <3>4. content \in Surjection(1 .. Len(content), S)
      <4>0. content \in [1 .. Len(content) -> Item] BY <2>1
      <4>1. content \in [1 .. Len(content) -> S]
        <5>1. \A i \in 1 .. Len(content) : content[i] \in S BY <3>3
        <5> HIDE DEF S
        <5> QED BY <4>0, <5>1
      <4>2. \A y \in S : \E x \in 1 .. Len(content) : content[x] = y BY <3>3
      <4> HIDE DEF S
      <4> QED BY <4>1, <4>2 DEF Surjection
    <3> HIDE DEF S
    <3> QED BY <3>2, <3>4, FS_Surjection
  <2>7. n \in Nat BY <2>6, FS_CardinalityType
  <2>8. reassemble_chunks = Parts(IdsOf(S)) BY DEF reassemble_chunks, IdsOf
  <2> HIDE DEF S, n
  <2>9. IdsOf(S) \in [1 .. n -> S] BY <2>5, <2>6, IdsSorted DEF n
  <2>10. reassemble_chunks = [i \in 1 .. n |-> Stripped(Text[IdsOf(S)[i]])]
    BY <2>8, <2>9 DEF Parts
  <2>11. Len(reassemble_chunks) = Cardinality(Item) BY <2>4, <2>7, <2>10 DEF n
  <2>12. ASSUME NEW e \in Item
         PROVE  reassemble_chunks[Cardinality({d \in Item : d <= e})] = Stripped(Text[e])
    <3> DEFINE place == Cardinality({d \in S : d <= e})
    <3>1. place \in 1 .. n /\ IdsOf(S)[place] = e
      BY <2>4, <2>5, <2>6, IdAtItsPlace DEF n
    <3> HIDE DEF place
    <3>2. reassemble_chunks[place] = Stripped(Text[e]) BY <2>10, <3>1
    <3> QED BY <2>4, <3>2 DEF place
  <2>13. ASSUME NEW e \in Item, HasMarker(Text[e]), Head(Text[e]) = "|"
         PROVE  Stripped(Text[e]) = Tail(Text[e])
    <3>1. Text[e] \in Seq(STRING) BY ArchiveAssumption
    <3>2. Text[e] # <<>>
      <4>1. 1 .. Len(<<>>) - 1 = {} OBVIOUS
      <4> QED BY <2>13, <4>1 DEF HasMarker
    <3> QED BY <2>13, <3>1, <3>2, AfterFirstBar DEF Stripped
  <2> QED BY <2>11, <2>12, <2>13 DEF Stripped
<1> QED BY <1>1, Invariant, PTL
=============================================================================
