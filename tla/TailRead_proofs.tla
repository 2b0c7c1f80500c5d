-------------------------- MODULE TailRead_proofs --------------------------
(***************************************************************************)
(* Reading a journal backward finds its last line, for every file and      *)
(* every size of the first window; and on the files that FileJournal makes *)
(* that line has the hash its appends take.                                *)
(***************************************************************************)
EXTENDS JournalTail, FileJournal_proofs, SequenceTheorems, WellFoundedInduction, TLAPS

(* Induction, over a set of numbers in place of a formula. *)
LEMMA Induct ==
  ASSUME NEW S, 0 \in S, \A n \in Nat : n \in S => n + 1 \in S
  PROVE  Nat \subseteq S
<1> DEFINE T == Nat \ S
<1> SUFFICES ASSUME T # {} PROVE FALSE
  OBVIOUS
<1>1. PICK m \in T : \A k \in T : ~ (<<k, m>> \in OpToRel(<, Nat))
  BY NatLessThanWellFounded, WFMin
<1>2. m \in Nat /\ m # 0
  OBVIOUS
<1>3. m - 1 \in Nat /\ m - 1 < m /\ (m - 1) + 1 = m
  BY <1>2
<1>4. m - 1 \in S
  BY <1>1, <1>3 DEF OpToRel
<1>5. m \in S
  BY <1>3, <1>4
<1> QED BY <1>5

(* Numbers are well ordered. *)
LEMMA SmallestExists ==
  ASSUME NEW S \in SUBSET Nat, S # {}
  PROVE  Smallest(S) \in S /\ \A j \in S : Smallest(S) <= j
<1>1. PICK i \in S : \A j \in S : ~ (<<j, i>> \in OpToRel(<, Nat))
  BY NatLessThanWellFounded, WFMin
<1>2. \A j \in S : i <= j
  <2> TAKE j \in S
  <2>1. i \in Nat /\ j \in Nat
    OBVIOUS
  <2>2. ~ (j < i)
    BY <1>1, <2>1 DEF OpToRel
  <2> QED BY <2>1, <2>2
<1> QED BY <1>2 DEF Smallest

(* A set of numbers with a bound has a largest one. *)
LEMMA LargestExists ==
  ASSUME NEW n \in Nat, NEW S \in SUBSET (0..n), S # {}
  PROVE  Largest(S) \in S /\ \A j \in S : j <= Largest(S)
<1> DEFINE T == {n - i : i \in S}
<1>1. \A i \in S : i \in Nat /\ i <= n /\ n - i \in Nat
  OBVIOUS
<1>2. T \subseteq Nat /\ T # {}
  BY <1>1
<1>3. PICK k \in T : \A j \in T : k <= j
  BY <1>2, SmallestExists
<1>4. PICK i \in S : k = n - i
  BY <1>3
<1>5. \A j \in S : j <= i
  <2> TAKE j \in S
  <2>1. n - i <= n - j
    BY <1>3, <1>4
  <2> QED BY <1>1, <2>1
<1> QED BY <1>5 DEF Largest

LEMMA TextMember ==
  ASSUME NEW Byte, NEW bytes \in Seq(Byte), NEW start \in Nat, NEW i
  PROVE  i \in TextAfter(bytes, start) <=>
           i \in Nat /\ start < i /\ i <= Len(bytes) /\ bytes[i] \notin {LF, CR}
BY DEF TextAfter

LEMMA BreakMember ==
  ASSUME NEW bytes, NEW start \in Nat, NEW end \in Nat, NEW i
  PROVE  i \in BreaksBetween(bytes, start, end) <=>
           i \in Nat /\ start < i /\ i <= end /\ bytes[i] = LF
BY DEF BreaksBetween

(***************************************************************************)
(* _read_last_event_hash: whatever window it stops at, the line it takes   *)
(* is the last line of the file.                                           *)
(***************************************************************************)
THEOREM AnyWindowGivesTheLastLine ==
  ASSUME NEW Byte, NEW bytes \in Seq(Byte), NEW start \in 0..Len(bytes),
         NEW line \in LineIn(bytes, start)
  PROVE  line = LastLine(bytes)
<1> DEFINE text == TextAfter(bytes, start)
           all == TextAfter(bytes, 0)
           end == Largest(all)
<1>0. Len(bytes) \in Nat /\ start \in Nat
  OBVIOUS
<1>1. CASE text = {}
  <2>1. start = 0 /\ line = <<>>
    BY <1>1 DEF LineIn
  <2> QED BY <1>1, <2>1 DEF LastLine
<1>2. CASE text # {}
  <2>1. text \subseteq all /\ all \subseteq 0..Len(bytes) /\ Len(bytes) \in Nat
    BY DEF TextAfter
  <2>2. end \in all /\ \A j \in all : j <= end
    BY <1>2, <2>1, LargestExists
  <2>3. Largest(text) \in text /\ \A j \in text : j <= Largest(text)
    BY <1>2, <2>1, LargestExists
  <2>4. end \in text
    <3>1. Largest(text) <= end /\ end \in Nat /\ Largest(text) \in Nat
      BY <2>1, <2>2, <2>3
    <3>2. start < Largest(text)
      BY <1>0, <2>3, TextMember
    <3>3. start < end
      BY <1>0, <3>1, <3>2
    <3>4. end <= Len(bytes) /\ bytes[end] \notin {LF, CR}
      BY <2>2, TextMember
    <3> QED BY <1>0, <3>1, <3>3, <3>4, TextMember
  <2>5. Largest(text) = end
    BY <2>1, <2>2, <2>3, <2>4
  <2> DEFINE near == BreaksBetween(bytes, start, end)
             breaks == BreaksBetween(bytes, 0, end)
  <2>6. near \subseteq breaks /\ near \in SUBSET (0..Len(bytes)) /\ breaks \in SUBSET (0..Len(bytes))
    BY <2>1, <2>2 DEF BreaksBetween
  <2>7. CASE near # {}
    <3>1. Largest(near) \in near /\ \A j \in near : j <= Largest(near)
      BY <2>1, <2>6, <2>7, LargestExists
    <3>2. Largest(breaks) \in breaks /\ \A j \in breaks : j <= Largest(breaks)
      <4>1. breaks # {}
        BY <2>6, <2>7
      <4> QED BY <2>1, <2>6, <4>1, LargestExists
    <3>3. Largest(breaks) \in near
      <4>1. Largest(near) <= Largest(breaks) /\ Largest(near) \in Nat /\ Largest(breaks) \in Nat
        BY <2>6, <3>1, <3>2
      <4>2. end \in Nat
        BY <2>1, <2>2
      <4>3. start < Largest(near)
        BY <1>0, <3>1, <4>2, BreakMember
      <4>4. Largest(breaks) <= end /\ bytes[Largest(breaks)] = LF
        BY <3>2, <4>2, BreakMember
      <4>5. start < Largest(breaks)
        BY <1>0, <4>1, <4>3
      <4> QED BY <1>0, <4>1, <4>2, <4>4, <4>5, BreakMember
    <3>4. Largest(near) = Largest(breaks)
      BY <2>6, <3>1, <3>2, <3>3
    <3>5. line = SubSeq(bytes, Largest(near) + 1, end)
      BY <1>2, <2>5, <2>7 DEF LineIn
    <3>6. all # {} /\ breaks # {}
      BY <2>2, <2>6, <2>7
    <3> QED BY <3>4, <3>5, <3>6 DEF LastLine
  <2>8. CASE near = {}
    <3>1. start = 0 /\ line = SubSeq(bytes, 1, end)
      BY <1>2, <2>5, <2>8 DEF LineIn
    <3>2. breaks = {} /\ all # {}
      BY <2>2, <2>8, <3>1
    <3> QED BY <3>1, <3>2 DEF LastLine
  <2> QED BY <2>7, <2>8
<1> QED BY <1>1, <1>2

(***************************************************************************)
(* A window that reaches the start of the file is large enough.            *)
(***************************************************************************)
THEOREM WholeFileIsEnough ==
  ASSUME NEW bytes PROVE LineIn(bytes, 0) # {}
BY DEF LineIn

(* The sizes of the windows, and that the last of them is past the file. *)
Doubled(size, first, n) == IF n = 0 THEN first ELSE 2 * size[n - 1]

LEMMA SizesExist ==
  ASSUME NEW first, NEW last \in Nat
  PROVE  \E size : size = [n \in 0..last |-> Doubled(size, first, n)]
<1> DEFINE S == {n \in Nat : \E size : size = [m \in 0..n |-> Doubled(size, first, m)]}
<1>1. 0 \in S
  <2>1. [m \in 0..0 |-> first] = [m \in 0..0 |-> Doubled([k \in 0..0 |-> first], first, m)]
    BY DEF Doubled
  <2> QED BY <2>1
<1>2. ASSUME NEW n \in Nat, n \in S PROVE n + 1 \in S
  <2>1. PICK size : size = [m \in 0..n |-> Doubled(size, first, m)]
    BY <1>2
  <2> DEFINE more == [m \in 0..(n + 1) |-> Doubled(size, first, m)]
  <2>2. \A m \in 0..n : more[m] = size[m]
    BY <2>1
  <2>3. more = [m \in 0..(n + 1) |-> Doubled(size, first, m)]
    OBVIOUS
  <2> HIDE DEF more
  <2>4. \A m \in 0..(n + 1) : Doubled(more, first, m) = Doubled(size, first, m)
    <3> TAKE m \in 0..(n + 1)
    <3>1. m # 0 => m - 1 \in 0..n
      OBVIOUS
    <3> QED BY <2>2, <3>1 DEF Doubled
  <2>5. more = [m \in 0..(n + 1) |-> Doubled(more, first, m)]
    BY <2>3, <2>4
  <2> QED BY <2>5
<1> HIDE DEF S
<1>3. last \in S
  BY <1>1, <1>2, Induct
<1> QED BY <1>3 DEF S

LEMMA SizesDouble ==
  ASSUME NEW Byte, NEW bytes \in Seq(Byte), NEW first \in Nat
  PROVE  /\ WindowSizes(bytes, first) \subseteq Nat
         /\ first # 0 => \E w \in WindowSizes(bytes, first) : w > Len(bytes)
<1> DEFINE f == CHOOSE size : size = [n \in 0..Len(bytes) |-> Doubled(size, first, n)]
<1>1. Len(bytes) \in Nat
  OBVIOUS
<1>2. f = [n \in 0..Len(bytes) |-> Doubled(f, first, n)]
  BY <1>1, SizesExist
<1>3. WindowSizes(bytes, first) = {f[n] : n \in 0..Len(bytes)}
  BY DEF WindowSizes, Doubled
<1> HIDE DEF f
<1>4. \A n \in 0..Len(bytes) : f[n] \in Nat /\ (first # 0 => f[n] > n)
  <2> DEFINE S == {n \in Nat : n <= Len(bytes) => f[n] \in Nat /\ (first # 0 => f[n] > n)}
  <2>1. 0 \in S
    BY <1>1, <1>2 DEF Doubled
  <2>2. ASSUME NEW n \in Nat, n \in S PROVE n + 1 \in S
    <3>1. n + 1 <= Len(bytes) => n <= Len(bytes) /\ n + 1 \in 0..Len(bytes) /\ (n + 1) - 1 = n
      BY <1>1
    <3>2. n + 1 <= Len(bytes) => f[n + 1] = 2 * f[n]
      BY <1>2, <3>1 DEF Doubled
    <3> QED BY <2>2, <3>1, <3>2
  <2> HIDE DEF S
  <2>3. Nat \subseteq S
    BY <2>1, <2>2, Induct
  <2> QED BY <1>1, <2>3 DEF S
<1> QED BY <1>1, <1>3, <1>4

(***************************************************************************)
(* _read_last_event_hash, the loop: it never takes another line, for any   *)
(* size of the first window.                                               *)
(***************************************************************************)
THEOREM ReadBackwardIsTrue ==
  ASSUME NEW Byte, NEW bytes \in Seq(Byte), NEW first \in Nat,
         NEW line \in ReadBackward(bytes, first)
  PROVE  line = LastLine(bytes)
<1> DEFINE sufficient ==
             {w \in WindowSizes(bytes, first) : LineIn(bytes, StartOf(bytes, w)) # {}}
           w == Smallest(sufficient)
<1>1. line \in LineIn(bytes, StartOf(bytes, w))
  <2>1. sufficient # {}
    BY DEF ReadBackward
  <2> QED BY <2>1 DEF ReadBackward
<1>2. sufficient # {} /\ sufficient \subseteq Nat
  <2>1. ReadBackward(bytes, first) # {}
    OBVIOUS
  <2>2. WindowSizes(bytes, first) \subseteq Nat
    BY SizesDouble
  <2> QED BY <2>1, <2>2 DEF ReadBackward
<1>3. w \in Nat
  BY <1>2, SmallestExists
<1>4. StartOf(bytes, w) \in 0..Len(bytes)
  BY <1>3 DEF StartOf
<1> QED BY <1>1, <1>4, AnyWindowGivesTheLastLine

(***************************************************************************)
(* _read_last_event_hash, the loop: from a window that is not empty, it    *)
(* ends, and takes the last line of the file and nothing else.             *)
(***************************************************************************)
THEOREM ReadBackwardEnds ==
  ASSUME NEW Byte, NEW bytes \in Seq(Byte), NEW first \in Nat, first # 0
  PROVE  ReadBackward(bytes, first) = {LastLine(bytes)}
<1> DEFINE sufficient ==
             {w \in WindowSizes(bytes, first) : LineIn(bytes, StartOf(bytes, w)) # {}}
<1>1. PICK w \in WindowSizes(bytes, first) : w > Len(bytes)
  BY SizesDouble
<1>2. w \in Nat /\ Len(bytes) \in Nat
  BY SizesDouble
<1>3. StartOf(bytes, w) = 0
  BY <1>1, <1>2 DEF StartOf
<1>4. w \in sufficient
  BY <1>3, WholeFileIsEnough
<1>5. Smallest(sufficient) \in sufficient
  <2>1. sufficient \in SUBSET Nat
    BY SizesDouble
  <2> QED BY <1>4, <2>1, SmallestExists
<1>6. ReadBackward(bytes, first) # {}
  BY <1>5 DEF ReadBackward
<1>7. \A line \in ReadBackward(bytes, first) : line = LastLine(bytes)
  BY ReadBackwardIsTrue
<1> QED BY <1>6, <1>7

-----------------------------------------------------------------------------
(* The files that FileJournal makes. *)

Byte == Fragment \cup {LF, CR}

EndsLine(bytes) == bytes # <<>> => bytes[Len(bytes)] = LF

LEMMA LastLineIs ==
  ASSUME NEW pre \in Seq(Byte), EndsLine(pre), NEW line \in Line, line # <<>>,
         NEW post \in Seq({LF})
  PROVE  LastLine((pre \o line) \o post) = line
<1> DEFINE bytes == (pre \o line) \o post
           m == Len(pre)
           e == m + Len(line)
           text == TextAfter(bytes, 0)
           breaks == BreaksBetween(bytes, 0, e)
<1>1. /\ line \in Seq(Byte) /\ post \in Seq(Byte)
      /\ m \in Nat /\ Len(line) \in Nat /\ Len(line) # 0 /\ Len(post) \in Nat
  BY DEF Line, Byte
<1>2. /\ pre \o line \in Seq(Byte) /\ Len(pre \o line) = e
      /\ bytes \in Seq(Byte) /\ Len(bytes) = e + Len(post)
  BY <1>1, ConcatProperties
<1>3. \A i \in 1..e : bytes[i] = (pre \o line)[i]
  BY <1>1, <1>2, ConcatProperties
<1>4. /\ \A i \in 1..m : bytes[i] = pre[i]
      /\ \A i \in (m + 1)..e : bytes[i] = line[i - m]
  BY <1>1, <1>3, ConcatProperties
<1>5. \A i \in (e + 1)..Len(bytes) : bytes[i] = LF
  <2> TAKE i \in (e + 1)..Len(bytes)
  <2>1. bytes[i] = post[i - e]
    BY <1>1, <1>2, ConcatProperties
  <2>2. i - e \in 1..Len(post)
    BY <1>1, <1>2
  <2> QED BY <2>1, <2>2
<1>6. \A i \in (m + 1)..e : bytes[i] \notin {LF, CR}
  <2> TAKE i \in (m + 1)..e
  <2>1. i - m \in 1..Len(line)
    BY <1>1
  <2> QED BY <1>4, <2>1, TailAssumption DEF Line
<1> HIDE DEF bytes
<1>7. Largest(text) = e /\ text # {}
  <2>1. text \in SUBSET (0..Len(bytes)) /\ Len(bytes) \in Nat /\ e \in Nat /\ 0 \in Nat
    BY <1>1, <1>2 DEF TextAfter
  <2>2. e \in text
    BY <1>1, <1>2, <1>6, <2>1, TextMember
  <2>3. \A i \in text : i \in Nat
    BY <1>2, <2>1, TextMember
  <2>4. \A i \in text : i <= e
    <3> SUFFICES ASSUME NEW i \in text, ~ (i <= e) PROVE FALSE
      OBVIOUS
    <3>1. i \in Nat /\ i <= Len(bytes) /\ bytes[i] \notin {LF, CR}
      BY <1>2, <2>1, TextMember
    <3>2. i \in (e + 1)..Len(bytes)
      BY <2>1, <3>1
    <3> QED BY <1>5, <3>1, <3>2
  <2> HIDE DEF text, e
  <2>5. Largest(text) \in text /\ \A j \in text : j <= Largest(text)
    BY <2>1, <2>2, LargestExists
  <2>6. Largest(text) <= e /\ e <= Largest(text)
    BY <2>2, <2>4, <2>5
  <2>7. Largest(text) \in Nat
    BY <2>3, <2>5
  <2> QED BY <2>1, <2>2, <2>6, <2>7
<1>8. SubSeq(bytes, m + 1, e) = line
  <2>1. Len(SubSeq(bytes, m + 1, e)) = Len(line)
        /\ \A i \in 1..Len(line) : SubSeq(bytes, m + 1, e)[i] = bytes[m + i]
        /\ SubSeq(bytes, m + 1, e) \in Seq(Byte)
    BY <1>1, <1>2, SubSeqProperties
  <2>2. \A i \in 1..Len(line) : bytes[m + i] = line[i]
    BY <1>1, <1>4
  <2> QED BY <1>1, <2>1, <2>2, SeqEqual
<1>9. LastLine(bytes) = SubSeq(bytes, IF breaks = {} THEN 1 ELSE Largest(breaks) + 1, e)
  BY <1>7 DEF LastLine
<1>10. m \in Nat /\ e \in Nat /\ m <= e
  BY <1>1
<1>11. breaks \in SUBSET (0..e) /\ \A i \in breaks : i \in Nat /\ i <= m
  <2>1. \A i \in breaks : i \in Nat /\ i <= e /\ bytes[i] = LF
    BY <1>10, BreakMember
  <2> HIDE DEF breaks, m, e
  <2>2. \A i \in breaks : i <= m
    <3> SUFFICES ASSUME NEW i \in breaks, ~ (i <= m) PROVE FALSE
      OBVIOUS
    <3>1. i \in (m + 1)..e /\ bytes[i] = LF
      BY <1>10, <2>1
    <3> QED BY <1>6, <3>1
  <2> QED BY <2>1, <2>2
<1>12. CASE pre = <<>>
  <2>1. m = 0
    BY <1>12
  <2>2. breaks = {}
    <3>1. \A i \in breaks : 0 < i /\ i \in Nat
      BY <1>10, BreakMember
    <3> HIDE DEF breaks, m
    <3> QED BY <1>11, <2>1, <3>1
  <2> QED BY <1>8, <1>9, <2>1, <2>2 DEF bytes
<1>13. CASE pre # <<>>
  <2>1. m \in breaks
    <3>1. m # 0 /\ m \in 1..m
      BY <1>10, <1>13
    <3>2. bytes[m] = LF
      BY <1>4, <1>13, <3>1 DEF EndsLine
    <3> QED BY <1>10, <3>1, <3>2, BreakMember
  <2>2. Largest(breaks) = m
    <3> HIDE DEF breaks, m, e
    <3>1. Largest(breaks) \in breaks /\ \A j \in breaks : j <= Largest(breaks)
      BY <1>10, <1>11, <2>1, LargestExists
    <3>2. Largest(breaks) <= m /\ m <= Largest(breaks)
      BY <1>11, <2>1, <3>1
    <3>3. Largest(breaks) \in Nat
      BY <1>11, <3>1
    <3> QED BY <1>10, <3>2, <3>3
  <2> QED BY <1>8, <1>9, <2>1, <2>2 DEF bytes
<1> QED BY <1>12, <1>13

LEMMA NoLastLine ==
  ASSUME NEW bytes \in Seq({LF}) PROVE LastLine(bytes) = <<>>
BY DEF LastLine, TextAfter

(* FlattenSeq, from what it makes of one sequence less. *)
Joined(all, seqs, i) == IF i = 1 THEN seqs[i] ELSE all[i - 1] \o seqs[i]

LEMMA JoinedExist ==
  ASSUME NEW seqs, NEW last \in Nat
  PROVE  \E all : all = [i \in 1..last |-> Joined(all, seqs, i)]
<1> DEFINE S == {n \in Nat : \E all : all = [i \in 1..n |-> Joined(all, seqs, i)]}
<1>1. 0 \in S
  <2>1. \A all : [i \in 1..0 |-> Joined(all, seqs, i)] = [i \in {} |-> Joined(all, seqs, i)]
    OBVIOUS
  <2>2. [i \in {} |-> {}] = [i \in 1..0 |-> Joined([j \in {} |-> {}], seqs, i)]
    OBVIOUS
  <2> QED BY <2>2
<1>2. ASSUME NEW n \in Nat, n \in S PROVE n + 1 \in S
  <2>1. PICK all : all = [i \in 1..n |-> Joined(all, seqs, i)]
    BY <1>2
  <2> DEFINE more == [i \in 1..(n + 1) |-> Joined(all, seqs, i)]
  <2>2. \A i \in 1..n : more[i] = all[i]
    BY <2>1
  <2>3. more = [i \in 1..(n + 1) |-> Joined(all, seqs, i)]
    OBVIOUS
  <2> HIDE DEF more
  <2>4. \A i \in 1..(n + 1) : Joined(more, seqs, i) = Joined(all, seqs, i)
    <3> TAKE i \in 1..(n + 1)
    <3>1. i # 1 => i - 1 \in 1..n
      OBVIOUS
    <3> QED BY <2>2, <3>1 DEF Joined
  <2>5. more = [i \in 1..(n + 1) |-> Joined(more, seqs, i)]
    BY <2>3, <2>4
  <2> QED BY <2>5
<1> HIDE DEF S
<1>3. last \in S
  BY <1>1, <1>2, Induct
<1> QED BY <1>3 DEF S

(* The bytes of the first n lines. *)
Terminated == [i \in DOMAIN lines |-> Append(lines[i], LF)]

LEMMA BytesByLine ==
  ASSUME lines \in Seq(Line)
  PROVE  \E upTo : /\ upTo[0] = <<>>
                   /\ \A n \in 0..(Len(lines) - 1) :
                        upTo[n + 1] = upTo[n] \o Append(lines[n + 1], LF)
                   /\ Bytes = upTo[Len(lines)] \o partial
<1> DEFINE f == CHOOSE all : all = [i \in 1..Len(lines) |-> Joined(all, Terminated, i)]
           upTo == [n \in 0..Len(lines) |-> IF n = 0 THEN <<>> ELSE f[n]]
<1>1. Len(lines) \in Nat /\ DOMAIN lines = 1..Len(lines) /\ Len(Terminated) = Len(lines)
  BY DEF Terminated
<1>2. f = [i \in 1..Len(lines) |-> Joined(f, Terminated, i)]
  BY <1>1, JoinedExist
<1>3. Len(lines) # 0 => Ext!FlattenSeq(Terminated) = f[Len(lines)]
  BY <1>1 DEF Ext!FlattenSeq, Joined
<1>4. Len(lines) = 0 => Ext!FlattenSeq(Terminated) = <<>>
  BY <1>1 DEF Ext!FlattenSeq, Terminated
<1> HIDE DEF f
<1>5. Bytes = upTo[Len(lines)] \o partial
  <2>1. Ext!FlattenSeq(Terminated) = upTo[Len(lines)]
    BY <1>1, <1>3, <1>4
  <2> QED BY <2>1 DEF Bytes, Terminated
<1>6. ASSUME NEW n \in 0..(Len(lines) - 1)
      PROVE  upTo[n + 1] = upTo[n] \o Append(lines[n + 1], LF)
  <2>1. n + 1 \in 1..Len(lines) /\ n \in 0..Len(lines) /\ n + 1 # 0
    BY <1>1
  <2>2. upTo[n + 1] = Joined(f, Terminated, n + 1)
    BY <1>2, <2>1
  <2>3. Terminated[n + 1] = Append(lines[n + 1], LF)
    BY <1>1, <2>1 DEF Terminated
  <2>4. CASE n = 0
    <3>1. upTo[n] = <<>>
      BY <2>1, <2>4
    <3>2. upTo[n + 1] = Append(lines[n + 1], LF)
      BY <2>2, <2>3, <2>4 DEF Joined
    <3>3. Append(lines[n + 1], LF) \in Seq(Byte)
      BY <1>1, <2>1 DEF Line, Byte
    <3> HIDE DEF upTo
    <3> QED BY <3>1, <3>2, <3>3, ConcatEmptySeq
  <2>5. CASE n # 0
    <3>1. upTo[n] = f[n] /\ (n + 1) - 1 = n /\ n + 1 # 1
      BY <2>1, <2>5
    <3> HIDE DEF upTo
    <3> QED BY <2>2, <2>3, <3>1 DEF Joined
  <2> QED BY <2>4, <2>5
<1>7. upTo[0] = <<>>
  BY <1>1
<1> HIDE DEF upTo
<1> QED BY <1>5, <1>6, <1>7

(* The bytes are those of the last line that is not blank, of whole lines
   before it and of newlines after it; or they are newlines only. *)
LastOf(bytes, ls, k) ==
  \E pre \in Seq(Byte), post \in Seq({LF}) :
    EndsLine(pre) /\ bytes = (pre \o ls[k]) \o post

EndsWith(bytes, ls, n) ==
  \/ bytes \in Seq({LF}) /\ \A i \in 1..n : ls[i] = <<>>
  \/ \E k \in 1..n : /\ ls[k] # <<>>
                     /\ \A i \in 1..n : i > k => ls[i] = <<>>
                     /\ LastOf(bytes, ls, k)

LEMMA Regrouped ==
  ASSUME NEW s \in Seq(Byte), NEW t \in Seq(Byte), NEW u \in Seq(Byte)
  PROVE  (s \o t) \o u = s \o (t \o u)
BY SMT

LEMMA OneMoreNewline ==
  ASSUME NEW bytes, NEW ls \in Seq(Line), NEW k \in DOMAIN ls, LastOf(bytes, ls, k)
  PROVE  LastOf(bytes \o <<LF>>, ls, k)
<1>1. PICK pre \in Seq(Byte), post \in Seq({LF}) :
        EndsLine(pre) /\ bytes = (pre \o ls[k]) \o post
  BY DEF LastOf
<1>2. ls[k] \in Seq(Byte) /\ post \in Seq(Byte) /\ <<LF>> \in Seq(Byte)
      /\ <<LF>> \in Seq({LF})
  BY DEF Line, Byte
<1>3. pre \o ls[k] \in Seq(Byte) /\ post \o <<LF>> \in Seq({LF})
  BY <1>2, ConcatProperties
<1>4. bytes \o <<LF>> = (pre \o ls[k]) \o (post \o <<LF>>)
  <2> DEFINE before == pre \o ls[k]
             newline == <<LF>>
  <2>1. before \in Seq(Byte) /\ post \in Seq(Byte) /\ newline \in Seq(Byte)
    BY <1>2, <1>3
  <2> HIDE DEF before, newline
  <2>2. (before \o post) \o newline = before \o (post \o newline)
    BY <2>1, Regrouped
  <2> QED BY <1>1, <2>2 DEF before, newline
<1> QED BY <1>1, <1>3, <1>4 DEF LastOf

LEMMA LinesEnd ==
  ASSUME lines \in Seq(Line), NEW upTo, upTo[0] = <<>>,
         \A n \in 0..(Len(lines) - 1) : upTo[n + 1] = upTo[n] \o Append(lines[n + 1], LF)
  PROVE  /\ upTo[Len(lines)] \in Seq(Byte) /\ EndsLine(upTo[Len(lines)])
         /\ EndsWith(upTo[Len(lines)], lines, Len(lines))
<1> DEFINE S == {n \in Nat : n <= Len(lines) =>
                   /\ upTo[n] \in Seq(Byte) /\ EndsLine(upTo[n])
                   /\ EndsWith(upTo[n], lines, n)}
<1>1. Len(lines) \in Nat /\ DOMAIN lines = 1..Len(lines)
  OBVIOUS
<1>2. 0 \in S
  <2>1. <<>> \in Seq(Byte) /\ <<>> \in Seq({LF}) /\ EndsLine(<<>>)
    BY DEF EndsLine
  <2>2. \A i \in 1..0 : lines[i] = <<>>
    OBVIOUS
  <2>3. EndsWith(<<>>, lines, 0)
    BY <2>1, <2>2 DEF EndsWith
  <2> QED BY <2>1, <2>3
<1>3. ASSUME NEW n \in Nat, n \in S PROVE n + 1 \in S
  <2> SUFFICES ASSUME n + 1 <= Len(lines)
               PROVE  /\ upTo[n + 1] \in Seq(Byte) /\ EndsLine(upTo[n + 1])
                      /\ EndsWith(upTo[n + 1], lines, n + 1)
    OBVIOUS
  <2> DEFINE line == lines[n + 1]
             before == upTo[n]
  <2>1. n <= Len(lines) /\ n \in 0..(Len(lines) - 1) /\ n + 1 \in DOMAIN lines
        /\ n + 1 \in 1..(n + 1) /\ n \in 0..n
    BY <1>1
  <2>2. before \in Seq(Byte) /\ EndsLine(before) /\ EndsWith(before, lines, n)
    BY <1>3, <2>1
  <2>3. line \in Line /\ line \in Seq(Byte) /\ <<LF>> \in Seq(Byte) /\ <<LF>> \in Seq({LF})
    BY <2>1 DEF Line, Byte
  <2>4. upTo[n + 1] = before \o Append(line, LF)
    BY <2>1
  <2>5. Append(line, LF) = line \o <<LF>>
    BY <2>3, AppendIsConcat DEF Byte
  <2>6. before \o line \in Seq(Byte)
    BY <2>2, <2>3, ConcatProperties
  <2> HIDE DEF S, before, line
  <2>7. upTo[n + 1] = (before \o line) \o <<LF>>
    BY <2>2, <2>3, <2>4, <2>5, Regrouped
  <2>8. upTo[n + 1] \in Seq(Byte) /\ EndsLine(upTo[n + 1])
    <3>1. /\ upTo[n + 1] \in Seq(Byte)
          /\ Len(upTo[n + 1]) = Len(before \o line) + 1
      BY <2>3, <2>6, <2>7, ConcatProperties
    <3>2. upTo[n + 1][Len(before \o line) + 1] = LF
      BY <2>6, <2>7
    <3> QED BY <3>1, <3>2 DEF EndsLine
  <2>9. CASE line # <<>>
    <3>1. LastOf(upTo[n + 1], lines, n + 1)
      BY <2>2, <2>3, <2>7 DEF LastOf, line
    <3>2. \A i \in 1..(n + 1) : ~ (i > n + 1)
      OBVIOUS
    <3> QED BY <2>1, <2>8, <2>9, <3>1, <3>2 DEF EndsWith, line
  <2>10. CASE line = <<>>
    <3>1. upTo[n + 1] = before \o <<LF>>
      BY <2>2, <2>7, <2>10, ConcatEmptySeq
    <3>2. \A i \in 1..(n + 1) : i \in 1..n \/ i = n + 1
      OBVIOUS
    <3>3. CASE before \in Seq({LF}) /\ \A i \in 1..n : lines[i] = <<>>
      <4>1. before \o <<LF>> \in Seq({LF})
        BY <2>3, <3>3, ConcatProperties
      <4>2. \A i \in 1..(n + 1) : lines[i] = <<>>
        BY <2>10, <3>2, <3>3 DEF line
      <4> QED BY <2>8, <3>1, <4>1, <4>2 DEF EndsWith
    <3>4. CASE \E k \in 1..n : /\ lines[k] # <<>>
                               /\ \A i \in 1..n : i > k => lines[i] = <<>>
                               /\ LastOf(before, lines, k)
      <4>1. PICK k \in 1..n : /\ lines[k] # <<>>
                              /\ \A i \in 1..n : i > k => lines[i] = <<>>
                              /\ LastOf(before, lines, k)
        BY <3>4
      <4>2. k \in DOMAIN lines /\ k \in 1..(n + 1)
        BY <1>1, <2>1
      <4>3. LastOf(upTo[n + 1], lines, k)
        BY <3>1, <4>1, <4>2, OneMoreNewline
      <4>4. \A i \in 1..(n + 1) : i > k => lines[i] = <<>>
        BY <2>10, <3>2, <4>1 DEF line
      <4> QED BY <2>8, <4>1, <4>2, <4>3, <4>4 DEF EndsWith
    <3> QED BY <2>2, <3>3, <3>4 DEF EndsWith
  <2> QED BY <2>8, <2>9, <2>10
<1> HIDE DEF S
<1>4. Len(lines) \in S
  BY <1>1, <1>2, <1>3, Induct
<1> QED BY <1>1, <1>4 DEF S

LEMMA TailOfBytes ==
  ASSUME lines \in Seq(Line), partial \in Line
  PROVE  EventHashFromLine(LastLine(Bytes)) = TailHashes(FileLines)
<1> DEFINE n == Len(lines)
<1>1. PICK upTo : /\ upTo[0] = <<>>
                  /\ \A m \in 0..(n - 1) : upTo[m + 1] = upTo[m] \o Append(lines[m + 1], LF)
                  /\ Bytes = upTo[n] \o partial
  BY BytesByLine
<1>2. upTo[n] \in Seq(Byte) /\ EndsLine(upTo[n]) /\ EndsWith(upTo[n], lines, n)
  BY <1>1, LinesEnd
<1>3. /\ n \in Nat /\ DOMAIN FileLines = 1..(n + 1) /\ FileLines[n + 1] = partial
      /\ \A i \in 1..n : FileLines[i] = lines[i]
  BY DEF FileLines
<1>4. \A i \in 1..(n + 1) : i \in 1..n \/ i = n + 1
  BY <1>3
<1>5. ASSUME NEW k \in 1..(n + 1), FileLines[k] # <<>>,
             \A i \in 1..(n + 1) : i > k => FileLines[i] = <<>>
      PROVE  EventHashFromLine(FileLines[k]) = TailHashes(FileLines)
  <2>1. \A i \in 1..(n + 1) : i \in Nat /\ k \in Nat
    BY <1>3
  <2>2. k \in NonBlank(FileLines) /\ \A i \in NonBlank(FileLines) : i <= k
    BY <1>3, <1>5, <2>1 DEF NonBlank
  <2>3. \A i \in LastNonBlank(FileLines) : i = k
    <3> TAKE i \in LastNonBlank(FileLines)
    <3>1. i \in NonBlank(FileLines) /\ k <= i /\ i <= k
      BY <2>2 DEF LastNonBlank
    <3>2. i \in Nat
      BY <1>3, <2>1, <3>1 DEF NonBlank
    <3> QED BY <2>1, <3>1, <3>2
  <2>4. LastNonBlank(FileLines) = {k}
    BY <2>2, <2>3 DEF LastNonBlank
  <2>5. TailHashes(FileLines) =
          {FileLines[i][1].event.hash : i \in {j \in {k} : IsEventLine(FileLines[j])}}
    BY <2>2, <2>4 DEF TailHashes
  <2>6. CASE IsEventLine(FileLines[k])
    BY <1>5, <2>5, <2>6 DEF EventHashFromLine
  <2>7. CASE ~ IsEventLine(FileLines[k])
    BY <1>5, <2>5, <2>7 DEF EventHashFromLine
  <2> QED BY <2>6, <2>7
<1>6. CASE partial # <<>>
  <2>1. Bytes = (upTo[n] \o partial) \o <<>>
    <3>1. partial \in Seq(Byte)
      BY DEF Line, Byte
    <3>2. upTo[n] \o partial \in Seq(Byte)
      BY <1>2, <3>1, ConcatProperties
    <3> QED BY <1>1, <3>2, ConcatEmptySeq
  <2>2. LastLine(Bytes) = partial
    <3>1. <<>> \in Seq({LF})
      OBVIOUS
    <3> QED BY <1>2, <1>6, <2>1, <3>1, LastLineIs
  <2>3. \A i \in 1..(n + 1) : ~ (i > n + 1)
    BY <1>3
  <2> QED BY <1>3, <1>5, <1>6, <2>2, <2>3
<1>7. CASE partial = <<>>
  <2>1. Bytes = upTo[n]
    BY <1>1, <1>2, <1>7, ConcatEmptySeq
  <2>2. CASE upTo[n] \in Seq({LF}) /\ \A i \in 1..n : lines[i] = <<>>
    <3>1. LastLine(Bytes) = <<>>
      BY <2>1, <2>2, NoLastLine
    <3>2. NonBlank(FileLines) = {}
      BY <1>3, <1>4, <1>7, <2>2 DEF NonBlank
    <3> QED BY <3>1, <3>2 DEF EventHashFromLine, TailHashes
  <2>3. CASE \E k \in 1..n : /\ lines[k] # <<>>
                             /\ \A i \in 1..n : i > k => lines[i] = <<>>
                             /\ LastOf(upTo[n], lines, k)
    <3>1. PICK k \in 1..n : /\ lines[k] # <<>>
                            /\ \A i \in 1..n : i > k => lines[i] = <<>>
                            /\ LastOf(upTo[n], lines, k)
      BY <2>3
    <3>2. PICK pre \in Seq(Byte), post \in Seq({LF}) :
            EndsLine(pre) /\ upTo[n] = (pre \o lines[k]) \o post
      BY <3>1 DEF LastOf
    <3>3. lines[k] \in Line
      BY <1>3
    <3>4. LastLine(Bytes) = lines[k]
      BY <2>1, <3>1, <3>2, <3>3, LastLineIs
    <3>5. k \in 1..(n + 1) /\ FileLines[k] = lines[k]
      BY <1>3
    <3>6. \A i \in 1..(n + 1) : i > k => FileLines[i] = <<>>
      BY <1>3, <1>4, <1>7, <3>1
    <3> QED BY <1>5, <3>1, <3>4, <3>5, <3>6
  <2> QED BY <1>2, <2>2, <2>3 DEF EndsWith
<1> QED BY <1>6, <1>7

(***************************************************************************)
(* journal.py, _read_last_event_hash: on every file that appends, faults   *)
(* and crashes leave, with or without file locks, reading backward in      *)
(* windows of any first size gives what the last line that is not blank    *)
(* has: its hash, null for an empty file, or a refusal.                    *)
(***************************************************************************)
THEOREM TailIsFound == Spec => []WindowsFindTheTail
<1>1. ASSUME TypeOK, NEW first \in 1..MaxWindow
      PROVE  {EventHashFromLine(line) : line \in ReadBackward(Bytes, first)}
               = {TailHashes(FileLines)}
  <2>1. lines \in Seq(Line) /\ partial \in Line
    BY <1>1 DEF TypeOK
  <2>2. Bytes \in Seq(Byte)
    <3>1. PICK upTo : /\ upTo[0] = <<>>
                      /\ \A m \in 0..(Len(lines) - 1) :
                           upTo[m + 1] = upTo[m] \o Append(lines[m + 1], LF)
                      /\ Bytes = upTo[Len(lines)] \o partial
      BY <2>1, BytesByLine
    <3>2. upTo[Len(lines)] \in Seq(Byte)
      BY <2>1, <3>1, LinesEnd
    <3>3. partial \in Seq(Byte)
      BY <2>1 DEF Line, Byte
    <3> QED BY <3>1, <3>2, <3>3, ConcatProperties
  <2>3. first \in Nat /\ first # 0
    BY TailAssumption
  <2>4. ReadBackward(Bytes, first) = {LastLine(Bytes)}
    BY <2>2, <2>3, ReadBackwardEnds
  <2> QED BY <2>1, <2>4, TailOfBytes
<1>2. TypeOK => WindowsFindTheTail
  BY <1>1 DEF WindowsFindTheTail
<1> QED BY <1>2, TypeCorrect, PTL

=============================================================================
