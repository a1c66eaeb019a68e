-------------------------- MODULE LogReaderProofs ---------------------------
(***************************************************************************)
(* Proofs about the log reader, for lines of any weight, broken by         *)
(* splitlines() into any pieces, any cap, any number of requests: what it  *)
(* leaves out is marked, and its lines are whole.  What a read relies on is Answer: a response holds a line at     *)
(* least if there is one to read, and one that does not fill the cap       *)
(* reaches the newest.                                                     *)
(***************************************************************************)
EXTENDS LogReader, ListProofs

\* A line makes a piece at least.
Pieced ==
    /\ splits \in Seq(Nat) /\ Len(splits) = Newest
    /\ \A i, j \in 1 .. Newest + 1 : i <= j => SplitBefore(i) + (j - i) <= SplitBefore(j)

\* The kubelet's log: ends are in order.
Held ==
    /\ ends \in Seq(Nat) /\ first \in 1 .. Newest + 1
    /\ \A i, j \in 1 .. Newest : i <= j => ends[i] <= ends[j]
    /\ Pieced

\* The read, by where it is.
Reading ==
    /\ pc = "idle" => asked = None /\ tries = 0
    /\ pc \in {"tail", "whole"} => tries < Tries /\ tail \in Nat
    /\ pc = "tail" => asked \in Asks /\ (asked > 0 => tail > 0)
    /\ pc = "whole" => asked = None /\ began # None

IInv == TypeOK /\ Held /\ Reading /\ OlderMarked /\ WholeLines

LEMMA HeldInit == Init => Held
BY DEF Init, Held, Pieced, Newest, SplitBefore

\* A line more.
LEMMA Written ==
    ASSUME Held, Write
    PROVE  /\ \E s \in Nat, p \in Nat \ {0} :
                  /\ Newest # 0 => ends'[Newest + 1] = s + ends[Newest]
                  /\ splits'[Newest + 1] = SplitBefore(Newest + 1) + p
           /\ Newest \in Nat /\ Newest' = Newest + 1 /\ ends' \in Seq(Nat)
           /\ \A i \in 1 .. Newest : ends'[i] = ends[i] /\ splits'[i] = splits[i]
           /\ splits' \in Seq(Nat) /\ Len(splits') = Newest'
           /\ \A i \in 1 .. Newest + 1 : SplitBefore(i)' = SplitBefore(i) /\ SplitBefore(i) \in Nat
           /\ first' = first
<1>1. PICK s \in Sizes, p \in Pieces :
          /\ ends' = Append(ends, Before(Newest + 1) + s)
          /\ splits' = Append(splits, SplitBefore(Newest + 1) + p)
  BY DEF Write
<1>2. s \in Nat /\ p \in Nat \ {0}
  BY LogAssumption
<1>3. /\ Newest \in Nat /\ Len(ends) = Newest /\ Len(splits) = Newest /\ Newest + 1 # 0
      /\ splits \in Seq(Nat)
  BY DEF Held, Pieced, Newest
<1>4. Before(Newest + 1) \in Nat /\ (Newest # 0 => Before(Newest + 1) = ends[Newest])
  BY <1>3 DEF Before, Held
<1>5. \A i \in 1 .. Newest + 1 : SplitBefore(i) \in Nat
  BY <1>3 DEF SplitBefore
<1>6. SplitBefore(Newest + 1) \in Nat
  BY <1>3, <1>5
<1>7. /\ ends' \in Seq(Nat) /\ Newest' = Newest + 1 /\ \A i \in 1 .. Newest : ends'[i] = ends[i]
      /\ ends'[Newest + 1] = Before(Newest + 1) + s
  BY <1>1, <1>2, <1>3, <1>4 DEF Held, Newest
<1>8. /\ splits' \in Seq(Nat) /\ Len(splits') = Newest + 1
      /\ \A i \in 1 .. Newest : splits'[i] = splits[i]
      /\ splits'[Newest + 1] = SplitBefore(Newest + 1) + p
  <2> DEFINE m == SplitBefore(Newest + 1) + p
  <2>1. m \in Nat /\ splits' = Append(splits, m)
    BY <1>1, <1>2, <1>6
  <2>. HIDE DEF m
  <2>2. /\ splits' \in Seq(Nat) /\ Len(splits') = Newest + 1
        /\ \A i \in 1 .. Newest : splits'[i] = splits[i]
        /\ splits'[Newest + 1] = m
    BY <1>3, <2>1
  <2>. QED
    BY <2>2 DEF m
<1>9. \A i \in 1 .. Newest + 1 : SplitBefore(i)' = SplitBefore(i)
  <2>. SUFFICES ASSUME NEW i \in 1 .. Newest + 1 PROVE SplitBefore(i)' = SplitBefore(i)
    OBVIOUS
  <2>1. i # 1 => i - 1 \in 1 .. Newest
    BY <1>3
  <2>. QED
    BY <1>8, <2>1 DEF SplitBefore
<1>11. first' = first
  BY DEF Write
<1>12. Newest # 0 => ends'[Newest + 1] = s + ends[Newest]
  <2>. SUFFICES ASSUME Newest # 0 PROVE ends'[Newest + 1] = s + ends[Newest]
    OBVIOUS
  <2>1. ends[Newest] \in Nat
    BY <1>3 DEF Held
  <2>. QED
    BY <1>2, <1>4, <1>7, <2>1
<1>. QED
  BY <1>2, <1>3, <1>5, <1>7, <1>8, <1>9, <1>11, <1>12

LEMMA HeldStep == Held /\ [Next]_vars => Held'
<1> SUFFICES ASSUME Held, [Next]_vars PROVE Held'
  OBVIOUS
<1>1. CASE Write
  <2>1. PICK s \in Nat, p \in Nat \ {0} :
            /\ Newest # 0 => ends'[Newest + 1] = s + ends[Newest]
            /\ splits'[Newest + 1] = SplitBefore(Newest + 1) + p
    BY <1>1, Written
  <2>2. s \in Nat
    OBVIOUS
  <2>3. /\ Newest \in Nat /\ Newest' = Newest + 1 /\ ends' \in Seq(Nat)
        /\ \A i \in 1 .. Newest : ends'[i] = ends[i]
        /\ Newest # 0 => ends'[Newest + 1] = s + ends[Newest]
    BY <1>1, <2>1, Written
  <2>4. first' = first
    BY <1>1, Written
  <2>5. ASSUME NEW i \in 1 .. Newest', NEW j \in 1 .. Newest', i <= j
        PROVE  ends'[i] <= ends'[j]
    <3>1. CASE j <= Newest
      <4>1. i \in 1 .. Newest /\ j \in 1 .. Newest
        BY <2>3, <2>5, <3>1
      <4>2. ends[i] <= ends[j]
        BY <2>5, <4>1 DEF Held
      <4>. QED
        BY <2>3, <4>1, <4>2
    <3>2. CASE j = Newest + 1 /\ i <= Newest
      <4>1. ends[i] <= ends[Newest] /\ ends[i] \in Nat /\ ends[Newest] \in Nat
        BY <2>3, <3>2 DEF Held, Newest
      <4>. QED
        BY <2>2, <2>3, <3>2, <4>1
    <3>3. CASE i = Newest + 1 /\ j = Newest + 1
      BY <2>3, <3>3 DEF Newest
    <3>. QED
      BY <2>3, <2>5, <3>1, <3>2, <3>3
  <2>6. ASSUME NEW i \in 1 .. Newest' + 1, NEW j \in 1 .. Newest' + 1, i <= j
        PROVE  SplitBefore(i)' + (j - i) <= SplitBefore(j)'
    <3>0. /\ \A k \in 1 .. Newest + 1 : SplitBefore(k)' = SplitBefore(k) /\ SplitBefore(k) \in Nat
          /\ \A k, l \in 1 .. Newest + 1 : k <= l => SplitBefore(k) + (l - k) <= SplitBefore(l)
      BY <1>1, Written DEF Held, Pieced
    <3>1. CASE j <= Newest + 1
      <4>1. i \in 1 .. Newest + 1 /\ j \in 1 .. Newest + 1
        BY <2>3, <2>6, <3>1
      <4>. QED
        BY <2>6, <3>0, <4>1
    <3>2. CASE j = Newest + 2 /\ i <= Newest + 1
      <4>1. i \in 1 .. Newest + 1 /\ Newest + 1 \in 1 .. Newest + 1
        BY <2>3, <3>2
      <4>2. /\ SplitBefore(i) + ((Newest + 1) - i) <= SplitBefore(Newest + 1)
            /\ SplitBefore(i)' = SplitBefore(i) /\ SplitBefore(i) \in Nat
            /\ SplitBefore(Newest + 1) \in Nat
        BY <2>3, <3>0, <3>2, <4>1
      <4>3. SplitBefore(j)' = SplitBefore(Newest + 1) + p
        BY <2>1, <2>3, <3>2 DEF SplitBefore
      <4>. QED
        BY <2>3, <3>2, <4>2, <4>3
    <3>3. CASE i = Newest + 2 /\ j = Newest + 2
      <4>1. Newest + 1 \in 1 .. Newest + 1
        BY <2>3
      <4>2. SplitBefore(j)' = SplitBefore(Newest + 1) + p
        BY <2>1, <2>3, <3>3 DEF SplitBefore
      <4>3. SplitBefore(j)' \in Nat
        BY <3>0, <4>1, <4>2
      <4>. QED
        BY <2>3, <3>3, <4>3
    <3>. QED
      BY <2>3, <2>6, <3>1, <3>2, <3>3
  <2>7. splits' \in Seq(Nat) /\ Len(splits') = Newest'
    BY <1>1, Written
  <2>. QED
    BY <2>3, <2>4, <2>5, <2>6, <2>7 DEF Held, Pieced
<1>2. CASE Rotate
  BY <1>2 DEF Rotate, Held, Pieced, Newest, SplitBefore
<1>3. CASE UNCHANGED log
  BY <1>3 DEF log, Held, Pieced, Newest, SplitBefore
<1>. QED
  BY <1>1, <1>2, <1>3
  DEF Next, vars, ReadTail, TailFits, TailAgain, TailSpent, ReadWhole, WholeDone, WholeAgain, Fail

-----------------------------------------------------------------------------
(* Responses.                                                              *)

Texts == [from : Nat \ {0}, to : Nat, cut : BOOLEAN]

LEMMA Answer ==
    ASSUME Held, NEW i \in 1 .. Newest + 1
    PROVE  /\ Arrived(i) \in Texts /\ Arrived(i).from <= Arrived(i).to + 1
           /\ i <= Newest => Arrived(i).from = i /\ Arrived(i).to \in i .. Newest
           /\ ~Full(i) => Arrived(i).to = (IF i <= Newest THEN Newest ELSE 0) /\ ~Arrived(i).cut
           /\ i = Newest + 1 => ~Full(i) /\ Count(Arrived(i)) = 0
<1>0. Newest \in Nat /\ Cap \in Nat \ {0}
  BY LogAssumption DEF Held, Newest
<1>1. CASE i = Newest + 1
  BY <1>0, <1>1 DEF Arrived, NoLines, Texts, Full, Bytes, Count
<1>2. CASE i <= Newest
  <2> DEFINE later == {k \in i .. Newest - 1 : ends[k] < Before(i) + Cap}
             to == i + Cardinality(later)
  <2>1. Arrived(i) = [from |-> i, to |-> to, cut |-> ends[to] > Before(i) + Cap]
    BY <1>0, <1>2 DEF Arrived
  <2>2. IsFiniteSet(i .. Newest - 1) /\ Cardinality(i .. Newest - 1) = Newest - i
    BY <1>0, <1>2, FS_Interval
  <2>3. Cardinality(later) \in 0 .. Newest - i
    <3>1. IsFiniteSet(later) /\ Cardinality(later) <= Cardinality(i .. Newest - 1)
      BY <2>2, FS_Subset
    <3>2. Cardinality(later) \in Nat
      BY <3>1, FS_CardinalityType
    <3>. QED
      BY <1>0, <1>2, <2>2, <3>1, <3>2
  <2>4. to \in i .. Newest
    BY <1>0, <1>2, <2>3
  <2>5. Before(i) \in Nat /\ \A k \in 1 .. Newest : ends[k] \in Nat
    BY <1>0, <1>2 DEF Held, Before, Newest
  <2>6. ASSUME ~Full(i) PROVE to = Newest /\ ~(ends[to] > Before(i) + Cap)
    <3>1. ends[Newest] < Before(i) + Cap
      BY <1>0, <1>2, <2>5, <2>6 DEF Full, Bytes
    <3>2. \A k \in i .. Newest - 1 : ends[k] < Before(i) + Cap
      <4> SUFFICES ASSUME NEW k \in i .. Newest - 1 PROVE ends[k] < Before(i) + Cap
        OBVIOUS
      <4>1. k \in 1 .. Newest /\ k <= Newest /\ Newest \in 1 .. Newest
        BY <1>0, <1>2
      <4>2. ends[k] <= ends[Newest]
        BY <4>1 DEF Held
      <4>. QED
        BY <1>0, <2>5, <3>1, <4>1, <4>2
    <3>3. later = i .. Newest - 1
      BY <3>2
    <3>4. Cardinality(later) = Newest - i
      BY <2>2, <3>3
    <3>5. to = Newest
      <4>. HIDE DEF later
      <4>. QED
        BY <1>0, <1>2, <3>4
    <3>6. Newest \in 1 .. Newest
      BY <1>0, <1>2
    <3>7. ~(ends[Newest] > Before(i) + Cap)
      BY <1>0, <2>5, <3>1, <3>6
    <3>. QED
      BY <3>5, <3>7
  <2>. HIDE DEF to, later
  <2>. QED
    <3>1. /\ Arrived(i).from = i /\ Arrived(i).to = to
          /\ Arrived(i).cut = (ends[to] > Before(i) + Cap)
      BY <2>1
    <3>2. (ends[to] > Before(i) + Cap) \in BOOLEAN
      OBVIOUS
    <3>3. Arrived(i) \in Texts
      BY <1>0, <1>2, <2>1, <2>4, <3>2 DEF Texts
    <3>4. ~Full(i) => to = Newest /\ ~Arrived(i).cut
      BY <2>6, <3>1
    <3>5. i <= Newest /\ i # Newest + 1 /\ i <= to + 1
      BY <1>0, <1>2, <2>4
    <3>. QED
      BY <2>4, <3>1, <3>3, <3>4, <3>5
<1>. QED
  BY <1>0, <1>1, <1>2

LEMMA FullLines ==
    ASSUME Held, NEW i \in 1 .. Newest + 1, Full(i)
    PROVE  i <= Newest /\ Newlines(Arrived(i)) \in Nat
<1>0. Newest \in Nat
  BY DEF Held, Newest
<1>1. i <= Newest
  BY <1>0, Answer
<1>2. Arrived(i).from = i /\ Arrived(i).to \in i .. Newest
  BY <1>1, Answer
<1>3. Count(Arrived(i)) \in Nat \ {0}
  BY <1>0, <1>2 DEF Count
<1>. QED
  BY <1>1, <1>3 DEF Newlines

LEMMA Begins ==
    ASSUME Held, NEW n \in Nat
    PROVE  /\ TailFrom(n) \in 1 .. Newest + 1
           /\ TailFrom(n) > first /\ TailFrom(n) <= Newest => TailFrom(n) = Newest + 1 - n
           /\ n = 0 => TailFrom(n) = Newest + 1
<1>. Newest \in Nat /\ first \in 1 .. Newest + 1
  BY DEF Held, Newest
<1>. QED
  BY DEF TailFrom, Greater, Lesser

LEMMA Dropped ==
    ASSUME NEW t \in Texts, t.from <= t.to + 1, t.cut => t.from <= t.to
    PROVE  /\ DropCut(t) \in Texts /\ DropCut(t).from = t.from /\ ~DropCut(t).cut
           /\ DropCut(t).from <= DropCut(t).to + 1
           /\ Count(DropCut(t)) = IF t.cut THEN Count(t) - 1 ELSE Count(t)
           /\ DropCut(t).to <= t.to
<1>. /\ t.from \in Nat \ {0} /\ t.to \in Nat /\ t.cut \in BOOLEAN
     /\ t = [from |-> t.from, to |-> t.to, cut |-> t.cut]
  BY DEF Texts
<1>1. CASE t.cut
  <2>1. DropCut(t) = [from |-> t.from, to |-> t.to - 1, cut |-> FALSE]
    BY <1>1 DEF DropCut
  <2>. QED
    BY <1>1, <2>1 DEF Texts, Count
<1>2. CASE ~t.cut
  BY <1>2 DEF DropCut
<1>. QED
  BY <1>1, <1>2

\* What a read keeps of a response.
LEMMA Kept ==
    ASSUME Held, NEW i \in 1 .. Newest + 1
    PROVE  /\ TailText(i) \in Texts /\ TailText(i).from <= TailText(i).to + 1
           /\ WholeText(i) \in Texts /\ WholeText(i).from <= WholeText(i).to + 1
           /\ ~WholeText(i).cut
           /\ TailText(i).cut => Count(TailText(i)) = 1 /\ TailText(i) = Arrived(i)
           /\ TailText(i).to <= Newest
           /\ i <= Newest =>
                /\ TailText(i).from = i
                /\ Count(TailText(i)) >= 1 /\ Count(TailText(i)) >= Count(Arrived(i)) - 1
                /\ ~Full(i) => Count(TailText(i)) = Newest + 1 - i
           /\ i = Newest + 1 => TailText(i).from = 1
<1>0. Newest \in Nat /\ \A t \in Texts : t.from \in Nat \ {0} /\ t.to \in Nat /\ t.cut \in BOOLEAN
  BY DEF Texts, Held, Newest
<1>1. CASE ~Full(i)
  <2>1. TailText(i) = Arrived(i) /\ WholeText(i) = Arrived(i)
    BY <1>1 DEF TailText, WholeText
  <2>2. CASE i <= Newest
    <3>1. Count(Arrived(i)) = Newest + 1 - i
      BY <1>0, <1>1, <2>2, Answer DEF Count
    <3>. QED
      BY <1>0, <1>1, <2>1, <2>2, <3>1, Answer
  <2>3. CASE i = Newest + 1
    <3>1. Arrived(i) = NoLines
      BY <1>0, <2>3 DEF Arrived
    <3>. QED
      BY <1>0, <1>1, <2>1, <2>3, <3>1, Answer DEF NoLines
  <2>. QED
    BY <1>0, <2>2, <2>3
<1>2. CASE Full(i)
  <2> DEFINE t == Arrived(i)
  <2>1. /\ i <= Newest /\ t \in Texts /\ t.from = i /\ t.to \in i .. Newest
    BY <1>0, <1>2, Answer
  <2>2. /\ TailText(i) = DropCutOfSeveral(t) /\ WholeText(i) = DropCut(t)
    BY <1>2 DEF TailText, WholeText
  <2>. HIDE DEF t
  <2>3. t.from <= t.to /\ Count(t) \in Nat /\ Count(t) >= 1
    BY <1>0, <2>1 DEF Count
  <2>4. /\ DropCut(t) \in Texts /\ DropCut(t).from = t.from /\ ~DropCut(t).cut
        /\ DropCut(t).from <= DropCut(t).to + 1
        /\ Count(DropCut(t)) = IF t.cut THEN Count(t) - 1 ELSE Count(t)
        /\ DropCut(t).to <= t.to
    BY <1>0, <2>1, <2>3, Dropped
  <2>5. CASE Newlines(t) > 0
    <3>1. DropCutOfSeveral(t) = DropCut(t) /\ Count(DropCut(t)) >= 1
      BY <2>3, <2>4, <2>5 DEF DropCutOfSeveral, Newlines
    <3>. QED
      BY <1>0, <1>2, <2>1, <2>2, <2>3, <2>4, <3>1 DEF t
  <2>6. CASE ~(Newlines(t) > 0)
    <3>1. DropCutOfSeveral(t) = t /\ t.cut /\ Count(t) = 1
      BY <1>0, <2>1, <2>3, <2>6 DEF DropCutOfSeveral, Newlines
    <3>. QED
      BY <1>0, <1>2, <2>1, <2>2, <2>3, <2>4, <3>1 DEF t
  <2>. QED
    BY <2>5, <2>6
<1>. QED
  BY <1>1, <1>2

\* splitlines() makes at least as many pieces as there are lines, and exactly as
\* many of lines it doesn't break.
LEMMA SplitCounts ==
    ASSUME Held, NEW t \in Texts, t.from <= t.to + 1, t.to <= Newest, t.cut => t.from <= t.to,
           NEW k, t.cut => k \in CutPieces(t)
    PROVE  /\ SplitLines(t, k) \in Nat /\ SplitLines(t, k) >= Count(t)
           /\ Unsplit => SplitLines(t, k) = Count(t)
<1>0. Newest \in Nat /\ t.from \in Nat \ {0} /\ t.to \in Nat /\ t.cut \in BOOLEAN
  BY DEF Texts, Held, Newest
<1>1. t.from \in 1 .. Newest + 1 /\ t.to + 1 \in 1 .. Newest + 1
      /\ (t.cut => t.to \in 1 .. Newest)
  BY <1>0
<1>2. /\ \A i \in 1 .. Newest + 1 : SplitBefore(i) \in Nat
      /\ \A i \in 1 .. Newest : splits[i] \in Nat
  <2>1. splits \in Seq(Nat) /\ Len(splits) = Newest
    BY DEF Held, Pieced
  <2>2. \A i \in 1 .. Newest : splits[i] \in Nat
    BY <1>0, <2>1
  <2>3. \A i \in 1 .. Newest + 1 : i = 1 \/ i - 1 \in 1 .. Newest
    BY <1>0
  <2>. QED
    BY <2>2, <2>3 DEF SplitBefore
<1>3. /\ SplitBefore(t.from) + ((t.to + 1) - t.from) <= SplitBefore(t.to + 1)
      /\ t.cut => SplitBefore(t.from) + (t.to - t.from) <= SplitBefore(t.to)
  <2>1. t.cut => t.to \in 1 .. Newest + 1
    BY <1>0, <1>1
  <2>. QED
    BY <1>1, <2>1 DEF Held, Pieced
<1>4. Unsplit => \A i \in 1 .. Newest + 1 : SplitBefore(i) = i - 1
  <2>. SUFFICES ASSUME Unsplit, NEW i \in 1 .. Newest + 1 PROVE SplitBefore(i) = i - 1
    OBVIOUS
  <2>1. i # 1 => i - 1 \in 1 .. Newest
    BY <1>0
  <2>. QED
    BY <2>1 DEF Unsplit, SplitBefore
<1>5. CASE ~t.cut
  <2>1. SplitLines(t, k) = SplitBefore(t.to + 1) - SplitBefore(t.from)
    BY <1>5 DEF SplitLines
  <2>. QED
    BY <1>0, <1>1, <1>2, <1>3, <1>4, <2>1 DEF Count
<1>6. CASE t.cut
  <2>1. t.to \in 1 .. Newest /\ splits[t.to] \in Nat /\ SplitBefore(t.to) \in Nat
    BY <1>0, <1>1, <1>2, <1>6
  <2>2. k \in 1 .. splits[t.to] - SplitBefore(t.to)
    BY <1>6 DEF CutPieces
  <2>3. k \in Nat \ {0} /\ k <= splits[t.to] - SplitBefore(t.to)
    BY <2>1, <2>2
  <2>4. SplitLines(t, k) = (SplitBefore(t.to) - SplitBefore(t.from)) + k
    BY <1>6 DEF SplitLines
  <2>5. SplitBefore(t.from) \in Nat
    BY <1>1, <1>2
  <2>6. SplitLines(t, k) \in Nat /\ SplitLines(t, k) >= Count(t)
    BY <1>0, <1>3, <1>6, <2>1, <2>3, <2>4, <2>5 DEF Count
  <2>7. ASSUME Unsplit PROVE SplitLines(t, k) = Count(t)
    <3>1. splits[t.to] = t.to /\ SplitBefore(t.to) = t.to - 1 /\ SplitBefore(t.from) = t.from - 1
      BY <1>0, <1>1, <1>4, <2>1, <2>7 DEF Unsplit
    <3>2. k = 1
      BY <1>0, <2>3, <3>1
    <3>. QED
      BY <1>0, <2>4, <3>1, <3>2 DEF Count
  <2>. QED
    BY <2>6, <2>7
<1>. QED
  BY <1>0, <1>5, <1>6

\* What is asked for after a response that filled the cap.
LEMMA ShorterAsk ==
    ASSUME Held, tail \in Nat, tail > 1, NEW k \in CutPieces(Response), Full(TailFrom(tail))
    PROVE  /\ Shorter(k) \in Nat \ {0}
           /\ Unsplit => Shorter(k) <= Greater(1, Count(Response) - 1)
<1>0. Newest \in Nat
  BY DEF Held, Newest
<1>1. TailFrom(tail) \in 1 .. Newest + 1
  BY Begins
<1>2. TailFrom(tail) <= Newest
  BY <1>1, FullLines
<1>3. /\ Response \in Texts /\ Response.from = TailFrom(tail)
      /\ Response.to \in TailFrom(tail) .. Newest
  BY <1>1, <1>2, Answer DEF Response
<1>4. Count(Response) \in Nat \ {0} /\ Response.from <= Response.to /\ Response.to <= Newest
      /\ Response.from \in Nat /\ Response.to \in Nat
  BY <1>0, <1>1, <1>3 DEF Count
<1>5. SplitLines(Response, k) \in Nat /\ SplitLines(Response, k) >= Count(Response)
      /\ (Unsplit => SplitLines(Response, k) = Count(Response))
  BY <1>3, <1>4, SplitCounts
<1>. QED
  BY <1>4, <1>5 DEF Shorter, Greater, Lesser

-----------------------------------------------------------------------------
(* The reader.                                                             *)

LEMMA Seen == Held /\ Look => seen' \in [from : Nat, to : Nat] /\ seen'.from = first
BY DEF Held, Look, Newest

LEMMA InvInit == Init => IInv
<1>. SUFFICES ASSUME Init PROVE IInv
  OBVIOUS
<1>1. TypeOK
  <2>1. /\ ends \in Seq(Nat) /\ first \in 1 .. Newest + 1
        /\ splits \in Seq(Nat) /\ Len(splits) = Newest
    BY HeldInit DEF Held, Pieced
  <2>2. text \in Texts /\ text.from <= text.to + 1
    BY DEF Init, NoLines, Texts
  <2>3. tries \in 0 .. Tries
    BY LogAssumption DEF Init
  <2>. QED
    BY <2>1, <2>2, <2>3 DEF Init, TypeOK, Texts
<1>. QED
  BY <1>1, HeldInit, LogAssumption DEF Init, IInv, Reading, OlderMarked, WholeLines

LEMMA TailEnds ==
    ASSUME IInv, pc = "tail", NEW n \in Nat, tail' = n, UNCHANGED <<log, asked, began>>,
           capped' \in BOOLEAN, tries' \in 0 .. Tries, Look, Held',
           NEW k \in CutPieces(Response), TailDone(TailText(TailFrom(tail)), k),
           tail > 0 =>
               \/ n = tail /\ (~Full(TailFrom(tail)) \/ tail = 1)
               \/ tries' = Tries /\ (Unsplit => n <= Greater(1, Count(Response) - 1)),
           tail > 0 => n > 0
    PROVE  IInv'
<1> DEFINE i == TailFrom(tail)
           t == TailText(i)
<1>0. /\ Newest \in Nat /\ first \in 1 .. Newest + 1 /\ tail \in Nat /\ asked \in Asks
      /\ asked > 0 => tail > 0
  BY DEF IInv, Reading, Held, Newest
<1>1. i \in 1 .. Newest + 1 /\ (i > first /\ i <= Newest => i = Newest + 1 - tail)
  BY <1>0, Begins DEF IInv
<1>2. pc' = "done" /\ text' = t /\ older' = (n > 0 /\ SplitLines(t, k) >= n)
  BY DEF TailDone
<1>3. /\ t \in Texts /\ t.from <= t.to + 1 /\ (t.cut => Count(t) = 1)
      /\ i <= Newest =>
            /\ t.from = i
            /\ Count(t) >= 1 /\ Count(t) >= Count(Arrived(i)) - 1
            /\ ~Full(i) => Count(t) = Newest + 1 - i
      /\ i = Newest + 1 => t.from = 1
  BY <1>1, Kept DEF IInv
<1>4. Count(t) \in Int /\ Count(Arrived(i)) \in Int
  BY <1>1, <1>3, Answer DEF Count, Texts, IInv
<1>s. SplitLines(t, k) \in Nat /\ SplitLines(t, k) >= Count(t)
  <2>1. t.to <= Newest /\ (t.cut => t = Response)
    BY <1>1, Kept DEF IInv, Response
  <2>2. t.cut => t.from <= t.to
    BY <1>3 DEF Count, Texts
  <2>. HIDE DEF t
  <2>. QED
    BY <1>3, <2>1, <2>2, SplitCounts DEF IInv
<1>5. seen' \in [from : Nat, to : Nat] /\ seen'.from = first
  BY Seen DEF IInv
<1>. HIDE DEF t, i
<1>6. TypeOK'
  <2>1. /\ ends' \in Seq(Nat) /\ first' \in 1 .. Newest' + 1
        /\ splits' \in Seq(Nat) /\ Len(splits') = Newest'
    BY DEF Held, Pieced
  <2>2. /\ asked' \in Asks \cup {None} /\ began' \in Nat \cup {None}
        /\ older' \in BOOLEAN /\ tail' \in Nat
    BY <1>0, <1>2 DEF IInv, TypeOK
  <2>. QED
    BY <1>2, <1>3, <1>5, <2>1, <2>2 DEF TypeOK, Texts
<1>7. ASSUME asked > 0, t.from > first, tries' < Tries \/ Unsplit
      PROVE  SplitLines(t, k) >= n /\ n > 0
  <2>0. n > 0 /\ tail > 0
    BY <1>0, <1>7
  <2>1. i <= Newest /\ t.from = i /\ i = Newest + 1 - tail
    <3>1. first \in Nat \ {0} /\ i \in Nat
      BY <1>0, <1>1
    <3>2. i # Newest + 1
      BY <1>3, <1>7, <3>1
    <3>3. i <= Newest
      BY <1>0, <1>1, <3>2
    <3>4. t.from = i
      BY <1>3, <3>3
    <3>. QED
      BY <1>1, <1>7, <3>3, <3>4
  <2>2. CASE n = tail /\ (~Full(i) \/ tail = 1)
    BY <1>0, <1>3, <1>4, <1>s, <2>0, <2>1, <2>2
  <2>3. CASE n <= Greater(1, Count(Arrived(i)) - 1)
    BY <1>3, <1>4, <1>s, <2>0, <2>1, <2>3 DEF Greater
  <2>4. ~(tries' = Tries) \/ Unsplit
    BY <1>7, LogAssumption
  <2>. QED
    BY <2>0, <2>2, <2>3, <2>4 DEF i, Response
<1>8. asked' = asked /\ asked # None
  BY <1>0, LogAssumption
<1>9. OlderMarked'
  <2>1. Unsplit' = Unsplit
    BY DEF log, Unsplit, Newest
  <2>. QED
    BY <1>2, <1>5, <1>7, <1>8, <2>1 DEF OlderMarked
<1>10. WholeLines'
  BY <1>2, <1>3, <1>8 DEF WholeLines, Count
<1>11. Reading'
  BY <1>2 DEF Reading
<1>. QED
  BY <1>6, <1>9, <1>10, <1>11 DEF IInv

LEMMA InvStep == IInv /\ [Next]_vars => IInv'
<1> SUFFICES ASSUME IInv, [Next]_vars PROVE IInv'
  OBVIOUS
<1>0. Held /\ Held' /\ TypeOK /\ Tries \in Nat \ {0} /\ Newest \in Nat
  BY HeldStep, LogAssumption DEF IInv, Held, Newest
<1>1. CASE Write \/ Rotate
  <2>1. UNCHANGED <<pc, asked, tail, tries, capped, text, older, began, seen>>
    BY <1>1 DEF Write, Rotate, read
  <2>2. /\ ends' \in Seq(Nat) /\ first' \in 1 .. Newest' + 1
        /\ splits' \in Seq(Nat) /\ Len(splits') = Newest'
    BY <1>0 DEF Held, Pieced
  <2>3. TypeOK'
    BY <1>0, <2>1, <2>2 DEF TypeOK
  <2>4. Reading' /\ OlderMarked' /\ WholeLines'
    BY <1>1, <2>1 DEF IInv, Reading, OlderMarked, WholeLines, Write, Rotate, Over
  <2>. QED
    BY <1>0, <2>3, <2>4 DEF IInv
<1>2. CASE ReadTail
  <2>1. PICK n \in Asks : asked' = n /\ tail' = n
    BY <1>2 DEF ReadTail
  <2>2. n \in Nat
    BY LogAssumption
  <2>3. TypeOK'
    BY <1>0, <1>2, <2>1, <2>2 DEF ReadTail, TypeOK, log, Newest
  <2>. QED
    BY <1>0, <1>2, <2>1, <2>2, <2>3 DEF ReadTail, IInv, Reading, OlderMarked, WholeLines
<1>3. CASE TailFits
  <2>1. /\ pc = "tail" /\ tail \in Nat /\ tail' = tail /\ capped' = capped
        /\ UNCHANGED <<log, asked, began>> /\ Look /\ tries' = tries + 1
        /\ \E k \in CutPieces(Response) : TailDone(TailText(TailFrom(tail)), k)
        /\ ~Full(TailFrom(tail)) \/ tail <= 1
    BY <1>3 DEF TailFits, IInv, Reading
  <2>2. tries' \in 0 .. Tries /\ capped' \in BOOLEAN
    BY <1>0, <2>1 DEF TypeOK, IInv, Reading
  <2>3. tail > 0 => ~Full(TailFrom(tail)) \/ tail = 1
    BY <2>1
  <2>. QED
    BY <1>0, <2>1, <2>2, <2>3, TailEnds
<1>4. CASE TailAgain
  <2>1. tail' \in Nat \ {0}
    <3>1. PICK k \in CutPieces(Response) : tail' = Shorter(k)
      BY <1>4 DEF TailAgain
    <3>2. tail \in Nat /\ tail > 1 /\ Full(TailFrom(tail))
      BY <1>4 DEF TailAgain, IInv, Reading
    <3>. QED
      BY <1>0, <3>1, <3>2, ShorterAsk
  <2>2. TypeOK'
    BY <1>0, <1>4, <2>1, Seen DEF TailAgain, TypeOK, log, Newest
  <2>. QED
    BY <1>0, <1>4, <2>1, <2>2 DEF TailAgain, TypeOK, IInv, Reading, OlderMarked, WholeLines
<1>5. CASE TailSpent
  <2>1. /\ pc = "tail" /\ tail \in Nat /\ tail > 1 /\ capped' = TRUE
        /\ UNCHANGED <<log, asked, began>> /\ Look /\ tries' = tries + 1 /\ tries' = Tries
        /\ Full(TailFrom(tail))
    BY <1>5 DEF TailSpent, IInv, Reading
  <2>2. PICK k \in CutPieces(Response) : tail' = Shorter(k) /\ TailDone(TailText(TailFrom(tail)), k)
    BY <1>5 DEF TailSpent
  <2>3. tries' \in 0 .. Tries /\ capped' \in BOOLEAN
    BY <1>0, <2>1 DEF TypeOK, IInv, Reading
  <2>4. Shorter(k) \in Nat \ {0} /\ (Unsplit => Shorter(k) <= Greater(1, Count(Response) - 1))
    BY <1>0, <2>1, ShorterAsk
  <2>. QED
    BY <1>0, <2>1, <2>2, <2>3, <2>4, TailEnds
<1>6. CASE ReadWhole
  <2>1. first \in 1 .. Newest + 1 /\ seen' \in [from : Nat, to : Nat] /\ seen'.from = first
    BY <1>0, <1>6, Seen DEF ReadWhole, Held
  <2>2. Arrived(first) \in Texts /\ Arrived(first).from <= Arrived(first).to + 1
    BY <1>0, <2>1, Answer
  <2>3. /\ first <= Newest => Arrived(first).from = first
        /\ ~Full(first) => ~Arrived(first).cut
        /\ Full(first) => first <= Newest /\ Newlines(Arrived(first)) \in Nat
    BY <1>0, <2>1, <2>2, Answer, FullLines
  <2>4. first > Newest => Arrived(first).from = 1
    BY <1>0, <2>1 DEF Arrived, NoLines
  <2>5. TypeOK'
    BY <1>0, <1>6, <2>1, <2>2, <2>3 DEF ReadWhole, TypeOK, Texts, log, Newest
  <2>6. CASE ~Full(first)
    <3>1. pc' = "done" /\ text' = Arrived(first) /\ asked' = asked /\ asked = None
      BY <1>6, <2>6 DEF ReadWhole, IInv, Reading
    <3>2. ~(text'.from > seen'.from) /\ ~text'.cut
      BY <1>0, <2>1, <2>3, <2>4, <2>6, <3>1
    <3>. QED
      BY <1>0, <2>5, <3>1, <3>2 DEF IInv, Reading, OlderMarked, WholeLines
  <2>7. CASE Full(first)
    <3>1. /\ pc' = "whole" /\ tail' = Newlines(Arrived(first)) /\ began' = first
          /\ asked' = asked /\ asked = None /\ tries' = tries /\ tries = 0
      BY <1>6, <2>7 DEF ReadWhole, IInv, Reading
    <3>2. first # None
      BY <2>1, LogAssumption
    <3>. QED
      BY <1>0, <2>3, <2>5, <2>7, <3>1, <3>2 DEF IInv, Reading, OlderMarked, WholeLines
  <2>. QED
    BY <2>6, <2>7
<1>7. CASE WholeDone \/ WholeAgain
  <2> DEFINE i == TailFrom(NineTenths)
  <2>1. NineTenths \in Nat \ {0} /\ pc = "whole" /\ asked = None /\ began # None /\ tries < Tries
    <3>1. pc = "whole" /\ tail \in Nat
      BY <1>7 DEF WholeDone, WholeAgain, IInv, Reading
    <3>2. (tail * 9) \div 10 \in Nat
      BY <3>1
    <3>. QED
      BY <3>1, <3>2 DEF NineTenths, Greater, IInv, Reading
  <2>2. i \in 1 .. Newest + 1
    BY <1>0, <2>1, Begins
  <2>3. /\ WholeText(i) \in Texts /\ WholeText(i).from <= WholeText(i).to + 1
        /\ ~WholeText(i).cut
    BY <1>0, <2>2, Kept
  <2>4. Full(i) => Newlines(Arrived(i)) \in Nat
    BY <1>0, <2>2, FullLines
  <2>5. /\ tries' = tries + 1 /\ seen' \in [from : Nat, to : Nat]
        /\ UNCHANGED <<log, asked, capped, older, began>>
    BY <1>0, <1>7, Seen DEF WholeDone, WholeAgain
  <2>6. tail' \in Nat
    <3>. HIDE DEF i
    <3>1. \/ tail' = NineTenths
          \/ Full(i) /\ tail' = Lesser(NineTenths, Newlines(Arrived(i)))
      BY <1>7 DEF WholeDone, WholeAgain, i
    <3>. QED
      BY <2>1, <2>4, <3>1 DEF Lesser
  <2>7. /\ text' \in Texts /\ text'.from <= text'.to + 1
        /\ pc' = "done" => ~text'.cut
        /\ pc' = "done" \/ (pc' = "whole" /\ tries + 1 < Tries)
    BY <1>0, <1>7, <2>1, <2>3 DEF WholeDone, WholeAgain, TypeOK, Texts
  <2>8. TypeOK'
    BY <1>0, <2>1, <2>5, <2>6, <2>7 DEF TypeOK, Texts, log, Newest
  <2>. QED
    BY <1>0, <2>1, <2>5, <2>6, <2>7, <2>8 DEF IInv, Reading, OlderMarked, WholeLines
<1>8. CASE Fail
  <2>1. TypeOK'
    BY <1>0, <1>8 DEF Fail, TypeOK, log, Newest
  <2>. QED
    BY <1>0, <1>8, <2>1 DEF Fail, IInv, Reading, OlderMarked, WholeLines
<1>9. CASE UNCHANGED vars
  <2>1. TypeOK'
    BY <1>0, <1>9 DEF vars, log, read, TypeOK, Newest
  <2>2. Unsplit' = Unsplit
    BY <1>9 DEF vars, log, Unsplit, Newest
  <2>. QED
    BY <1>0, <1>9, <2>1, <2>2 DEF vars, read, IInv, Reading, OlderMarked, WholeLines
<1>. QED
  BY <1>1, <1>2, <1>3, <1>4, <1>5, <1>6, <1>7, <1>8, <1>9 DEF Next

\* The inductive invariant of the reader, for any weights, cap, tails and number
\* of requests.
THEOREM Invariant == Spec => []IInv
BY InvInit, InvStep, PTL DEF Spec

\* The reader's state is well-formed, and it makes no more requests than it may.
THEOREM TypeCorrect == Spec => []TypeOK
<1>1. IInv => TypeOK
  BY DEF IInv
<1>. QED
  BY <1>1, Invariant, PTL

\* Lines the kubelet held and the reader left out are marked, however the log grows
\* and rotates between the requests (what _read_tail's second result and
\* _read_whole_log's `began` say); of a tail whose last request too was answered in
\* full, if splitlines() breaks none of the lines.
THEOREM Marked == Spec => []OlderMarked
<1>1. IInv => OlderMarked
  BY DEF IInv
<1>. QED
  BY <1>1, Invariant, PTL

\* No cut-off line is passed off as a whole one, a tail of one line aside.
THEOREM Whole == Spec => []WholeLines
<1>1. IInv => WholeLines
  BY DEF IInv
<1>. QED
  BY <1>1, Invariant, PTL

-----------------------------------------------------------------------------
(* The newest line.                                                        *)

LEMMA Product ==
    ASSUME NEW a \in Nat, NEW b \in Nat, NEW w \in Nat, a <= b
    PROVE  a * w <= b * w
<1>1. b * w = a * w + (b - a) * w /\ b - a \in Nat
  OBVIOUS
<1>2. (b - a) * w >= 0
  BY <1>1
<1>. QED
  BY <1>1, <1>2

\* Where all lines weigh the same, a line ends at a multiple of that.
LEMMA EvenEnds ==
    ASSUME Held, Uniform, Newest > 0
    PROVE  /\ Weight(1) = ends[1] /\ ends[1] \in Nat
           /\ \A i \in 1 .. Newest : ends[i] = i * ends[1] /\ Before(i) = (i - 1) * ends[1]
<1> DEFINE w == ends[1]
           S == {n \in Nat : n \in 1 .. Newest => ends[n] = n * w}
<1>0. Newest \in Nat /\ w \in Nat /\ Weight(1) = w /\ \A i \in 1 .. Newest : ends[i] \in Nat
  <2>1. Newest \in Nat /\ \A i \in 1 .. Newest : ends[i] \in Nat
    BY DEF Held, Newest
  <2>2. w \in Nat
    BY <2>1
  <2>. QED
    BY <2>1, <2>2 DEF Weight, Before
<1>1. 0 \in S
  OBVIOUS
<1>2. ASSUME NEW n \in Nat, n \in S PROVE n + 1 \in S
  <2>. SUFFICES ASSUME n + 1 \in 1 .. Newest PROVE ends[n + 1] = (n + 1) * w
    OBVIOUS
  <2>1. CASE n = 0
    BY <1>0, <2>1
  <2>2. CASE n # 0
    <3>1. n \in 1 .. Newest /\ n + 1 \in 2 .. Newest /\ (n + 1) - 1 = n
      BY <1>0, <2>2
    <3>2. ends[n + 1] - ends[n] = w
      <4>1. Weight(n + 1) = Weight(1)
        BY <3>1 DEF Uniform
      <4>. QED
        BY <1>0, <3>1, <4>1 DEF Weight, Before
    <3>3. ends[n] = n * w
      BY <1>2, <3>1
    <3>4. (n + 1) * w = n * w + w
      BY <1>0
    <3>. QED
      BY <1>0, <3>1, <3>2, <3>3, <3>4
  <2>. QED
    BY <2>1, <2>2
<1>3. Nat \subseteq S
  <2>. HIDE DEF S
  <2>. QED
    BY <1>1, <1>2, NaturalsClosed
<1>4. \A i \in 1 .. Newest : ends[i] = i * w
  <2>1. \A i \in 1 .. Newest : i \in S
    BY <1>0, <1>3
  <2>. QED
    BY <2>1
<1>5. \A i \in 1 .. Newest : Before(i) = (i - 1) * w
  <2>. SUFFICES ASSUME NEW i \in 1 .. Newest PROVE Before(i) = (i - 1) * w
    OBVIOUS
  <2>1. CASE i = 1
    BY <1>0, <2>1 DEF Before
  <2>2. CASE i # 1
    <3>1. i - 1 \in 1 .. Newest
      BY <1>0, <2>2
    <3>. QED
      BY <1>4, <2>2, <3>1 DEF Before
  <2>. QED
    BY <2>1, <2>2
<1>. QED
  BY <1>0, <1>4, <1>5

\* A tail of as many lines as weigh less than the cap doesn't fill it.
LEMMA FewFit ==
    ASSUME Held, Uniform, Newest > 0, NEW n \in Nat, n * ends[1] < Cap
    PROVE  ~Full(TailFrom(n))
<1> DEFINE i == TailFrom(n)
           w == ends[1]
<1>0. Newest \in Nat /\ Cap \in Nat \ {0} /\ w \in Nat
  BY EvenEnds, LogAssumption DEF Held, Newest
<1>1. i \in 1 .. Newest + 1 /\ Newest + 1 - n <= i
  <2>1. first \in 1 .. Newest + 1
    BY DEF Held
  <2>. QED
    BY <1>0, <2>1, Begins DEF TailFrom, Greater, Lesser
<1>. HIDE DEF i
<1>2. CASE i = Newest + 1
  BY <1>0, <1>2, Answer DEF i
<1>3. CASE i <= Newest
  <2>1. i \in 1 .. Newest /\ Newest \in 1 .. Newest
    BY <1>0, <1>1, <1>3
  <2>2. ends[Newest] = Newest * w /\ Before(i) = (i - 1) * w
    BY <2>1, EvenEnds
  <2>3. Bytes(i) = (Newest - (i - 1)) * w
    <3>1. Newest * w - (i - 1) * w = (Newest - (i - 1)) * w
      BY <1>0, <2>1
    <3>. QED
      BY <1>0, <1>1, <1>3, <2>2, <3>1 DEF Bytes
  <2>4. Newest - (i - 1) \in Nat /\ Newest - (i - 1) <= n
    BY <1>0, <1>1, <2>1
  <2>5. (Newest - (i - 1)) * w <= n * w
    BY <1>0, <2>4, Product
  <2>6. (Newest - (i - 1)) * w \in Int /\ n * w \in Int
    BY <1>0, <2>4
  <2>. HIDE DEF w
  <2>7. Bytes(i) < Cap /\ Bytes(i) \in Int
    BY <1>0, <2>3, <2>5, <2>6 DEF w
  <2>. QED
    BY <1>0, <2>7 DEF Full, i
<1>. QED
  BY <1>0, <1>1, <1>2, <1>3

\* All lines of a response but the last begin, and end, within the cap.
LEMMA LastBegins ==
    ASSUME Held, NEW i \in 1 .. Newest, Arrived(i).to # i
    PROVE  ends[Arrived(i).to - 1] < Before(i) + Cap
<1> DEFINE later == {k \in i .. Newest - 1 : ends[k] < Before(i) + Cap}
           to == i + Cardinality(later)
<1>0. Newest \in Nat /\ i <= Newest /\ Cap \in Nat
  BY LogAssumption DEF Held, Newest
<1>1. Arrived(i).to = to
  BY <1>0 DEF Arrived
<1>2. to \in i + 1 .. Newest
  <2>1. Arrived(i).to \in i .. Newest
    BY <1>0, Answer
  <2>. HIDE DEF to
  <2>. QED
    BY <1>0, <1>1, <2>1
<1>3. ASSUME to - 1 \notin later PROVE FALSE
  <2>0. Before(i) \in Nat /\ \A k \in 1 .. Newest : ends[k] \in Nat
    BY <1>0 DEF Held, Before, Newest
  <2>1. to - 1 \in i .. Newest - 1
    <3>. HIDE DEF to
    <3>. QED
      BY <1>0, <1>2
  <2>2. \A k \in later : k < to - 1
    <3>. SUFFICES ASSUME NEW k \in later, to - 1 <= k PROVE FALSE
      BY <1>0, <2>1
    <3>1. k \in 1 .. Newest /\ to - 1 \in 1 .. Newest
      BY <1>0, <2>1
    <3>2. ends[to - 1] <= ends[k]
      BY <3>1 DEF Held
    <3>3. ends[to - 1] < Before(i) + Cap
      BY <1>0, <2>0, <3>1, <3>2
    <3>. QED
      BY <1>3, <2>1, <3>3
  <2>3. later \subseteq i .. to - 2
    <3>1. to \in Int
      BY <1>2
    <3>. HIDE DEF to
    <3>. QED
      BY <1>0, <2>2, <3>1
  <2>4. /\ IsFiniteSet(i .. to - 2) /\ Cardinality(i .. to - 2) = (to - 1) - i
    <3>1. to \in Int /\ i <= to - 1
      BY <1>0, <1>2
    <3>2. to - 2 \in Int /\ i \in Int
      BY <3>1
    <3>. HIDE DEF to
    <3>. QED
      BY <3>1, <3>2, FS_Interval
  <2>5. Cardinality(later) <= (to - 1) - i /\ Cardinality(later) \in Nat
    <3>. HIDE DEF later, to
    <3>. QED
      BY <2>3, <2>4, FS_Subset, FS_CardinalityType
  <2>6. Cardinality(later) = to - i
    <3>. HIDE DEF later
    <3>. QED
      BY <2>5
  <2>. QED
    BY <1>2, <2>5, <2>6
<1>. HIDE DEF later
<1>4. to - 1 \in later
  BY <1>3
<1>. QED
  BY <1>1, <1>4 DEF later

\* So, of lines that weigh the same, one fewer than arrived would have fit.
LEMMA OneFewer ==
    ASSUME Held, Uniform, NEW i \in 1 .. Newest
    PROVE  /\ Count(Arrived(i)) \in Nat \ {0}
           /\ (Count(Arrived(i)) - 1) * ends[1] < Cap
<1> DEFINE to == Arrived(i).to
           w == ends[1]
<1>0. Newest \in Nat /\ Newest > 0 /\ i <= Newest /\ Cap \in Nat \ {0}
  BY LogAssumption DEF Held, Newest
<1>1. Arrived(i).from = i /\ to \in i .. Newest
  BY <1>0, Answer
<1>. HIDE DEF to
<1>2. Count(Arrived(i)) \in Nat \ {0} /\ Count(Arrived(i)) - 1 = to - i
  BY <1>0, <1>1 DEF Count, to
<1>3. w \in Nat
  BY <1>0, EvenEnds
<1>4. (to - i) * w < Cap
  <2>1. CASE to = i
    <3>1. to - i = 0 /\ 0 * w = 0
      BY <1>1, <1>3, <2>1
    <3>. QED
      BY <1>0, <3>1
  <2>2. CASE to # i
    <3>1. ends[to - 1] < Before(i) + Cap
      BY <2>2, LastBegins DEF to
    <3>2. to - 1 \in 1 .. Newest
      BY <1>0, <1>1, <2>2
    <3>3. ends[to - 1] = (to - 1) * w /\ Before(i) = (i - 1) * w
      BY <1>0, <3>2, EvenEnds
    <3>4. (to - 1) * w - (i - 1) * w = (to - i) * w
      BY <1>0, <1>1, <1>3
    <3>5. (to - 1) * w \in Int /\ (i - 1) * w \in Int
      BY <1>0, <1>1, <1>3
    <3>. HIDE DEF w
    <3>. QED
      BY <1>0, <3>1, <3>3, <3>4, <3>5
  <2>. QED
    BY <2>1, <2>2
<1>. QED
  BY <1>2, <1>4 DEF w

\* The last line of a response that did not fill the cap, or of one line.
LEMMA LastLine ==
    ASSUME Held, NEW i \in 1 .. Newest, ~Full(i) \/ i = Newest
    PROVE  /\ TailText(i).to = Newest
           /\ WholeText(i).to = Newest \/ Weight(Newest) > Cap
<1> DEFINE t == Arrived(i)
<1>0. Newest \in Nat /\ i <= Newest /\ i \in 1 .. Newest + 1
  BY DEF Held, Newest
<1>1. t \in Texts /\ t.from = i /\ t.to \in i .. Newest /\ (~Full(i) => t.to = Newest)
  BY <1>0, Answer
<1>2. CASE ~Full(i)
  BY <1>1, <1>2 DEF TailText, WholeText
<1>3. CASE Full(i) /\ i = Newest
  <2>1. t.to = Newest /\ Count(t) = 1
    BY <1>0, <1>1, <1>3 DEF Count
  <2>2. TailText(i) = DropCutOfSeveral(t) /\ WholeText(i) = DropCut(t)
    BY <1>3 DEF TailText, WholeText
  <2>3. ~t.cut => DropCut(t) = t
    BY DEF DropCut
  <2>4. t.cut => DropCutOfSeveral(t) = t
    BY <2>1 DEF DropCutOfSeveral, Newlines
  <2>5. t.cut => Weight(Newest) > Cap
    <3> DEFINE to == i + Cardinality({k \in i .. Newest - 1 : ends[k] < Before(i) + Cap})
    <3>a. t = [from |-> i, to |-> to, cut |-> ends[to] > Before(i) + Cap]
      BY <1>0 DEF Arrived
    <3>. HIDE DEF to, t
    <3>b. t.to = to /\ t.cut = (ends[to] > Before(i) + Cap)
      BY <3>a
    <3>1. t.cut => ends[Newest] > Before(Newest) + Cap
      BY <1>3, <2>1, <3>b
    <3>2. ends[Newest] \in Nat /\ Before(Newest) \in Nat /\ Cap \in Nat
      BY <1>0, <1>3, LogAssumption DEF Held, Before, Newest
    <3>. QED
      BY <3>1, <3>2 DEF Weight
  <2>. HIDE DEF t
  <2>6. DropCutOfSeveral(t) = t
    BY <2>3, <2>4 DEF DropCutOfSeveral
  <2>. QED
    BY <2>1, <2>2, <2>3, <2>5, <2>6
<1>. QED
  BY <1>2, <1>3

LEMMA BeginsHeld ==
    ASSUME Held, first <= Newest, NEW n \in Nat \ {0}
    PROVE  TailFrom(n) \in 1 .. Newest /\ (n = 1 => TailFrom(n) = Newest)
<1>. Newest \in Nat /\ first \in 1 .. Newest + 1
  BY DEF Held, Newest
<1>. QED
  BY DEF TailFrom, Greater, Lesser

\* After a first response that filled the cap, the next request is for lines that, if
\* they weigh the same (and a tail's are not broken), weigh less than the cap.
Shortened ==
    /\ pc = "tail" /\ tries > 0 =>
           Newest > 0 /\ (Uniform /\ Unsplit => tail = 1 \/ tail * ends[1] < Cap)
    /\ pc = "whole" => Newest > 0 /\ (Uniform => NineTenths = 1 \/ NineTenths * ends[1] < Cap)

\* Lines weighed the same before the last was written.
LEMMA UniformBefore ==
    ASSUME Held, Write
    PROVE  /\ Newest' > 0
           /\ Newest > 0 => ends'[1] = ends[1]
           /\ Newest > 0 /\ Uniform' => Uniform
           /\ Unsplit' => Unsplit
<1>2. /\ Newest \in Nat /\ Newest' = Newest + 1
      /\ \A i \in 1 .. Newest : ends'[i] = ends[i] /\ splits'[i] = splits[i]
  BY Written
<1>5. Unsplit' => Unsplit
  BY <1>2 DEF Unsplit
<1>3. Newest > 0 => 1 \in 1 .. Newest
  BY <1>2
<1>4. ASSUME Newest > 0, Uniform' PROVE Uniform
  <2>1. \A i \in 1 .. Newest : Weight(i)' = Weight(i)
    <3>. SUFFICES ASSUME NEW i \in 1 .. Newest PROVE ends'[i] - Before(i)' = ends[i] - Before(i)
      BY DEF Weight
    <3>1. i # 1 => i - 1 \in 1 .. Newest
      BY <1>2
    <3>2. Before(i)' = Before(i)
      BY <1>2, <3>1 DEF Before
    <3>. QED
      BY <1>2, <3>2
  <2>2. \A i \in 2 .. Newest : i \in 1 .. Newest /\ i \in 2 .. Newest'
    BY <1>2
  <2>3. \A i \in 2 .. Newest' : Weight(i)' = Weight(1)'
    BY <1>4 DEF Uniform
  <2>. QED
    BY <1>3, <1>4, <2>1, <2>2, <2>3 DEF Uniform
<1>. QED
  BY <1>2, <1>3, <1>4, <1>5

LEMMA UniformSame ==
    ASSUME UNCHANGED <<ends, splits>>
    PROVE  /\ Newest' = Newest /\ Uniform' = Uniform /\ Unsplit' = Unsplit
           /\ \A i : Weight(i)' = Weight(i)
BY DEF Newest, Uniform, Unsplit, Weight, Before

\* The number of lines next asked for, when a response filled the cap.
LEMMA FewerLines ==
    ASSUME Held, Uniform, Newest > 0, NEW i \in 1 .. Newest, NEW n \in Nat \ {0},
           n <= Greater(1, Count(Arrived(i)) - 1)
    PROVE  n = 1 \/ n * ends[1] < Cap
<1>1. /\ Count(Arrived(i)) \in Nat \ {0}
      /\ (Count(Arrived(i)) - 1) * ends[1] < Cap
  BY OneFewer
<1>2. ends[1] \in Nat /\ Cap \in Nat
  BY EvenEnds, LogAssumption
<1>3. CASE n # 1
  <2> DEFINE m == Count(Arrived(i)) - 1
  <2>1. m \in Nat /\ n <= m
    BY <1>1, <1>3 DEF Greater
  <2>. HIDE DEF m
  <2>2. n * ends[1] <= m * ends[1]
    BY <1>2, <2>1, Product
  <2>3. n * ends[1] \in Int /\ m * ends[1] \in Int
    BY <1>2, <2>1
  <2>. QED
    BY <1>1, <1>2, <2>2, <2>3 DEF m
<1>. QED
  BY <1>3

NewestInv == IInv /\ Shortened /\ NewestKept

LEMMA NewestStep == NewestInv /\ [Next]_vars => NewestInv'
<1> SUFFICES ASSUME IInv, Shortened, NewestKept, [Next]_vars PROVE NewestInv'
  BY DEF NewestInv
<1>0. /\ IInv' /\ Held /\ Held' /\ Newest \in Nat /\ Tries \in Nat \ {0, 1} /\ tries \in Nat
      /\ first \in 1 .. Newest + 1 /\ Cap \in Nat
  BY InvStep, HeldStep, LogAssumption DEF IInv, TypeOK, Held, Newest
<1>. SUFFICES Shortened' /\ NewestKept'
  BY <1>0 DEF NewestInv
\* What a last request for the newest n lines returns.
<1>a. ASSUME NEW n \in Nat \ {0}, Look, UNCHANGED log, seen'.from <= seen'.to,
             ~Full(TailFrom(n)) \/ n = 1
      PROVE  /\ TailText(TailFrom(n)).to = seen'.to
             /\ WholeText(TailFrom(n)).to = seen'.to \/ Weight(seen.to)' > Cap
  <2>1. seen'.to = Newest /\ first <= Newest
    BY <1>a DEF Look
  <2>2. TailFrom(n) \in 1 .. Newest /\ (n = 1 => TailFrom(n) = Newest)
    BY <1>0, <2>1, BeginsHeld
  <2>3. Weight(seen.to)' = Weight(Newest)
    BY <1>a, <2>1 DEF log, Weight, Before
  <2>. QED
    BY <1>0, <1>a, <2>1, <2>2, <2>3, LastLine
<1>1. CASE Write
  <2>1. UNCHANGED <<pc, tail, tries>> /\ pc' # "done"
    BY <1>1 DEF Write, read, Over
  <2>2. Newest' > 0 /\ (Newest > 0 => ends'[1] = ends[1] /\ (Uniform' => Uniform))
        /\ (Unsplit' => Unsplit)
    BY <1>0, <1>1, UniformBefore
  <2>3. NineTenths' = NineTenths
    BY <2>1 DEF NineTenths
  <2>. QED
    BY <2>1, <2>2, <2>3 DEF Shortened, NewestKept
<1>2. CASE Rotate
  <2>1. UNCHANGED <<ends, splits, pc, tail, tries>> /\ pc' # "done"
    BY <1>2 DEF Rotate, read, Over
  <2>2. NineTenths' = NineTenths /\ Newest' = Newest /\ Uniform' = Uniform /\ Unsplit' = Unsplit
    BY <2>1, UniformSame DEF NineTenths
  <2>. QED
    BY <2>1, <2>2 DEF Shortened, NewestKept
<1>3. CASE ReadTail
  <2>1. pc' = "tail" /\ tries' = 0
    BY <1>3 DEF ReadTail, IInv, Reading
  <2>. QED
    BY <2>1 DEF Shortened, NewestKept
<1>4. CASE TailFits
  <2>1. /\ pc' = "done" /\ asked' = asked /\ asked \in Asks /\ tail \in Nat /\ (asked > 0 => tail > 0)
        /\ Look /\ UNCHANGED log /\ text' = TailText(TailFrom(tail))
        /\ ~Full(TailFrom(tail)) \/ tail <= 1
    BY <1>4 DEF TailFits, TailDone, IInv, Reading
  <2>2. ASSUME asked # 0, seen'.from <= seen'.to PROVE text'.to = seen'.to
    <3>1. tail \in Nat \ {0} /\ (tail <= 1 => tail = 1)
      BY <2>1, <2>2, LogAssumption
    <3>. QED
      BY <1>a, <2>1, <2>2, <3>1
  <2>. QED
    BY <2>1, <2>2 DEF Shortened, NewestKept
<1>5. CASE TailAgain \/ TailSpent
  <2> DEFINE i == TailFrom(tail)
  <2>1. /\ pc = "tail" /\ asked' = asked /\ tail \in Nat /\ tail > 1 /\ Full(i)
        /\ UNCHANGED log
    BY <1>5 DEF TailAgain, TailSpent, IInv, Reading
  <2>s. PICK k \in CutPieces(Response) : tail' = Shorter(k)
    BY <1>5 DEF TailAgain, TailSpent
  <2>2. i \in 1 .. Newest
    <3>1. i \in 1 .. Newest + 1
      BY <1>0, <2>1, Begins
    <3>. HIDE DEF i
    <3>. QED
      BY <1>0, <2>1, <3>1, FullLines
  <2>3. Newest > 0
    BY <1>0, <2>2
  <2>4. Newest' = Newest /\ Uniform' = Uniform /\ Unsplit' = Unsplit /\ ends' = ends /\ asked' # None
    BY <2>1, UniformSame, LogAssumption DEF log, IInv, Reading
  <2>. HIDE DEF i
  <2>5. CASE TailAgain
    <3>1. pc' = "tail"
      BY <2>1, <2>5 DEF TailAgain
    <3>2. ASSUME Uniform, Unsplit PROVE tail' = 1 \/ tail' * ends[1] < Cap
      <4>1. Shorter(k) \in Nat \ {0} /\ Shorter(k) <= Greater(1, Count(Response) - 1)
        BY <1>0, <2>1, <3>2, ShorterAsk DEF i
      <4>. QED
        BY <1>0, <2>2, <2>3, <2>s, <3>2, <4>1, FewerLines DEF Response, i
    <3>. QED
      BY <2>3, <2>4, <3>1, <3>2 DEF Shortened, NewestKept
  <2>6. CASE TailSpent
    <3>1. pc' = "done" /\ tries' = tries + 1 /\ tries + 1 = Tries
      BY <2>6 DEF TailSpent, TailDone
    <3>2. tries > 0 /\ ~(tries' < Tries)
      BY <1>0, <3>1
    <3>3. ASSUME Uniform, Unsplit PROVE FALSE
      <4>1. tail * ends[1] < Cap
        BY <2>1, <3>2, <3>3 DEF Shortened
      <4>. QED
        BY <1>0, <2>1, <2>3, <3>3, <4>1, FewFit DEF i
    <3>. QED
      BY <2>4, <3>1, <3>2, <3>3 DEF Shortened, NewestKept
  <2>. QED
    BY <1>5, <2>5, <2>6
<1>6. CASE ReadWhole
  <2>1. /\ asked' = asked /\ tries' = tries /\ Look /\ UNCHANGED log
        /\ first \in 1 .. Newest + 1
    BY <1>0, <1>6 DEF ReadWhole
  <2>2. Newest' = Newest /\ Uniform' = Uniform /\ ends' = ends
    BY <2>1, UniformSame DEF log
  <2>3. CASE ~Full(first)
    <3>1. pc' = "done" /\ text' = Arrived(first)
      BY <1>6, <2>3 DEF ReadWhole
    <3>2. ASSUME seen'.from <= seen'.to PROVE text'.to = seen'.to
      <4>1. seen'.to = Newest /\ first <= Newest
        BY <2>1, <3>2 DEF Look
      <4>. QED
        BY <1>0, <2>1, <2>3, <3>1, <4>1, Answer
    <3>. QED
      BY <3>1, <3>2 DEF Shortened, NewestKept
  <2>4. CASE Full(first)
    <3>1. pc' = "whole" /\ tail' = Newlines(Arrived(first))
      BY <1>6, <2>4 DEF ReadWhole
    <3>2. first <= Newest /\ first \in 1 .. Newest /\ Newest > 0
      BY <1>0, <2>1, <2>4, FullLines
    <3>3. ASSUME Uniform PROVE NineTenths' = 1 \/ NineTenths' * ends[1] < Cap
      <4> DEFINE c == Count(Arrived(first))
                 m == (tail' * 9) \div 10
      <4>1. c \in Nat \ {0}
        BY <1>0, <3>2, <3>3, OneFewer
      <4>2. tail' = c \/ tail' = c - 1
        BY <3>1 DEF Newlines
      <4>. HIDE DEF c
      <4>3. m \in Nat /\ m <= c - 1
        BY <4>1, <4>2
      <4>4. NineTenths' = Greater(1, m)
        BY DEF NineTenths
      <4>. HIDE DEF m
      <4>5. NineTenths' \in Nat \ {0} /\ NineTenths' <= Greater(1, c - 1)
        BY <4>1, <4>3, <4>4 DEF Greater
      <4>. QED
        BY <1>0, <3>2, <3>3, <4>5, FewerLines DEF c
    <3>. QED
      BY <2>2, <3>1, <3>2, <3>3 DEF Shortened, NewestKept
  <2>. QED
    BY <2>3, <2>4
<1>7. CASE WholeDone \/ WholeAgain
  <2> DEFINE n == NineTenths
             i == TailFrom(n)
  <2>1. /\ pc = "whole" /\ asked = None /\ asked' = None /\ Look /\ UNCHANGED log /\ Newest > 0
        /\ tries' = tries + 1
    BY <1>7 DEF WholeDone, WholeAgain, IInv, Reading, Shortened
  <2>2. n \in Nat \ {0}
    <3>1. tail \in Nat
      BY <2>1 DEF IInv, Reading
    <3>2. (tail * 9) \div 10 \in Nat
      BY <3>1
    <3>. QED
      BY <3>2 DEF NineTenths, Greater
  <2>3. Uniform => ~Full(i) \/ n = 1
    BY <1>0, <2>1, <2>2, FewFit DEF Shortened
  <2>4. Newest' = Newest /\ Uniform' = Uniform /\ ends' = ends
    BY <2>1, UniformSame DEF log
  <2>. HIDE DEF i
  <2>5. CASE WholeDone
    <3>1. pc' = "done" /\ text' = WholeText(i) /\ (~Full(i) \/ n = 1 \/ tries + 1 = Tries)
      BY <2>5 DEF WholeDone, i
    <3>2. ASSUME seen'.from <= seen'.to, tries' < Tries \/ Uniform
          PROVE  text'.to = seen'.to \/ Weight(seen.to)' > Cap
      <4>1. ~Full(i) \/ n = 1
        BY <1>0, <2>1, <2>3, <3>1, <3>2
      <4>. HIDE DEF n
      <4>. QED
        BY <1>a, <2>1, <2>2, <3>1, <3>2, <4>1 DEF i
    <3>. QED
      BY <2>1, <2>4, <3>1, <3>2 DEF Shortened, NewestKept
  <2>6. CASE WholeAgain
    <3>1. pc' = "whole" /\ Full(i) /\ n # 1
      BY <2>1, <2>6 DEF WholeAgain, i
    <3>. QED
      BY <2>1, <2>3, <2>4, <3>1 DEF Shortened, NewestKept
  <2>. QED
    BY <1>7, <2>5, <2>6
<1>8. CASE Fail
  BY <1>8 DEF Fail, Shortened, NewestKept
<1>9. CASE UNCHANGED vars
  <2>1. UNCHANGED <<ends, splits, pc, tail, tries, asked, seen, text>>
    BY <1>9 DEF vars, log, read
  <2>2. /\ NineTenths' = NineTenths /\ Newest' = Newest /\ Uniform' = Uniform /\ Unsplit' = Unsplit
        /\ Weight(seen.to)' = Weight(seen.to)
    BY <2>1, UniformSame DEF NineTenths
  <2>. QED
    BY <2>1, <2>2 DEF Shortened, NewestKept
<1>. QED
  BY <1>1, <1>2, <1>3, <1>4, <1>5, <1>6, <1>7, <1>8, <1>9 DEF Next

\* The newest line the last request could see is returned, unless every request the
\* reader may make was answered with a full response.  Where all lines weigh the same,
\* the second request of a whole log never is, nor that of a tail whose lines
\* splitlines() doesn't break: two are enough (why _read_tail and _read_whole_log ask
\* again, and for how many lines).
THEOREM Newests == Spec => []NewestKept
<1>1. Init => Shortened /\ NewestKept
  BY DEF Init, Shortened, NewestKept
<1>2. Init => NewestInv
  BY <1>1, InvInit DEF NewestInv
<1>3. NewestInv => NewestKept
  BY DEF NewestInv
<1>. QED
  BY <1>2, <1>3, NewestStep, PTL DEF Spec
=============================================================================
