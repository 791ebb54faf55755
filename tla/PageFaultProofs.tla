--------------------------- MODULE PageFaultProofs ---------------------------
(***************************************************************************)
(* Proofs about demand paging, for every set of pages, every working set   *)
(* size and every width of the time stamp.                                 *)
(*                                                                         *)
(* The invariant IInv has three parts: the types; that the list of the     *)
(* working set has the present pages, each once; and, for each page, how   *)
(* its copies in memory and in the page file agree with what the program   *)
(* wrote.  The last part is what NothingLost needs to be inductive: a      *)
(* victim whose modified bit is clear is not written back, so its copy in  *)
(* the file has to be the right one already.                               *)
(***************************************************************************)
EXTENDS PageFault, QueueLemmas

(* A set of small numbers has a least one.                                 *)
LEMMA Least ==
  ASSUME NEW n \in Nat, NEW T \in SUBSET (0..n), T # {}
  PROVE  \E x \in T : \A y \in T : x <= y
<1> DEFINE P == {y \in 1..(n + 1) : y - 1 \in T}
<1> DEFINE i == Nth(P, 1)
<1>1. n + 1 \in Nat /\ P \in SUBSET (1..(n + 1))
  OBVIOUS
<1>2. ASSUME NEW y \in T PROVE y + 1 \in P
  <2>1. y \in 0..n
    OBVIOUS
  <2>2. y + 1 \in 1..(n + 1) /\ (y + 1) - 1 = y
    BY <2>1
  <2> QED BY <2>2
<1>3. \A y \in P : y - 1 \in T /\ y \in Nat
  OBVIOUS
<1> HIDE DEF P
<1>4. P # {}
  BY <1>2
<1>5. \A y \in P : Cardinality(P) \in Nat /\ Rank(P, y) \in 1..Cardinality(P)
  BY <1>1, RankType
<1>6. 1 \in 1..Cardinality(P)
  BY <1>4, <1>5
<1>7. i \in P /\ Rank(P, i) = 1
  BY <1>1, <1>6, NthType
<1>8. ASSUME NEW y \in P, y < i PROVE FALSE
  <2>1. Rank(P, y) < Rank(P, i)
    BY <1>1, <1>7, <1>8, RankGrows
  <2> QED BY <1>5, <1>7, <2>1
<1> HIDE DEF i
<1>9. \A y \in P : i <= y
  BY <1>3, <1>7, <1>8
<1>10. \A y \in T : i - 1 <= y
  BY <1>2, <1>3, <1>7, <1>9
<1> QED BY <1>3, <1>7, <1>10

\* The elements of the list, and the entries of the page table.
Elements == [va : Pages, ts : 0..(2 * Msb - 1)]
Entry == [present : BOOLEAN, used : BOOLEAN, modified : BOOLEAN, uhpage : BOOLEAN]

\* The types of the variables.
TypeInv ==
  /\ algo \in Algorithms
  /\ ws \in Seq(Elements)
  /\ hand \in 0..Len(ws)
  /\ pte \in [Pages -> Entry]
  /\ ram \in [Pages -> Values \cup {NoPage}]
  /\ pf \in [Pages -> Values \cup {NoPage}]
  /\ val \in [Pages -> Values]
  /\ status \in {"running", "exit", "unhandled"}

\* The list of the working set has the pages that are present, each once.
VasOf(s) == {s[i].va : i \in DOMAIN s}
Once(s) == \A i, j \in DOMAIN s : s[i].va = s[j].va => i = j

ListInv ==
  /\ Once(ws)
  /\ \A v \in Pages : pte[v].present <=> v \in VasOf(ws)
  /\ Len(ws) <= WSMax[algo]

\* A page v with the entry e, of which the memory holds r, the page file f,
\* and the program has written x: what the program has written is found; a
\* copy that is clean is in the file as it is in memory; a page of no part of
\* the program, and one of the heap that is not marked, has no copy.
PageOK(v, e, r, f, x) ==
  /\ v \notin Stray => x = IF e.present THEN r ELSE IF f = NoPage THEN Zero ELSE f
  /\ e.present /\ ~e.modified => f = r
  /\ v \in Stray => ~e.present /\ f = NoPage
  /\ v \in Heap /\ ~e.uhpage => ~e.present /\ f = NoPage

CopiesInv == \A v \in Pages : PageOK(v, pte[v], ram[v], pf[v], val[v])

IInv == TypeInv /\ (Running => ListInv /\ CopiesInv)

----------------------------------------------------------------------------
(* The ring and the victim.                                                *)

(* A position is one of the list, and each position of the list is reached *)
(* in one round from the hand.                                             *)
LEMMA AtType ==
  ASSUME TypeInv, Len(ws) > 0
  PROVE  /\ \A k \in 0..Len(ws) : At(k) \in 1..Len(ws)
         /\ \A i \in 1..Len(ws) : \E k \in 0..(Len(ws) - 1) : At(k) = i
<1>1. Len(ws) \in Nat /\ hand \in 0..Len(ws)
  BY DEF TypeInv
<1>2. Start \in 1..Len(ws)
  BY <1>1 DEF Start
<1>3. \A k \in 0..Len(ws) : At(k) \in 1..Len(ws)
  BY <1>1, <1>2 DEF At
<1>4. ASSUME NEW i \in 1..Len(ws) PROVE \E k \in 0..(Len(ws) - 1) : At(k) = i
  <2>1. CASE i >= Start
    <3>1. i - Start \in 0..(Len(ws) - 1) /\ At(i - Start) = i
      BY <1>1, <1>2, <2>1 DEF At
    <3> QED BY <3>1
  <2>2. CASE ~(i >= Start)
    <3> DEFINE k == i + Len(ws) - Start
    <3>1. k \in 0..(Len(ws) - 1) /\ At(k) = i
      BY <1>1, <1>2, <2>2 DEF At
    <3> QED BY <3>1
  <2> QED BY <2>1, <2>2
<1> QED BY <1>3, <1>4

(* Where the hand stops: it has passed elements of S only, and it stops at *)
(* one that is not in S unless it has been all around.                     *)
LEMMA PassedStops ==
  ASSUME TypeInv, NEW S
  PROVE  LET k == Passed(S)
         IN  /\ k \in 0..Len(ws)
             /\ \A j \in 0..(k - 1) : At(j) \in S
             /\ k < Len(ws) => At(k) \notin S
<1> DEFINE T == {k \in 0..Len(ws) : k < Len(ws) => At(k) \notin S}
<1>1. Len(ws) \in Nat
  BY DEF TypeInv
<1>2. T \in SUBSET (0..Len(ws)) /\ Len(ws) \in T
  BY <1>1
<1>3. PICK k \in T : \A y \in T : k <= y
  <2> HIDE DEF T
  <2> QED BY <1>1, <1>2, Least
<1>4. ASSUME NEW j \in 0..(k - 1) PROVE At(j) \in S
  <2>1. k \in 0..Len(ws)
    BY <1>2
  <2>2. j \in 0..Len(ws) /\ j < Len(ws) /\ ~(k <= j)
    BY <1>1, <2>1
  <2> QED BY <1>3, <2>2
<1>5. \E x \in 0..Len(ws) : /\ \A j \in 0..(x - 1) : At(j) \in S
                            /\ x < Len(ws) => At(x) \notin S
  BY <1>3, <1>4
<1> QED BY <1>5 DEF Passed

(* CLOCK: the victim is in the list, and it is a used one only if all are. *)
LEMMA ClockVictim ==
  ASSUME TypeInv, Len(ws) > 0
  PROVE  /\ CLOCK.victim \in 1..Len(ws)
         /\ Used(CLOCK.victim) => \A i \in 1..Len(ws) : Used(i)
<1> DEFINE k == Passed(UsedPos)
<1>1. /\ Len(ws) \in Nat /\ DOMAIN ws = 1..Len(ws)
      /\ k \in 0..Len(ws)
      /\ \A j \in 0..(k - 1) : At(j) \in UsedPos
      /\ k < Len(ws) => At(k) \notin UsedPos
  BY PassedStops DEF TypeInv
<1>2. CLOCK.victim = At(k)
  BY DEF CLOCK, Choice
<1>3. At(k) \in 1..Len(ws)
  BY <1>1, AtType
<1>4. CASE k < Len(ws)
  BY <1>1, <1>2, <1>3, <1>4 DEF UsedPos
<1>5. CASE k = Len(ws)
  <2>1. \A j \in 0..(Len(ws) - 1) : Used(At(j))
    BY <1>1, <1>5 DEF UsedPos
  <2>2. \A i \in 1..Len(ws) : Used(i)
    BY <2>1, AtType
  <2> QED BY <1>2, <1>3, <2>2
<1> QED BY <1>1, <1>4, <1>5

(* Modified CLOCK: the same.                                               *)
LEMMA ModifiedClockVictim ==
  ASSUME TypeInv, Len(ws) > 0
  PROVE  /\ MODIFIEDCLOCK.victim \in 1..Len(ws)
         /\ Used(MODIFIEDCLOCK.victim) => \A i \in 1..Len(ws) : Used(i)
<1> DEFINE clean == Passed(UsedPos \cup ModifiedPos)
           unused == Passed(UsedPos)
           again == Passed(ModifiedPos)
<1>1. /\ Len(ws) \in Nat /\ DOMAIN ws = 1..Len(ws)
      /\ clean \in 0..Len(ws) /\ unused \in 0..Len(ws) /\ again \in 0..Len(ws)
  BY PassedStops DEF TypeInv
<1>2. At(clean) \in 1..Len(ws) /\ At(unused) \in 1..Len(ws) /\ At(again) \in 1..Len(ws)
  BY <1>1, AtType
<1>3. CASE clean < Len(ws)
  <2>1. MODIFIEDCLOCK.victim = At(clean)
    BY <1>3 DEF MODIFIEDCLOCK, Choice
  <2>2. At(clean) \notin UsedPos \cup ModifiedPos
    BY <1>3, PassedStops
  <2> QED BY <1>1, <1>2, <2>1, <2>2 DEF UsedPos
<1>4. CASE ~(clean < Len(ws)) /\ unused < Len(ws)
  <2>1. MODIFIEDCLOCK.victim = At(unused)
    BY <1>4 DEF MODIFIEDCLOCK, Choice
  <2>2. At(unused) \notin UsedPos
    BY <1>4, PassedStops
  <2> QED BY <1>1, <1>2, <2>1, <2>2 DEF UsedPos
<1>5. CASE ~(clean < Len(ws)) /\ ~(unused < Len(ws))
  <2>1. MODIFIEDCLOCK.victim = At(again)
    BY <1>5 DEF MODIFIEDCLOCK, Choice
  <2>2. \A j \in 0..(unused - 1) : At(j) \in UsedPos
    BY PassedStops
  <2>3. \A j \in 0..(Len(ws) - 1) : Used(At(j))
    BY <1>1, <1>5, <2>2 DEF UsedPos
  <2>4. \A i \in 1..Len(ws) : Used(i)
    BY <2>3, AtType
  <2> QED BY <1>2, <2>1, <2>4
<1> QED BY <1>3, <1>4, <1>5

(* An aged element keeps its page; its time stamp keeps its width, and has *)
(* the most significant bit exactly if the page was used.                  *)
LEMMA AgedType ==
  ASSUME TypeInv, NEW i \in 1..Len(ws)
  PROVE  /\ Aged(i) \in Elements
         /\ Aged(i).va = ws[i].va
         /\ Used(i) <=> Aged(i).ts >= Msb
<1>1. ws[i] \in Elements
  BY ElementOfSeq DEF TypeInv, Elements
<1>2. Msb \in Nat /\ Msb # 0
  BY PageFaultAssumption
<1>3. Aged(i) = [va |-> ws[i].va,
                 ts |-> (ws[i].ts \div 2) + (IF Used(i) THEN Msb ELSE 0)]
  BY <1>1 DEF Aged, Elements
<1>4. ws[i].ts \div 2 \in 0..(Msb - 1)
  BY <1>1, <1>2 DEF Elements
<1>5. CASE Used(i)
  BY <1>1, <1>2, <1>3, <1>4, <1>5 DEF Elements
<1>6. CASE ~Used(i)
  BY <1>1, <1>2, <1>3, <1>4, <1>6 DEF Elements
<1> QED BY <1>5, <1>6

(* LRU: the same.                                                          *)
LEMMA LruVictim ==
  ASSUME TypeInv, Len(ws) > 0
  PROVE  /\ LRU.victim \in 1..Len(ws)
         /\ Used(LRU.victim) => \A i \in 1..Len(ws) : Used(i)
<1> DEFINE ts(i) == Aged(i).ts
           least == {i \in DOMAIN ws : /\ ts(i) < 2 * Msb - 1
                                       /\ \A j \in DOMAIN ws : ts(i) <= ts(j)}
           i0 == IF least = {} THEN 1
                 ELSE CHOOSE i \in least : \A j \in least : i <= j
<1>1. Len(ws) \in Nat /\ DOMAIN ws = 1..Len(ws) /\ Msb \in Nat /\ Msb # 0
  BY PageFaultAssumption DEF TypeInv
<1>2. \A i \in 1..Len(ws) : ts(i) \in 0..(2 * Msb - 1) /\ (Used(i) <=> ts(i) >= Msb)
  BY AgedType DEF Elements
<1>3. LRU.victim = i0
  BY DEF LRU
<1> HIDE DEF ts
<1>4. PICK m \in 1..Len(ws) : \A j \in 1..Len(ws) : ts(m) <= ts(j)
  <2> DEFINE T == {x \in 0..(2 * Msb - 1) : \E i \in 1..Len(ws) : ts(i) = x}
  <2>1. ts(1) \in T
    BY <1>1, <1>2
  <2>2. 2 * Msb - 1 \in Nat /\ T \in SUBSET (0..(2 * Msb - 1))
    BY <1>1
  <2>3. \A j \in 1..Len(ws) : ts(j) \in T
    BY <1>2
  <2>4. \A x \in T : \E i \in 1..Len(ws) : ts(i) = x
    OBVIOUS
  <2> HIDE DEF T
  <2>5. PICK x \in T : \A y \in T : x <= y
    BY <2>1, <2>2, Least
  <2> QED BY <2>3, <2>4, <2>5
<1>5. CASE least = {}
  <2>1. i0 = 1 /\ 1 \in 1..Len(ws)
    BY <1>1, <1>5
  <2>2. ts(m) = 2 * Msb - 1
    BY <1>1, <1>2, <1>4, <1>5
  <2>3. \A i \in 1..Len(ws) : ts(i) >= Msb
    BY <1>1, <1>2, <1>4, <2>2
  <2> QED BY <1>2, <1>3, <2>1, <2>3
<1>6. CASE least # {}
  <2>1. least \in SUBSET (0..Len(ws))
    BY <1>1
  <2>2. \E i \in least : \A j \in least : i <= j
    <3> HIDE DEF least
    <3> QED BY <1>1, <1>6, <2>1, Least
  <2>3. i0 \in least
    <3> HIDE DEF least
    <3> QED BY <1>6, <2>2
  <2>4. i0 \in 1..Len(ws) /\ \A j \in 1..Len(ws) : ts(i0) <= ts(j)
    <3> HIDE DEF i0
    <3> QED BY <1>1, <2>3
  <2> HIDE DEF i0
  <2>5. ASSUME Used(i0), NEW i \in 1..Len(ws) PROVE Used(i)
    BY <1>1, <1>2, <2>4, <2>5
  <2> QED BY <1>3, <2>4, <2>5
<1> QED BY <1>5, <1>6

(* Whatever the algorithm, a full list has a victim, and a page that has   *)
(* been used is the victim only if every page of the list has been.        *)
LEMMA VictimType ==
  ASSUME TypeInv, Full
  PROVE  /\ Victim.victim \in 1..Len(ws)
         /\ Used(Victim.victim) => \A i \in 1..Len(ws) : Used(i)
<1>1. algo \in {"CLOCK", "LRU", "MODIFIEDCLOCK"} /\ WSMax[algo] \in Nat \ {0}
  BY PageFaultAssumption DEF TypeInv
<1>2. Len(ws) > 0
  BY <1>1 DEF Full, TypeInv
<1>3. CASE algo = "CLOCK"
  BY <1>2, <1>3, ClockVictim DEF Victim
<1>4. CASE algo = "LRU"
  BY <1>2, <1>4, LruVictim DEF Victim
<1>5. CASE algo = "MODIFIEDCLOCK"
  BY <1>2, <1>5, ModifiedClockVictim DEF Victim
<1> QED BY <1>1, <1>3, <1>4, <1>5

----------------------------------------------------------------------------
(* Lists of elements, each with a page of its own.                         *)

(* A page joins at the end.                                                *)
LEMMA AppendList ==
  ASSUME NEW s \in Seq(Elements), NEW x \in Elements
  PROVE  /\ Append(s, x) \in Seq(Elements)
         /\ Len(Append(s, x)) = Len(s) + 1
         /\ VasOf(Append(s, x)) = VasOf(s) \cup {x.va}
         /\ Once(s) /\ x.va \notin VasOf(s) => Once(Append(s, x))
<1> DEFINE t == Append(s, x)
<1>1. /\ t \in Seq(Elements) /\ Len(t) = Len(s) + 1 /\ Len(s) \in Nat
      /\ DOMAIN s = 1..Len(s) /\ DOMAIN t = 1..(Len(s) + 1)
  BY AppendProperties, LenProperties
<1>2. (\A i \in 1..Len(s) : t[i] = s[i]) /\ t[Len(s) + 1] = x
  BY AppendProperties
<1>3. \A i \in 1..(Len(s) + 1) : i \in 1..Len(s) \/ i = Len(s) + 1
  BY <1>1
<1>4. \A i \in 1..Len(s) : i \in 1..(Len(s) + 1)
  BY <1>1
<1>5. Len(s) + 1 \in 1..(Len(s) + 1)
  BY <1>1
<1> HIDE DEF t
<1>6. VasOf(t) = VasOf(s) \cup {x.va}
  BY <1>1, <1>2, <1>3, <1>4, <1>5 DEF VasOf
<1>7. ASSUME Once(s), x.va \notin VasOf(s) PROVE Once(t)
  BY <1>1, <1>2, <1>3, <1>4, <1>5, <1>7 DEF VasOf, Once
<1> QED BY <1>1, <1>6, <1>7 DEF t

(* A page takes the place of another.                                      *)
LEMMA ReplaceList ==
  ASSUME NEW s \in Seq(Elements), NEW i \in 1..Len(s), NEW x \in Elements
  PROVE  LET t == [s EXCEPT ![i] = x]
         IN  /\ t \in Seq(Elements)
             /\ Len(t) = Len(s)
             /\ Once(s) => VasOf(t) = (VasOf(s) \ {s[i].va}) \cup {x.va}
             /\ Once(s) /\ x.va \notin VasOf(s) => Once(t)
<1> DEFINE t == [s EXCEPT ![i] = x]
<1>1. /\ t \in Seq(Elements) /\ Len(t) = Len(s) /\ Len(s) \in Nat
      /\ DOMAIN s = 1..Len(s) /\ DOMAIN t = 1..Len(s)
  BY ExceptSeq, LenProperties
<1>2. (\A k \in 1..Len(s) : k # i => t[k] = s[k]) /\ t[i] = x
  BY <1>1
<1> HIDE DEF t
<1>3. ASSUME Once(s) PROVE VasOf(t) = (VasOf(s) \ {s[i].va}) \cup {x.va}
  BY <1>1, <1>2, <1>3 DEF VasOf, Once
<1>4. ASSUME Once(s), x.va \notin VasOf(s) PROVE Once(t)
  BY <1>1, <1>2, <1>4 DEF VasOf, Once
<1> QED BY <1>1, <1>3, <1>4 DEF t

(* A slice of a list.                                                      *)
LEMMA SliceList ==
  ASSUME NEW s \in Seq(Elements), NEW l \in 1..(Len(s) + 1), NEW h \in 0..Len(s),
         l <= h + 1
  PROVE  /\ SubSeq(s, l, h) \in Seq(Elements)
         /\ Len(SubSeq(s, l, h)) = h - l + 1
         /\ \A k \in 1..(h - l + 1) : SubSeq(s, l, h)[k] = s[l + k - 1]
<1>1. Len(s) \in Nat /\ l \in Int /\ h \in Int
  BY LenProperties
<1>2. \A k \in l..h : s[k] \in Elements
  <2>1. \A k \in l..h : k \in 1..Len(s)
    BY <1>1
  <2> QED BY <2>1, ElementOfSeq
<1>3. /\ SubSeq(s, l, h) \in Seq(Elements)
      /\ Len(SubSeq(s, l, h)) = IF l <= h THEN h - l + 1 ELSE 0
      /\ \A k \in 1..(h - l + 1) : SubSeq(s, l, h)[k] = s[l + k - 1]
  BY <1>1, <1>2, SubSeqProperties
<1>4. (IF l <= h THEN h - l + 1 ELSE 0) = h - l + 1
  BY <1>1
<1> QED BY <1>3, <1>4

\* The list s, turned until the successor of position i comes first.
Rotated(s, i) == SubSeq(s, i + 1, Len(s)) \o SubSeq(s, 1, i)

(* The list is turned.                                                     *)
LEMMA RotateList ==
  ASSUME NEW s \in Seq(Elements), NEW i \in 1..Len(s)
  PROVE  /\ Rotated(s, i) \in Seq(Elements)
         /\ Len(Rotated(s, i)) = Len(s)
         /\ VasOf(Rotated(s, i)) = VasOf(s)
         /\ Once(s) => Once(Rotated(s, i))
<1> DEFINE n == Len(s)
           a == SubSeq(s, i + 1, n)
           b == SubSeq(s, 1, i)
           r == a \o b
           From(k) == IF k <= n - i THEN k + i ELSE k - (n - i)
           To(k) == IF k > i THEN k - i ELSE k + (n - i)
<1>1. n \in Nat /\ DOMAIN s = 1..n
  BY LenProperties
<1>2. /\ a \in Seq(Elements) /\ Len(a) = n - i
      /\ \A k \in 1..(n - i) : a[k] = s[k + i]
  <2>1. i + 1 \in 1..(n + 1) /\ n \in 0..n /\ i + 1 <= n + 1
    BY <1>1
  <2>2. /\ SubSeq(s, i + 1, n) \in Seq(Elements)
        /\ Len(SubSeq(s, i + 1, n)) = n - (i + 1) + 1
        /\ \A k \in 1..(n - (i + 1) + 1) : SubSeq(s, i + 1, n)[k] = s[(i + 1) + k - 1]
    BY <2>1, SliceList
  <2>3. n - (i + 1) + 1 = n - i /\ \A k \in 1..(n - i) : (i + 1) + k - 1 = k + i
    BY <1>1
  <2> QED BY <2>2, <2>3
<1>3. /\ b \in Seq(Elements) /\ Len(b) = i
      /\ \A k \in 1..i : b[k] = s[k]
  <2>1. 1 \in 1..(n + 1) /\ i \in 0..n /\ 1 <= i + 1
    BY <1>1
  <2>2. /\ SubSeq(s, 1, i) \in Seq(Elements)
        /\ Len(SubSeq(s, 1, i)) = i - 1 + 1
        /\ \A k \in 1..(i - 1 + 1) : SubSeq(s, 1, i)[k] = s[1 + k - 1]
    BY <2>1, SliceList
  <2>3. i - 1 + 1 = i /\ \A k \in 1..i : 1 + k - 1 = k
    BY <1>1
  <2> QED BY <2>2, <2>3
<1> HIDE DEF a, b
<1>4. /\ r \in Seq(Elements) /\ Len(r) = n
      /\ \A k \in 1..n : r[k] = IF k <= n - i THEN a[k] ELSE b[k - (n - i)]
  <2>1. Len(a) + Len(b) = n
    BY <1>1, <1>2, <1>3
  <2>2. /\ r \in Seq(Elements) /\ Len(r) = Len(a) + Len(b)
        /\ \A k \in 1..(Len(a) + Len(b)) :
             r[k] = IF k <= Len(a) THEN a[k] ELSE b[k - Len(a)]
    BY <1>2, <1>3, ConcatProperties
  <2> QED BY <1>2, <2>1, <2>2
<1>5. DOMAIN r = 1..n
  BY <1>4
<1> HIDE DEF r, n
<1>6. \A k \in 1..n : From(k) \in 1..n /\ r[k] = s[From(k)]
  BY <1>1, <1>2, <1>3, <1>4
<1>7. \A k \in 1..n : To(k) \in 1..n /\ From(To(k)) = k
  BY <1>1
<1>8. \A j, k \in 1..n : From(j) = From(k) => j = k
  BY <1>1
<1> HIDE DEF From, To
<1>9. VasOf(r) = VasOf(s)
  <2>1. \A k \in 1..n : r[k].va = s[From(k)].va
    BY <1>6
  <2>2. \A k \in 1..n : s[k].va = r[To(k)].va
    BY <1>6, <1>7
  <2>3. ASSUME NEW v \in VasOf(r) PROVE v \in VasOf(s)
    BY <1>1, <1>5, <1>6, <2>1, SMTT(30) DEF VasOf
  <2>4. ASSUME NEW v \in VasOf(s) PROVE v \in VasOf(r)
    <3>1. PICK k \in 1..n : v = s[k].va
      BY <1>1 DEF VasOf
    <3> QED BY <1>5, <1>7, <2>2, <3>1 DEF VasOf
  <2> QED BY <2>3, <2>4
<1>10. ASSUME Once(s) PROVE Once(r)
  BY <1>1, <1>5, <1>6, <1>8, <1>10 DEF Once
<1> QED BY <1>4, <1>9, <1>10 DEF Rotated, a, b, r, n

(* A page leaves the list.                                                 *)
LEMMA RemoveList ==
  ASSUME NEW s \in Seq(Elements), NEW i \in 1..Len(s), Once(s)
  PROVE  /\ RemoveAt(s, i) \in Seq(Elements)
         /\ Len(RemoveAt(s, i)) = Len(s) - 1
         /\ VasOf(RemoveAt(s, i)) = VasOf(s) \ {s[i].va}
         /\ Once(RemoveAt(s, i))
<1> DEFINE n == Len(s)
           a == SubSeq(s, 1, i - 1)
           b == SubSeq(s, i + 1, n)
           r == a \o b
           From(k) == IF k < i THEN k ELSE k + 1
           To(k) == IF k < i THEN k ELSE k - 1
<1>1. n \in Nat /\ DOMAIN s = 1..n
  BY LenProperties
<1>2. /\ a \in Seq(Elements) /\ Len(a) = i - 1
      /\ \A k \in 1..(i - 1) : a[k] = s[k]
  <2>1. 1 \in 1..(n + 1) /\ i - 1 \in 0..n /\ 1 <= (i - 1) + 1
    BY <1>1
  <2>2. /\ SubSeq(s, 1, i - 1) \in Seq(Elements)
        /\ Len(SubSeq(s, 1, i - 1)) = (i - 1) - 1 + 1
        /\ \A k \in 1..((i - 1) - 1 + 1) : SubSeq(s, 1, i - 1)[k] = s[1 + k - 1]
    BY <2>1, SliceList
  <2>3. (i - 1) - 1 + 1 = i - 1 /\ \A k \in 1..(i - 1) : 1 + k - 1 = k
    BY <1>1
  <2> QED BY <2>2, <2>3
<1>3. /\ b \in Seq(Elements) /\ Len(b) = n - i
      /\ \A k \in 1..(n - i) : b[k] = s[k + i]
  <2>1. i + 1 \in 1..(n + 1) /\ n \in 0..n /\ i + 1 <= n + 1
    BY <1>1
  <2>2. /\ SubSeq(s, i + 1, n) \in Seq(Elements)
        /\ Len(SubSeq(s, i + 1, n)) = n - (i + 1) + 1
        /\ \A k \in 1..(n - (i + 1) + 1) : SubSeq(s, i + 1, n)[k] = s[(i + 1) + k - 1]
    BY <2>1, SliceList
  <2>3. n - (i + 1) + 1 = n - i /\ \A k \in 1..(n - i) : (i + 1) + k - 1 = k + i
    BY <1>1
  <2> QED BY <2>2, <2>3
<1> HIDE DEF a, b
<1>4. /\ r \in Seq(Elements) /\ Len(r) = n - 1
      /\ \A k \in 1..(n - 1) : r[k] = IF k <= i - 1 THEN a[k] ELSE b[k - (i - 1)]
  <2>1. Len(a) + Len(b) = n - 1
    BY <1>1, <1>2, <1>3
  <2>2. /\ r \in Seq(Elements) /\ Len(r) = Len(a) + Len(b)
        /\ \A k \in 1..(Len(a) + Len(b)) :
             r[k] = IF k <= Len(a) THEN a[k] ELSE b[k - Len(a)]
    BY <1>2, <1>3, ConcatProperties
  <2> QED BY <1>2, <2>1, <2>2
<1>5. DOMAIN r = 1..(n - 1)
  BY <1>4
<1> HIDE DEF r, n
<1>6. \A k \in 1..(n - 1) : From(k) \in 1..n /\ From(k) # i /\ r[k] = s[From(k)]
  BY <1>1, <1>2, <1>3, <1>4
<1>7. \A k \in 1..n : k # i => To(k) \in 1..(n - 1) /\ From(To(k)) = k
  BY <1>1
<1>8. \A j, k \in 1..(n - 1) : From(j) = From(k) => j = k
  BY <1>1
<1> HIDE DEF From, To
<1>9. VasOf(r) = VasOf(s) \ {s[i].va}
  <2>1. i \in 1..n
    BY DEF n
  <2>2. \A k \in 1..n : k # i => s[k].va = r[To(k)].va
    BY <1>6, <1>7
  <2>3. \A k \in 1..n : s[k].va = s[i].va => k = i
    BY <1>1, <2>1 DEF Once
  <2>4. ASSUME NEW v \in VasOf(r) PROVE v \in VasOf(s) \ {s[i].va}
    BY <1>1, <1>5, <1>6, <2>3 DEF VasOf
  <2>5. ASSUME NEW v \in VasOf(s), v # s[i].va PROVE v \in VasOf(r)
    BY <1>1, <1>5, <1>7, <2>2, <2>5 DEF VasOf
  <2> QED BY <2>4, <2>5
<1>10. Once(r)
  BY <1>1, <1>5, <1>6, <1>8 DEF Once
<1> QED BY <1>4, <1>9, <1>10 DEF RemoveAt, a, b, r, n

----------------------------------------------------------------------------
(* What a fault does to the list and the entries before anything else.     *)

(* Ageing changes time stamps only.                                        *)
LEMMA AgedList ==
  ASSUME TypeInv
  PROVE  /\ AgedSet \in Seq(Elements)
         /\ Len(AgedSet) = Len(ws)
         /\ \A i \in 1..Len(ws) : AgedSet[i].va = ws[i].va
         /\ VasOf(AgedSet) = VasOf(ws)
         /\ Once(ws) => Once(AgedSet)
<1>1. ws \in Seq(Elements) /\ Len(ws) \in Nat /\ DOMAIN ws = 1..Len(ws)
  BY DEF TypeInv
<1>2. CASE algo = "LRU"
  <2>1. AgedSet = [i \in 1..Len(ws) |-> Aged(i)]
    BY <1>1, <1>2 DEF AgedSet
  <2>2. \A i \in 1..Len(ws) : Aged(i) \in Elements /\ Aged(i).va = ws[i].va
    BY AgedType
  <2>3. AgedSet \in Seq(Elements)
    BY <1>1, <2>1, <2>2, IsASeq
  <2>4. /\ Len(AgedSet) = Len(ws) /\ DOMAIN AgedSet = 1..Len(ws)
        /\ \A i \in 1..Len(ws) : AgedSet[i].va = ws[i].va
    BY <1>1, <2>1, <2>2, <2>3
  <2>5. VasOf(AgedSet) = VasOf(ws)
    BY <1>1, <2>4 DEF VasOf
  <2> QED BY <1>1, <2>3, <2>4, <2>5 DEF Once
<1>3. CASE algo # "LRU"
  BY <1>1, <1>3 DEF AgedSet
<1> QED BY <1>2, <1>3

(* Ageing resets used bits only.                                           *)
LEMMA AgedEntriesType ==
  ASSUME TypeInv
  PROVE  /\ AgedEntries \in [Pages -> Entry]
         /\ \A v \in Pages : /\ AgedEntries[v].present = pte[v].present
                             /\ AgedEntries[v].modified = pte[v].modified
                             /\ AgedEntries[v].uhpage = pte[v].uhpage
<1>1. pte \in [Pages -> Entry]
  BY DEF TypeInv
<1>2. CASE algo = "LRU"
  <2>1. AgedEntries = [v \in Pages |-> [pte[v] EXCEPT !.used = @ /\ v \notin Vas]]
    BY <1>2 DEF AgedEntries
  <2>2. ASSUME NEW v \in Pages
        PROVE  LET e == [pte[v] EXCEPT !.used = @ /\ v \notin Vas]
               IN  /\ e \in Entry /\ e.present = pte[v].present
                   /\ e.modified = pte[v].modified /\ e.uhpage = pte[v].uhpage
    <3> DEFINE b == pte[v].used /\ v \notin Vas
    <3>1. pte[v] \in Entry /\ b \in BOOLEAN
      BY <1>1
    <3>2. [pte[v] EXCEPT !.used = @ /\ v \notin Vas] = [pte[v] EXCEPT !.used = b]
      OBVIOUS
    <3> HIDE DEF b
    <3> QED BY <3>1, <3>2 DEF Entry
  <2> QED BY <2>1, <2>2
<1>3. CASE algo # "LRU"
  BY <1>1, <1>3 DEF AgedEntries
<1> QED BY <1>2, <1>3

(* The environment ends: the types remain.                                 *)
LEMMA EndsStep ==
  ASSUME TypeInv, NEW v, NEW end \in {"exit", "unhandled"}, Ends(v, end), Keep
  PROVE  TypeInv' /\ ~Running'
<1>1. ws' \in Seq(Elements) /\ hand' \in 0..Len(ws')
  BY AgedList DEF Ends, TypeInv
<1>2. pte' \in [Pages -> Entry]
  BY AgedEntriesType DEF Ends
<1> QED BY <1>1, <1>2 DEF Ends, Keep, TypeInv, Running

(* The entry of a page that is brought in, or touched.                     *)
LEMMA EntryType ==
  ASSUME TypeInv, NEW v \in Pages, NEW write \in BOOLEAN
  PROVE  /\ BroughtIn(v) \in Entry /\ BroughtIn(v).present
         /\ BroughtIn(v).modified <=> ~InPageFile(v)
         /\ BroughtIn(v).uhpage = pte[v].uhpage
         /\ \A e \in Entry :
              /\ Touched(e, write) \in Entry
              /\ Touched(e, write).present = e.present
              /\ Touched(e, write).uhpage = e.uhpage
              /\ Touched(e, write).modified <=> e.modified \/ write
         /\ Unmapped(v) \in Entry /\ ~Unmapped(v).present
         /\ Unmapped(v).uhpage = pte[v].uhpage
<1>1. pte[v] \in Entry
  BY DEF TypeInv
<1>2. /\ BroughtIn(v) \in Entry /\ BroughtIn(v).present
      /\ BroughtIn(v).modified <=> ~InPageFile(v)
      /\ BroughtIn(v).uhpage = pte[v].uhpage
  <2> DEFINE b == ~InPageFile(v)
  <2>1. BroughtIn(v) = [pte[v] EXCEPT !.present = TRUE, !.used = TRUE, !.modified = b]
    BY DEF BroughtIn
  <2>2. b \in BOOLEAN /\ (b <=> ~InPageFile(v))
    OBVIOUS
  <2> HIDE DEF b
  <2> QED BY <1>1, <2>1, <2>2 DEF Entry
<1>3. ASSUME NEW e \in Entry
      PROVE  /\ Touched(e, write) \in Entry
             /\ Touched(e, write).present = e.present
             /\ Touched(e, write).uhpage = e.uhpage
             /\ Touched(e, write).modified <=> e.modified \/ write
  <2> DEFINE b == e.modified \/ write
  <2>1. Touched(e, write) = [e EXCEPT !.used = TRUE, !.modified = b]
    BY DEF Touched, Entry
  <2>2. b \in BOOLEAN /\ (b <=> e.modified \/ write)
    BY DEF Entry
  <2> HIDE DEF b
  <2> QED BY <2>1, <2>2 DEF Entry
<1>4. /\ Unmapped(v) \in Entry /\ ~Unmapped(v).present
      /\ Unmapped(v).uhpage = pte[v].uhpage
  BY <1>1 DEF Unmapped, Absent, Entry
<1> QED BY <1>2, <1>3, <1>4

----------------------------------------------------------------------------
(* One lemma for each action.                                              *)

(* What a page holds when it has been brought in is a value.               *)
LEMMA ContentsType ==
  ASSUME TypeInv, NEW v \in Pages
  PROVE  Contents(v) \in Values
BY PageFaultAssumption DEF TypeInv, Contents, InPageFile

(* An access to a page that is present.                                    *)
LEMMA AccessStep ==
  ASSUME IInv, NEW v, NEW write \in BOOLEAN, NEW x \in Values, Access(v, write, x)
  PROVE  IInv'
<1>1. TypeInv /\ Running /\ ListInv /\ CopiesInv /\ v \in Pages /\ pte[v].present
  BY DEF IInv, Access, Present
<1>2. /\ pte' = [pte EXCEPT ![v] = Touched(pte[v], write)]
      /\ ram' = IF write THEN [ram EXCEPT ![v] = x] ELSE ram
      /\ val' = IF write THEN [val EXCEPT ![v] = x] ELSE val
      /\ UNCHANGED <<algo, ws, hand, pf, repeated, status>>
  BY <1>1 DEF Access, Keep, TypeInv
<1>3. pte \in [Pages -> Entry] /\ pte[v] \in Entry
  BY <1>1 DEF TypeInv
<1>4. /\ pte'[v] \in Entry /\ pte'[v].present /\ pte'[v].uhpage = pte[v].uhpage
      /\ pte'[v].modified <=> pte[v].modified \/ write
  BY <1>1, <1>2, <1>3, EntryType
<1>5. TypeInv'
  <2>1. pte' \in [Pages -> Entry]
    BY <1>2, <1>3, <1>4
  <2>2. ram' \in [Pages -> Values \cup {NoPage}] /\ val' \in [Pages -> Values]
    BY <1>1, <1>2 DEF TypeInv
  <2> QED BY <1>1, <1>2, <2>1, <2>2 DEF TypeInv
<1>6. ListInv'
  BY <1>1, <1>2, <1>3, <1>4 DEF ListInv
<1>7. CopiesInv'
  <2> SUFFICES ASSUME NEW w \in Pages
               PROVE  PageOK(w, pte'[w], ram'[w], pf'[w], val'[w])
    BY DEF CopiesInv
  <2>1. PageOK(w, pte[w], ram[w], pf[w], val[w])
    BY <1>1 DEF CopiesInv
  <2>2. CASE w = v
    <3>1. CASE write
      <4>1. ram'[w] = x /\ val'[w] = x /\ pf'[w] = pf[w]
        BY <1>1, <1>2, <2>2, <3>1 DEF TypeInv
      <4> QED BY <1>1, <1>4, <2>1, <2>2, <3>1, <4>1 DEF PageOK
    <3>2. CASE ~write
      BY <1>1, <1>2, <1>4, <2>1, <2>2, <3>2 DEF PageOK
    <3> QED BY <3>1, <3>2
  <2>3. CASE w # v
    BY <1>1, <1>2, <1>3, <2>1, <2>3 DEF TypeInv
  <2> QED BY <2>2, <2>3
<1> QED BY <1>5, <1>6, <1>7 DEF IInv

(* A page that is brought in, into a list that is not full.                *)
LEMMA PlaceIllegalStep ==
  ASSUME TypeInv, NEW v \in Pages, PlaceIllegal(v), Keep
  PROVE  TypeInv' /\ ~Running'
<1>1. BroughtIn(v) \in Entry /\ Contents(v) \in Values /\ AgedEntries \in [Pages -> Entry]
  BY EntryType, ContentsType, AgedEntriesType
<1>2. pte' \in [Pages -> Entry]
  BY <1>1 DEF PlaceIllegal
<1>3. ws' \in Seq(Elements) /\ hand' \in 0..Len(ws')
  BY AgedList DEF PlaceIllegal, TypeInv
<1>4. ram' \in [Pages -> Values \cup {NoPage}]
  BY <1>1 DEF PlaceIllegal, TypeInv
<1> QED BY <1>2, <1>3, <1>4 DEF PlaceIllegal, Keep, TypeInv, Running

(* The same, where the access is legal.                                    *)
LEMMA PlaceStep ==
  ASSUME IInv, Running, NEW v \in Pages, ~pte[v].present,
         NEW write \in BOOLEAN, NEW x \in Values, Place(v, write, x), Keep
  PROVE  IInv'
<1> DEFINE e == Touched(BroughtIn(v), write)
           n == [va |-> v, ts |-> 0]
<1>1. TypeInv /\ ListInv /\ CopiesInv
  BY DEF IInv
<1>2. /\ ~Full /\ Valid(v) /\ ~Illegal(v)
      /\ ws' = Append(AgedSet, n)
      /\ hand' = IF Len(ws') = WSMax[algo] THEN 1 ELSE hand
      /\ pte' = [AgedEntries EXCEPT ![v] = e]
      /\ ram' = [ram EXCEPT ![v] = IF write THEN x ELSE Contents(v)]
      /\ val' = IF write THEN [val EXCEPT ![v] = x] ELSE val
      /\ UNCHANGED <<algo, pf, status>>
  BY DEF Place, Keep
<1>3. AgedEntries \in [Pages -> Entry] /\ Contents(v) \in Values
  BY <1>1, AgedEntriesType, ContentsType
<1>4. /\ e \in Entry /\ e.present /\ e.uhpage = pte[v].uhpage
      /\ e.modified <=> ~InPageFile(v) \/ write
  BY <1>1, EntryType
<1>5. n \in Elements /\ n.va = v
  <2>1. 0 \in 0..(2 * Msb - 1)
    BY PageFaultAssumption
  <2> QED BY <2>1 DEF Elements
<1> HIDE DEF e, n
<1>6. /\ ws' \in Seq(Elements) /\ Len(ws') = Len(ws) + 1
      /\ VasOf(ws') = VasOf(ws) \cup {v}
      /\ Once(ws')
  <2>1. v \notin VasOf(ws)
    BY <1>1 DEF ListInv
  <2> QED BY <1>1, <1>2, <1>5, <2>1, AgedList, AppendList DEF ListInv
<1>7. TypeInv'
  <2>1. Len(ws) \in Nat /\ hand \in 0..Len(ws) /\ hand' \in 0..Len(ws')
    BY <1>1, <1>2, <1>6 DEF TypeInv
  <2>2. pte' \in [Pages -> Entry]
    BY <1>2, <1>3, <1>4
  <2>3. ram' \in [Pages -> Values \cup {NoPage}] /\ val' \in [Pages -> Values]
    BY <1>1, <1>2, <1>3 DEF TypeInv
  <2> QED BY <1>1, <1>2, <1>6, <2>1, <2>2, <2>3 DEF TypeInv
<1>8. pte'[v] = e /\ \A w \in Pages : w # v => pte'[w] = AgedEntries[w]
  BY <1>2, <1>3
<1>9. ListInv'
  <2>1. Len(ws') <= WSMax[algo]
    <3>1. Len(ws) \in Nat /\ WSMax[algo] \in Nat
      BY <1>1, PageFaultAssumption DEF TypeInv
    <3> QED BY <1>2, <1>6, <3>1 DEF Full
  <2>2. \A w \in Pages : pte'[w].present <=> w \in VasOf(ws')
    BY <1>1, <1>4, <1>6, <1>8, AgedEntriesType DEF ListInv
  <2> QED BY <1>2, <1>6, <2>1, <2>2 DEF ListInv
<1>10. CopiesInv'
  <2> SUFFICES ASSUME NEW w \in Pages
               PROVE  PageOK(w, pte'[w], ram'[w], pf'[w], val'[w])
    BY DEF CopiesInv
  <2>1. PageOK(w, pte[w], ram[w], pf[w], val[w])
    BY <1>1 DEF CopiesInv
  <2>2. CASE w = v
    <3>1. v \notin Stray /\ (v \in Heap => pte[v].uhpage)
      BY <1>2, <2>1, <2>2, PageFaultAssumption
      DEF PageOK, Illegal, Valid, InPageFile
    <3>2. CASE write
      <4>1. ram'[w] = x /\ val'[w] = x
        BY <1>1, <1>2, <2>2, <3>2 DEF TypeInv
      <4> QED BY <1>4, <1>8, <2>2, <3>1, <3>2, <4>1 DEF PageOK
    <3>3. CASE ~write
      <4>1. ram'[w] = Contents(v) /\ val'[w] = val[w] /\ pf'[w] = pf[w]
        BY <1>1, <1>2, <2>2, <3>3 DEF TypeInv
      <4> QED BY <1>4, <1>8, <2>1, <2>2, <3>1, <3>3, <4>1
          DEF PageOK, Contents, InPageFile
    <3> QED BY <3>2, <3>3
  <2>3. CASE w # v
    <3>1. ram'[w] = ram[w] /\ val'[w] = val[w] /\ pf'[w] = pf[w]
      BY <1>1, <1>2, <2>3 DEF TypeInv
    <3> QED BY <1>1, <1>8, <2>1, <2>3, <3>1, AgedEntriesType DEF PageOK
  <2> QED BY <2>2, <2>3
<1> QED BY <1>7, <1>9, <1>10 DEF IInv

(* The list after a replacement.                                           *)
LEMMA TurnedList ==
  ASSUME TypeInv, NEW i \in 1..Len(ws), NEW v \in Pages
  PROVE  /\ Turned(i, v) \in Seq(Elements)
         /\ Len(Turned(i, v)) = Len(ws)
         /\ Once(ws) /\ v \notin VasOf(ws) =>
              /\ Once(Turned(i, v))
              /\ VasOf(Turned(i, v)) = (VasOf(ws) \ {ws[i].va}) \cup {v}
<1> DEFINE n == [va |-> v, ts |-> 0]
           new == [AgedSet EXCEPT ![i] = n]
<1>1. /\ AgedSet \in Seq(Elements) /\ Len(AgedSet) = Len(ws)
      /\ AgedSet[i].va = ws[i].va /\ VasOf(AgedSet) = VasOf(ws)
      /\ Once(ws) => Once(AgedSet)
  BY AgedList
<1>2. n \in Elements /\ n.va = v
  <2>1. 0 \in 0..(2 * Msb - 1)
    BY PageFaultAssumption
  <2> QED BY <2>1 DEF Elements
<1>3. Turned(i, v) = IF algo = "LRU" THEN new
                     ELSE SubSeq(new, i + 1, Len(ws)) \o SubSeq(new, 1, i)
  BY DEF Turned
<1> HIDE DEF n
<1>4. /\ new \in Seq(Elements) /\ Len(new) = Len(ws)
      /\ Once(ws) /\ v \notin VasOf(ws) =>
           Once(new) /\ VasOf(new) = (VasOf(ws) \ {ws[i].va}) \cup {v}
  <2>1. i \in 1..Len(AgedSet)
    BY <1>1
  <2>2. /\ new \in Seq(Elements) /\ Len(new) = Len(AgedSet)
        /\ Once(AgedSet) =>
             VasOf(new) = (VasOf(AgedSet) \ {AgedSet[i].va}) \cup {n.va}
        /\ Once(AgedSet) /\ n.va \notin VasOf(AgedSet) => Once(new)
    BY <1>1, <1>2, <2>1, ReplaceList
  <2> QED BY <1>1, <1>2, <2>2
<1> HIDE DEF new
<1>5. /\ Rotated(new, i) \in Seq(Elements) /\ Len(Rotated(new, i)) = Len(new)
      /\ VasOf(Rotated(new, i)) = VasOf(new)
      /\ Once(new) => Once(Rotated(new, i))
  BY <1>4, RotateList
<1>6. Turned(i, v) = new \/ Turned(i, v) = Rotated(new, i)
  BY <1>3, <1>4 DEF Rotated
<1> QED BY <1>4, <1>5, <1>6

(* The entries after an eviction.                                          *)
LEMMA EvictedType ==
  ASSUME TypeInv, NEW out \in Pages, NEW cleared
  PROVE  /\ Evicted(out, cleared) \in [Pages -> Entry]
         /\ Evicted(out, cleared)[out] = Unmapped(out)
         /\ \A w \in Pages : w # out =>
              /\ Evicted(out, cleared)[w].present = pte[w].present
              /\ Evicted(out, cleared)[w].modified = pte[w].modified
              /\ Evicted(out, cleared)[w].uhpage = pte[w].uhpage
<1> DEFINE u(w) == [pte[w] EXCEPT !.used = @ /\ w \notin cleared]
<1>1. Evicted(out, cleared) = [w \in Pages |-> IF w = out THEN Unmapped(w) ELSE u(w)]
  BY DEF Evicted
<1>2. ASSUME NEW w \in Pages
      PROVE  /\ u(w) \in Entry /\ u(w).present = pte[w].present
             /\ u(w).modified = pte[w].modified /\ u(w).uhpage = pte[w].uhpage
  <2> DEFINE b == pte[w].used /\ w \notin cleared
  <2>1. pte[w] \in Entry /\ b \in BOOLEAN
    BY DEF TypeInv
  <2>2. u(w) = [pte[w] EXCEPT !.used = b]
    OBVIOUS
  <2> HIDE DEF b, u
  <2> QED BY <2>1, <2>2 DEF Entry
<1> HIDE DEF u
<1>3. \A w \in Pages : Unmapped(w) \in Entry
  BY EntryType
<1> QED BY <1>1, <1>2, <1>3

(* A page takes the place of another one.                                  *)
LEMMA ReplaceStep ==
  ASSUME IInv, Running, NEW v \in Pages, ~pte[v].present,
         NEW write \in BOOLEAN, NEW x \in Values, Replace(v, write, x), Keep
  PROVE  IInv'
<1> DEFINE i == Victim.victim
           out == ws[i].va
           old == Evicted(out, Victim.cleared)
           e == IF Illegal(v) THEN BroughtIn(v) ELSE Touched(BroughtIn(v), write)
<1>1. TypeInv /\ ListInv /\ CopiesInv
  BY DEF IInv
<1>2. /\ Full /\ Valid(v)
      /\ pf' = pf_update_env_page(out)
      /\ ws' = Turned(i, v)
      /\ hand' = 1
      /\ pte' = [old EXCEPT ![v] = e]
      /\ ram' = [ram EXCEPT ![out] = NoPage,
                            ![v] = IF write /\ ~Illegal(v) THEN x ELSE Contents(v)]
      /\ val' = IF write /\ ~Illegal(v) THEN [val EXCEPT ![v] = x] ELSE val
      /\ status' = IF Illegal(v) THEN "exit" ELSE status
      /\ algo' = algo
  BY DEF Replace, Keep
<1>3. i \in 1..Len(ws) /\ DOMAIN ws = 1..Len(ws) /\ Len(ws) \in Nat
  BY <1>1, <1>2, VictimType DEF TypeInv
<1> HIDE DEF i
<1>4. out \in Pages /\ out \in VasOf(ws)
  <2>1. ws[i] \in Elements
    BY <1>1, <1>3, ElementOfSeq DEF TypeInv
  <2> QED BY <1>3, <2>1 DEF Elements, VasOf
<1>5. pte[out].present /\ out # v /\ v \notin VasOf(ws)
  BY <1>1, <1>4 DEF ListInv
<1> HIDE DEF out
<1>6. /\ old \in [Pages -> Entry] /\ old[out] = Unmapped(out)
      /\ \A w \in Pages : w # out => /\ old[w].present = pte[w].present
                                     /\ old[w].modified = pte[w].modified
                                     /\ old[w].uhpage = pte[w].uhpage
  BY <1>1, <1>4, EvictedType
<1>7. /\ e \in Entry /\ e.present /\ e.uhpage = pte[v].uhpage
      /\ ~Illegal(v) => (e.modified <=> ~InPageFile(v) \/ write)
  BY <1>1, EntryType
<1> HIDE DEF old, e
<1>8. pte' \in [Pages -> Entry] /\ pte'[v] = e /\ \A w \in Pages : w # v => pte'[w] = old[w]
  BY <1>2, <1>6, <1>7
<1>9. /\ ram' \in [Pages -> Values \cup {NoPage}]
      /\ ram'[v] = IF write /\ ~Illegal(v) THEN x ELSE Contents(v)
      /\ \A w \in Pages : w # v /\ w # out => ram'[w] = ram[w]
  <2>1. Contents(v) \in Values
    BY <1>1, ContentsType
  <2> QED BY <1>1, <1>2, <1>4, <1>5, <2>1 DEF TypeInv
<1>10. /\ pf' \in [Pages -> Values \cup {NoPage}]
       /\ pf'[out] = IF pte[out].modified THEN ram[out] ELSE pf[out]
       /\ \A w \in Pages : w # out => pf'[w] = pf[w]
  BY <1>1, <1>2, <1>4 DEF TypeInv, pf_update_env_page
<1>11. /\ val' \in [Pages -> Values]
       /\ val'[v] = IF write /\ ~Illegal(v) THEN x ELSE val[v]
       /\ \A w \in Pages : w # v => val'[w] = val[w]
  BY <1>1, <1>2 DEF TypeInv
<1>12. /\ ws' \in Seq(Elements) /\ Len(ws') = Len(ws) /\ Once(ws')
       /\ VasOf(ws') = (VasOf(ws) \ {out}) \cup {v}
  BY <1>1, <1>2, <1>3, <1>5, TurnedList DEF ListInv, out
<1>13. TypeInv'
  <2>1. hand' \in 0..Len(ws')
    BY <1>2, <1>3, <1>12
  <2> QED BY <1>1, <1>2, <1>8, <1>9, <1>10, <1>11, <1>12, <2>1 DEF TypeInv
<1>14. ListInv'
  <2>1. ~pte'[out].present
    BY <1>1, <1>4, <1>5, <1>6, <1>8, EntryType
  <2>2. \A w \in Pages : pte'[w].present <=> w \in VasOf(ws')
    BY <1>1, <1>5, <1>6, <1>7, <1>8, <1>12, <2>1 DEF ListInv
  <2> QED BY <1>1, <1>2, <1>12, <2>2 DEF ListInv
<1>15. ASSUME Running' PROVE CopiesInv'
  <2> SUFFICES ASSUME NEW w \in Pages
               PROVE  PageOK(w, pte'[w], ram'[w], pf'[w], val'[w])
    BY DEF CopiesInv
  <2>1. PageOK(w, pte[w], ram[w], pf[w], val[w])
    BY <1>1 DEF CopiesInv
  <2>2. ~Illegal(v)
    BY <1>2, <1>15 DEF Running
  <2>3. CASE w = v
    <3>1. v \notin Stray /\ (v \in Heap => pte[v].uhpage)
      BY <1>2, <2>1, <2>2, <2>3, PageFaultAssumption
      DEF PageOK, Illegal, Valid, InPageFile
    <3>2. CASE write
      BY <1>7, <1>8, <1>9, <1>11, <2>2, <2>3, <3>1, <3>2 DEF PageOK
    <3>3. CASE ~write
      <4>1. ram'[w] = Contents(v) /\ val'[w] = val[w] /\ pf'[w] = pf[w]
        BY <1>5, <1>9, <1>10, <1>11, <2>3, <3>3
      <4> QED BY <1>7, <1>8, <2>1, <2>2, <2>3, <3>1, <3>3, <4>1
          DEF PageOK, Contents, InPageFile
    <3> QED BY <3>2, <3>3
  <2>4. CASE w = out
    <3>1. /\ ~pte'[w].present /\ pte'[w].uhpage = pte[w].uhpage
      BY <1>1, <1>4, <1>5, <1>6, <1>8, <2>4, EntryType
    <3>2. w \notin Stray /\ ram[w] = val[w] /\ (w \in Heap => pte[w].uhpage)
      BY <1>5, <2>1, <2>4 DEF PageOK
    <3>3. pf'[w] = ram[w] /\ val'[w] = val[w]
      BY <1>5, <1>10, <1>11, <2>1, <2>4 DEF PageOK
    <3>4. val[w] # NoPage
      BY <1>1, PageFaultAssumption DEF TypeInv
    <3> QED BY <3>1, <3>2, <3>3, <3>4 DEF PageOK
  <2>5. CASE w # v /\ w # out
    <3>1. ram'[w] = ram[w] /\ val'[w] = val[w] /\ pf'[w] = pf[w]
      BY <1>9, <1>10, <1>11, <2>5
    <3> QED BY <1>6, <1>8, <2>1, <2>5, <3>1 DEF PageOK
  <2> QED BY <2>3, <2>4, <2>5
<1> QED BY <1>13, <1>14, <1>15 DEF IInv

(* The last steps of a fault, and the other actions.                       *)

(* fault_handler.                                                          *)
LEMMA FaultStep ==
  ASSUME IInv, NEW v \in Pages \cup Forbidden, NEW write \in BOOLEAN,
         NEW x \in Values, fault_handler(v, write, x)
  PROVE  IInv'
<1>1. TypeInv /\ Running /\ Keep /\ (v \in Pages => ~pte[v].present)
  BY DEF IInv, fault_handler, Present
<1>2. CASE Unhandled(v) \/ Invalid(v) \/ ReplaceFails(v)
  <2>1. \E end \in {"exit", "unhandled"} : Ends(v, end)
    BY <1>2 DEF Unhandled, Invalid, ReplaceFails
  <2>2. TypeInv' /\ ~Running'
    BY <1>1, <2>1, EndsStep
  <2> QED BY <2>2 DEF IInv
<1>3. CASE PlaceIllegal(v)
  <2>1. v \in Pages
    BY <1>3 DEF PlaceIllegal, Valid
  <2>2. TypeInv' /\ ~Running'
    BY <1>1, <1>3, <2>1, PlaceIllegalStep
  <2> QED BY <2>2 DEF IInv
<1>4. CASE Place(v, write, x)
  <2>1. v \in Pages
    BY <1>4 DEF Place, Valid
  <2> QED BY <1>1, <1>4, <2>1, PlaceStep
<1>5. CASE Replace(v, write, x)
  <2>1. v \in Pages
    BY <1>5 DEF Replace, Valid
  <2> QED BY <1>1, <1>5, <2>1, ReplaceStep
<1> QED BY <1>2, <1>3, <1>4, <1>5 DEF fault_handler

(* The clock ticks.                                                        *)
LEMMA ClockStep ==
  ASSUME IInv, clock_interrupt_handler
  PROVE  IInv'
<1>1. TypeInv /\ Running /\ ListInv /\ CopiesInv
  BY DEF IInv, clock_interrupt_handler
<1>2. /\ ws' = AgedSet /\ pte' = AgedEntries
      /\ UNCHANGED <<algo, hand, ram, pf, status, val>>
  BY DEF clock_interrupt_handler, Keep
<1>3. /\ ws' \in Seq(Elements) /\ Len(ws') = Len(ws)
      /\ VasOf(ws') = VasOf(ws) /\ (Once(ws) => Once(ws'))
  BY <1>1, <1>2, AgedList
<1>4. /\ pte' \in [Pages -> Entry]
      /\ \A v \in Pages : /\ pte'[v].present = pte[v].present
                          /\ pte'[v].modified = pte[v].modified
                          /\ pte'[v].uhpage = pte[v].uhpage
  BY <1>1, <1>2, AgedEntriesType
<1>5. TypeInv'
  BY <1>1, <1>2, <1>3, <1>4 DEF TypeInv
<1>6. ListInv'
  BY <1>1, <1>2, <1>3, <1>4 DEF ListInv
<1>7. CopiesInv'
  <2> SUFFICES ASSUME NEW w \in Pages
               PROVE  PageOK(w, pte'[w], ram'[w], pf'[w], val'[w])
    BY DEF CopiesInv
  <2>1. PageOK(w, pte[w], ram[w], pf[w], val[w])
    BY <1>1 DEF CopiesInv
  <2> QED BY <1>2, <1>4, <2>1 DEF PageOK
<1> QED BY <1>5, <1>6, <1>7 DEF IInv

(* allocate_user_mem: a page of the heap that was not marked has no copy.  *)
LEMMA AllocateStep ==
  ASSUME IInv, NEW v \in Heap, allocate_user_mem(v)
  PROVE  IInv'
<1> DEFINE e == [pte[v] EXCEPT !.uhpage = TRUE]
<1>1. TypeInv /\ Running /\ ListInv /\ CopiesInv /\ ~pte[v].uhpage /\ v \in Pages
  BY DEF IInv, allocate_user_mem, Pages
<1>2. pte \in [Pages -> Entry] /\ pte[v] \in Entry
  BY <1>1 DEF TypeInv
<1>3. /\ pte' = [pte EXCEPT ![v] = e]
      /\ val' = [val EXCEPT ![v] = Zero]
      /\ UNCHANGED <<algo, ws, hand, ram, pf, status>>
  BY DEF allocate_user_mem, Keep
<1>4. e \in Entry /\ e.present = pte[v].present /\ e.uhpage /\ e.modified = pte[v].modified
  BY <1>2 DEF Entry
<1> HIDE DEF e
<1>5. /\ pte' \in [Pages -> Entry] /\ pte'[v] = e
      /\ \A w \in Pages : w # v => pte'[w] = pte[w]
  BY <1>1, <1>2, <1>3, <1>4
<1>6. TypeInv'
  <2>1. val' \in [Pages -> Values]
    BY <1>1, <1>3, PageFaultAssumption DEF TypeInv
  <2> QED BY <1>1, <1>3, <1>5, <2>1 DEF TypeInv
<1>7. ListInv'
  BY <1>1, <1>3, <1>4, <1>5 DEF ListInv
<1>8. CopiesInv'
  <2> SUFFICES ASSUME NEW w \in Pages
               PROVE  PageOK(w, pte'[w], ram'[w], pf'[w], val'[w])
    BY DEF CopiesInv
  <2>1. PageOK(w, pte[w], ram[w], pf[w], val[w])
    BY <1>1 DEF CopiesInv
  <2>2. CASE w = v
    <3>1. ~pte[w].present /\ pf[w] = NoPage /\ val'[w] = Zero
      BY <1>1, <1>3, <2>1, <2>2 DEF PageOK, TypeInv
    <3>2. v \notin Stray
      BY PageFaultAssumption
    <3> QED BY <1>3, <1>4, <1>5, <2>2, <3>1, <3>2 DEF PageOK
  <2>3. CASE w # v
    <3>1. val'[w] = val[w]
      BY <1>1, <1>3, <2>3 DEF TypeInv
    <3> QED BY <1>3, <1>5, <2>1, <2>3, <3>1
  <2> QED BY <2>2, <2>3
<1> QED BY <1>6, <1>7, <1>8 DEF IInv

(* env_page_ws_invalidate takes the page out of the list, and keeps the    *)
(* hand in it.                                                             *)
LEMMA InvalidateList ==
  ASSUME TypeInv, Once(ws), NEW v \in Pages
  PROVE  LET l == env_page_ws_invalidate(v)
         IN  /\ l.ws \in Seq(Elements)
             /\ l.hand \in 0..Len(l.ws)
             /\ VasOf(l.ws) = VasOf(ws) \ {v}
             /\ Once(l.ws)
             /\ l.ws = ws \/ Len(l.ws) = Len(ws) - 1
<1> DEFINE at == {k \in DOMAIN ws : ws[k].va = v}
           i == CHOOSE k \in at : TRUE
           l == env_page_ws_invalidate(v)
<1>1. ws \in Seq(Elements) /\ Len(ws) \in Nat /\ DOMAIN ws = 1..Len(ws) /\ hand \in 0..Len(ws)
  BY DEF TypeInv
<1>2. CASE at = {}
  <2>1. l = [ws |-> ws, hand |-> hand]
    BY <1>2 DEF env_page_ws_invalidate
  <2>2. v \notin VasOf(ws)
    BY <1>2 DEF VasOf
  <2> QED BY <1>1, <2>1, <2>2
<1>3. CASE at # {}
  <2>1. l = [ws |-> RemoveAt(ws, i),
             hand |-> IF hand > i THEN hand - 1
                      ELSE IF hand = i /\ i = Len(ws) THEN 0
                      ELSE hand]
    BY <1>3 DEF env_page_ws_invalidate
  <2>2. i \in 1..Len(ws) /\ ws[i].va = v
    BY <1>1, <1>3
  <2> HIDE DEF i
  <2>3. /\ RemoveAt(ws, i) \in Seq(Elements)
        /\ Len(RemoveAt(ws, i)) = Len(ws) - 1
        /\ VasOf(RemoveAt(ws, i)) = VasOf(ws) \ {ws[i].va}
        /\ Once(RemoveAt(ws, i))
    BY <1>1, <2>2, RemoveList
  <2>4. (IF hand > i THEN hand - 1
         ELSE IF hand = i /\ i = Len(ws) THEN 0
         ELSE hand) \in 0..(Len(ws) - 1)
    <3>1. hand \in Int /\ i \in Int /\ Len(ws) \in Nat
      BY <1>1, <2>2
    <3>2. 0 <= hand /\ hand <= Len(ws) /\ 1 <= i /\ i <= Len(ws)
      BY <1>1, <2>2
    <3>3. hand > i => hand - 1 \in 0..(Len(ws) - 1)
      BY <3>1, <3>2
    <3>4. hand = i /\ i = Len(ws) => 0 \in 0..(Len(ws) - 1)
      BY <3>1, <3>2
    <3>5. ~(hand > i) /\ ~(hand = i /\ i = Len(ws)) => hand \in 0..(Len(ws) - 1)
      BY <3>1, <3>2
    <3> QED BY <3>3, <3>4, <3>5
  <2> QED BY <2>1, <2>2, <2>3, <2>4
<1> QED BY <1>2, <1>3

(* free_user_mem: no copy of the page is left.                             *)
LEMMA FreeStep ==
  ASSUME IInv, NEW v \in Heap, free_user_mem(v)
  PROVE  IInv'
<1>1. TypeInv /\ Running /\ ListInv /\ CopiesInv /\ v \in Pages
  BY DEF IInv, free_user_mem, Pages
<1>2. /\ ws' = env_page_ws_invalidate(v).ws
      /\ hand' = env_page_ws_invalidate(v).hand
      /\ pte' = [pte EXCEPT ![v] = Absent]
      /\ pf' = [pf EXCEPT ![v] = NoPage]
      /\ ram' = [ram EXCEPT ![v] = NoPage]
      /\ val' = [val EXCEPT ![v] = Zero]
      /\ UNCHANGED <<algo, status>>
  BY DEF free_user_mem, pf_remove_env_page, Keep
<1>3. /\ ws' \in Seq(Elements) /\ hand' \in 0..Len(ws') /\ Once(ws')
      /\ VasOf(ws') = VasOf(ws) \ {v}
      /\ ws' = ws \/ Len(ws') = Len(ws) - 1
  BY <1>1, <1>2, InvalidateList DEF ListInv
<1>4. Absent \in Entry /\ ~Absent.present
  BY DEF Absent, Entry
<1>5. TypeInv'
  <2>1. pte' \in [Pages -> Entry]
    BY <1>1, <1>2, <1>4 DEF TypeInv
  <2>2. /\ ram' \in [Pages -> Values \cup {NoPage}]
        /\ pf' \in [Pages -> Values \cup {NoPage}]
        /\ val' \in [Pages -> Values]
    BY <1>1, <1>2, PageFaultAssumption DEF TypeInv
  <2> QED BY <1>1, <1>2, <1>3, <2>1, <2>2 DEF TypeInv
<1>6. ListInv'
  <2>1. Len(ws') <= WSMax[algo]
    <3>1. Len(ws) \in Nat /\ WSMax[algo] \in Nat
      BY <1>1, PageFaultAssumption DEF TypeInv
    <3> QED BY <1>1, <1>3, <3>1 DEF ListInv
  <2>2. \A w \in Pages : pte'[w].present <=> w \in VasOf(ws')
    BY <1>1, <1>2, <1>3, <1>4 DEF ListInv, TypeInv
  <2> QED BY <1>2, <1>3, <2>1, <2>2 DEF ListInv
<1>7. CopiesInv'
  <2> SUFFICES ASSUME NEW w \in Pages
               PROVE  PageOK(w, pte'[w], ram'[w], pf'[w], val'[w])
    BY DEF CopiesInv
  <2>1. PageOK(w, pte[w], ram[w], pf[w], val[w])
    BY <1>1 DEF CopiesInv
  <2>2. CASE w = v
    <3>1. pte'[w] = Absent /\ pf'[w] = NoPage /\ val'[w] = Zero
      BY <1>1, <1>2, <2>2 DEF TypeInv
    <3> QED BY <1>4, <3>1 DEF PageOK
  <2>3. CASE w # v
    <3>1. pte'[w] = pte[w] /\ ram'[w] = ram[w] /\ pf'[w] = pf[w] /\ val'[w] = val[w]
      BY <1>1, <1>2, <2>3 DEF TypeInv
    <3> QED BY <2>1, <3>1
  <2> QED BY <2>2, <2>3
<1> QED BY <1>5, <1>6, <1>7 DEF IInv

----------------------------------------------------------------------------
(* The theorems.                                                           *)

(* The list that env_create leaves behind, and the copies.                 *)
LEMMA InitHolds == Init => IInv
<1> SUFFICES ASSUME Init PROVE IInv
  OBVIOUS
<1>1. /\ Loaded \in Seq(Code \cup Stack) /\ Len(Loaded) \in Nat
      /\ DOMAIN Loaded = 1..Len(Loaded)
      /\ ToSet(Loaded) \subseteq Code \cup Stack
      /\ \A i, j \in DOMAIN Loaded : Loaded[i] = Loaded[j] => i = j
  BY PageFaultAssumption, ElementOfSeq DEF ToSet
<1>2. 0 \in 0..(2 * Msb - 1) /\ WSMax[algo] \in Nat \ {0} /\ Len(Loaded) <= WSMax[algo]
  <2>1. algo \in Algorithms
    BY DEF Init
  <2>2. Msb \in Nat /\ Msb # 0
    BY PageFaultAssumption
  <2> QED BY <2>1, <2>2, PageFaultAssumption
<1>3. /\ ws = [i \in 1..Len(Loaded) |-> [va |-> Loaded[i], ts |-> 0]]
      /\ \A i \in 1..Len(Loaded) : Loaded[i] \in Pages
  <2>1. \A i \in 1..Len(Loaded) : Loaded[i] \in Code \cup Stack
    BY <1>1, ElementOfSeq
  <2> QED BY <1>1, <2>1 DEF Init, Pages
<1>4. ws \in Seq(Elements) /\ Len(ws) = Len(Loaded) /\ DOMAIN ws = 1..Len(Loaded)
  <2>1. \A i \in 1..Len(Loaded) : [va |-> Loaded[i], ts |-> 0] \in Elements
    BY <1>2, <1>3 DEF Elements
  <2>2. ws \in Seq(Elements)
    BY <1>1, <1>3, <2>1, IsASeq
  <2> QED BY <1>1, <1>3, <2>2
<1>5. Once(ws) /\ VasOf(ws) = ToSet(Loaded)
  <2>1. \A i \in 1..Len(Loaded) : ws[i].va = Loaded[i]
    BY <1>3
  <2> QED BY <1>1, <1>4, <2>1 DEF Once, VasOf, ToSet
<1>6. \A v \in Pages : /\ pte[v] \in Entry
                       /\ pte[v].present <=> v \in ToSet(Loaded)
                       /\ pte[v].modified <=> v \in ToSet(Loaded) /\ v \in Stack
                       /\ ~pte[v].uhpage
  <2> SUFFICES ASSUME NEW v \in Pages
               PROVE  /\ pte[v] \in Entry
                      /\ pte[v].present <=> v \in ToSet(Loaded)
                      /\ pte[v].modified <=> v \in ToSet(Loaded) /\ v \in Stack
                      /\ ~pte[v].uhpage
    OBVIOUS
  <2>1. CASE v \in ToSet(Loaded)
    <3> DEFINE b == v \in Stack
    <3>1. pte[v] = [Absent EXCEPT !.present = TRUE, !.used = TRUE, !.modified = b]
      BY <2>1 DEF Init
    <3>2. b \in BOOLEAN /\ (b <=> v \in Stack)
      OBVIOUS
    <3> HIDE DEF b
    <3> QED BY <2>1, <3>1, <3>2 DEF Absent, Entry
  <2>2. CASE v \notin ToSet(Loaded)
    BY <2>2 DEF Init, Absent, Entry
  <2> QED BY <2>1, <2>2
<1>7. TypeInv
  <2>1. hand \in 0..Len(ws)
    <3>1. hand = IF Len(Loaded) = WSMax[algo] THEN 1 ELSE 0
      BY DEF Init
    <3> QED BY <1>1, <1>2, <1>4, <3>1
  <2>2. pte \in [Pages -> Entry]
    BY <1>6 DEF Init
  <2>3. val \in [Pages -> Values]
    BY PageFaultAssumption DEF Init
  <2>4. ram \in [Pages -> Values \cup {NoPage}] /\ pf \in [Pages -> Values \cup {NoPage}]
    BY <2>3, PageFaultAssumption DEF Init
  <2> QED BY <1>4, <2>1, <2>2, <2>3, <2>4 DEF TypeInv, Init
<1>8. ListInv
  BY <1>2, <1>4, <1>5, <1>6 DEF ListInv
<1>9. CopiesInv
  <2> SUFFICES ASSUME NEW v \in Pages
               PROVE  PageOK(v, pte[v], ram[v], pf[v], val[v])
    BY DEF CopiesInv
  <2>1. /\ val[v] = IF v \in Code THEN Image ELSE Zero
        /\ ram[v] = IF v \in ToSet(Loaded) THEN val[v] ELSE NoPage
        /\ pf[v] = IF v \in Code THEN Image
                   ELSE IF v \in ToSet(Loaded) THEN Zero ELSE NoPage
    BY DEF Init
  <2>2. Image # NoPage /\ Zero # NoPage
    BY PageFaultAssumption
  <2>3. v \in Stray \cup Heap => v \notin ToSet(Loaded) /\ v \notin Code
    BY <1>1, PageFaultAssumption
  <2>4. v \in ToSet(Loaded) => (v \in Code <=> v \notin Stack)
    BY <1>1, PageFaultAssumption
  <2> QED BY <1>6, <2>1, <2>2, <2>3, <2>4 DEF PageOK
<1> QED BY <1>7, <1>8, <1>9 DEF IInv

(* Every step keeps the invariant.                                         *)
LEMMA StepHolds == IInv /\ [Next]_vars => IInv'
<1> SUFFICES ASSUME IInv, [Next]_vars PROVE IInv'
  OBVIOUS
<1>1. ASSUME NEW v \in Pages \cup Forbidden, NEW write \in BOOLEAN, NEW x \in Values,
             Access(v, write, x) \/ fault_handler(v, write, x)
      PROVE  IInv'
  BY <1>1, AccessStep, FaultStep
<1>2. ASSUME NEW v \in Heap, allocate_user_mem(v) \/ free_user_mem(v)
      PROVE  IInv'
  BY <1>2, AllocateStep, FreeStep
<1>3. CASE OtherFaults
  BY <1>3 DEF OtherFaults, Keep, IInv, TypeInv, ListInv, CopiesInv, Running
<1>4. CASE clock_interrupt_handler
  BY <1>4, ClockStep
<1>5. CASE UNCHANGED vars
  BY <1>5 DEF vars, IInv, TypeInv, ListInv, CopiesInv, Running
<1> QED BY <1>1, <1>2, <1>3, <1>4, <1>5 DEF Next

(* The invariant is one of the specification.                              *)
LEMMA Invariant == Spec => []IInv
BY InitHolds, StepHolds, PTL DEF Spec

(* No page is lost on its way between memory and the page file: under each *)
(* algorithm, whatever is replaced, freed and brought in again, the        *)
(* program finds what it wrote last.                                       *)
THEOREM Retrieval == Spec => []NothingLost
<1>1. IInv => NothingLost
  BY DEF IInv, CopiesInv, PageOK, NothingLost, Present, Contents, InPageFile
<1> QED BY <1>1, Invariant, PTL

(* The working set is the set of the pages that are present, each once, it *)
(* keeps to its maximum, and the hand stands in it.                        *)
THEOREM WorkingSet == Spec => []WorkingSetIsResident
<1>1. ASSUME IInv PROVE WorkingSetIsResident
  <2> SUFFICES ASSUME Running PROVE WorkingSetIsResident
    BY DEF WorkingSetIsResident
  <2>1. TypeInv /\ ListInv
    BY <1>1 DEF IInv
  <2>2. ws \in Seq(Elements) /\ Len(ws) \in Nat /\ DOMAIN ws = 1..Len(ws)
    BY <2>1 DEF TypeInv
  <2>3. \A i \in 1..Len(ws) : ws[i].va \in Pages /\ ws[i].ts < 2 * Msb
    <3>1. \A i \in 1..Len(ws) : ws[i] \in Elements
      BY <2>2, ElementOfSeq
    <3> QED BY <3>1, PageFaultAssumption DEF Elements
  <2>4. Vas = VasOf(ws)
    BY DEF Vas, VasOf
  <2>5. {v \in Pages : Present(v)} = Vas
    <3>1. VasOf(ws) \subseteq Pages
      BY <2>2, <2>3 DEF VasOf
    <3> QED BY <2>1, <2>4, <3>1 DEF ListInv, Present
  <2>6. Cardinality(Vas) = Len(ws)
    <3> DEFINE f == [i \in 1..Len(ws) |-> ws[i].va]
    <3>1. f \in Bijection(1..Len(ws), Vas)
      BY <2>1, <2>2 DEF ListInv, Once, Vas, Bijection, Injection, Surjection, IsInjective
    <3>2. IsFiniteSet(1..Len(ws)) /\ Cardinality(1..Len(ws)) = Len(ws)
      BY <2>2, UpTo
    <3> HIDE DEF f
    <3>3. ExistsBijection(1..Len(ws), Vas)
      BY <3>1 DEF ExistsBijection
    <3> QED BY <3>2, <3>3, FS_Bijection, FS_SameCardinalityBij
  <2> QED BY <2>1, <2>2, <2>3, <2>5, <2>6 DEF WorkingSetIsResident, TypeInv, ListInv
<1> QED BY <1>1, Invariant, PTL

(* A page that has been used is replaced only when every page of the       *)
(* working set has been: CLOCK, modified CLOCK and LRU all give a page     *)
(* that has just been used its second chance.                              *)
THEOREM Chances == Spec => SecondChance
<1> DEFINE Kept(v) == /\ v \notin {ws'[i].va : i \in DOMAIN ws'}
                      /\ Len(ws') = Len(ws)
                      /\ pte[v].used
                      => \A w \in Vas : pte[w].used
<1>1. ASSUME IInv, [Next]_vars, NEW v \in Vas PROVE Kept(v)
  <2> SUFFICES ASSUME v \notin VasOf(ws'), Len(ws') = Len(ws), pte[v].used
               PROVE  \A w \in Vas : pte[w].used
    BY DEF VasOf
  <2>1. TypeInv /\ Vas = VasOf(ws) /\ Len(ws) \in Nat /\ DOMAIN ws = 1..Len(ws)
    BY <1>1 DEF IInv, TypeInv, Vas, VasOf
  <2>2. VasOf(ws') # VasOf(ws)
    BY <1>1, <2>1
  <2>3. VasOf(AgedSet) = VasOf(ws)
    BY <2>1, AgedList
  <2>4. ASSUME NEW u \in Pages \cup Forbidden, NEW write \in BOOLEAN, NEW x \in Values,
               fault_handler(u, write, x)
        PROVE  \A w \in Vas : pte[w].used
    <3>1. /\ Running /\ ListInv /\ (u \in Pages => ~pte[u].present)
      BY <1>1, <2>4 DEF fault_handler, IInv, Present
    <3>2. ASSUME NEW end, Ends(u, end) PROVE FALSE
      BY <2>2, <2>3, <3>2 DEF Ends
    <3>3. ~PlaceIllegal(u)
      BY <2>2, <2>3 DEF PlaceIllegal
    <3>4. ~Place(u, write, x)
      <4>1. AgedSet \in Seq(Elements) /\ Len(AgedSet) = Len(ws)
        BY <2>1, AgedList
      <4>2. ASSUME Place(u, write, x) PROVE FALSE
        <5>1. [va |-> u, ts |-> 0] \in Elements
          BY <4>2, PageFaultAssumption DEF Place, Valid, Elements
        <5>2. Len(ws') = Len(AgedSet) + 1
          BY <4>1, <4>2, <5>1, AppendList DEF Place
        <5> QED BY <2>1, <4>1, <5>2
      <4> QED BY <4>2
    <3>5. Replace(u, write, x)
      BY <2>4, <3>2, <3>3, <3>4 DEF fault_handler, Unhandled, Invalid, ReplaceFails
    <3> DEFINE i == Victim.victim
    <3>6. Full /\ u \in Pages /\ ws' = Turned(i, u)
      BY <2>4, <3>5 DEF Replace, Valid
    <3>7. i \in 1..Len(ws) /\ (Used(i) => \A j \in 1..Len(ws) : Used(j))
      BY <2>1, <3>6, VictimType
    <3> HIDE DEF i
    <3>8. VasOf(ws') = (VasOf(ws) \ {ws[i].va}) \cup {u}
      <4>1. u \notin VasOf(ws) /\ Once(ws)
        BY <3>1, <3>6 DEF ListInv
      <4> QED BY <2>1, <3>6, <3>7, <4>1, TurnedList
    <3>9. v = ws[i].va
      BY <1>1, <2>1, <3>8
    <3>10. \A j \in 1..Len(ws) : pte[ws[j].va].used
      BY <3>7, <3>9 DEF Used
    <3> QED BY <2>1, <3>10 DEF Vas
  <2>5. ASSUME NEW u, NEW write, NEW x, Access(u, write, x) PROVE FALSE
    BY <2>2, <2>5 DEF Access
  <2>6. ASSUME NEW u \in Heap, allocate_user_mem(u) \/ free_user_mem(u) PROVE FALSE
    <3>1. CASE allocate_user_mem(u)
      BY <2>2, <3>1 DEF allocate_user_mem
    <3>2. CASE free_user_mem(u)
      <4>1. Once(ws) /\ u \in Pages /\ ws' = env_page_ws_invalidate(u).ws
        BY <1>1, <3>2 DEF free_user_mem, IInv, ListInv, Pages
      <4>2. ws' = ws \/ Len(ws') = Len(ws) - 1
        BY <2>1, <4>1, InvalidateList
      <4> QED BY <2>1, <2>2, <4>2
    <3> QED BY <2>6, <3>1, <3>2
  <2>7. ~OtherFaults
    BY <2>2 DEF OtherFaults
  <2>8. ~clock_interrupt_handler
    BY <2>2, <2>3 DEF clock_interrupt_handler
  <2>9. ~UNCHANGED vars
    BY <2>2 DEF vars
  <2> QED BY <1>1, <2>4, <2>5, <2>6, <2>7, <2>8, <2>9 DEF Next
<1>2. IInv /\ [Next]_vars => [\A v \in Vas : Kept(v)]_vars
  BY <1>1
<1> QED BY <1>2, Invariant, PTL DEF Spec, SecondChance
============================================================================
