--------------------------- MODULE PlaybackProofs ---------------------------
(***************************************************************************)
(* Proofs about Playback, for every playlist, clock skew, rate and time.   *)
(***************************************************************************)
EXTENDS Playback, SequenceTheorems, TLAPS

-----------------------------------------------------------------------------
(* The list operations.                                                    *)

\* Taking one item out of a list shifts those behind it by one.
LEMMA RemoveAtShifts ==
  ASSUME NEW S, NEW l \in Seq(S), NEW k \in 1..Len(l)
  PROVE  /\ RemoveAt(l, k) \in Seq(S)
         /\ Len(RemoveAt(l, k)) = Len(l) - 1
         /\ \A j \in 1..(Len(l) - 1) :
              RemoveAt(l, k)[j] = IF j < k THEN l[j] ELSE l[j + 1]
<1> DEFINE a == SubSeq(l, 1, k - 1)
           b == SubSeq(l, k + 1, Len(l))
<1>0. Len(l) \in Nat /\ k \in Int /\ 1 <= k /\ k <= Len(l)
  BY LenProperties
<1>1. \A i \in 1..Len(l) : l[i] \in S
  BY ElementOfSeq
<1>2. /\ a \in Seq(S) /\ Len(a) = k - 1
      /\ \A i \in 1..(k - 1) : a[i] = l[i]
  <2>1. \A i \in 1..(k - 1) : l[i] \in S
    BY <1>0, <1>1
  <2>2. /\ a \in Seq(S)
        /\ Len(a) = IF 1 <= k - 1 THEN k - 1 - 1 + 1 ELSE 0
        /\ \A i \in 1..(k - 1 - 1 + 1) : a[i] = l[1 + i - 1]
    BY <1>0, <2>1, SubSeqProperties
  <2> QED BY <1>0, <2>2
<1>3. /\ b \in Seq(S) /\ Len(b) = Len(l) - k
      /\ \A i \in 1..(Len(l) - k) : b[i] = l[k + i]
  <2>1. \A i \in (k + 1)..Len(l) : l[i] \in S
    BY <1>0, <1>1
  <2>2. /\ b \in Seq(S)
        /\ Len(b) = IF k + 1 <= Len(l) THEN Len(l) - (k + 1) + 1 ELSE 0
        /\ \A i \in 1..(Len(l) - (k + 1) + 1) : b[i] = l[k + 1 + i - 1]
    BY <1>0, <2>1, SubSeqProperties
  <2> QED BY <1>0, <2>2
<1>4. RemoveAt(l, k) = a \o b
  BY DEF RemoveAt
<1> HIDE DEF a, b
<1>5. /\ a \o b \in Seq(S)
      /\ Len(a \o b) = Len(a) + Len(b)
      /\ \A i \in 1..(Len(a) + Len(b)) :
           (a \o b)[i] = IF i <= Len(a) THEN a[i] ELSE b[i - Len(a)]
  BY <1>2, <1>3, ConcatProperties
<1> QED BY <1>0, <1>2, <1>3, <1>4, <1>5

\* Putting one in shifts those from its place on.
LEMMA InsertAtShifts ==
  ASSUME NEW S, NEW l \in Seq(S), NEW k \in 1..(Len(l) + 1), NEW e \in S
  PROVE  /\ InsertAt(l, k, e) \in Seq(S)
         /\ Len(InsertAt(l, k, e)) = Len(l) + 1
         /\ \A j \in 1..(Len(l) + 1) :
              InsertAt(l, k, e)[j] = IF j < k THEN l[j]
                                     ELSE IF j = k THEN e ELSE l[j - 1]
<1> DEFINE a == SubSeq(l, 1, k - 1)
           c == a \o <<e>>
           b == SubSeq(l, k, Len(l))
<1>0. Len(l) \in Nat /\ k \in Int /\ 1 <= k /\ k <= Len(l) + 1
  BY LenProperties
<1>1. \A i \in 1..Len(l) : l[i] \in S
  BY ElementOfSeq
<1>2. /\ a \in Seq(S) /\ Len(a) = k - 1
      /\ \A i \in 1..(k - 1) : a[i] = l[i]
  <2>1. \A i \in 1..(k - 1) : l[i] \in S
    BY <1>0, <1>1
  <2>2. /\ a \in Seq(S)
        /\ Len(a) = IF 1 <= k - 1 THEN k - 1 - 1 + 1 ELSE 0
        /\ \A i \in 1..(k - 1 - 1 + 1) : a[i] = l[1 + i - 1]
    BY <1>0, <2>1, SubSeqProperties
  <2> QED BY <1>0, <2>2
<1>3. /\ b \in Seq(S) /\ Len(b) = Len(l) - k + 1
      /\ \A i \in 1..(Len(l) - k + 1) : b[i] = l[k + i - 1]
  <2>1. \A i \in k..Len(l) : l[i] \in S
    BY <1>0, <1>1
  <2>2. /\ b \in Seq(S)
        /\ Len(b) = IF k <= Len(l) THEN Len(l) - k + 1 ELSE 0
        /\ \A i \in 1..(Len(l) - k + 1) : b[i] = l[k + i - 1]
    BY <1>0, <2>1, SubSeqProperties
  <2> QED BY <1>0, <2>2
<1>4. InsertAt(l, k, e) = c \o b
  BY DEF InsertAt
<1>5. <<e>> \in Seq(S) /\ Len(<<e>>) = 1 /\ <<e>>[1] = e
  OBVIOUS
<1> HIDE DEF a, b
<1>6. /\ c \in Seq(S)
      /\ Len(c) = Len(a) + Len(<<e>>)
      /\ \A i \in 1..(Len(a) + Len(<<e>>)) :
           c[i] = IF i <= Len(a) THEN a[i] ELSE <<e>>[i - Len(a)]
  BY <1>2, <1>5, ConcatProperties
<1> HIDE DEF c
<1>7. /\ Len(c) = k
      /\ \A i \in 1..k : c[i] = IF i < k THEN l[i] ELSE e
  BY <1>0, <1>2, <1>5, <1>6
<1>8. /\ c \o b \in Seq(S)
      /\ Len(c \o b) = Len(c) + Len(b)
      /\ \A i \in 1..(Len(c) + Len(b)) :
           (c \o b)[i] = IF i <= Len(c) THEN c[i] ELSE b[i - Len(c)]
  <2>1. c \in Seq(S) /\ b \in Seq(S)
    BY <1>3, <1>6
  <2> QED BY <2>1, ConcatProperties
<1>9. \A j \in 1..(Len(l) + 1) :
        (c \o b)[j] = IF j < k THEN l[j] ELSE IF j = k THEN e ELSE l[j - 1]
  <2> SUFFICES ASSUME NEW j \in 1..(Len(l) + 1)
               PROVE  (c \o b)[j] = IF j < k THEN l[j]
                                    ELSE IF j = k THEN e ELSE l[j - 1]
    OBVIOUS
  <2>0. j \in Int /\ (j <= k \/ j > k)
    BY <1>0
  <2>1. (c \o b)[j] = IF j <= k THEN c[j] ELSE b[j - k]
    <3>1. j \in 1..(Len(c) + Len(b))
      BY <1>0, <1>3, <1>7
    <3> QED BY <1>7, <1>8, <3>1
  <2>2. CASE j <= k
    <3>1. j \in 1..k
      BY <1>0, <2>2
    <3>2. c[j] = IF j < k THEN l[j] ELSE e
      BY <1>7, <3>1
    <3> QED BY <1>0, <2>1, <2>2, <3>2
  <2>3. CASE j > k
    <3>1. j - k \in 1..(Len(l) - k + 1) /\ k + (j - k) - 1 = j - 1
      BY <1>0, <2>3
    <3>2. b[j - k] = l[j - 1]
      BY <1>3, <3>1
    <3> QED BY <1>0, <2>1, <2>3, <3>2
  <2> QED BY <2>0, <2>2, <2>3
<1> QED BY <1>0, <1>3, <1>4, <1>7, <1>8, <1>9

\* A list that names an item once still does with one less.
LEMMA RemoveAtInjective ==
  ASSUME NEW S, NEW l \in Seq(S), IsInjective(l), NEW k \in 1..Len(l)
  PROVE  /\ IsInjective(RemoveAt(l, k))
         /\ \A j \in 1..Len(RemoveAt(l, k)) : RemoveAt(l, k)[j] # l[k]
<1> DEFINE r == RemoveAt(l, k)
<1>0. Len(l) \in Nat /\ k \in Int /\ 1 <= k /\ k <= Len(l)
  BY LenProperties
<1>1. /\ r \in Seq(S)
      /\ Len(r) = Len(l) - 1
      /\ \A j \in 1..(Len(l) - 1) : r[j] = IF j < k THEN l[j] ELSE l[j + 1]
  BY RemoveAtShifts
<1> HIDE DEF r
<1>2. DOMAIN l = 1..Len(l) /\ DOMAIN r = 1..(Len(l) - 1)
  BY <1>1, LenProperties
<1>3. \A i, j \in 1..Len(l) : l[i] = l[j] => i = j
  BY <1>2 DEF IsInjective
<1>4. ASSUME NEW i \in 1..(Len(l) - 1), NEW j \in 1..(Len(l) - 1), r[i] = r[j]
      PROVE  i = j
  BY <1>0, <1>1, <1>3, <1>4
<1>5. ASSUME NEW j \in 1..(Len(l) - 1) PROVE r[j] # l[k]
  BY <1>0, <1>1, <1>3
<1>6. IsInjective(r)
  BY <1>2, <1>4 DEF IsInjective
<1> QED BY <1>1, <1>5, <1>6 DEF r

\* ... and with one more that it did not name.
LEMMA InsertAtInjective ==
  ASSUME NEW S, NEW l \in Seq(S), IsInjective(l), NEW k \in 1..(Len(l) + 1),
         NEW e \in S, \A j \in 1..Len(l) : l[j] # e
  PROVE  IsInjective(InsertAt(l, k, e))
<1> DEFINE r == InsertAt(l, k, e)
<1>0. Len(l) \in Nat /\ k \in Int /\ 1 <= k /\ k <= Len(l) + 1
  BY LenProperties
<1>1. /\ r \in Seq(S)
      /\ Len(r) = Len(l) + 1
      /\ \A j \in 1..(Len(l) + 1) :
           r[j] = IF j < k THEN l[j] ELSE IF j = k THEN e ELSE l[j - 1]
  BY InsertAtShifts
<1> HIDE DEF r
<1>2. DOMAIN l = 1..Len(l) /\ DOMAIN r = 1..(Len(l) + 1)
  BY <1>1, LenProperties
<1>3. \A i, j \in 1..Len(l) : l[i] = l[j] => i = j
  BY <1>2 DEF IsInjective
<1>4. ASSUME NEW i \in 1..(Len(l) + 1), NEW j \in 1..(Len(l) + 1), i < j
      PROVE  r[i] # r[j]
  <2>1. CASE j < k
    <3>1. r[i] = l[i] /\ r[j] = l[j] /\ i \in 1..Len(l) /\ j \in 1..Len(l)
      BY <1>0, <1>1, <1>4, <2>1
    <3> QED BY <1>3, <1>4, <3>1
  <2>2. CASE j = k
    <3>1. r[i] = l[i] /\ r[j] = e /\ i \in 1..Len(l)
      BY <1>0, <1>1, <1>4, <2>2
    <3> QED BY <3>1
  <2>3. CASE j > k /\ i < k
    <3>1. /\ r[i] = l[i] /\ r[j] = l[j - 1]
          /\ i \in 1..Len(l) /\ j - 1 \in 1..Len(l) /\ i # j - 1
      BY <1>0, <1>1, <1>4, <2>3
    <3> QED BY <1>3, <3>1
  <2>4. CASE j > k /\ i = k
    <3>1. r[i] = e /\ r[j] = l[j - 1] /\ j - 1 \in 1..Len(l)
      BY <1>0, <1>1, <1>4, <2>4
    <3> QED BY <3>1
  <2>5. CASE j > k /\ i > k
    <3>1. /\ r[i] = l[i - 1] /\ r[j] = l[j - 1]
          /\ i - 1 \in 1..Len(l) /\ j - 1 \in 1..Len(l) /\ i - 1 # j - 1
      BY <1>0, <1>1, <1>4, <2>5
    <3> QED BY <1>3, <3>1
  <2> QED BY <1>0, <2>1, <2>2, <2>3, <2>4, <2>5
<1>5. \A i, j \in 1..(Len(l) + 1) : r[i] = r[j] => i = j
  BY <1>0, <1>4
<1> QED BY <1>2, <1>5 DEF IsInjective, r

\* Moving an item keeps the list's length and its items apart.
LEMMA MovedKeeps ==
  ASSUME list \in Seq(Item), IsInjective(list),
         NEW from \in 0..(Len(list) - 1), NEW to \in 0..(Len(list) - 1)
  PROVE  /\ Moved(from, to) \in Seq(Item)
         /\ Len(Moved(from, to)) = Len(list)
         /\ IsInjective(Moved(from, to))
         /\ \A j \in 1..Len(list) :
              \E m \in 1..Len(list) : Moved(from, to)[j] = list[m]
<1> DEFINE l == RemoveAt(list, from + 1)
           e == list[from + 1]
<1>0. Len(list) \in Nat /\ from + 1 \in 1..Len(list)
  BY LenProperties
<1>1. e \in Item
  BY <1>0, ElementOfSeq
<1>2. /\ l \in Seq(Item)
      /\ Len(l) = Len(list) - 1
      /\ \A j \in 1..(Len(list) - 1) :
           l[j] = IF j < from + 1 THEN list[j] ELSE list[j + 1]
  BY <1>0, RemoveAtShifts
<1>3. IsInjective(l) /\ \A j \in 1..Len(l) : l[j] # e
  BY <1>0, RemoveAtInjective
<1>4. Moved(from, to) = InsertAt(l, to + 1, e)
  BY DEF Moved
<1> HIDE DEF l, e
<1>5. to + 1 \in 1..(Len(l) + 1)
  BY <1>0, <1>2
<1>6. /\ InsertAt(l, to + 1, e) \in Seq(Item)
      /\ Len(InsertAt(l, to + 1, e)) = Len(l) + 1
      /\ \A j \in 1..(Len(l) + 1) :
           InsertAt(l, to + 1, e)[j] = IF j < to + 1 THEN l[j]
                                       ELSE IF j = to + 1 THEN e ELSE l[j - 1]
  BY <1>1, <1>2, <1>5, InsertAtShifts
<1>7. IsInjective(InsertAt(l, to + 1, e))
  BY <1>1, <1>2, <1>3, <1>5, InsertAtInjective
<1>8. ASSUME NEW j \in 1..Len(list)
      PROVE  \E m \in 1..Len(list) : InsertAt(l, to + 1, e)[j] = list[m]
  <2>1. \A n \in 1..(Len(list) - 1) : \E m \in 1..Len(list) : l[n] = list[m]
    <3> SUFFICES ASSUME NEW n \in 1..(Len(list) - 1)
                 PROVE  \E m \in 1..Len(list) : l[n] = list[m]
      OBVIOUS
    <3>1. CASE n < from + 1
      BY <1>0, <1>2, <3>1
    <3>2. CASE ~(n < from + 1)
      <4>1. l[n] = list[n + 1] /\ n + 1 \in 1..Len(list)
        BY <1>0, <1>2, <3>2
      <4> QED BY <4>1
    <3> QED BY <3>1, <3>2
  <2>2. CASE j < to + 1
    <3>1. j \in 1..(Len(list) - 1) /\ InsertAt(l, to + 1, e)[j] = l[j]
      BY <1>0, <1>2, <1>6, <2>2
    <3> QED BY <2>1, <3>1
  <2>3. CASE j = to + 1
    <3>1. InsertAt(l, to + 1, e)[j] = list[from + 1]
      BY <1>0, <1>2, <1>6, <2>3 DEF e
    <3> QED BY <1>0, <3>1
  <2>4. CASE j > to + 1
    <3>1. j - 1 \in 1..(Len(list) - 1) /\ InsertAt(l, to + 1, e)[j] = l[j - 1]
      BY <1>0, <1>2, <1>6, <2>4
    <3> QED BY <2>1, <3>1
  <2> QED BY <2>2, <2>3, <2>4
<1> QED BY <1>0, <1>2, <1>4, <1>6, <1>7, <1>8

-----------------------------------------------------------------------------
(* The timeline.                                                           *)

\* The playhead is a natural number whatever the clock of who computes it.
LEMMA PlayheadType ==
  ASSUME NEW p \in PlaybackState, NEW t \in Nat
  PROVE  resolveCurrentTimelineMs(p, t) \in Nat
<1>1. p.anchor \in Nat /\ p.clock \in Nat /\ p.rate \in Nat
  BY PlaybackAssumption DEF PlaybackState
<1>2. CASE p.paused \/ t <= p.clock
  BY <1>1, <1>2 DEF resolveCurrentTimelineMs
<1>3. CASE ~(p.paused \/ t <= p.clock)
  <2>1. t - p.clock \in Nat
    BY <1>1, <1>3
  <2>2. \A x, y \in Nat : x * y \in Nat
    OBVIOUS
  <2>3. (t - p.clock) * p.rate \in Nat
    BY <1>1, <2>1, <2>2
  <2> QED BY <1>1, <1>3, <2>3 DEF resolveCurrentTimelineMs
<1> QED BY <1>2, <1>3

\* A new stamp is later than the one it replaces and not before the clock.
LEMMA StampLater ==
  ASSUME NEW p \in PlaybackState, NEW t \in Nat
  PROVE  /\ Stamped(p, t) \in PlaybackState
         /\ Stamped(p, t).clock > p.clock
         /\ Stamped(p, t).media = p.media
         /\ Stamped(p, t).paused = p.paused
         /\ Stamped(p, t).anchor = p.anchor
         /\ Stamped(p, t).rate = p.rate
<1>1. p.clock \in Nat
  BY DEF PlaybackState
<1>2. nextMonotonicMs(p.clock, t) \in Nat /\ nextMonotonicMs(p.clock, t) > p.clock
  BY <1>1 DEF nextMonotonicMs
<1> DEFINE c == nextMonotonicMs(p.clock, t)
<1>3. Stamped(p, t) = [p EXCEPT !.clock = c]
  BY DEF Stamped
<1> HIDE DEF c
<1>4. c \in Nat /\ c > p.clock
  BY <1>2 DEF c
<1> QED BY <1>3, <1>4 DEF PlaybackState

\* Both ways to stamp a switch or a toggle give a timeline.
LEMMA AnchoredTypes ==
  ASSUME NEW p \in PlaybackState, NEW t \in Nat
  PROVE  /\ reanchorPlaybackAtNow(p, t) \in PlaybackState
         /\ reanchorPlaybackAtNow(p, t).clock > p.clock
         /\ resetPlaybackTimeline(p, t) \in PlaybackState
         /\ resetPlaybackTimeline(p, t).clock > p.clock
<1> DEFINE q == Stamped(p, t)
           x == resolveCurrentTimelineMs(p, t)
<1>1. q \in PlaybackState /\ q.clock > p.clock
  BY StampLater
<1>2. x \in Nat
  BY PlayheadType
<1>3. /\ reanchorPlaybackAtNow(p, t) = [q EXCEPT !.anchor = x]
      /\ resetPlaybackTimeline(p, t) = [q EXCEPT !.anchor = 0]
  BY DEF reanchorPlaybackAtNow, resetPlaybackTimeline
<1> HIDE DEF q, x
<1> QED BY <1>1, <1>2, <1>3 DEF PlaybackState

-----------------------------------------------------------------------------
(* The invariant.  MediaIsCurrent alone is not inductive: that a new item  *)
(* is not in the list yet follows from its id never having been given out. *)

PlaybackInv ==
    /\ TypeOK
    /\ MediaIsCurrent
    /\ \A j \in 1..Len(list) : list[j] \in used

\* A commit of a list without repetition restores the index and the mark.
LEMMA CommitKeeps ==
  ASSUME TypeOK, NEW l \in Seq(Item), IsInjective(l), NEW k \in Nat,
         NEW p \in PlaybackState, Commit(l, k, p)
  PROVE  /\ list' = l
         /\ list' \in Seq(Item)
         /\ index' \in Nat
         /\ pb' \in PlaybackState
         /\ now' \in Nat
         /\ MediaIsCurrent'
<1>1. /\ list' = l
      /\ index' = IF k < Len(l) THEN k ELSE IF l = <<>> THEN 0 ELSE Len(l) - 1
      /\ pb' = [p EXCEPT !.media = MediaAt(l, index')]
      /\ now' = now
  BY DEF Commit
<1>2. Len(l) \in Nat /\ (l # <<>> => Len(l) > 0) /\ (l = <<>> => Len(l) = 0)
  BY LenProperties, EmptySeq
<1>3. index' \in Nat /\ (IF l = <<>> THEN index' = 0 ELSE index' < Len(l))
  BY <1>1, <1>2
<1>4. MediaAt(l, index') \in Item \cup {NoItem}
  <2>1. CASE index' < Len(l)
    <3>1. index' + 1 \in 1..Len(l)
      <4>1. ASSUME NEW n \in Nat, n < Len(l) PROVE n + 1 \in 1..Len(l)
        BY <1>2, <4>1
      <4>2. index' \in Nat
        BY <1>3
      <4> QED BY <2>1, <4>1, <4>2
    <3> QED BY <2>1, <3>1, ElementOfSeq DEF MediaAt
  <2>2. CASE ~(index' < Len(l))
    BY <2>2 DEF MediaAt
  <2> QED BY <2>1, <2>2
<1> DEFINE m == MediaAt(l, index')
<1>5. pb' = [p EXCEPT !.media = m] /\ m \in Item \cup {NoItem}
  BY <1>1, <1>4
<1>6. m = Current'
  BY <1>1 DEF Current
<1> HIDE DEF m
<1>7. pb' \in PlaybackState /\ pb'.media = m
  BY <1>5 DEF PlaybackState
<1>8. now' \in Nat
  BY <1>1 DEF TypeOK
<1>9. MediaIsCurrent'
  BY <1>1, <1>3, <1>6, <1>7 DEF MediaIsCurrent
<1> QED BY <1>1, <1>3, <1>7, <1>8, <1>9

\* A mutation that keeps the list and gives pb a timeline keeps the invariant.
LEMMA SameListKeeps ==
  ASSUME PlaybackInv, NEW k \in Nat, NEW p \in PlaybackState,
         Commit(list, k, p), status' \in [Item -> Status],
         blocked' \subseteq LocalItem, used' = used
  PROVE  PlaybackInv'
<1>1. TypeOK /\ list \in Seq(Item) /\ IsInjective(list) /\ used \subseteq Item
  BY DEF PlaybackInv, TypeOK, MediaIsCurrent
<1>2. /\ list' = list /\ list' \in Seq(Item) /\ index' \in Nat
      /\ pb' \in PlaybackState /\ now' \in Nat /\ MediaIsCurrent'
  BY <1>1, CommitKeeps
<1>3. TypeOK'
  BY <1>1, <1>2 DEF TypeOK
<1>4. \A j \in 1..Len(list') : list'[j] \in used'
  BY <1>2 DEF PlaybackInv
<1> QED BY <1>2, <1>3, <1>4 DEF PlaybackInv

\* A new item joins the list at its end.
LEMMA AddedKeeps ==
  ASSUME PlaybackInv, NEW i \in Item, NEW st \in Status, Added(i, st),
         NEW k \in Nat, NEW p \in PlaybackState,
         \/ Commit(Append(list, i), k, p)
         \/ list = <<>> /\ Commit(<<i>>, k, p)
  PROVE  PlaybackInv'
<1>1. TypeOK /\ list \in Seq(Item) /\ IsInjective(list) /\ used \subseteq Item
  BY DEF PlaybackInv, TypeOK, MediaIsCurrent
<1>2. i \notin used /\ used' = used \cup {i} /\ blocked' = blocked
  BY DEF Added
<1>3. status' \in [Item -> Status]
  BY <1>1 DEF Added, TypeOK
<1> DEFINE l == Append(list, i)
<1>4. Len(list) \in Nat /\ DOMAIN list = 1..Len(list)
  BY <1>1, LenProperties
<1>5. /\ l \in Seq(Item)
      /\ Len(l) = Len(list) + 1
      /\ \A j \in 1..Len(list) : l[j] = list[j]
      /\ l[Len(list) + 1] = i
  BY <1>1, AppendProperties
<1>6. Commit(l, k, p)
  <2>1. list = <<>> => l = <<i>>
    OBVIOUS
  <2> QED BY <2>1
<1> HIDE DEF l
<1>7. \A j \in 1..Len(list) : list[j] \in used
  BY DEF PlaybackInv
<1>8. IsInjective(l)
  <2>1. DOMAIN l = 1..(Len(list) + 1)
    BY <1>5, LenProperties
  <2>2. \A a, b \in 1..Len(list) : list[a] = list[b] => a = b
    BY <1>1, <1>4 DEF IsInjective
  <2>3. ASSUME NEW a \in 1..(Len(list) + 1), NEW b \in 1..(Len(list) + 1),
               l[a] = l[b]
        PROVE  a = b
    <3>1. CASE a \in 1..Len(list) /\ b \in 1..Len(list)
      <4>1. list[a] = list[b]
        BY <1>5, <2>3, <3>1
      <4> QED BY <2>2, <3>1, <4>1
    <3>2. CASE a \in 1..Len(list) /\ b = Len(list) + 1
      BY <1>2, <1>5, <1>7, <2>3, <3>2
    <3>3. CASE a = Len(list) + 1 /\ b \in 1..Len(list)
      BY <1>2, <1>5, <1>7, <2>3, <3>3
    <3>4. CASE a = Len(list) + 1 /\ b = Len(list) + 1
      BY <3>4
    <3> QED BY <1>4, <3>1, <3>2, <3>3, <3>4
  <2> QED BY <2>1, <2>3 DEF IsInjective
<1>9. /\ list' = l /\ list' \in Seq(Item) /\ index' \in Nat
      /\ pb' \in PlaybackState /\ now' \in Nat /\ MediaIsCurrent'
  BY <1>1, <1>5, <1>6, <1>8, CommitKeeps
<1>10. TypeOK'
  <2>1. used' \subseteq Item /\ blocked' \subseteq LocalItem
    BY <1>1, <1>2 DEF TypeOK
  <2> QED BY <1>3, <1>9, <2>1 DEF TypeOK
<1>11. \A j \in 1..Len(list') : list'[j] \in used'
  <2>1. \A j \in 1..(Len(list) + 1) : l[j] \in used'
    BY <1>2, <1>4, <1>5, <1>7
  <2> QED BY <1>5, <1>9, <2>1
<1> QED BY <1>9, <1>10, <1>11 DEF PlaybackInv

\* The room the first join creates satisfies the invariant.
LEMMA InitInv == Init => PlaybackInv
<1> SUFFICES ASSUME Init PROVE PlaybackInv
  OBVIOUS
<1>1. list \in Seq(Item)
  <2>1. ASSUME NEW i \in Item PROVE <<i>> \in Seq(Item)
    OBVIOUS
  <2>2. ASSUME NEW i \in Item, NEW j \in Item PROVE <<i, j>> \in Seq(Item)
    OBVIOUS
  <2>3. \/ list = <<>>
        \/ \E i \in Item : list = <<i>>
        \/ \E i, j \in Item : list = <<i, j>>
    BY DEF Init
  <2> QED BY <2>1, <2>2, <2>3, EmptySeq
<1>2. Len(list) \in Nat /\ DOMAIN list = 1..Len(list)
      /\ (list # <<>> => Len(list) > 0) /\ (list = <<>> => Len(list) = 0)
  BY <1>1, LenProperties, EmptySeq
<1>3. \A j \in 1..Len(list) : list[j] \in used
  BY <1>2 DEF Init, ToSet
<1>4. used \subseteq Item
  <2>1. used = {list[j] : j \in 1..Len(list)}
    BY <1>2 DEF Init, ToSet
  <2>2. \A j \in 1..Len(list) : list[j] \in Item
    BY <1>1, ElementOfSeq
  <2> QED BY <2>1, <2>2
<1>5. Current \in Item \cup {NoItem}
  <2>1. CASE index < Len(list)
    <3>1. index + 1 \in 1..Len(list)
      BY <1>2, <2>1 DEF Init
    <3> QED BY <1>1, <2>1, <3>1, ElementOfSeq DEF Current, MediaAt
  <2>2. CASE ~(index < Len(list))
    BY <2>2 DEF Current, MediaAt
  <2> QED BY <2>1, <2>2
<1>6. pb \in PlaybackState /\ pb.media = Current
  <2>1. PICK t \in Reading :
          pb = [paused |-> list = <<>>, rate |-> 1, anchor |-> 0, clock |-> t,
                media |-> Current]
    BY DEF Init
  <2>2. t \in Nat
    BY PlaybackAssumption DEF Init, Reading
  <2>3. 1 \in Rate
    BY PlaybackAssumption
  <2> QED BY <1>5, <2>1, <2>2, <2>3 DEF PlaybackState
<1>7. TypeOK
  BY <1>1, <1>4, <1>6 DEF TypeOK, Init, Status
<1>8. MediaIsCurrent
  BY <1>2, <1>6 DEF MediaIsCurrent, Init
<1> QED BY <1>3, <1>7, <1>8 DEF PlaybackInv

\* A clock reading is a natural number.
LEMMA ReadingNat == TypeOK => Reading \subseteq Nat
BY PlaybackAssumption DEF TypeOK, Reading

\* Changing pause, rate or anchor of a timeline leaves a timeline.
LEMMA FieldTypes ==
  ASSUME NEW p \in PlaybackState
  PROVE  /\ \A b \in BOOLEAN : [p EXCEPT !.paused = b] \in PlaybackState
         /\ \A r \in Rate : [p EXCEPT !.rate = r] \in PlaybackState
         /\ \A a \in Nat : [p EXCEPT !.anchor = a] \in PlaybackState
BY DEF PlaybackState

\* playback:* messages.
LEMMA PlaybackMessagesKeep ==
  ASSUME PlaybackInv, NEW t \in Reading,
         \/ \E p \in Position : Seek(p, t)
         \/ \E b \in BOOLEAN : SetPaused(b, t)
         \/ \E r \in Rate : SetRate(r, t)
  PROVE  PlaybackInv'
<1>1. /\ t \in Nat /\ index \in Nat /\ pb \in PlaybackState
      /\ status \in [Item -> Status] /\ blocked \subseteq LocalItem
  BY ReadingNat DEF PlaybackInv, TypeOK
<1>2. ASSUME NEW p \in Position, Seek(p, t) PROVE PlaybackInv'
  <2> DEFINE q == [Stamped(pb, t) EXCEPT !.anchor = p]
  <2>1. q \in PlaybackState
    BY <1>1, StampLater, FieldTypes, PlaybackAssumption
  <2>2. /\ Commit(list, index, q) /\ status' = status
        /\ blocked' = blocked /\ used' = used
    BY <1>2 DEF Seek
  <2> HIDE DEF q
  <2> QED BY <1>1, <2>1, <2>2, SameListKeeps
<1>3. ASSUME NEW b \in BOOLEAN, SetPaused(b, t) PROVE PlaybackInv'
  <2> DEFINE q == [reanchorPlaybackAtNow(pb, t) EXCEPT !.paused = b]
  <2>1. q \in PlaybackState
    BY <1>1, AnchoredTypes, FieldTypes
  <2>2. /\ Commit(list, index, q) /\ status' = status
        /\ blocked' = blocked /\ used' = used
    BY <1>3 DEF SetPaused
  <2> HIDE DEF q
  <2> QED BY <1>1, <2>1, <2>2, SameListKeeps
<1>4. ASSUME NEW r \in Rate, SetRate(r, t) PROVE PlaybackInv'
  <2> DEFINE q == [reanchorPlaybackAtNow(pb, t) EXCEPT !.rate = r]
  <2>1. q \in PlaybackState
    BY <1>1, AnchoredTypes, FieldTypes
  <2>2. /\ Commit(list, index, q) /\ status' = status
        /\ blocked' = blocked /\ used' = used
    BY <1>4 DEF SetRate
  <2> HIDE DEF q
  <2> QED BY <1>1, <2>1, <2>2, SameListKeeps
<1> QED BY <1>2, <1>3, <1>4

\* Selecting an item, and failures that may select the next.
LEMMA SelectionsKeep ==
  ASSUME PlaybackInv, NEW t \in Reading, NEW k \in Places,
         Select(k, t) \/ ItemError(k, t)
  PROVE  PlaybackInv'
<1>1. /\ t \in Nat /\ index \in Nat /\ pb \in PlaybackState /\ list \in Seq(Item)
      /\ status \in [Item -> Status] /\ blocked \subseteq LocalItem
  BY ReadingNat DEF PlaybackInv, TypeOK
<1>2. k \in Nat /\ k + 1 \in Nat
  BY DEF Places
<1>3. resetPlaybackTimeline(pb, t) \in PlaybackState
  BY <1>1, AnchoredTypes
<1>4. CASE Select(k, t)
  <2>1. /\ Commit(list, k, resetPlaybackTimeline(pb, t)) /\ status' = status
        /\ blocked' = blocked /\ used' = used
    BY <1>4 DEF Select
  <2> QED BY <1>1, <1>2, <1>3, <2>1, SameListKeeps
<1>5. CASE ItemError(k, t)
  <2>1. /\ status' \in [Item -> Status] /\ blocked' = blocked /\ used' = used
    BY <1>1, <1>5 DEF ItemError, Status
  <2>2. \/ Commit(list, k + 1, resetPlaybackTimeline(pb, t))
        \/ Commit(list, index, pb)
    BY <1>5 DEF ItemError
  <2> QED BY <1>1, <1>2, <1>3, <2>1, <2>2, SameListKeeps
<1> QED BY <1>4, <1>5

\* Mutations that only settle, clear or request the status of an item.
LEMMA StatusKeep ==
  ASSUME PlaybackInv, NEW i \in Item,
         \/ ItemErrorCleared(i) \/ LocalMediaReady(i) \/ Reresolve(i)
         \/ \E outcome \in {"ready", "error"} : Resolved(i, outcome)
  PROVE  PlaybackInv'
<1>1. /\ index \in Nat /\ pb \in PlaybackState /\ TypeOK
      /\ status \in [Item -> Status] /\ blocked \subseteq LocalItem
  BY DEF PlaybackInv, TypeOK
<1>2. CASE ItemErrorCleared(i) \/ LocalMediaReady(i)
  <2>1. /\ status' \in [Item -> Status] /\ blocked' \subseteq LocalItem
        /\ used' = used
    BY <1>1, <1>2 DEF ItemErrorCleared, LocalMediaReady, Status
  <2>2. Commit(list, index, pb)
    BY <1>2 DEF ItemErrorCleared, LocalMediaReady
  <2> QED BY <1>1, <2>1, <2>2, SameListKeeps
<1>3. CASE Reresolve(i) \/ \E outcome \in {"ready", "error"} : Resolved(i, outcome)
  <2>1. /\ status' \in [Item -> Status]
        /\ UNCHANGED <<list, index, blocked, used, pb, now>>
    BY <1>1, <1>3 DEF Reresolve, Resolved, Status
  <2>2. TypeOK'
    BY <1>1, <2>1 DEF TypeOK
  <2>3. MediaIsCurrent'
    BY <2>1 DEF PlaybackInv, MediaIsCurrent, Current
  <2> QED BY <2>1, <2>2, <2>3 DEF PlaybackInv
<1> QED BY <1>2, <1>3

\* Additions.
LEMMA AdditionsKeep ==
  ASSUME PlaybackInv, NEW i \in Item, AddUrl(i) \/ AddLocal(i)
  PROVE  PlaybackInv'
<1>1. index \in Nat /\ pb \in PlaybackState
  BY DEF PlaybackInv, TypeOK
<1>2. CASE AddUrl(i)
  <2>1. Added(i, "resolving") /\ Commit(Append(list, i), index, pb)
    BY <1>2 DEF AddUrl
  <2>2. "resolving" \in Status
    BY DEF Status
  <2> QED BY <1>1, <2>1, <2>2, AddedKeeps
<1>3. CASE AddLocal(i)
  <2>1. Added(i, "ready") /\ "ready" \in Status
    BY <1>3 DEF AddLocal, Status
  <2>2. CASE list = <<>>
    <3> DEFINE q == [pb EXCEPT !.paused = FALSE]
    <3>1. q \in PlaybackState
      BY <1>1, FieldTypes
    <3>2. Commit(<<i>>, 0, q)
      BY <1>3, <2>2 DEF AddLocal
    <3> HIDE DEF q
    <3> QED BY <2>1, <2>2, <3>1, <3>2, AddedKeeps
  <2>3. CASE list # <<>>
    <3>1. Commit(Append(list, i), index, pb)
      BY <1>3, <2>3 DEF AddLocal
    <3> QED BY <1>1, <2>1, <3>1, AddedKeeps
  <2> QED BY <2>2, <2>3
<1> QED BY <1>2, <1>3

\* Removals.
LEMMA RemovalsKeep ==
  ASSUME PlaybackInv, NEW t \in Reading, NEW k \in Places, RemoveItem(k, t)
  PROVE  PlaybackInv'
<1> DEFINE l == RemoveAt(list, k + 1)
           i == list[k + 1]
<1>1. /\ TypeOK /\ t \in Nat /\ index \in Nat /\ pb \in PlaybackState
      /\ list \in Seq(Item) /\ IsInjective(list) /\ used \subseteq Item
      /\ status \in [Item -> Status] /\ blocked \subseteq LocalItem
  BY ReadingNat DEF PlaybackInv, TypeOK, MediaIsCurrent
<1>2. /\ k \in Nat /\ k < Len(list) /\ k + 1 \in 1..Len(list)
      /\ Len(list) \in Nat
  BY <1>1, LenProperties DEF Places
<1>3. i \in Item
  BY <1>1, <1>2, ElementOfSeq
<1>4. /\ l \in Seq(Item)
      /\ Len(l) = Len(list) - 1
      /\ \A j \in 1..(Len(list) - 1) :
           l[j] = IF j < k + 1 THEN list[j] ELSE list[j + 1]
  BY <1>1, <1>2, RemoveAtShifts
<1>5. IsInjective(l)
  BY <1>1, <1>2, RemoveAtInjective
<1>6. \E n \in Nat, p \in PlaybackState : Commit(l, n, p)
  <2> DEFINE q == resetPlaybackTimeline(pb, t)
  <2>1. q \in PlaybackState
    BY <1>1, AnchoredTypes
  <2>2. [q EXCEPT !.paused = TRUE] \in PlaybackState
    BY <2>1, FieldTypes
  <2> HIDE DEF q
  <2>3. CASE l = <<>>
    <3>1. Commit(l, 0, [q EXCEPT !.paused = TRUE])
      BY <2>3 DEF RemoveItem, q
    <3> QED BY <2>2, <3>1
  <2>4. CASE l # <<>> /\ k < index
    <3>1. Commit(l, index - 1, pb)
      BY <2>4 DEF RemoveItem
    <3>2. index - 1 \in Nat
      BY <1>1, <1>2, <2>4
    <3> QED BY <1>1, <3>1, <3>2
  <2>5. CASE l # <<>> /\ k = index
    <3> DEFINE n == IF k < Len(l) THEN k ELSE Len(l) - 1
    <3>1. Len(l) \in Nat /\ Len(l) > 0
      BY <1>4, <2>5, LenProperties, EmptySeq
    <3>2. n \in Nat
      BY <1>2, <3>1
    <3>3. Commit(l, n, q)
      <4>1. ~(k < index)
        BY <1>1, <2>5
      <4> QED BY <2>5, <4>1 DEF RemoveItem, q
    <3> HIDE DEF n
    <3> QED BY <2>1, <3>2, <3>3
  <2>6. CASE l # <<>> /\ k > index
    <3>1. ~(k < index) /\ k # index
      BY <1>1, <1>2, <2>6
    <3>2. Commit(l, index, pb)
      BY <2>6, <3>1 DEF RemoveItem
    <3> QED BY <1>1, <3>2
  <2> QED BY <1>1, <1>2, <2>3, <2>4, <2>5, <2>6
<1>7. /\ status' = [status EXCEPT ![i] = "none"]
      /\ blocked' = blocked \ {i} /\ used' = used
  BY DEF RemoveItem, Forgotten
<1> HIDE DEF l, i
<1>8. /\ list' = l /\ list' \in Seq(Item) /\ index' \in Nat
      /\ pb' \in PlaybackState /\ now' \in Nat /\ MediaIsCurrent'
  BY <1>1, <1>4, <1>5, <1>6, CommitKeeps
<1>9. status' \in [Item -> Status] /\ blocked' \subseteq LocalItem
  BY <1>1, <1>7 DEF Status
<1>10. TypeOK'
  BY <1>1, <1>7, <1>8, <1>9 DEF TypeOK
<1>11. \A j \in 1..Len(l) : l[j] \in used
  <2> SUFFICES ASSUME NEW j \in 1..Len(l) PROVE l[j] \in used
    OBVIOUS
  <2>1. \A m \in 1..Len(list) : list[m] \in used
    BY DEF PlaybackInv
  <2>2. CASE j < k + 1
    BY <1>2, <1>4, <2>1, <2>2
  <2>3. CASE ~(j < k + 1)
    <3>1. l[j] = list[j + 1] /\ j + 1 \in 1..Len(list)
      BY <1>2, <1>4, <2>3
    <3> QED BY <2>1, <3>1
  <2> QED BY <2>2, <2>3
<1> QED BY <1>7, <1>8, <1>10, <1>11 DEF PlaybackInv

\* Moves.
LEMMA MovesKeep ==
  ASSUME PlaybackInv, NEW from \in Places, NEW to \in Places, Reorder(from, to)
  PROVE  PlaybackInv'
<1> DEFINE l == Moved(from, to)
<1>1. /\ TypeOK /\ pb \in PlaybackState /\ list \in Seq(Item)
      /\ IsInjective(list) /\ Len(list) \in Nat
  BY LenProperties DEF PlaybackInv, TypeOK, MediaIsCurrent
<1>2. /\ l \in Seq(Item) /\ Len(l) = Len(list) /\ IsInjective(l)
      /\ \A j \in 1..Len(list) : \E m \in 1..Len(list) : l[j] = list[m]
  BY <1>1, MovedKeeps DEF Places
<1>3. PICK k \in 0..(Len(list) - 1) : Commit(l, k, pb)
  BY DEF Reorder
<1>4. k \in Nat
  BY <1>1, <1>3
<1>5. status' = status /\ blocked' = blocked /\ used' = used
  BY DEF Reorder
<1> HIDE DEF l
<1>6. /\ list' = l /\ list' \in Seq(Item) /\ index' \in Nat
      /\ pb' \in PlaybackState /\ now' \in Nat /\ MediaIsCurrent'
  BY <1>1, <1>2, <1>3, <1>4, CommitKeeps
<1>7. TypeOK'
  BY <1>1, <1>5, <1>6 DEF TypeOK
<1>8. \A j \in 1..Len(l) : l[j] \in used
  BY <1>2 DEF PlaybackInv
<1> QED BY <1>5, <1>6, <1>7, <1>8 DEF PlaybackInv

\* A participant goes offline and the files of that participant fail.
LEMMA OwnerOfflineKeeps ==
  ASSUME PlaybackInv, NEW t \in Reading, NEW u \in User, OwnerOffline(u, t)
  PROVE  PlaybackInv'
<1> DEFINE lost == {i \in (ToSet(list) \cap LocalItem) \ blocked : Sharer[i] = u}
           q == [Stamped(pb, t) EXCEPT !.paused = TRUE]
<1>1. /\ TypeOK /\ t \in Nat /\ pb \in PlaybackState
      /\ status \in [Item -> Status] /\ blocked \subseteq LocalItem
  BY ReadingNat DEF PlaybackInv, TypeOK
<1>2. status' \in [Item -> Status] /\ blocked' \subseteq LocalItem
  <2>1. /\ status' = [i \in Item |-> IF i \in lost THEN "error" ELSE status[i]]
        /\ blocked' = blocked \cup lost
    BY DEF OwnerOffline
  <2>2. lost \subseteq LocalItem
    OBVIOUS
  <2> HIDE DEF lost
  <2> QED BY <1>1, <2>1, <2>2 DEF Status
<1>3. q \in PlaybackState /\ q.media = pb.media
  <2> DEFINE st == Stamped(pb, t)
  <2>1. st \in PlaybackState /\ st.media = pb.media
    BY <1>1, StampLater
  <2> HIDE DEF st
  <2>2. q = [st EXCEPT !.paused = TRUE]
    BY DEF st
  <2> QED BY <2>1, <2>2 DEF PlaybackState
<1> HIDE DEF q
<1>4. pb' = q \/ pb' = pb
  BY DEF OwnerOffline, q
<1>5. UNCHANGED <<list, index, used, now>>
  BY DEF OwnerOffline
<1>6. pb' \in PlaybackState /\ pb'.media = pb.media
  BY <1>1, <1>3, <1>4
<1>7. TypeOK'
  BY <1>1, <1>2, <1>5, <1>6 DEF TypeOK
<1>8. MediaIsCurrent'
  BY <1>5, <1>6 DEF PlaybackInv, MediaIsCurrent, Current
<1> QED BY <1>5, <1>7, <1>8 DEF PlaybackInv

\* Every step keeps the invariant.
LEMMA StepInv == PlaybackInv /\ [Next]_vars => PlaybackInv'
<1> SUFFICES ASSUME PlaybackInv, [Next]_vars PROVE PlaybackInv'
  OBVIOUS
<1>1. CASE \E t \in Reading : \/ \E p \in Position : Seek(p, t)
                              \/ \E b \in BOOLEAN : SetPaused(b, t)
                              \/ \E r \in Rate : SetRate(r, t)
  BY <1>1, PlaybackMessagesKeep
<1>2. CASE \E t \in Reading, k \in Places : Select(k, t) \/ ItemError(k, t)
  BY <1>2, SelectionsKeep
<1>3. CASE \E t \in Reading, k \in Places : RemoveItem(k, t)
  BY <1>3, RemovalsKeep
<1>4. CASE \E t \in Reading, u \in User : OwnerOffline(u, t)
  BY <1>4, OwnerOfflineKeeps
<1>5. CASE \E i \in Item : AddUrl(i) \/ AddLocal(i)
  BY <1>5, AdditionsKeep
<1>6. CASE \E i \in Item :
             \/ ItemErrorCleared(i) \/ LocalMediaReady(i) \/ Reresolve(i)
             \/ \E outcome \in {"ready", "error"} : Resolved(i, outcome)
  BY <1>6, StatusKeep
<1>7. CASE \E from \in Places, to \in Places : Reorder(from, to)
  BY <1>7, MovesKeep
<1>8. CASE Tick
  <2>1. TypeOK'
    BY <1>8 DEF PlaybackInv, TypeOK, Tick, items
  <2>2. MediaIsCurrent'
    BY <1>8 DEF PlaybackInv, MediaIsCurrent, Current, Tick, items
  <2> QED BY <1>8, <2>1, <2>2 DEF PlaybackInv, Tick, items
<1>9. CASE UNCHANGED vars
  <2>1. TypeOK'
    BY <1>9 DEF PlaybackInv, TypeOK, vars, items
  <2>2. MediaIsCurrent'
    BY <1>9 DEF PlaybackInv, MediaIsCurrent, Current, vars, items
  <2> QED BY <1>9, <2>1, <2>2 DEF PlaybackInv, vars, items
<1> QED BY <1>1, <1>2, <1>3, <1>4, <1>5, <1>6, <1>7, <1>8, <1>9 DEF Next

\* The document keeps its shape.
THEOREM PlaybackTypes == Spec => []TypeOK
<1>1. PlaybackInv => TypeOK
  BY DEF PlaybackInv
<1> QED BY InitInv, StepInv, <1>1, PTL DEF Spec

\* However items are added, moved, removed and fail, the index stays in the
\* list, no item is named twice, and the media id clients load is the item at
\* the index.
THEOREM MediaCurrentAlways == Spec => []MediaIsCurrent
<1>1. PlaybackInv => MediaIsCurrent
  BY DEF PlaybackInv
<1> QED BY InitInv, StepInv, <1>1, PTL DEF Spec

-----------------------------------------------------------------------------
(* Stamps.                                                                 *)

\* A commit of the timeline as it was, around the item that was current,
\* changes nothing of it.
LEMMA SameMediaSamePlayback ==
  ASSUME PlaybackInv, NEW l, NEW k, Commit(l, k, pb), Len(l) \in Nat, k \in Nat,
         k < Len(l), l[k + 1] = pb.media
  PROVE  pb' = pb
<1>1. index' = k
  BY DEF Commit
<1>2. MediaAt(l, index') = pb.media
  BY <1>1 DEF MediaAt
<1>3. pb' = [pb EXCEPT !.media = pb.media]
  BY <1>2 DEF Commit
<1>4. pb \in PlaybackState
  BY DEF PlaybackInv, TypeOK
<1> QED BY <1>3, <1>4 DEF PlaybackState

\* The steps that change the timeline of an item that plays: a playback
\* message, which keeps the list; a step that replaces or removes what plays;
\* an owner who leaves.
Transport(t) ==
    \/ \E p \in Position : Seek(p, t)
    \/ \E b \in BOOLEAN : SetPaused(b, t)
    \/ \E r \in Rate : SetRate(r, t)
Switching(t) ==
    \/ \E k \in Places : Select(k, t)
    \/ index + 1 < Len(list) /\ ItemError(index, t)
    \/ RemoveItem(index, t)

\* The item that plays is in the list, at the index.
LEMMA PlaysAtIndex ==
  ASSUME PlaybackInv, Playing
  PROVE  /\ pb \in PlaybackState /\ list \in Seq(Item) /\ index \in Nat
         /\ Len(list) \in Nat /\ Reading \subseteq Nat
         /\ index < Len(list) /\ list[index + 1] = pb.media /\ list # <<>>
<1>1. /\ pb \in PlaybackState /\ list \in Seq(Item) /\ index \in Nat
      /\ Len(list) \in Nat /\ Reading \subseteq Nat
  BY ReadingNat, LenProperties DEF PlaybackInv, TypeOK
<1>2. index < Len(list) /\ list[index + 1] = pb.media /\ list # <<>>
  BY EmptySeq DEF PlaybackInv, MediaIsCurrent, Current, MediaAt, Playing
<1> QED BY <1>1, <1>2

\* While an item plays, every other step leaves the timeline alone, whatever
\* is added, removed, moved, resolved or reported around the item.
LEMMA StepKinds ==
  ASSUME PlaybackInv, Playing, Next
  PROVE  \/ pb' = pb
         \/ \E t \in Reading : \/ Transport(t) \/ Switching(t)
                               \/ \E u \in User : OwnerOffline(u, t)
<1>1. /\ pb \in PlaybackState /\ list \in Seq(Item) /\ index \in Nat
      /\ Len(list) \in Nat /\ Reading \subseteq Nat
  BY PlaysAtIndex
<1>2. index < Len(list) /\ list[index + 1] = pb.media /\ list # <<>>
  BY PlaysAtIndex
<1>3. Commit(list, index, pb) => pb' = pb
  BY <1>1, <1>2, SameMediaSamePlayback
<1>4. ASSUME NEW t \in Reading, NEW k \in Places, ItemError(k, t), ~Switching(t)
       PROVE  pb' = pb
  <2>1. Commit(list, index, pb)
    BY <1>4 DEF ItemError, Switching
  <2> QED BY <1>3, <2>1
<1>5. ASSUME NEW t \in Reading, NEW k \in Places, RemoveItem(k, t), ~Switching(t)
       PROVE  pb' = pb
  <2> DEFINE l == RemoveAt(list, k + 1)
  <2>1. /\ k \in Nat /\ k < Len(list) /\ k + 1 \in 1..Len(list) /\ k # index
    BY <1>1, <1>5 DEF Places, Switching
  <2>2. /\ l \in Seq(Item) /\ Len(l) = Len(list) - 1
        /\ \A j \in 1..(Len(list) - 1) :
             l[j] = IF j < k + 1 THEN list[j] ELSE list[j + 1]
    BY <1>1, <2>1, RemoveAtShifts
  <2>3. l # <<>>
    <3> HIDE DEF l
    <3> QED BY <1>1, <1>2, <2>1, <2>2, EmptySeq
  <2>4. \/ k < index /\ Commit(l, index - 1, pb)
        \/ ~(k < index) /\ Commit(l, index, pb)
    BY <1>5, <2>1, <2>3 DEF RemoveItem
  <2> HIDE DEF l
  <2>5. CASE k < index /\ Commit(l, index - 1, pb)
    <3> DEFINE n == index - 1
    <3>1. n \in Nat /\ n < Len(l) /\ n + 1 \in 1..(Len(list) - 1)
          /\ ~(n + 1 < k + 1) /\ n + 1 + 1 = index + 1 /\ Len(l) \in Nat
      BY <1>1, <1>2, <2>1, <2>2, <2>5
    <3>2. Commit(l, n, pb)
      BY <2>5
    <3> HIDE DEF n
    <3>3. l[n + 1] = pb.media
      BY <1>2, <2>2, <3>1
    <3> QED BY <3>1, <3>2, <3>3, SameMediaSamePlayback
  <2>6. CASE ~(k < index) /\ Commit(l, index, pb)
    <3>1. index < Len(l) /\ index + 1 \in 1..(Len(list) - 1)
          /\ index + 1 < k + 1 /\ Len(l) \in Nat
      BY <1>1, <1>2, <2>1, <2>2, <2>6
    <3>2. l[index + 1] = pb.media
      BY <1>2, <2>2, <3>1
    <3> QED BY <1>1, <2>6, <3>1, <3>2, SameMediaSamePlayback
  <2> QED BY <2>4, <2>5, <2>6
<1>6. ASSUME NEW i \in Item, AddUrl(i) \/ AddLocal(i)
       PROVE  pb' = pb
  <2> DEFINE l == Append(list, i)
  <2>1. Commit(l, index, pb)
    BY <1>2, <1>6 DEF AddUrl, AddLocal
  <2>2. Len(l) = Len(list) + 1 /\ \A j \in 1..Len(list) : l[j] = list[j]
    BY <1>1, AppendProperties
  <2> HIDE DEF l
  <2>3. index < Len(l) /\ index + 1 \in 1..Len(list) /\ Len(l) \in Nat
    BY <1>1, <1>2, <2>2
  <2>4. l[index + 1] = pb.media
    BY <1>2, <2>2, <2>3
  <2> QED BY <1>1, <2>1, <2>3, <2>4, SameMediaSamePlayback
<1>7. ASSUME NEW i \in Item, ItemErrorCleared(i) \/ LocalMediaReady(i)
       PROVE  pb' = pb
  BY <1>3, <1>7 DEF ItemErrorCleared, LocalMediaReady
<1>8. ASSUME NEW i \in Item,
              \/ Reresolve(i)
              \/ \E outcome \in {"ready", "error"} : Resolved(i, outcome)
       PROVE  pb' = pb
  BY <1>8 DEF Reresolve, Resolved
<1>9. ASSUME NEW from \in Places, NEW to \in Places, Reorder(from, to)
       PROVE  pb' = pb
  <2> DEFINE l == Moved(from, to)
  <2>1. PICK k \in 0..(Len(list) - 1) : l[k + 1] = Current /\ Commit(l, k, pb)
    BY <1>9 DEF Reorder
  <2>2. IsInjective(list)
    BY DEF PlaybackInv, MediaIsCurrent
  <2>3. Len(l) = Len(list)
    BY <1>1, <2>2, MovedKeeps DEF Places
  <2> HIDE DEF l
  <2>4. l[k + 1] = pb.media
    BY <2>1 DEF PlaybackInv, MediaIsCurrent
  <2>5. k \in Nat /\ k < Len(l) /\ Len(l) \in Nat
    BY <1>1, <2>1, <2>3
  <2> QED BY <2>1, <2>4, <2>5, SameMediaSamePlayback
<1>10. Tick => pb' = pb
  BY DEF Tick
<1> QED BY <1>4, <1>5, <1>6, <1>7, <1>8, <1>9, <1>10
        DEF Next, Transport, Switching

\* A playback message stamps the timeline of the same item.
LEMMA TransportStamps ==
  ASSUME PlaybackInv, Playing, NEW t \in Reading, Transport(t)
  PROVE  pb'.clock > pb.clock /\ pb'.media = pb.media
<1>1. pb \in PlaybackState /\ index \in Nat /\ t \in Nat
      /\ index < Len(list) /\ list[index + 1] = pb.media
  BY PlaysAtIndex
<1> DEFINE Found == \E q \in PlaybackState : q.clock > pb.clock /\ Commit(list, index, q)
<1>2. Found
  <2>1. ASSUME NEW p \in Position, Seek(p, t) PROVE Found
    <3> DEFINE st == Stamped(pb, t)
    <3>1. st \in PlaybackState /\ st.clock > pb.clock /\ p \in Nat
      BY <1>1, StampLater, PlaybackAssumption
    <3>2. Commit(list, index, [st EXCEPT !.anchor = p])
      BY <2>1 DEF Seek
    <3> HIDE DEF st
    <3>3. [st EXCEPT !.anchor = p] \in PlaybackState
          /\ [st EXCEPT !.anchor = p].clock > pb.clock
      BY <3>1 DEF PlaybackState
    <3> QED BY <3>2, <3>3
  <2> DEFINE re == reanchorPlaybackAtNow(pb, t)
  <2>2. re \in PlaybackState /\ re.clock > pb.clock
    BY <1>1, AnchoredTypes
  <2>3. ASSUME NEW b \in BOOLEAN, SetPaused(b, t) PROVE Found
    <3>1. Commit(list, index, [re EXCEPT !.paused = b])
      BY <2>3 DEF SetPaused
    <3> HIDE DEF re
    <3>2. [re EXCEPT !.paused = b] \in PlaybackState
          /\ [re EXCEPT !.paused = b].clock > pb.clock
      BY <2>2 DEF PlaybackState
    <3> QED BY <3>1, <3>2
  <2>4. ASSUME NEW r \in Rate, SetRate(r, t) PROVE Found
    <3>1. Commit(list, index, [re EXCEPT !.rate = r])
      BY <2>4 DEF SetRate
    <3> HIDE DEF re
    <3>2. [re EXCEPT !.rate = r] \in PlaybackState
          /\ [re EXCEPT !.rate = r].clock > pb.clock
      BY <2>2 DEF PlaybackState
    <3> QED BY <3>1, <3>2
  <2> QED BY <2>1, <2>3, <2>4 DEF Transport
<1>3. PICK q \in PlaybackState : q.clock > pb.clock /\ Commit(list, index, q)
  BY <1>2
<1>4. pb' = [q EXCEPT !.media = MediaAt(list, index')] /\ index' = index
  BY <1>1, <1>3 DEF Commit
<1>5. MediaAt(list, index') = pb.media
  BY <1>1, <1>4 DEF MediaAt
<1> QED BY <1>3, <1>4, <1>5 DEF PlaybackState

\* A reset timeline is stamped, at zero, and plays or not as before.
LEMMA ResetTimeline ==
  ASSUME NEW p \in PlaybackState, NEW t \in Nat
  PROVE  /\ resetPlaybackTimeline(p, t) \in PlaybackState
         /\ resetPlaybackTimeline(p, t).clock > p.clock
         /\ resetPlaybackTimeline(p, t).anchor = 0
         /\ resetPlaybackTimeline(p, t).paused = p.paused
<1> DEFINE q == Stamped(p, t)
<1>1. q \in PlaybackState /\ q.clock > p.clock /\ q.paused = p.paused
  BY StampLater
<1>2. resetPlaybackTimeline(p, t) = [q EXCEPT !.anchor = 0]
  BY DEF resetPlaybackTimeline
<1> HIDE DEF q
<1> QED BY <1>1, <1>2 DEF PlaybackState

\* What replaces the item that plays starts at zero and plays as it did, also
\* where the last item goes and the one before it is next; only the emptied
\* room is paused.
LEMMA SwitchingResets ==
  ASSUME PlaybackInv, Playing, NEW t \in Reading, Switching(t)
  PROVE  /\ pb'.clock > pb.clock
         /\ pb'.media # NoItem => pb'.anchor = 0 /\ pb'.paused = pb.paused
<1> DEFINE re == resetPlaybackTimeline(pb, t)
<1>1. /\ re \in PlaybackState /\ re.clock > pb.clock
      /\ re.anchor = 0 /\ re.paused = pb.paused
  BY PlaysAtIndex, ResetTimeline
<1>2. \/ \E l, k : Commit(l, k, re)
      \/ Commit(<<>>, 0, [re EXCEPT !.paused = TRUE])
  <2>1. CASE \E k \in Places : Select(k, t)
    BY <2>1 DEF Select
  <2>2. CASE index + 1 < Len(list) /\ ItemError(index, t)
    BY <2>2 DEF ItemError
  <2>3. CASE RemoveItem(index, t)
    <3>1. index \in Nat
      BY PlaysAtIndex
    <3>2. ~(index < index)
      BY <3>1
    <3> QED BY <2>3, <3>2 DEF RemoveItem
  <2> QED BY <2>1, <2>2, <2>3 DEF Switching
<1> HIDE DEF re
<1>3. ASSUME NEW l, NEW k, Commit(l, k, re)
      PROVE  pb'.clock > pb.clock /\ pb'.anchor = 0 /\ pb'.paused = pb.paused
  <2>1. pb' = [re EXCEPT !.media = MediaAt(l, index')]
    BY <1>3 DEF Commit
  <2> QED BY <1>1, <2>1 DEF PlaybackState
<1>4. CASE Commit(<<>>, 0, [re EXCEPT !.paused = TRUE])
  <2> DEFINE q == [re EXCEPT !.paused = TRUE]
  <2>1. q \in PlaybackState /\ q.clock > pb.clock
    BY <1>1 DEF PlaybackState
  <2>2. Commit(<<>>, 0, q)
    BY <1>4
  <2> HIDE DEF q
  <2>3. pb' = [q EXCEPT !.media = MediaAt(<<>>, index')] /\ index' = 0
    BY <2>2, EmptySeq DEF Commit
  <2>4. MediaAt(<<>>, index') = NoItem
    BY <2>3, EmptySeq DEF MediaAt
  <2> QED BY <2>1, <2>3, <2>4 DEF PlaybackState
<1> QED BY <1>2, <1>3, <1>4

\* What plays is replaced because somebody chose another item, because it is
\* gone, or because it has just failed.
LEMMA SwitchingReason ==
  ASSUME PlaybackInv, Playing, NEW t \in Reading, Switching(t)
  PROVE  \/ \E k \in Places : Select(k, t)
         \/ pb'.media # pb.media /\ pb.media \notin ToSet(list')
         \/ /\ pb'.media # pb.media
            /\ status[pb.media] # "error" /\ status'[pb.media] = "error"
<1>1. /\ list \in Seq(Item) /\ index \in Nat /\ Len(list) \in Nat
      /\ index < Len(list) /\ list[index + 1] = pb.media
      /\ index + 1 \in 1..Len(list)
  BY PlaysAtIndex
<1>2. IsInjective(list) /\ status \in [Item -> Status] /\ TypeOK
  BY DEF PlaybackInv, MediaIsCurrent, TypeOK
<1>3. CASE index + 1 < Len(list) /\ ItemError(index, t)
  <2>1. /\ Commit(list, index + 1, resetPlaybackTimeline(pb, t))
        /\ status[pb.media] # "error"
        /\ status' = [status EXCEPT ![pb.media] = "error"]
    BY <1>1, <1>3 DEF ItemError
  <2>2. pb.media \in Item
    BY <1>1, ElementOfSeq
  <2>3. pb'.media = list[index + 2]
    <3>1. index' = index + 1
      BY <1>3, <2>1 DEF Commit
    <3>2. MediaAt(list, index') = list[index + 2]
      <4>1. MediaAt(list, index + 1) = list[index + 1 + 1]
        BY <1>3 DEF MediaAt
      <4>2. index + 1 + 1 = index + 2
        BY <1>1
      <4> QED BY <3>1, <4>1, <4>2
    <3>3. resetPlaybackTimeline(pb, t) \in PlaybackState
      BY PlaysAtIndex, ResetTimeline
    <3> QED BY <2>1, <3>2, <3>3 DEF Commit, PlaybackState
  <2>4. list[index + 2] # list[index + 1]
    <3>1. /\ index + 1 \in DOMAIN list /\ index + 2 \in DOMAIN list
          /\ index + 1 # index + 2
      BY <1>1, <1>3, LenProperties
    <3> QED BY <1>2, <3>1 DEF IsInjective
  <2> QED BY <1>1, <1>2, <2>1, <2>2, <2>3, <2>4
<1>4. CASE RemoveItem(index, t)
  <2> DEFINE l == RemoveAt(list, index + 1)
  <2>1. /\ l \in Seq(Item) /\ \A j \in 1..Len(l) : l[j] # pb.media
    <3>1. l \in Seq(Item)
      BY <1>1, RemoveAtShifts
    <3>2. \A j \in 1..Len(l) : l[j] # list[index + 1]
      BY <1>1, <1>2, RemoveAtInjective
    <3> QED BY <1>1, <3>1, <3>2
  <2>2. list' = l
    BY <1>4 DEF RemoveItem, Commit
  <2>3. pb.media \notin ToSet(list')
    <3> HIDE DEF l
    <3>1. DOMAIN l = 1..Len(l)
      BY <2>1, LenProperties
    <3> QED BY <2>1, <2>2, <3>1 DEF ToSet
  <2>4. PlaybackInv'
    BY <1>1, <1>4, RemovalsKeep DEF Places
  <2>5. pb'.media # pb.media
    <3>1. CASE pb'.media = NoItem
      BY <3>1 DEF Playing
    <3>2. CASE pb'.media # NoItem
      <4>1. /\ list' \in Seq(Item) /\ index' \in Nat /\ index' < Len(list')
            /\ list'[index' + 1] = pb'.media /\ Len(list') \in Nat
        BY <2>4, <3>2, LenProperties
        DEF PlaybackInv, TypeOK, MediaIsCurrent, Current, MediaAt
      <4>2. index' + 1 \in 1..Len(list')
        BY <4>1
      <4> HIDE DEF l
      <4> QED BY <2>1, <2>2, <4>1, <4>2
    <3> QED BY <3>1, <3>2
  <2> QED BY <2>3, <2>5
<1> QED BY <1>3, <1>4 DEF Switching

\* An owner who leaves pauses the item that plays, or changes nothing of it.
LEMMA OfflineStamps ==
  ASSUME PlaybackInv, Playing, NEW t \in Reading, NEW u \in User, OwnerOffline(u, t)
  PROVE  /\ pb' = pb \/ pb'.clock > pb.clock
         /\ pb'.media = pb.media
<1> DEFINE st == Stamped(pb, t)
<1>1. /\ st \in PlaybackState /\ st.clock > pb.clock /\ st.media = pb.media
  BY PlaysAtIndex, StampLater
<1>2. pb' = [st EXCEPT !.paused = TRUE] \/ pb' = pb
  BY DEF OwnerOffline
<1> HIDE DEF st
<1> QED BY <1>1, <1>2 DEF PlaybackState

\* While an item plays, a step leaves the timeline alone or stamps it later.
LEMMA StampedOrSame ==
  ASSUME PlaybackInv, Playing, Next
  PROVE  pb' = pb \/ pb'.clock > pb.clock
BY StepKinds, TransportStamps, SwitchingResets, OfflineStamps

\* For any playlist, rate and clock skew: whatever moves the playhead, changes
\* the item or toggles pause while an item plays is stamped later than what it
\* replaces.
THEOREM TimelineStamped == Spec => MovesAreStamped
<1> DEFINE Stamping == Playing
                       /\ (pb'.paused # pb.paused \/ Moving
                           \/ \E m \in Reading : resolveCurrentTimelineMs(pb', m)
                                                   # resolveCurrentTimelineMs(pb, m))
                       => pb'.clock > pb.clock
<1>1. PlaybackInv /\ [Next]_vars => [Stamping]_vars
  <2> SUFFICES ASSUME PlaybackInv, Next, Playing,
                      pb'.paused # pb.paused \/ Moving
                        \/ \E m \in Reading : resolveCurrentTimelineMs(pb', m)
                                                # resolveCurrentTimelineMs(pb, m)
               PROVE  pb'.clock > pb.clock
    OBVIOUS
  <2>1. pb' # pb
    BY DEF Moving
  <2> QED BY <2>1, StampedOrSame
<1> QED BY InitInv, StepInv, <1>1, PTL DEF Spec, MovesAreStamped

-----------------------------------------------------------------------------
(* Switches.                                                               *)

\* For any playlist: an item that replaces the one that plays starts at zero,
\* stamped later, and plays or stays paused as the room did.
THEOREM SwitchesRestart == Spec => SwitchRestarts
<1> DEFINE Restarting == Playing /\ Moving /\ pb'.media # NoItem =>
                            /\ pb'.anchor = 0
                            /\ pb'.clock > pb.clock
                            /\ pb'.paused = pb.paused
<1>1. PlaybackInv /\ [Next]_vars => [Restarting]_vars
  <2> SUFFICES ASSUME PlaybackInv, Next, Playing, Moving, pb'.media # NoItem
               PROVE  pb'.anchor = 0 /\ pb'.clock > pb.clock /\ pb'.paused = pb.paused
    OBVIOUS
  <2>1. PICK t \in Reading : \/ Transport(t) \/ Switching(t)
                             \/ \E u \in User : OwnerOffline(u, t)
    BY StepKinds DEF Moving
  <2>2. Switching(t)
    BY <2>1, TransportStamps, OfflineStamps DEF Moving
  <2> QED BY <2>2, SwitchingResets
<1> QED BY InitInv, StepInv, <1>1, PTL DEF Spec, SwitchRestarts

\* For any playlist: what plays changes only through its own removal or
\* failure, or because somebody selected another item.
THEOREM SwitchesForAReason == Spec => OnlyItsOwnFateSwitches
<1> DEFINE OwnFate == Playing /\ Moving =>
                        \/ pb.media \notin ToSet(list')
                        \/ \E k \in Places, t \in Reading : Select(k, t)
                        \/ status[pb.media] # "error" /\ status'[pb.media] = "error"
<1>1. PlaybackInv /\ [Next]_vars => [OwnFate]_vars
  <2> SUFFICES ASSUME PlaybackInv, Next, Playing, Moving
               PROVE  \/ pb.media \notin ToSet(list')
                      \/ \E k \in Places, t \in Reading : Select(k, t)
                      \/ status[pb.media] # "error" /\ status'[pb.media] = "error"
    OBVIOUS
  <2>1. PICK t \in Reading : \/ Transport(t) \/ Switching(t)
                             \/ \E u \in User : OwnerOffline(u, t)
    BY StepKinds DEF Moving
  <2>2. Switching(t)
    BY <2>1, TransportStamps, OfflineStamps DEF Moving
  <2> QED BY <2>2, SwitchingReason
<1> QED BY InitInv, StepInv, <1>1, PTL DEF Spec, OnlyItsOwnFateSwitches

-----------------------------------------------------------------------------
(* Jumps of the playhead.                                                  *)

\* The time p has run when a clock shows t.
Elapsed(p, t) == IF p.paused \/ t <= p.clock THEN 0 ELSE t - p.clock

\* Slower is not further.
LEMMA ProductGrows ==
  ASSUME NEW a \in Nat, NEW b \in Nat, a <= b, NEW r \in Nat
  PROVE  /\ a * r \in Nat /\ b * r \in Nat /\ (b - a) * r \in Nat
         /\ a * r <= b * r /\ b * r - a * r = (b - a) * r
<1>1. b - a \in Nat
  OBVIOUS
<1>2. a * r \in Nat /\ b * r \in Nat /\ (b - a) * r \in Nat
  BY <1>1
<1>3. b * r = a * r + (b - a) * r
  OBVIOUS
<1> QED BY <1>2, <1>3

\* Between two readings of a clock the playhead never goes back, and not
\* further than the rate takes it.
LEMMA PlayheadAdvances ==
  ASSUME NEW p \in PlaybackState, NEW t \in Nat, NEW m \in Nat, t <= m
  PROVE  /\ resolveCurrentTimelineMs(p, t) \in Nat
         /\ resolveCurrentTimelineMs(p, m) \in Nat
         /\ resolveCurrentTimelineMs(p, t) <= resolveCurrentTimelineMs(p, m)
         /\ resolveCurrentTimelineMs(p, m) - resolveCurrentTimelineMs(p, t)
              <= (m - t) * p.rate
<1> DEFINE a == Elapsed(p, t)
           b == Elapsed(p, m)
           r == p.rate
<1>1. p.clock \in Nat /\ p.anchor \in Nat /\ r \in Nat
  BY PlaybackAssumption DEF PlaybackState
<1>2. a \in Nat /\ b \in Nat /\ a <= b /\ b - a <= m - t /\ b - a \in Nat /\ m - t \in Nat
  BY <1>1 DEF Elapsed
<1>3. /\ resolveCurrentTimelineMs(p, t) = p.anchor + a * r
      /\ resolveCurrentTimelineMs(p, m) = p.anchor + b * r
  BY <1>1 DEF Elapsed, resolveCurrentTimelineMs
<1> HIDE DEF a, b, r
<1>4. a * r \in Nat /\ b * r \in Nat /\ a * r <= b * r /\ b * r - a * r = (b - a) * r
  BY <1>1, <1>2, ProductGrows
<1>5. (b - a) * r <= (m - t) * r /\ (b - a) * r \in Nat /\ (m - t) * r \in Nat
  BY <1>1, <1>2, ProductGrows
<1>6. (m - t) * r = (m - t) * p.rate
  BY DEF r
<1> QED BY <1>1, <1>3, <1>4, <1>5, <1>6

\* A timeline anchored where the old one stood at t, and not stamped before t,
\* is seen from no clock further away than the clocks are apart at the old or
\* the new rate.
LEMMA ReanchoredNear ==
  ASSUME NEW p \in PlaybackState, NEW q \in PlaybackState, NEW t \in Nat,
         NEW m \in Nat, NEW d \in Nat, m <= t + d, t <= m + d,
         q.anchor = resolveCurrentTimelineMs(p, t), q.clock >= t
  PROVE  \E r \in {p.rate, q.rate} :
            Distance(resolveCurrentTimelineMs(q, m), resolveCurrentTimelineMs(p, m))
              <= r * d
<1> DEFINE x == resolveCurrentTimelineMs(p, t)
           new == resolveCurrentTimelineMs(q, m)
           old == resolveCurrentTimelineMs(p, m)
<1>1. p.rate \in Nat /\ q.rate \in Nat /\ q.clock \in Nat
  BY PlaybackAssumption DEF PlaybackState
<1>2. x \in Nat /\ new \in Nat /\ old \in Nat
  BY PlayheadType
<1>3. p.rate * d \in Nat /\ q.rate * d \in Nat
  BY <1>1
<1>4. CASE m <= t
  <2>1. new = x
    BY <1>1, <1>4 DEF resolveCurrentTimelineMs
  <2>2. old <= x /\ x - old <= (t - m) * p.rate
    BY <1>4, PlayheadAdvances
  <2>3. t - m \in Nat /\ t - m <= d
    BY <1>4
  <2>4. (t - m) * p.rate <= d * p.rate /\ (t - m) * p.rate \in Nat
    BY <1>1, <2>3, ProductGrows
  <2> HIDE DEF x, new, old
  <2>5. d * p.rate = p.rate * d
    BY <1>1
  <2>6. Distance(new, old) <= p.rate * d
    BY <1>2, <1>3, <2>1, <2>2, <2>4, <2>5 DEF Distance
  <2> QED BY <2>6 DEF new, old
<1>5. CASE ~(m <= t)
  <2>1. /\ x <= old /\ old - x <= (m - t) * p.rate
        /\ m - t \in Nat /\ m - t <= d
    BY <1>5, PlayheadAdvances
  <2>2. x <= new /\ new - x <= (m - t) * q.rate
    <3>1. resolveCurrentTimelineMs(q, t) = x
      BY <1>1 DEF resolveCurrentTimelineMs
    <3>2. t <= m
      BY <1>5
    <3> QED BY <3>1, <3>2, PlayheadAdvances
  <2>3. /\ (m - t) * p.rate <= d * p.rate /\ (m - t) * p.rate \in Nat
        /\ (m - t) * q.rate <= d * q.rate /\ (m - t) * q.rate \in Nat
    BY <1>1, <2>1, ProductGrows
  <2>4. d * p.rate = p.rate * d /\ d * q.rate = q.rate * d
    BY <1>1
  <2> HIDE DEF x, new, old
  <2>5. new <= old => Distance(new, old) <= p.rate * d
    BY <1>2, <1>3, <2>1, <2>2, <2>3, <2>4 DEF Distance
  <2>6. ~(new <= old) => Distance(new, old) <= q.rate * d
    BY <1>2, <1>3, <2>1, <2>2, <2>3, <2>4 DEF Distance
  <2> QED BY <2>5, <2>6 DEF new, old
<1> QED BY <1>4, <1>5

\* A pause, play or rate change anchors the timeline where it stood.
LEMMA ToggleReanchors ==
  ASSUME PlaybackInv, NEW t \in Reading,
         \/ \E b \in BOOLEAN : SetPaused(b, t)
         \/ \E r \in Rate : SetRate(r, t)
  PROVE  pb'.anchor = resolveCurrentTimelineMs(pb, t) /\ pb'.clock >= t
<1>1. pb \in PlaybackState /\ t \in Nat
  BY ReadingNat DEF PlaybackInv, TypeOK
<1> DEFINE re == reanchorPlaybackAtNow(pb, t)
           x == resolveCurrentTimelineMs(pb, t)
           c == nextMonotonicMs(pb.clock, t)
<1>2. re = [[pb EXCEPT !.clock = c] EXCEPT !.anchor = x]
  BY DEF reanchorPlaybackAtNow, Stamped
<1>3. c \in Nat /\ c >= t
  BY <1>1 DEF PlaybackState, nextMonotonicMs
<1>4. x \in Nat
  BY <1>1, PlayheadType
<1>5. re \in PlaybackState
  BY <1>1, AnchoredTypes
<1> HIDE DEF x, c
<1>6. re.anchor = x /\ re.clock = c
  BY <1>1, <1>2 DEF PlaybackState
<1> HIDE DEF re
<1>7. \/ \E b \in BOOLEAN : Commit(list, index, [re EXCEPT !.paused = b])
      \/ \E r \in Rate : Commit(list, index, [re EXCEPT !.rate = r])
  BY DEF SetPaused, SetRate, re
<1>8. pb'.anchor = re.anchor /\ pb'.clock = re.clock
  BY <1>5, <1>7 DEF Commit, PlaybackState
<1> QED BY <1>3, <1>6, <1>8 DEF x

\* For any rates and any clock skew: a pause, play or rate change moves no
\* playhead by more than the skew at the old or the new rate, wherever it is
\* read, and nothing but seek, selection and a leaving owner moves it otherwise.
THEOREM JumpsAreSmall == Spec => SmallJumps
<1> DEFINE Near == \A m \in Reading : \E r \in {pb.rate, pb'.rate} :
                      Distance(resolveCurrentTimelineMs(pb', m),
                               resolveCurrentTimelineMs(pb, m)) <= r * Skew
           Jumping == Playing /\ ~Moving
                      /\ ~(\E t \in Reading :
                             \/ \E p \in Position : Seek(p, t)
                             \/ \E k \in Places : Select(k, t)
                             \/ \E u \in User : OwnerOffline(u, t))
                      => Near
<1>1. PlaybackInv /\ [Next]_vars => [Jumping]_vars
  <2> SUFFICES ASSUME PlaybackInv, Next, Playing, ~Moving,
                      ~(\E t \in Reading :
                             \/ \E p \in Position : Seek(p, t)
                             \/ \E k \in Places : Select(k, t)
                             \/ \E u \in User : OwnerOffline(u, t)),
                      NEW m \in Reading
               PROVE  \E r \in {pb.rate, pb'.rate} :
                        Distance(resolveCurrentTimelineMs(pb', m),
                                 resolveCurrentTimelineMs(pb, m)) <= r * Skew
    OBVIOUS
  <2>1. pb \in PlaybackState /\ pb' \in PlaybackState /\ m \in Nat /\ Skew \in Nat
    BY StepInv, ReadingNat, PlaybackAssumption DEF PlaybackInv, TypeOK
  <2>2. CASE pb' = pb
    <3>1. pb.rate \in Nat /\ resolveCurrentTimelineMs(pb, m) \in Nat
      BY <2>1, PlayheadType, PlaybackAssumption DEF PlaybackState
    <3>2. pb.rate * Skew \in Nat
      BY <2>1, <3>1
    <3>3. Distance(resolveCurrentTimelineMs(pb, m), resolveCurrentTimelineMs(pb, m)) = 0
      BY <3>1 DEF Distance
    <3> QED BY <2>2, <3>2, <3>3
  <2>3. CASE pb' # pb
    <3>1. PICK t \in Reading : Transport(t) \/ Switching(t)
      BY <2>3, StepKinds
    <3>2. \/ \E b \in BOOLEAN : SetPaused(b, t)
          \/ \E r \in Rate : SetRate(r, t)
      BY <3>1, SwitchingReason DEF Transport, Moving
    <3>3. pb'.anchor = resolveCurrentTimelineMs(pb, t) /\ pb'.clock >= t
      BY <3>2, ToggleReanchors
    <3>4. t \in Nat /\ m <= t + Skew /\ t <= m + Skew
      BY <2>1, PlaybackAssumption DEF Reading, PlaybackInv, TypeOK
    <3> QED BY <2>1, <3>3, <3>4, ReanchoredNear
  <2> QED BY <2>2, <2>3
<1> QED BY InitInv, StepInv, <1>1, PTL DEF Spec, SmallJumps

-----------------------------------------------------------------------------
(* Pauses.  PauseKeepsPlayhead fails for the pause that follows an owner   *)
(* who leaves (disconnect.ts:100) and, as is shown here, for no other one. *)

PlayersPauseInPlace ==
    [][Playing /\ ~Moving /\ ~pb.paused /\ pb'.paused
       /\ ~(\E t \in Reading, u \in User : OwnerOffline(u, t)) =>
          \E t \in Reading :
             resolveCurrentTimelineMs(pb', t) = resolveCurrentTimelineMs(pb, t)]_vars

\* A seek and a rate change leave a room that plays playing.
LEMMA OnlyPausesPause ==
  ASSUME PlaybackInv, NEW t \in Reading,
         \/ \E p \in Position : Seek(p, t)
         \/ \E r \in Rate : SetRate(r, t)
  PROVE  pb'.paused = pb.paused
<1>1. pb \in PlaybackState /\ t \in Nat
  BY ReadingNat DEF PlaybackInv, TypeOK
<1> DEFINE st == Stamped(pb, t)
           x == resolveCurrentTimelineMs(pb, t)
           re == reanchorPlaybackAtNow(pb, t)
<1>2. st \in PlaybackState /\ st.paused = pb.paused
  BY <1>1, StampLater
<1>3. re = [st EXCEPT !.anchor = x]
  BY DEF reanchorPlaybackAtNow
<1> HIDE DEF x
<1>4. \/ \E p \in Position : Commit(list, index, [st EXCEPT !.anchor = p])
      \/ \E r \in Rate : Commit(list, index, [re EXCEPT !.rate = r])
  BY DEF Seek, SetRate
<1> HIDE DEF st, re
<1> QED BY <1>2, <1>3, <1>4 DEF Commit, PlaybackState

\* For any playlist, rate and clock skew: a pause that somebody asks for
\* freezes the playhead where the process that handles it sees it
\* (playback.ts:55, timeline.ts:40-43).
THEOREM PausesFreeze == Spec => PlayersPauseInPlace
<1> DEFINE InPlace == Playing /\ ~Moving /\ ~pb.paused /\ pb'.paused
                      /\ ~(\E t \in Reading, u \in User : OwnerOffline(u, t)) =>
                         \E t \in Reading : resolveCurrentTimelineMs(pb', t)
                                              = resolveCurrentTimelineMs(pb, t)
<1>1. PlaybackInv /\ [Next]_vars => [InPlace]_vars
  <2> SUFFICES ASSUME PlaybackInv, Next, Playing, ~Moving, ~pb.paused, pb'.paused,
                      ~(\E t \in Reading, u \in User : OwnerOffline(u, t))
               PROVE  \E t \in Reading : resolveCurrentTimelineMs(pb', t)
                                           = resolveCurrentTimelineMs(pb, t)
    OBVIOUS
  <2>1. PICK t \in Reading : Transport(t) \/ Switching(t)
    BY StepKinds
  <2>2. ~Switching(t)
    BY SwitchingResets DEF Moving, Playing
  <2>3. \E b \in BOOLEAN : SetPaused(b, t)
    BY <2>1, <2>2, OnlyPausesPause DEF Transport
  <2>4. pb'.anchor = resolveCurrentTimelineMs(pb, t)
    BY <2>3, ToggleReanchors
  <2>5. resolveCurrentTimelineMs(pb', t) = resolveCurrentTimelineMs(pb, t)
    BY <2>4 DEF resolveCurrentTimelineMs
  <2> QED BY <2>5
<1> QED BY InitInv, StepInv, <1>1, PTL DEF Spec, PlayersPauseInPlace
=============================================================================
