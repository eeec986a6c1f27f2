--------------------------- MODULE PresenceProofs ---------------------------
(***************************************************************************)
(* Proofs about the presence references of Membership, for every set of    *)
(* rooms, users, processes and sockets and any number of joins per socket: *)
(* no reference without a socket that answers for it, and no socket that   *)
(* counts twice.                                                           *)
(***************************************************************************)
EXTENDS MembershipProofs, FiniteSetTheorems

-----------------------------------------------------------------------------
(* Sums over finite sets.  The sum of Membership is a fold, that is, a     *)
(* recursive function on the subsets of a finite set; what is needed of it *)
(* is proved by looking at a smallest counterexample.                      *)

\* A property of natural numbers given by a set, by its least exception.
LEMMA LeastNumber ==
  ASSUME NEW B \in SUBSET Nat, B # {}
  PROVE  \E k \in B : \A j \in B : ~(j < k)
<1>1. PICK k \in B : \A j \in B : <<j, k>> \notin OpToRel(<, Nat)
  BY NatLessThanWellFounded, WFMin
<1>2. \A j \in B : <<j, k>> \in Nat \X Nat
  OBVIOUS
<1>3. \A j \in B : j < k => <<j, k>> \in OpToRel(<, Nat)
  BY <1>2 DEF OpToRel
<1> QED
  BY <1>1, <1>3

\* The element a fold takes out first.
First(T) == CHOOSE r \in T : TRUE

\* The sum of f[r][u][n] over the members r of S.
SumOver(S, f, u, n) == MapThenSumSet(LAMBDA r : f[r][u][n], S)

\* What the fold that sums f[r][u][n] makes of a function g of the subsets.
SumStep(f, u, n, g, T) ==
    IF T = {} THEN 0 ELSE f[First(T)][u][n] + g[T \ {First(T)}]

\* Taking an element out makes a finite set smaller by one.
LEMMA FirstOut ==
  ASSUME NEW S, IsFiniteSet(S), NEW T \in SUBSET S, T # {}
  PROVE  /\ First(T) \in T /\ T \ {First(T)} \in SUBSET S
         /\ Cardinality(T) \in Nat \ {0}
         /\ Cardinality(T \ {First(T)}) = Cardinality(T) - 1
<1>1. First(T) \in T
  BY DEF First
<1>2. IsFiniteSet(T)
  BY FS_Subset
<1>3. Cardinality(T) \in Nat /\ Cardinality(T) # 0
  BY <1>2, FS_CardinalityType, FS_EmptySet
<1>4. Cardinality(T \ {First(T)}) = Cardinality(T) - 1
  BY <1>1, <1>2, FS_RemoveElement
<1> QED
  BY <1>1, <1>3, <1>4

\* A function that obeys the fold's equation on the subsets of at most k
\* elements; and that there is one.
SumsUpTo(S, f, u, n, g, k) ==
    \A T \in SUBSET S : Cardinality(T) <= k => g[T] = SumStep(f, u, n, g, T)
SumExists(S, f, u, n, k) == \E g : SumsUpTo(S, f, u, n, g, k)

\* There is one for every k.
LEMMA SumUpTo ==
  ASSUME NEW S, IsFiniteSet(S), NEW f, NEW u, NEW n, NEW k \in Nat
  PROVE  SumExists(S, f, u, n, k)
<1> DEFINE Obeys(g, j) == SumsUpTo(S, f, u, n, g, j)
           B == {j \in Nat : ~\E g : Obeys(g, j)}
<1> USE DEF SumsUpTo
<1>1. SUFFICES ASSUME B # {} PROVE FALSE
  BY DEF SumExists
<1>2. PICK j \in B : \A i \in B : ~(i < j)
  BY <1>1, LeastNumber
<1>3. CASE j = 0
  <2> DEFINE g == [T \in SUBSET S |-> 0]
  <2>1. ASSUME NEW T \in SUBSET S, Cardinality(T) <= 0 PROVE T = {}
    <3>1. T # {} => Cardinality(T) \in Nat \ {0}
      BY FirstOut
    <3> QED
      BY <2>1, <3>1
  <2>2. Obeys(g, 0)
    BY <2>1 DEF SumStep
  <2> QED
    BY <1>2, <1>3, <2>2
<1>4. CASE j # 0
  <2>1. j \in Nat /\ j - 1 \in Nat /\ j - 1 < j
    BY <1>4
  <2>2. PICK g : Obeys(g, j - 1)
    BY <1>2, <2>1
  <2> DEFINE h == [T \in SUBSET S |-> SumStep(f, u, n, g, T)]
  <2>3. ASSUME NEW T \in SUBSET S, Cardinality(T) <= j
        PROVE  h[T] = SumStep(f, u, n, h, T)
    <3>1. CASE T = {}
      BY <3>1 DEF SumStep
    <3>2. CASE T # {}
      <4> DEFINE R == T \ {First(T)}
      <4>1. R \in SUBSET S /\ Cardinality(R) <= j - 1
        BY <2>1, <2>3, <3>2, FirstOut
      <4>2. h[R] = g[R]
        BY <2>2, <4>1
      <4> QED
        BY <3>2, <4>2 DEF SumStep
    <3> QED
      BY <3>1, <3>2
  <2>4. Obeys(h, j)
    BY <2>3
  <2> QED
    BY <1>2, <2>4
<1> QED
  BY <1>3, <1>4

\* The sum is therefore what its defining equation says.
SumEquationHolds(S, f, u, n) ==
    \E g : /\ g = [T \in SUBSET S |-> SumStep(f, u, n, g, T)]
           /\ SumOver(S, f, u, n) = g[S]

\* The fold chooses a function that obeys the equation, and there is one.
LEMMA SumEquation ==
  ASSUME NEW S, IsFiniteSet(S), NEW f, NEW u, NEW n
  PROVE  SumEquationHolds(S, f, u, n)
<1> DEFINE k == Cardinality(S)
           fold == CHOOSE g : g = [T \in SUBSET S |->
                     IF T = {} THEN 0
                     ELSE f[CHOOSE r \in T : TRUE][u][n]
                          + g[T \ {CHOOSE r \in T : TRUE}]]
<1>1. k \in Nat /\ \A T \in SUBSET S : Cardinality(T) <= k
  BY FS_CardinalityType, FS_Subset
<1>2. PICK h : SumsUpTo(S, f, u, n, h, k)
  BY <1>1, SumUpTo DEF SumExists
<1> DEFINE g == [T \in SUBSET S |-> h[T]]
<1>3. g = [T \in SUBSET S |-> SumStep(f, u, n, g, T)]
  BY <1>1, <1>2 DEF SumStep, SumsUpTo
<1>4. fold = [T \in SUBSET S |-> SumStep(f, u, n, fold, T)]
  BY <1>3 DEF SumStep, First
<1>5. SumOver(S, f, u, n) = fold[S]
  BY DEF SumOver, MapThenSumSet, MapThenFoldSet
<1> HIDE DEF fold
<1> QED
  BY <1>4, <1>5 DEF SumEquationHolds

\* If every element of K belongs to one member of S, and f counts no more for
\* a member than belong to it, the sum of f is at most the size of K.
LEMMA SumOfShares ==
  ASSUME NEW S, IsFiniteSet(S), NEW K, IsFiniteSet(K), NEW owner,
         NEW f, NEW u, NEW n,
         \A r \in S : /\ f[r][u][n] \in Nat
                     /\ f[r][u][n] <= Cardinality({s \in K : owner[s] = r})
  PROVE  SumOver(S, f, u, n) <= Cardinality(K)
<1> DEFINE Of(T) == {s \in K : owner[s] \in T}
<1>1. SumEquationHolds(S, f, u, n)
  BY SumEquation
<1>2. PICK g : /\ g = [T \in SUBSET S |-> SumStep(f, u, n, g, T)]
               /\ SumOver(S, f, u, n) = g[S]
  BY <1>1 DEF SumEquationHolds
<1> DEFINE Fits(T) == g[T] \in Nat /\ g[T] <= Cardinality(Of(T))
           B == {Cardinality(T) : T \in {R \in SUBSET S : ~Fits(R)}}
<1>3. ASSUME NEW T \in SUBSET S PROVE Fits(T)
  <2>1. SUFFICES ASSUME ~Fits(T) PROVE FALSE
    OBVIOUS
  <2>2. B \in SUBSET Nat /\ B # {}
    <3>1. \A R \in SUBSET S : Cardinality(R) \in Nat
      BY FS_Subset, FS_CardinalityType
    <3> QED
      BY <2>1, <3>1
  <2>3. PICK k \in B : \A j \in B : ~(j < k)
    BY <2>2, LeastNumber
  <2>4. PICK R \in SUBSET S : ~Fits(R) /\ k = Cardinality(R)
    BY <2>3
  <2>5. g[R] = SumStep(f, u, n, g, R)
    BY <1>2
  <2>6. IsFiniteSet(Of(R)) /\ Cardinality(Of(R)) \in Nat
    BY FS_Subset, FS_CardinalityType
  <2>7. CASE R = {}
    BY <2>4, <2>5, <2>6, <2>7 DEF SumStep
  <2>8. CASE R # {}
    <3> DEFINE r == First(R)
               Q == R \ {r}
               own == {s \in K : owner[s] = r}
    <3>1. r \in R /\ Q \in SUBSET S /\ Cardinality(Q) < k /\ r \in S
      BY <2>4, <2>8, FirstOut
    <3>2. Fits(Q)
      BY <2>3, <3>1
    <3>3. /\ IsFiniteSet(own) /\ IsFiniteSet(Of(Q))
          /\ Cardinality(own) \in Nat /\ Cardinality(Of(Q)) \in Nat
      BY FS_Subset, FS_CardinalityType
    <3>4. own \cup Of(Q) = Of(R) /\ own \cap Of(Q) = {}
      BY <3>1
    <3>5. Cardinality(Of(R)) = Cardinality(own) + Cardinality(Of(Q))
      <4> HIDE DEF own, Of
      <4>1. Cardinality(own \cup Of(Q)) =
              Cardinality(own) + Cardinality(Of(Q)) - Cardinality(own \cap Of(Q))
        BY <3>3, FS_Union
      <4>2. Cardinality(own \cap Of(Q)) = 0
        BY <3>4, FS_EmptySet
      <4>3. Cardinality(own \cup Of(Q)) = Cardinality(own) + Cardinality(Of(Q))
        BY <3>3, <4>1, <4>2
      <4> QED
        BY <3>4, <4>3
    <3>6. g[R] = f[r][u][n] + g[Q]
      BY <2>5, <2>8 DEF SumStep
    <3>7. f[r][u][n] \in Nat /\ f[r][u][n] <= Cardinality(own)
      BY <3>1
    <3>8. Fits(R)
      <4> HIDE DEF r, Q, own, Of
      <4> QED
        BY <3>2, <3>3, <3>5, <3>6, <3>7
    <3> QED
      BY <2>4, <3>8
  <2> QED
    BY <2>7, <2>8
<1>4. Of(S) \subseteq K
  OBVIOUS
<1>5. Cardinality(Of(S)) <= Cardinality(K) /\ Cardinality(Of(S)) \in Nat
      /\ Cardinality(K) \in Nat
  BY <1>4, FS_Subset, FS_CardinalityType
<1>6. SumOver(S, f, u, n) \in Nat /\ SumOver(S, f, u, n) <= Cardinality(Of(S))
  BY <1>2, <1>3
<1> HIDE DEF Of
<1> QED
  BY <1>5, <1>6

-----------------------------------------------------------------------------
(* The inductive invariant.                                                *)

\* A join between its start and the reply to its presence reference.
JoinPc == {"untrack", "read", "commit", "post", "bump"}

\* What the flags of one socket say about each other while its messages and
\* its close event interleave:
\*  - a join adds a reference only on a socket that has none, neither in its
\*    entry nor on the way to being dropped (membership-timing.ts:10);
\*  - a join that believes to hold one (already) is not the first;
\*  - entry, join and close handler mean the same room whenever one of them
\*    may still drop the reference;
\*  - a socket that was taken off the registry with its reference had joined
\*    before, is dead and joins nothing any more.
SocketFacts(s) ==
    LET m == msg[s]  k == sock[s]  c == close[s] IN
    /\ m.pc = "bump" => ~k.tracked /\ c.pc # "dec"
    /\ m.pc \in JoinPc /\ ~m.already => ~k.tracked
    /\ m.pc \in {"bump", "undo"} => k.room = m.room
    /\ m.pc \in {"read", "commit", "post"} /\ k.tracked => k.room = m.room
    /\ c.pc = "dec" => k.state = "closed" /\ c.room = k.room
    /\ k.state = "closed" => ~k.reg
    /\ k.tracked => k.reg
    /\ k.orphan => k.state # "open" /\ k.joins > 1 /\ m.pc \notin JoinPc
    /\ m.pc \in JoinPc => k.joins >= 1
    /\ m.already => k.joins > 1
    /\ k.tracked => k.joins >= 1
    /\ NodeOf[s] \notin up => k.state = "closed" /\ m.pc = "idle" /\ c.pc = "done"
Facts == \A s \in Socket : SocketFacts(s)

\* Socket s answers for a reference in room r: it holds it, left it behind, or
\* was in r when its process died.
Counts(s, r) ==
    \/ Holds(s, r) \/ LeftBehind(s, r)
    \/ NodeOf[s] \notin up /\ sock[s].room = r
Holders(r, u, n) ==
    {s \in Socket : UserOf[s] = u /\ NodeOf[s] = n /\ Counts(s, r)}
RefsCovered ==
    \A r \in Room, u \in User, n \in Node :
        ref[r][u][n] <= Cardinality(Holders(r, u, n))

PresenceInv == TypeOK /\ Facts /\ RefsCovered

-----------------------------------------------------------------------------
(* The flags of a socket.                                                  *)

\* A step of socket s leaves every other socket as it was.
OthersStay(s) ==
    \A q \in Socket \ {s} :
        sock'[q] = sock[q] /\ msg'[q] = msg[q] /\ close'[q] = close[q]

\* Steps of the socket, its messages and its close event touch no other one.
LEMMA SocketFrame ==
  ASSUME TypeOK, NEW s \in Socket, SocketStep(s)
  PROVE  OthersStay(s) /\ up' = up
<1> USE DEF OthersStay, nodes, store, MsgTo, MsgDone, CloseTo, TypeOK
<1>1. ASSUME SocketClosing(s) \/ SocketClosed(s) PROVE OthersStay(s) /\ up' = up
  BY <1>1 DEF SocketClosing, SocketClosed
<1>2. ASSUME NEW r \in Room, JoinStart(s, r) PROVE OthersStay(s) /\ up' = up
  BY <1>2 DEF JoinStart
<1>3. ASSUME MutStart(s) PROVE OthersStay(s) /\ up' = up
  BY <1>3 DEF MutStart
<1>4. ASSUME Untrack(s) \/ JoinRefused(s) \/ ReadPresence(s) \/ JoinCommit(s)
             \/ MutNull(s) \/ MutCommit(s)
      PROVE  OthersStay(s) /\ up' = up
  BY <1>4 DEF Untrack, JoinRefused, ReadPresence, JoinCommit, MutNull, MutCommit
<1>5. ASSUME PostDead(s) \/ PostAlive(s) \/ Bump(s) \/ Settle(s) \/ Lists(s)
      PROVE  OthersStay(s) /\ up' = up
  BY <1>5 DEF PostDead, PostAlive, Bump, Settle, Lists
<1>6. ASSUME Undo(s) \/ UndoRead(s) \/ UndoCommit(s) \/ UndoPrune(s)
      PROVE  OthersStay(s) /\ up' = up
  BY <1>6 DEF Undo, UndoRead, UndoCommit, UndoPrune
<1>7. ASSUME CloseStep(s) PROVE OthersStay(s) /\ up' = up
  BY <1>7 DEF CloseStep, CloseDec, CloseRead, CloseKeep, CloseOffline, CloseGated, ClosePrune
<1> QED
  BY <1>1, <1>2, <1>3, <1>4, <1>5, <1>6, <1>7 DEF SocketStep, MsgStep

\* Every step of a socket keeps its facts: one step per handler.
LEMMA SocketFactsKept ==
  ASSUME TypeOK, NEW s \in Socket, SocketFacts(s), SocketStep(s)
  PROVE  SocketFacts(s)'
<1> USE MembershipAssumption DEF SocketFacts, JoinPc, nodes, store
<1>0. /\ sock[s] \in Sock /\ msg[s] \in Msg /\ close[s] \in Close
      /\ sock \in [Socket -> Sock] /\ msg \in [Socket -> Msg]
      /\ close \in [Socket -> Close]
  BY DEF TypeOK
<1>1. CASE SocketClosing(s)
  BY <1>0, <1>1 DEF SocketClosing, Sock
<1>2. CASE SocketClosed(s)
  BY <1>0, <1>2 DEF SocketClosed, Sock, Close
<1>3. ASSUME NEW r \in Room, JoinStart(s, r) PROVE SocketFacts(s)'
  BY <1>0, <1>3 DEF JoinStart, IdleMsg, Sock
<1>4. CASE MutStart(s)
  BY <1>0, <1>4 DEF MutStart, Msg, Sock
<1>5. CASE Untrack(s)
  BY <1>0, <1>5 DEF Untrack, MsgTo, Msg, Sock
<1>6. CASE JoinRefused(s) \/ MutNull(s) \/ Settle(s) \/ Lists(s) \/ UndoPrune(s)
  BY <1>0, <1>6 DEF JoinRefused, MutNull, Settle, Lists, UndoPrune, MsgDone, IdleMsg
<1>7. CASE ReadPresence(s)
  BY <1>0, <1>7 DEF ReadPresence, Msg
<1>8. CASE JoinCommit(s)
  BY <1>0, <1>8 DEF JoinCommit, Msg
<1>9. CASE MutCommit(s)
  BY <1>0, <1>9 DEF MutCommit, Msg
<1>10. CASE PostDead(s)
  BY <1>0, <1>10 DEF PostDead, MsgTo, Msg, Sock
<1>11. CASE PostAlive(s)
  BY <1>0, <1>11 DEF PostAlive, MsgTo, Msg, Sock
<1>12. CASE Bump(s)
  BY <1>0, <1>12 DEF Bump, MsgTo, Msg, Sock
<1>13. CASE Undo(s)
  BY <1>0, <1>13 DEF Undo, MsgTo, Msg, Sock
<1>14. CASE UndoRead(s) \/ UndoCommit(s)
  <2>1. UNCHANGED <<sock, close, up>> /\ msg[s].pc \in {"undoRead", "undoCommit"}
    BY <1>14 DEF UndoRead, UndoCommit
  <2>2. MsgDone(s) \/ MsgTo(s, "undoCommit") \/ MsgTo(s, "undoPrune")
    BY <1>14 DEF UndoRead, UndoCommit
  <2>3. \/ msg'[s].pc = "idle" /\ ~msg'[s].already
        \/ msg'[s].pc \in {"undoCommit", "undoPrune"} /\ msg'[s].already = msg[s].already
    BY <1>0, <2>2 DEF MsgDone, MsgTo, IdleMsg, Msg
  <2>4. msg'[s].pc \notin {"bump", "undo"} \cup JoinPc
    BY <2>3
  <2>5. msg'[s].already => msg[s].already
    BY <2>3
  <2>6. NodeOf[s] \in up
    BY <2>1
  <2> QED
    BY <2>1, <2>4, <2>5, <2>6
<1>15. CASE CloseDec(s) \/ CloseRead(s) \/ CloseKeep(s) \/ CloseOffline(s)
            \/ CloseGated(s) \/ ClosePrune(s)
  BY <1>0, <1>15 DEF CloseDec, CloseRead, CloseKeep, CloseOffline, CloseGated,
                     ClosePrune, CloseTo, Close
<1> QED
  BY <1>1, <1>2, <1>3, <1>4, <1>5, <1>6, <1>7, <1>8, <1>9, <1>10, <1>11, <1>12,
     <1>13, <1>14, <1>15 DEF SocketStep, MsgStep, CloseStep

-----------------------------------------------------------------------------
(* Counting the holders.                                                   *)

\* However the holders change, there are finitely many.
LEMMA HoldersFinite ==
  ASSUME NEW A \in SUBSET Socket
  PROVE  IsFiniteSet(A) /\ Cardinality(A) \in Nat
BY FinitelyMany, FS_Subset, FS_CardinalityType

\* No holder less.
LEMMA CoverKept ==
  ASSUME NEW A \in SUBSET Socket, NEW B \in SUBSET Socket, A \subseteq B
  PROVE  /\ Cardinality(A) \in Nat /\ Cardinality(B) \in Nat
         /\ Cardinality(A) <= Cardinality(B)
BY HoldersFinite, FS_Subset

\* At most one holder less.
LEMMA CoverDropped ==
  ASSUME NEW A \in SUBSET Socket, NEW B \in SUBSET Socket, NEW s, A \ {s} \subseteq B
  PROVE  /\ Cardinality(A) \in Nat /\ Cardinality(B) \in Nat
         /\ Cardinality(A) <= Cardinality(B) + 1
<1>1. Cardinality(A \ {s}) = IF s \in A THEN Cardinality(A) - 1 ELSE Cardinality(A)
  BY HoldersFinite, FS_RemoveElement
<1>2. Cardinality(A \ {s}) <= Cardinality(B)
  BY HoldersFinite, FS_Subset
<1> QED
  BY <1>1, <1>2, HoldersFinite

\* A holder more.
LEMMA CoverAdded ==
  ASSUME NEW A \in SUBSET Socket, NEW B \in SUBSET Socket, NEW s, s \notin A,
         A \cup {s} \subseteq B
  PROVE  /\ Cardinality(A) \in Nat /\ Cardinality(B) \in Nat
         /\ Cardinality(A) + 1 <= Cardinality(B)
<1>1. Cardinality(A \cup {s}) = Cardinality(A) + 1
  BY HoldersFinite, FS_AddElement
<1>2. Cardinality(A \cup {s}) <= Cardinality(B)
  BY HoldersFinite, FS_Subset
<1> QED
  BY <1>1, <1>2, HoldersFinite

\* What a step of socket s may do to the references: none changes and s
\* answers for no room less; or one is dropped, in the only room s may stop to
\* answer for; or one is added in a room s did not answer for and now does.
Balanced(s) ==
    \/ ref' = ref /\ \A r \in Room : Counts(s, r) => Counts(s, r)'
    \/ \E x \in Room : /\ Release(x, UserOf[s], NodeOf[s])
                       /\ \A r \in Room \ {x} : Counts(s, r) => Counts(s, r)'
    \/ \E x \in Room : /\ Acquire(x, UserOf[s], NodeOf[s])
                       /\ ~Counts(s, x) /\ Counts(s, x)'
                       /\ \A r \in Room : Counts(s, r) => Counts(s, r)'

\* A balanced step keeps the references covered.
LEMMA BalancedCovers ==
  ASSUME TypeOK, TypeOK', RefsCovered, NEW s \in Socket, OthersStay(s), up' = up,
         Balanced(s)
  PROVE  RefsCovered'
<1> SUFFICES ASSUME NEW r \in Room, NEW u \in User, NEW n \in Node
             PROVE  ref'[r][u][n] <= Cardinality(Holders(r, u, n)')
  BY DEF RefsCovered
<1> DEFINE A == Holders(r, u, n)
           B == Holders(r, u, n)'
           before == ref[r][u][n]
           after == ref'[r][u][n]
           mine == UserOf[s] = u /\ NodeOf[s] = n
<1>1. /\ A \in SUBSET Socket /\ B \in SUBSET Socket
      /\ before \in Nat /\ after \in Nat /\ before <= Cardinality(A)
      /\ ref \in [Room -> [User -> [Node -> Nat]]]
  BY DEF TypeOK, Holders, RefsCovered
<1>2. \A q \in Socket \ {s} : Counts(q, r)' <=> Counts(q, r)
  BY DEF OthersStay, Counts, Holds, LeftBehind
<1>3. /\ A \ {s} \subseteq B
      /\ (mine /\ Counts(s, r) => Counts(s, r)') => A \subseteq B
      /\ mine /\ ~Counts(s, r) /\ Counts(s, r)' => s \notin A /\ A \cup {s} \subseteq B
  BY <1>2 DEF Holders
<1>4. ASSUME A \subseteq B, after = before PROVE after <= Cardinality(B)
  <2>1. /\ Cardinality(A) \in Nat /\ Cardinality(B) \in Nat
        /\ Cardinality(A) <= Cardinality(B)
    BY <1>1, <1>4, CoverKept
  <2> HIDE DEF A, B, before, after
  <2> QED
    BY <1>1, <1>4, <2>1
<1>5. CASE ref' = ref /\ \A x \in Room : Counts(s, x) => Counts(s, x)'
  BY <1>3, <1>4, <1>5
<1>6. ASSUME NEW x \in Room, Release(x, UserOf[s], NodeOf[s]),
             \A y \in Room \ {x} : Counts(s, y) => Counts(s, y)'
      PROVE  after <= Cardinality(B)
  <2>1. CASE r = x /\ mine
    <3>1. after = IF before > 0 THEN before - 1 ELSE 0
      BY <1>1, <1>6, <2>1 DEF Release
    <3>2. /\ Cardinality(A) \in Nat /\ Cardinality(B) \in Nat
          /\ Cardinality(A) <= Cardinality(B) + 1
      BY <1>1, <1>3, CoverDropped
    <3> HIDE DEF A, B, before, after
    <3> QED
      BY <1>1, <3>1, <3>2
  <2>2. CASE ~(r = x /\ mine)
    <3>1. after = before
      BY <1>1, <1>6, <2>2 DEF Release
    <3>2. A \subseteq B
      BY <1>3, <1>6, <2>2
    <3> QED
      BY <1>4, <3>1, <3>2
  <2> QED
    BY <2>1, <2>2
<1>7. ASSUME NEW x \in Room, Acquire(x, UserOf[s], NodeOf[s]),
             ~Counts(s, x), Counts(s, x)',
             \A y \in Room : Counts(s, y) => Counts(s, y)'
      PROVE  after <= Cardinality(B)
  <2>1. CASE r = x /\ mine
    <3>1. after = before + 1
      BY <1>1, <1>7, <2>1 DEF Acquire
    <3>2. s \notin A /\ A \cup {s} \subseteq B
      BY <1>3, <1>7, <2>1
    <3>3. /\ Cardinality(A) \in Nat /\ Cardinality(B) \in Nat
          /\ Cardinality(A) + 1 <= Cardinality(B)
      BY <1>1, <3>2, CoverAdded
    <3> HIDE DEF A, B, before, after
    <3> QED
      BY <1>1, <3>1, <3>3
  <2>2. CASE ~(r = x /\ mine)
    <3>1. after = before
      BY <1>1, <1>7, <2>2 DEF Acquire
    <3>2. A \subseteq B
      BY <1>3, <1>7
    <3> QED
      BY <1>4, <3>1, <3>2
  <2> QED
    BY <2>1, <2>2
<1> QED
  BY <1>5, <1>6, <1>7 DEF Balanced

\* Every step of a socket is balanced: one step per handler that touches a
\* flag or a reference.
LEMMA SocketBalanced ==
  ASSUME TypeOK, NEW s \in Socket, SocketFacts(s), SocketStep(s)
  PROVE  Balanced(s)
<1> USE DEF Counts, Holds, LeftBehind, nodes, store
<1>0. /\ sock[s] \in Sock /\ msg[s] \in Msg /\ close[s] \in Close
      /\ sock \in [Socket -> Sock] /\ msg \in [Socket -> Msg]
      /\ close \in [Socket -> Close]
      /\ sock[s].room \in Room /\ msg[s].room \in Room /\ close[s].room \in Room
  BY RoomTypes DEF TypeOK
<1>1. CASE SocketClosing(s)
  BY <1>0, <1>1 DEF SocketClosing, Sock, Balanced
<1>2. CASE SocketClosed(s)
  BY <1>0, <1>2 DEF SocketClosed, Sock, Close, Balanced, SocketFacts
<1>3. ASSUME NEW r \in Room, JoinStart(s, r) PROVE Balanced(s)
  <2>1. ref' = ref /\ up' = up /\ close' = close
    BY <1>3 DEF JoinStart
  <2>2. /\ sock[s].state = "open" /\ msg[s].pc = "idle"
        /\ sock'[s].reg = sock[s].reg /\ sock'[s].tracked = sock[s].tracked
        /\ sock'[s].room = sock[s].room
        /\ ~sock[s].orphan /\ ~sock'[s].orphan
    BY <1>0, <1>3 DEF JoinStart, Sock, SocketFacts
  <2> QED
    BY <2>1, <2>2 DEF Balanced
<1>4. CASE MutStart(s)
  BY <1>0, <1>4 DEF MutStart, Msg, Balanced
<1>5. CASE Untrack(s)
  <2>1. \A y \in Room \ {sock[s].room} : Counts(s, y) => Counts(s, y)'
    BY <1>0, <1>5 DEF Untrack, MsgTo, Msg, Sock
  <2> QED
    BY <1>0, <1>5, <2>1 DEF Untrack, Balanced
<1>6. CASE JoinRefused(s) \/ MutNull(s) \/ Settle(s) \/ Lists(s) \/ UndoPrune(s)
  BY <1>0, <1>6 DEF JoinRefused, MutNull, Settle, Lists, UndoPrune, MsgDone, IdleMsg,
                    Balanced
<1>7. CASE ReadPresence(s)
  BY <1>0, <1>7 DEF ReadPresence, Msg, Balanced
<1>8. CASE JoinCommit(s)
  BY <1>0, <1>8 DEF JoinCommit, Msg, Balanced
<1>9. CASE MutCommit(s)
  BY <1>0, <1>9 DEF MutCommit, Msg, Balanced
<1>10. CASE PostDead(s)
  <2>1. /\ msg[s].pc = "post" /\ ~sock[s].orphan
        /\ sock[s].tracked => sock[s].joins > 1
    BY <1>10 DEF PostDead, SocketFacts, JoinPc
  <2>2. /\ sock'[s].room = sock[s].room
        /\ sock'[s].orphan = (sock[s].reg /\ sock[s].tracked)
        /\ sock'[s].joins = sock[s].joins
    BY <1>0, <1>10 DEF PostDead, Sock
  <2> QED
    BY <1>10, <2>1, <2>2 DEF PostDead, Balanced
<1>11. CASE PostAlive(s)
  <2>1. /\ sock[s].reg /\ sock[s].tracked => sock[s].room = msg[s].room
        /\ close[s].pc # "dec" /\ NodeOf[s] \in up
    BY <1>0, <1>11 DEF PostAlive, SocketFacts, Close, Sock
  <2> QED
    BY <1>0, <1>11, <2>1 DEF PostAlive, MsgTo, Msg, Sock, Balanced
<1>12. CASE Bump(s)
  <2>1. /\ ~sock[s].tracked /\ ~sock[s].orphan
        /\ close[s].pc # "dec" /\ NodeOf[s] \in up
        /\ sock[s].room = msg[s].room
    BY <1>0, <1>12 DEF Bump, SocketFacts, JoinPc
  <2>2. PICK x \in Room : x = msg[s].room
    BY <1>0
  <2>3. \A y \in Room : ~Counts(s, y)
    BY <1>0, <1>12, <2>1 DEF Bump
  <2>4. Counts(s, x)'
    BY <1>0, <1>12, <2>1, <2>2 DEF Bump, MsgTo, Msg, Sock
  <2>5. Acquire(x, UserOf[s], NodeOf[s])
    BY <1>12, <2>2 DEF Bump
  <2> HIDE DEF Counts
  <2> QED
    BY <2>3, <2>4, <2>5 DEF Balanced
<1>13. CASE Undo(s)
  <2>1. \A y \in Room \ {msg[s].room} : Counts(s, y) => Counts(s, y)'
    BY <1>0, <1>13 DEF Undo, MsgTo, Msg, Sock, SocketFacts
  <2> QED
    BY <1>0, <1>13, <2>1 DEF Undo, Balanced
<1>14. CASE UndoRead(s) \/ UndoCommit(s)
  BY <1>0, <1>14 DEF UndoRead, UndoCommit, MsgTo, MsgDone, IdleMsg, Msg, Balanced
<1>15. CASE CloseDec(s)
  <2>1. \A y \in Room \ {close[s].room} : Counts(s, y) => Counts(s, y)'
    BY <1>0, <1>15 DEF CloseDec, CloseTo, Close
  <2> QED
    BY <1>0, <1>15, <2>1 DEF CloseDec, Balanced
<1>16. CASE CloseRead(s) \/ CloseKeep(s) \/ CloseOffline(s)
            \/ CloseGated(s) \/ ClosePrune(s)
  BY <1>0, <1>16 DEF CloseRead, CloseKeep, CloseOffline, CloseGated, ClosePrune,
                     CloseTo, Close, Balanced
<1> QED
  BY <1>1, <1>2, <1>3, <1>4, <1>5, <1>6, <1>7, <1>8, <1>9, <1>10, <1>11, <1>12,
     <1>13, <1>14, <1>15, <1>16 DEF SocketStep, MsgStep, CloseStep

-----------------------------------------------------------------------------
(* The other steps.                                                        *)

\* A process that dies takes its handlers with it, not its references: every
\* socket goes on answering for the room it was in.
LEMMA CrashCovered ==
  ASSUME TypeOK, TypeOK', Facts, RefsCovered, NEW n \in Node, Crash(n)
  PROVE  Facts' /\ RefsCovered'
<1>1. /\ up' = up \ {n} /\ ref' = ref /\ up \in SUBSET Node
      /\ sock \in [Socket -> Sock]
  BY DEF Crash, store, TypeOK
<1>2. ASSUME NEW s \in Socket, NodeOf[s] = n
      PROVE  /\ sock'[s] = [sock[s] EXCEPT !.state = "closed", !.reg = FALSE,
                                               !.tracked = FALSE]
             /\ msg'[s] = IdleMsg /\ close'[s] = [IdleClose EXCEPT !.pc = "done"]
             /\ NodeOf[s] \notin up' /\ sock'[s].room = sock[s].room
  BY <1>1, <1>2 DEF Crash, Sock
<1>3. ASSUME NEW s \in Socket, NodeOf[s] # n
      PROVE  /\ sock'[s] = sock[s] /\ msg'[s] = msg[s] /\ close'[s] = close[s]
             /\ NodeOf[s] \notin up' <=> NodeOf[s] \notin up
  BY <1>1, <1>3, RoomTypes DEF Crash
<1>4. ASSUME NEW s \in Socket PROVE SocketFacts(s)'
  <2>0. SocketFacts(s) /\ sock[s] \in Sock
    BY <1>1 DEF Facts
  <2>1. CASE NodeOf[s] = n
    <3>1. /\ sock'[s].state = "closed" /\ ~sock'[s].reg /\ ~sock'[s].tracked
          /\ sock'[s].orphan = sock[s].orphan /\ sock'[s].joins = sock[s].joins
          /\ msg'[s].pc = "idle" /\ ~msg'[s].already /\ close'[s].pc = "done"
      <4>1. /\ sock'[s] = [sock[s] EXCEPT !.state = "closed", !.reg = FALSE,
                                          !.tracked = FALSE]
            /\ msg'[s] = IdleMsg /\ close'[s] = [IdleClose EXCEPT !.pc = "done"]
        BY <1>2, <2>1
      <4>2. /\ sock'[s].state = "closed" /\ ~sock'[s].reg /\ ~sock'[s].tracked
            /\ sock'[s].orphan = sock[s].orphan /\ sock'[s].joins = sock[s].joins
        BY <2>0, <4>1 DEF Sock
      <4>3. msg'[s].pc = "idle" /\ ~msg'[s].already
        BY <4>1 DEF IdleMsg
      <4>4. close'[s].pc = "done"
        BY <4>1 DEF IdleClose
      <4> QED
        BY <4>2, <4>3, <4>4
    <3> QED
      BY <2>0, <3>1 DEF SocketFacts, JoinPc
  <2>2. CASE NodeOf[s] # n
    BY <1>3, <2>0, <2>2 DEF SocketFacts
  <2> QED
    BY <2>1, <2>2
<1>5. ASSUME NEW s \in Socket, NEW r \in Room, Counts(s, r) PROVE Counts(s, r)'
  <2>1. CASE NodeOf[s] = n
    <3>1. sock[s].room = r
      BY <1>5 DEF Counts, Holds, LeftBehind, Facts, SocketFacts
    <3> QED
      BY <1>2, <2>1, <3>1 DEF Counts
  <2>2. CASE NodeOf[s] # n
    BY <1>3, <1>5, <2>2 DEF Counts, Holds, LeftBehind
  <2> QED
    BY <2>1, <2>2
<1>6. ASSUME NEW r \in Room, NEW u \in User, NEW m \in Node
      PROVE  ref'[r][u][m] <= Cardinality(Holders(r, u, m)')
  <2> DEFINE A == Holders(r, u, m)
             B == Holders(r, u, m)'
  <2>1. /\ A \in SUBSET Socket /\ B \in SUBSET Socket /\ A \subseteq B
        /\ ref'[r][u][m] = ref[r][u][m] /\ ref[r][u][m] \in Nat
        /\ ref[r][u][m] <= Cardinality(A)
    BY <1>1, <1>5 DEF Holders, RefsCovered, TypeOK
  <2> HIDE DEF A, B
  <2>2. Cardinality(A) \in Nat /\ Cardinality(B) \in Nat
        /\ Cardinality(A) <= Cardinality(B)
    BY <2>1, CoverKept
  <2>3. ref'[r][u][m] <= Cardinality(B)
    BY <2>1, <2>2
  <2> QED
    BY <2>3 DEF B
<1> QED
  BY <1>4, <1>6 DEF Facts, RefsCovered

\* With the sockets as they are, fewer references stay covered: what the
\* empty-room check does, which deletes a room's references with the room.
LEMMA FewerCovered ==
  ASSUME TypeOK, TypeOK', Facts, RefsCovered,
         sock' = sock, msg' = msg, close' = close, up' = up,
         \A r \in Room, u \in User, n \in Node : ref'[r][u][n] <= ref[r][u][n]
  PROVE  Facts' /\ RefsCovered'
<1>1. Facts'
  BY DEF Facts, SocketFacts
<1>2. ASSUME NEW r \in Room, NEW u \in User, NEW n \in Node
      PROVE  ref'[r][u][n] <= Cardinality(Holders(r, u, n)')
  <2> DEFINE A == Holders(r, u, n)
  <2>1. Holders(r, u, n)' = A
    BY DEF Holders, Counts, Holds, LeftBehind
  <2>2. /\ ref'[r][u][n] \in Nat /\ ref[r][u][n] \in Nat
        /\ ref'[r][u][n] <= ref[r][u][n]
        /\ ref[r][u][n] <= Cardinality(A)
    BY DEF TypeOK, RefsCovered
  <2>3. Cardinality(A) \in Nat
    BY HoldersFinite DEF Holders
  <2> HIDE DEF A
  <2> QED
    BY <2>1, <2>2, <2>3
<1> QED
  BY <1>1, <1>2 DEF RefsCovered

\* No reference is there at the start, and no socket.
LEMMA InitPresence == Init => PresenceInv
<1> SUFFICES ASSUME Init PROVE PresenceInv
  OBVIOUS
<1>1. TypeOK
  BY InitTypes
<1>2. Facts
  <2> SUFFICES ASSUME NEW s \in Socket PROVE SocketFacts(s)
    BY DEF Facts
  <2>1. NodeOf[s] \in up
    BY MembershipAssumption DEF Init
  <2>2. /\ msg[s].pc = "idle" /\ ~msg[s].already /\ close[s].pc = "idle"
        /\ sock[s].state = "open" /\ ~sock[s].reg
        /\ ~sock[s].tracked /\ ~sock[s].orphan
    BY DEF Init, IdleMsg, IdleClose
  <2> QED
    BY <2>1, <2>2 DEF SocketFacts, JoinPc
<1>3. ASSUME NEW r \in Room, NEW u \in User, NEW n \in Node
      PROVE  ref[r][u][n] <= Cardinality(Holders(r, u, n))
  <2>1. ref[r][u][n] = 0
    BY DEF Init
  <2>2. Cardinality(Holders(r, u, n)) \in Nat
    BY HoldersFinite DEF Holders
  <2> QED
    BY <2>1, <2>2
<1> QED
  BY <1>1, <1>2, <1>3 DEF PresenceInv, RefsCovered

-----------------------------------------------------------------------------
(* The theorems.                                                           *)

\* Every step keeps the invariant.
LEMMA NextPresence == PresenceInv /\ [Next]_vars => PresenceInv'
<1> SUFFICES ASSUME TypeOK, Facts, RefsCovered, [Next]_vars
             PROVE  TypeOK' /\ Facts' /\ RefsCovered'
  BY DEF PresenceInv
<1>0. TypeOK'
  BY NextTypes
<1>1. ASSUME NEW s \in Socket, SocketStep(s) PROVE Facts' /\ RefsCovered'
  <2>1. OthersStay(s) /\ up' = up
    BY <1>1, SocketFrame
  <2>2. SocketFacts(s) /\ SocketFacts(s)'
    BY <1>1, SocketFactsKept DEF Facts
  <2>3. ASSUME NEW q \in Socket \ {s} PROVE SocketFacts(q)'
    BY <2>1 DEF OthersStay, Facts, SocketFacts
  <2>4. RefsCovered'
    BY <1>0, <1>1, <2>1, <2>2, SocketBalanced, BalancedCovers
  <2> QED
    BY <2>2, <2>3, <2>4 DEF Facts
<1>2. ASSUME UNCHANGED <<ref, up, sock, msg, close>> PROVE Facts' /\ RefsCovered'
  <2>1. \A r \in Room, u \in User, n \in Node : ref'[r][u][n] <= ref[r][u][n]
    BY <1>2 DEF TypeOK
  <2> QED
    BY <1>0, <1>2, <2>1, FewerCovered
<1>3. ASSUME NEW t \in Task, GateStep(t) PROVE Facts' /\ RefsCovered'
  <2>1. CASE GateNote(t) \/ GatePresence(t) \/ GateConfirm(t)
    BY <1>2, <2>1 DEF GateNote, GatePresence, GateConfirm, store, nodes
  <2>2. CASE GateDelete(t)
    <3>1. sock' = sock /\ msg' = msg /\ close' = close /\ up' = up
      BY <2>2 DEF GateDelete, nodes
    <3>2. ASSUME NEW r \in Room, NEW u \in User, NEW n \in Node
          PROVE  ref'[r][u][n] <= ref[r][u][n]
      <4>1. ref'[r][u][n] = IF r = gate[t].room THEN 0 ELSE ref[r][u][n]
        BY <2>2 DEF GateDelete, TypeOK
      <4>2. ref[r][u][n] \in Nat
        BY DEF TypeOK
      <4> QED
        BY <4>1, <4>2
    <3> QED
      BY <1>0, <3>1, <3>2, FewerCovered
  <2> QED
    BY <1>3, <2>1, <2>2 DEF GateStep
<1>4. ASSUME NEW n \in Node, SweepStep(n) PROVE Facts' /\ RefsCovered'
  BY <1>2, <1>4 DEF SweepStep, SweepStart, SweepRead, SweepCommit, SweepLists, SweepGated,
                    SweepIndex, SweepDue, SweepRemove, SweepUnindex, SweepEnd, store, nodes
<1>5. ASSUME NEW n \in Node, Crash(n) PROVE Facts' /\ RefsCovered'
  BY <1>0, <1>5, CrashCovered
<1>6. ASSUME NEW n \in Node, HeartbeatExpire(n) PROVE Facts' /\ RefsCovered'
  BY <1>2, <1>6 DEF HeartbeatExpire, store
<1>7. ASSUME NEW r \in Room, NEW u \in User, PruneGraceOver(r, u)
      PROVE  Facts' /\ RefsCovered'
  BY <1>2, <1>7 DEF PruneGraceOver, nodes
<1>8. ASSUME NEW r \in Room, EmptyElapse(r) PROVE Facts' /\ RefsCovered'
  BY <1>2, <1>8 DEF EmptyElapse, nodes
<1>9. ASSUME UNCHANGED vars PROVE Facts' /\ RefsCovered'
  BY <1>2, <1>9 DEF vars, store, nodes
<1> QED
  BY <1>0, <1>1, <1>3, <1>4, <1>5, <1>6, <1>7, <1>8, <1>9 DEF Next

\* The invariant holds in every state.
LEMMA PresenceInvHolds == Spec => []PresenceInv
BY InitPresence, NextPresence, PTL DEF Spec

\* On a process that runs, every presence reference has a socket that holds it
\* or is about to drop it, or one that a rollback took off the registry after
\* it had joined again and died; a socket that closed in order has none,
\* however often it joined, whatever joins, room changes, rollbacks, closes
\* and room deletions interleave (abort.ts:23-26, disconnect.ts:165-167).
THEOREM NoGhosts == Spec => []NoGhostPresence
<1>1. PresenceInv => NoGhostPresence
  <2> SUFFICES ASSUME TypeOK, RefsCovered, NEW r \in Room, NEW u \in User, NEW n \in up
               PROVE  ref[r][u][n] <=
                        Cardinality({s \in Socket :
                           /\ UserOf[s] = u /\ NodeOf[s] = n
                           /\ (Holds(s, r) \/ LeftBehind(s, r))})
    BY DEF PresenceInv, NoGhostPresence
  <2>1. n \in Node
    BY DEF TypeOK
  <2>2. Holders(r, u, n) = {s \in Socket : /\ UserOf[s] = u /\ NodeOf[s] = n
                                          /\ (Holds(s, r) \/ LeftBehind(s, r))}
    BY DEF Holders, Counts
  <2> QED
    BY <2>1, <2>2 DEF RefsCovered
<1> QED
  BY <1>1, PresenceInvHolds, PTL

\* A socket counts once over all rooms together, however often and into
\* whichever rooms it joins, also while its process is dying: a socket answers
\* for no room but the one of its entry (R2, membership-timing.ts:10).
THEOREM SocketCountsOnce == Spec => []OneRefPerSocket
<1>1. PresenceInv => OneRefPerSocket
  <2> SUFFICES ASSUME PresenceInv, NEW u \in User, NEW n \in Node
               PROVE  RefsInAllRooms(u, n) <=
                        Cardinality({s \in Socket : UserOf[s] = u /\ NodeOf[s] = n})
    BY DEF OneRefPerSocket
  <2> DEFINE mine == {s \in Socket : UserOf[s] = u /\ NodeOf[s] = n}
             owner == [s \in Socket |-> sock[s].room]
  <2>1. \A s \in mine, r \in Room : Counts(s, r) => owner[s] = r
    BY DEF PresenceInv, Counts, Holds, LeftBehind, Facts, SocketFacts
  <2>2. ASSUME NEW r \in Room
        PROVE  /\ ref[r][u][n] \in Nat
               /\ ref[r][u][n] <= Cardinality({s \in mine : owner[s] = r})
    <3> DEFINE A == Holders(r, u, n)
               B == {s \in mine : owner[s] = r}
    <3>1. A \in SUBSET Socket /\ B \in SUBSET Socket /\ A \subseteq B
      BY <2>1 DEF Holders
    <3>2. ref[r][u][n] \in Nat /\ ref[r][u][n] <= Cardinality(A)
      BY DEF PresenceInv, RefsCovered, TypeOK
    <3>3. /\ Cardinality(A) \in Nat /\ Cardinality(B) \in Nat
          /\ Cardinality(A) <= Cardinality(B)
      BY <3>1, CoverKept
    <3> HIDE DEF A, B
    <3>4. ref[r][u][n] <= Cardinality(B)
      BY <3>2, <3>3
    <3> QED
      BY <3>2, <3>4 DEF B
  <2>3. IsFiniteSet(Room) /\ IsFiniteSet(mine)
    BY FinitelyMany, HoldersFinite
  <2> HIDE DEF mine, owner
  <2>4. SumOver(Room, ref, u, n) <= Cardinality(mine)
    BY <2>2, <2>3, SumOfShares
  <2>5. RefsInAllRooms(u, n) = SumOver(Room, ref, u, n)
    BY DEF RefsInAllRooms, SumOver
  <2> QED
    BY <2>4, <2>5 DEF mine
<1> QED
  BY <1>1, PresenceInvHolds, PTL

-----------------------------------------------------------------------------
(* Presence of a joined socket.  JoinedIsPresent fails when a socket joins  *)
(* a second room (join.ts:88), when another tab of the user closes in the   *)
(* middle of its join's rollback, which then drops its reference twice      *)
(* (abort.ts:24, disconnect.ts:165), and when the room is destroyed under   *)
(* the join.  It holds where none of the three can happen.                  *)

\* One socket per user and process, one join on it, no room that dies.
LoneTabs ==
    /\ \A s, q \in Socket : UserOf[s] = UserOf[q] /\ NodeOf[s] = NodeOf[q] => s = q
    /\ MaxJoins = 1
    /\ DyingRooms = {}

\* No empty-room check gets past its first look at the marker.
NoRoomDies ==
    /\ \A r \in Room : emptyAt[r] # "elapsed"
    /\ \A t \in Task : gate[t].pc \notin {"presence", "confirm", "delete"}

\* A joined socket has its reference and no join or rollback under way.
JoinedFacts(s) ==
    /\ msg[s].pc # "untrack"
    /\ sock[s].state = "open" /\ sock[s].reg /\ sock[s].committed =>
         /\ ref[sock[s].room][UserOf[s]][NodeOf[s]] > 0
         /\ sock[s].joins = 1
         /\ msg[s].pc \notin JoinPc \cup {"undo"}

LoneInv == PresenceInv /\ NoRoomDies /\ \A s \in Socket : JoinedFacts(s)

\* Without a room that dies no check comes to a deletion.
LEMMA NextNoRoomDies ==
  ASSUME TypeOK, DyingRooms = {}, NoRoomDies, [Next]_vars
  PROVE  NoRoomDies'
<1> USE DEF NoRoomDies, store, nodes
<1>1. ASSUME UNCHANGED <<emptyAt, gate>> PROVE NoRoomDies'
  BY <1>1
<1>2. ASSUME NEW s \in Socket, SocketStep(s) PROVE NoRoomDies'
  <2>0. gate \in [Task -> Gate] /\ emptyAt \in [Room -> {"none", "fresh", "elapsed"}]
    BY DEF TypeOK
  <2>1. CASE Settle(s)
    BY <2>0, <2>1 DEF Settle
  <2>2. CASE CloseOffline(s) \/ CloseGated(s)
    BY <2>0, <2>2 DEF CloseOffline, CloseGated, IdleGate, Gate
  <2>3. CASE SocketClosing(s) \/ SocketClosed(s) \/ MutStart(s)
             \/ \E r \in Room : JoinStart(s, r)
    BY <1>1, <2>3 DEF SocketClosing, SocketClosed, MutStart, JoinStart
  <2>4. CASE \/ Untrack(s) \/ JoinRefused(s) \/ ReadPresence(s) \/ JoinCommit(s)
             \/ PostDead(s) \/ PostAlive(s) \/ Bump(s) \/ Lists(s) \/ Undo(s)
             \/ UndoRead(s) \/ UndoCommit(s) \/ UndoPrune(s) \/ MutNull(s) \/ MutCommit(s)
    BY <1>1, <2>4 DEF Untrack, JoinRefused, ReadPresence, JoinCommit, PostDead, PostAlive,
                      Bump, Lists, Undo, UndoRead, UndoCommit, UndoPrune, MutNull, MutCommit
  <2>5. CASE CloseDec(s) \/ CloseRead(s) \/ CloseKeep(s) \/ ClosePrune(s)
    BY <1>1, <2>5 DEF CloseDec, CloseRead, CloseKeep, ClosePrune
  <2> QED
    BY <1>2, <2>1, <2>2, <2>3, <2>4, <2>5 DEF SocketStep, MsgStep, CloseStep
<1>3. ASSUME NEW t \in Task, GateStep(t) PROVE NoRoomDies'
  <2>1. GateNote(t)
    BY <1>3 DEF GateStep, GatePresence, GateConfirm, GateDelete
  <2>2. gate[t].room \in Room
    BY RoomTypes
  <2> QED
    BY <2>1, <2>2 DEF GateNote, GateTo, TypeOK, Gate
<1>4. ASSUME NEW n \in Node, SweepStep(n) PROVE NoRoomDies'
  <2>0. gate \in [Task -> Gate] /\ emptyAt \in [Room -> {"none", "fresh", "elapsed"}]
    BY DEF TypeOK
  <2>1. CASE SweepLists(n)
    BY <2>0, <2>1 DEF SweepLists
  <2>2. CASE SweepGated(n)
    BY <2>0, <2>2 DEF SweepGated, IdleGate
  <2>3. CASE \/ SweepStart(n) \/ SweepRead(n) \/ SweepCommit(n) \/ SweepIndex(n)
             \/ SweepDue(n) \/ SweepRemove(n) \/ SweepUnindex(n) \/ SweepEnd(n)
    BY <1>1, <2>3 DEF SweepStart, SweepRead, SweepCommit, SweepIndex, SweepDue,
                      SweepRemove, SweepUnindex, SweepEnd
  <2> QED
    BY <1>4, <2>1, <2>2, <2>3 DEF SweepStep
<1>5. ASSUME NEW n \in Node, Crash(n) PROVE NoRoomDies'
  BY <1>5 DEF Crash, IdleGate
<1>6. ASSUME NEW n \in Node, HeartbeatExpire(n) PROVE NoRoomDies'
  BY <1>1, <1>6 DEF HeartbeatExpire
<1>7. ASSUME NEW r \in Room, NEW u \in User, PruneGraceOver(r, u) PROVE NoRoomDies'
  BY <1>1, <1>7 DEF PruneGraceOver
<1>8. ASSUME NEW r \in Room, EmptyElapse(r) PROVE FALSE
  BY <1>8 DEF EmptyElapse
<1>9. ASSUME UNCHANGED vars PROVE NoRoomDies'
  BY <1>1, <1>9 DEF vars
<1> QED
  BY <1>2, <1>3, <1>4, <1>5, <1>6, <1>7, <1>8, <1>9 DEF Next

\* A step of a socket touches no reference of another user or process.
LEMMA OthersRefs ==
  ASSUME TypeOK, NEW s \in Socket, Balanced(s), NEW r \in Room, NEW u \in User,
         NEW n \in Node, UserOf[s] # u \/ NodeOf[s] # n
  PROVE  ref'[r][u][n] = ref[r][u][n]
<1>1. /\ ref \in [Room -> [User -> [Node -> Nat]]]
      /\ UserOf[s] \in User /\ NodeOf[s] \in Node
  BY RoomTypes DEF TypeOK
<1>2. \/ ref' = ref
      \/ \E x \in Room : Release(x, UserOf[s], NodeOf[s])
      \/ \E x \in Room : Acquire(x, UserOf[s], NodeOf[s])
  BY DEF Balanced
<1>3. ASSUME NEW x \in Room, NEW v,
             ref' = [ref EXCEPT ![x][UserOf[s]][NodeOf[s]] = v]
      PROVE  ref'[r][u][n] = ref[r][u][n]
  BY <1>1, <1>3
<1>4. ASSUME NEW x \in Room, Release(x, UserOf[s], NodeOf[s])
      PROVE  \E v : ref' = [ref EXCEPT ![x][UserOf[s]][NodeOf[s]] = v]
  BY <1>4 DEF Release
<1>5. ASSUME NEW x \in Room, Acquire(x, UserOf[s], NodeOf[s])
      PROVE  \E v : ref' = [ref EXCEPT ![x][UserOf[s]][NodeOf[s]] = v]
  BY <1>5 DEF Acquire
<1> QED
  BY <1>2, <1>3, <1>4, <1>5

\* The one join of a lone tab adds a reference before the socket is joined, and
\* nothing that drops it leaves the socket joined.
LEMMA JoinedFactsKept ==
  ASSUME LoneTabs, TypeOK, NEW s \in Socket, SocketFacts(s), JoinedFacts(s),
         SocketStep(s)
  PROVE  JoinedFacts(s)'
<1> USE DEF JoinedFacts, JoinPc, nodes, store
<1>0. /\ sock[s] \in Sock /\ msg[s] \in Msg /\ close[s] \in Close
      /\ sock \in [Socket -> Sock] /\ msg \in [Socket -> Msg]
      /\ close \in [Socket -> Close]
      /\ sock[s].room \in Room /\ msg[s].room \in Room /\ close[s].room \in Room
      /\ UserOf[s] \in User /\ NodeOf[s] \in Node
      /\ ref \in [Room -> [User -> [Node -> Nat]]]
  BY RoomTypes DEF TypeOK
<1>17. sock[s].joins \in 0..1 /\ ~msg[s].already
  BY <1>0 DEF LoneTabs, Sock, SocketFacts
<1>1. CASE SocketClosing(s)
  BY <1>0, <1>1 DEF SocketClosing, Sock
<1>2. CASE SocketClosed(s)
  BY <1>0, <1>2 DEF SocketClosed, Sock
<1>3. ASSUME NEW r \in Room, JoinStart(s, r) PROVE JoinedFacts(s)'
  <2>1. sock[s].joins = 0 /\ ~(sock[s].reg /\ sock[s].tracked)
    BY <1>17, <1>3 DEF JoinStart, LoneTabs, SocketFacts
  <2>2. /\ ~(sock[s].state = "open" /\ sock[s].reg /\ sock[s].committed)
        /\ sock'[s].state = sock[s].state /\ sock'[s].reg = sock[s].reg
        /\ sock'[s].committed = sock[s].committed
    BY <1>0, <1>3, <2>1 DEF JoinStart, Sock
  <2>3. msg'[s].pc = "read"
    BY <1>0, <1>3, <2>1 DEF JoinStart, IdleMsg
  <2> QED
    BY <2>2, <2>3
<1>4. CASE MutStart(s)
  BY <1>0, <1>4 DEF MutStart, Msg
<1>5. ~Untrack(s)
  BY DEF Untrack
<1>6. CASE JoinRefused(s) \/ MutNull(s) \/ Settle(s) \/ Lists(s) \/ UndoPrune(s)
  BY <1>0, <1>6 DEF JoinRefused, MutNull, Settle, Lists, UndoPrune, MsgDone, IdleMsg
<1>7. CASE ReadPresence(s)
  BY <1>0, <1>7 DEF ReadPresence, Msg
<1>8. CASE JoinCommit(s)
  BY <1>0, <1>8 DEF JoinCommit, Msg
<1>9. CASE MutCommit(s)
  BY <1>0, <1>9 DEF MutCommit, Msg
<1>10. CASE PostDead(s)
  BY <1>0, <1>10 DEF PostDead, MsgTo, Msg, Sock
<1>11. CASE PostAlive(s)
  BY <1>0, <1>17, <1>11 DEF PostAlive, MsgTo, Msg, Sock
<1>12. CASE Bump(s)
  <2>1. sock[s].room = msg[s].room /\ sock[s].joins = 1
    BY <1>17, <1>12 DEF Bump, SocketFacts
  <2>2. ref'[sock[s].room][UserOf[s]][NodeOf[s]]
          = ref[sock[s].room][UserOf[s]][NodeOf[s]] + 1
    BY <1>0, <1>12, <2>1 DEF Bump, Acquire
  <2>3. ref[sock[s].room][UserOf[s]][NodeOf[s]] \in Nat
    BY <1>0
  <2>4. ref'[sock[s].room][UserOf[s]][NodeOf[s]] > 0
    BY <2>2, <2>3
  <2>5. /\ sock'[s].room = sock[s].room /\ sock'[s].joins = 1
        /\ sock'[s].state = sock[s].state /\ sock'[s].reg = sock[s].reg
        /\ sock'[s].committed = (sock[s].state = "open" /\ sock[s].reg)
    BY <1>0, <1>12, <2>1 DEF Bump, Sock
  <2>6. msg'[s].pc = IF sock[s].state = "open" /\ sock[s].reg THEN "joined" ELSE "undo"
    BY <1>0, <1>12 DEF Bump, MsgTo, Msg
  <2> QED
    BY <2>4, <2>5, <2>6
<1>13. CASE Undo(s)
  BY <1>0, <1>13 DEF Undo, MsgTo, Msg, Sock
<1>14. CASE UndoRead(s) \/ UndoCommit(s)
  BY <1>0, <1>14 DEF UndoRead, UndoCommit, MsgTo, MsgDone, IdleMsg, Msg
<1>15. CASE CloseDec(s)
  BY <1>0, <1>15 DEF CloseDec, SocketFacts
<1>16. CASE CloseRead(s) \/ CloseKeep(s) \/ CloseOffline(s)
            \/ CloseGated(s) \/ ClosePrune(s)
  BY <1>0, <1>16 DEF CloseRead, CloseKeep, CloseOffline, CloseGated, ClosePrune
<1> QED
  BY <1>1, <1>2, <1>3, <1>4, <1>5, <1>6, <1>7, <1>8, <1>9, <1>10, <1>11, <1>12,
     <1>13, <1>14, <1>15, <1>16 DEF SocketStep, MsgStep, CloseStep

\* Every step keeps every lone tab that is joined present.
LEMMA NextLone ==
  ASSUME LoneTabs, LoneInv, [Next]_vars
  PROVE  LoneInv'
<1>0. /\ TypeOK /\ Facts /\ RefsCovered /\ NoRoomDies
      /\ \A s \in Socket : JoinedFacts(s)
  BY DEF LoneInv, PresenceInv
<1>1. PresenceInv' /\ NoRoomDies'
  BY <1>0, NextPresence, NextNoRoomDies DEF LoneInv, LoneTabs
<1> SUFFICES ASSUME NEW q \in Socket PROVE JoinedFacts(q)'
  BY <1>1 DEF LoneInv
<1>2. ASSUME NEW s \in Socket, SocketStep(s) PROVE JoinedFacts(q)'
  <2>1. SocketFacts(s)
    BY <1>0 DEF Facts
  <2>2. CASE q = s
    BY <1>0, <1>2, <2>1, <2>2, JoinedFactsKept
  <2>3. CASE q # s
    <3>1. UserOf[s] # UserOf[q] \/ NodeOf[s] # NodeOf[q]
      BY <2>3 DEF LoneTabs
    <3>2. sock'[q] = sock[q] /\ msg'[q] = msg[q]
      BY <1>0, <1>2, <2>3, SocketFrame DEF OthersStay
    <3>3. Balanced(s)
      BY <1>0, <1>2, <2>1, SocketBalanced
    <3>4. sock[q].room \in Room /\ UserOf[q] \in User /\ NodeOf[q] \in Node
      BY <1>0, RoomTypes
    <3>5. ref'[sock[q].room][UserOf[q]][NodeOf[q]]
            = ref[sock[q].room][UserOf[q]][NodeOf[q]]
      BY <1>0, <3>1, <3>3, <3>4, OthersRefs
    <3> QED
      BY <1>0, <3>2, <3>5 DEF JoinedFacts
  <2> QED
    BY <2>2, <2>3
<1>3. ASSUME UNCHANGED <<ref, sock, msg>> PROVE JoinedFacts(q)'
  BY <1>0, <1>3 DEF JoinedFacts
<1>4. ASSUME NEW t \in Task, GateStep(t) PROVE JoinedFacts(q)'
  BY <1>0, <1>3, <1>4 DEF GateStep, GateNote, GatePresence, GateConfirm, GateDelete,
                          NoRoomDies, store
<1>5. ASSUME NEW n \in Node, SweepStep(n) PROVE JoinedFacts(q)'
  BY <1>3, <1>5 DEF SweepStep, SweepStart, SweepRead, SweepCommit, SweepLists, SweepGated,
                    SweepIndex, SweepDue, SweepRemove, SweepUnindex, SweepEnd, store, nodes
<1>6. ASSUME NEW n \in Node, Crash(n) PROVE JoinedFacts(q)'
  <2>1. ref' = ref /\ sock[q] \in Sock
    BY <1>0, <1>6 DEF Crash, store, TypeOK
  <2>2. CASE NodeOf[q] = n
    <3>1. sock'[q].state = "closed" /\ msg'[q].pc = "idle"
      BY <1>6, <2>1, <2>2 DEF Crash, Sock, IdleMsg
    <3> QED
      BY <3>1 DEF JoinedFacts
  <2>3. CASE NodeOf[q] # n
    <3>1. sock'[q] = sock[q] /\ msg'[q] = msg[q]
      BY <1>6, <2>3 DEF Crash
    <3> QED
      BY <1>0, <2>1, <3>1 DEF JoinedFacts
  <2> QED
    BY <2>2, <2>3
<1>7. ASSUME NEW n \in Node, HeartbeatExpire(n) PROVE JoinedFacts(q)'
  BY <1>3, <1>7 DEF HeartbeatExpire, store
<1>8. ASSUME NEW r \in Room, NEW u \in User, PruneGraceOver(r, u) PROVE JoinedFacts(q)'
  BY <1>3, <1>8 DEF PruneGraceOver, nodes
<1>9. ASSUME NEW r \in Room, EmptyElapse(r) PROVE JoinedFacts(q)'
  BY <1>3, <1>9 DEF EmptyElapse, nodes
<1>10. ASSUME UNCHANGED vars PROVE JoinedFacts(q)'
  BY <1>3, <1>10 DEF vars, store, nodes
<1> QED
  BY <1>2, <1>4, <1>5, <1>6, <1>7, <1>8, <1>9, <1>10 DEF Next

\* A joined user is present where no room dies, every user has one tab per
\* process and each joins once, whatever else interleaves: the run switch and
\* the two other ways to lose the reference that are named above need what is
\* excluded here (post-commit.ts:88-91, abort.ts:20).
THEOREM LoneTabIsPresent ==
  ASSUME LoneTabs
  PROVE  Spec => []JoinedIsPresent
<1>1. Init => LoneInv
  <2> SUFFICES ASSUME Init PROVE LoneInv
    OBVIOUS
  <2>1. NoRoomDies
    BY DEF Init, NoRoomDies, IdleGate
  <2>2. \A s \in Socket : JoinedFacts(s)
    BY DEF Init, JoinedFacts, IdleMsg
  <2> QED
    BY <2>1, <2>2, InitPresence DEF LoneInv
<1>2. LoneInv => JoinedIsPresent
  BY DEF LoneInv, JoinedIsPresent, Joined, JoinedFacts
<1>3. LoneInv /\ [Next]_vars => LoneInv'
  BY NextLone
<1> QED
  BY <1>1, <1>2, <1>3, PTL DEF Spec
=============================================================================
