---------------------------- MODULE RecordProofs ----------------------------
(***************************************************************************)
(* Proofs about lists that are read and filtered.  What SelectIn keeps     *)
(* (Filtering); what users leave behind in files, the leaderboards         *)
(* (Leaderboards) and the stats and achievements (UserStats), for any      *)
(* names, users, scores and values; and the channels and requests of P2P   *)
(* sessions (P2PSessions), for any senders and channels.                   *)
(***************************************************************************)
EXTENDS P2PSessions, UserStats, Leaderboards, FiniteSetTheorems, SequenceTheorems, TLAPS

-----------------------------------------------------------------------------
(* Filtering *)

(* The elements SelectIn keeps come from places of the sequence in rising  *)
(* order, and every element of the set has one: the number of places up to *)
(* a place grows with it, so it takes each value up to their number.       *)
LEMMA SelectInPlaces ==
  ASSUME NEW T, NEW q \in Seq(T), NEW S
  PROVE  /\ Len(SelectIn(q, S)) \in Nat
         /\ SelectIn(q, S) = [k \in 1..Len(SelectIn(q, S)) |-> SelectIn(q, S)[k]]
         /\ \E at \in [1..Len(SelectIn(q, S)) -> PlacesIn(q, S)] :
              /\ \A k \in 1..Len(SelectIn(q, S)) : SelectIn(q, S)[k] = q[at[k]]
              /\ \A k, l \in 1..Len(SelectIn(q, S)) : k < l => at[k] < at[l]
              /\ \A i \in PlacesIn(q, S) : \E k \in 1..Len(SelectIn(q, S)) : at[k] = i
<1> DEFINE kept == PlacesIn(q, S)
           n == Cardinality(kept)
           UpTo(i) == {j \in kept : j <= i}
           rank == [i \in kept |-> Cardinality(UpTo(i))]
           at == [k \in 1..n |-> CHOOSE i \in kept : Cardinality(UpTo(i)) = k]
<1>1. Len(q) \in Nat /\ DOMAIN q = 1..Len(q) /\ IsFiniteSet(kept) /\ kept \subseteq Nat
  <2>1. Len(q) \in Nat /\ DOMAIN q = 1..Len(q)
    OBVIOUS
  <2>2. IsFiniteSet(1..Len(q))
    BY <2>1, FS_Interval
  <2>3. kept \in SUBSET (1..Len(q))
    BY <2>1 DEF PlacesIn
  <2>4. IsFiniteSet(kept)
    BY <2>2, <2>3, FS_Subset
  <2> HIDE DEF kept
  <2> QED
    BY <2>1, <2>3, <2>4
<1>2. SelectIn(q, S) = [k \in 1..n |-> q[CHOOSE i \in kept : Cardinality(UpTo(i)) = k]]
  BY DEF SelectIn
<1> HIDE DEF kept
<1>3. n \in Nat
  BY <1>1, FS_CardinalityType
<1>4. ASSUME NEW i \in kept
      PROVE  IsFiniteSet(UpTo(i)) /\ rank[i] \in 1..n
  <2>1. UpTo(i) \in SUBSET kept /\ i \in UpTo(i)
    BY <1>1
  <2> DEFINE U == UpTo(i)
  <2> HIDE DEF U
  <2>2. IsFiniteSet(U) /\ Cardinality(U) <= n
    <3>1. U \in SUBSET kept
      BY <2>1 DEF U
    <3> QED
      BY <1>1, <3>1, FS_Subset
  <2>3. Cardinality(U) \in Nat /\ Cardinality(U) /= 0
    <3>1. U /= {}
      BY <2>1 DEF U
    <3> QED
      BY <2>2, <3>1, FS_CardinalityType, FS_EmptySet
  <2>4. IsFiniteSet(U) /\ Cardinality(U) \in 1..n
    <3> HIDE DEF n
    <3> QED
      BY <1>3, <2>2, <2>3
  <2> QED
    BY <2>4 DEF U
<1>5. ASSUME NEW i \in kept, NEW j \in kept, i < j
      PROVE  rank[i] < rank[j]
  <2> DEFINE U == UpTo(i)
             V == UpTo(j)
  <2>1. U \in SUBSET V /\ j \in V /\ j \notin U
    <3>1. i \in Nat /\ j \in Nat /\ \A k \in kept : k \in Nat
      <4> HIDE DEF UpTo
      <4> QED
        BY <1>1
    <3>2. \A k \in kept : k <= i => k <= j
      BY <1>5, <3>1
    <3>3. ~(j <= i) /\ j <= j
      BY <1>5, <3>1
    <3> QED
      BY <3>2, <3>3
  <2>2. rank[i] = Cardinality(U) /\ rank[j] = Cardinality(V) /\ IsFiniteSet(V)
    BY <1>4
  <2> HIDE DEF U, V
  <2>3. Cardinality(U) <= Cardinality(V) /\ Cardinality(U) /= Cardinality(V) /\ IsFiniteSet(U)
    BY <2>1, <2>2, FS_Subset
  <2>4. Cardinality(U) \in Nat /\ Cardinality(V) \in Nat
    BY <2>2, <2>3, FS_CardinalityType
  <2> QED
    BY <2>2, <2>3, <2>4
<1>6. rank \in Surjection(kept, 1..n)
  <2>1. rank \in [kept -> 1..n]
    <3>1. \A i \in kept : Cardinality(UpTo(i)) \in 1..n
      BY <1>4
    <3> HIDE DEF UpTo, n
    <3> QED
      BY <3>1
  <2>2. \A i, j \in kept : rank[i] = rank[j] => i = j
    <3>1. \A i \in kept : rank[i] \in Nat /\ i \in Nat
      BY <1>1, <1>3, <1>4
    <3> HIDE DEF rank
    <3> QED
      BY <1>5, <3>1
  <2> HIDE DEF rank
  <2>3. rank \in Injection(kept, 1..n)
    BY <2>1, <2>2 DEF Injection, IsInjective
  <2>4. IsFiniteSet(1..n) /\ Cardinality(1..n) = n
    <3>1. IsFiniteSet(1..n) /\ Cardinality(1..n) = IF 1 > n THEN 0 ELSE n - 1 + 1
      <4> HIDE DEF n
      <4> QED
        BY <1>3, FS_Interval
    <3> HIDE DEF n
    <3> QED
      BY <1>3, <3>1
  <2> QED
    BY <2>3, <2>4, FS_Injection
<1>7. \A k \in 1..n : at[k] \in kept /\ rank[at[k]] = k
  <2> TAKE k \in 1..n
  <2>1. \E i \in kept : rank[i] = k
    BY <1>6 DEF Surjection
  <2>2. \E i \in kept : Cardinality(UpTo(i)) = k
    BY <2>1
  <2> DEFINE i == CHOOSE i \in kept : Cardinality(UpTo(i)) = k
  <2>3. i \in kept /\ Cardinality(UpTo(i)) = k
    BY <2>2
  <2> HIDE DEF UpTo, n
  <2> QED
    BY <2>3
<1>8. at \in [1..n -> kept]
  <2>1. \A k \in 1..n : (CHOOSE i \in kept : Cardinality(UpTo(i)) = k) \in kept
    BY <1>7
  <2> HIDE DEF n, UpTo
  <2> QED
    BY <2>1
<1>9. \A k \in 1..n : SelectIn(q, S)[k] = q[at[k]]
  <2> HIDE DEF UpTo, n
  <2> QED
    BY <1>2
<1> HIDE DEF at, n, rank
<1>10. \A k, l \in 1..n : k < l => at[k] < at[l]
  <2> SUFFICES ASSUME NEW k \in 1..n, NEW l \in 1..n, k < l
               PROVE  at[k] < at[l]
    OBVIOUS
  <2>1. at[k] \in kept /\ at[l] \in kept /\ rank[at[k]] = k /\ rank[at[l]] = l
    BY <1>7
  <2>2. at[k] \in Nat /\ at[l] \in Nat
    BY <1>1, <2>1
  <2>3. ~(at[l] < at[k]) /\ at[k] /= at[l]
    BY <1>3, <1>5, <2>1
  <2> QED
    BY <2>2, <2>3
<1>11. \A i \in kept : \E k \in 1..n : at[k] = i
  <2> TAKE i \in kept
  <2>1. rank[i] \in 1..n
    BY <1>4
  <2>2. at[rank[i]] \in kept /\ rank[at[rank[i]]] = rank[i]
    BY <1>7, <2>1
  <2>3. at[rank[i]] = i
    <3>1. ~(at[rank[i]] < i) /\ ~(i < at[rank[i]])
      BY <1>3, <1>5, <2>1, <2>2
    <3>2. i \in Nat /\ at[rank[i]] \in Nat
      BY <1>1, <2>2
    <3> QED
      BY <3>1, <3>2
  <2> QED
    BY <2>1, <2>3
<1>12. SelectIn(q, S) = [k \in 1..n |-> SelectIn(q, S)[k]] /\ Len(SelectIn(q, S)) = n
  BY <1>2, <1>3
<1> QED
  BY <1>3, <1>8, <1>9, <1>10, <1>11, <1>12 DEF kept

(* It keeps the elements of the set, and no element twice that was there   *)
(* once.                                                                   *)
LEMMA SelectInKeeps ==
  ASSUME NEW T, NEW q \in Seq(T), NEW S
  PROVE  /\ SelectIn(q, S) \in Seq(T \cap S)
         /\ \A k \in DOMAIN SelectIn(q, S) : \E i \in DOMAIN q : SelectIn(q, S)[k] = q[i]
         /\ \A i \in DOMAIN q : q[i] \in S => \E k \in DOMAIN SelectIn(q, S) : SelectIn(q, S)[k] = q[i]
         /\ IsInjective(q) => IsInjective(SelectIn(q, S))
<1> DEFINE kept == PlacesIn(q, S)
           r == SelectIn(q, S)
           n == Len(r)
<1>1. n \in Nat
  BY SelectInPlaces
<1>2. PICK at \in [1..n -> kept] :
        /\ \A k \in 1..n : r[k] = q[at[k]]
        /\ \A k, l \in 1..n : k < l => at[k] < at[l]
        /\ \A i \in kept : \E k \in 1..n : at[k] = i
  BY SelectInPlaces
<1>3. DOMAIN r = 1..n /\ r = [k \in 1..n |-> r[k]]
  BY SelectInPlaces
<1>4. \A i \in kept : i \in DOMAIN q /\ i \in Nat /\ q[i] \in T /\ q[i] \in S
  BY DEF PlacesIn
<1>5. \A i \in DOMAIN q : q[i] \in S => i \in kept
  BY DEF PlacesIn
<1> HIDE DEF r, n, kept
<1>6. r \in Seq(T \cap S)
  <2>1. \A k \in 1..n : r[k] \in T \cap S
    BY <1>2, <1>4
  <2> QED
    BY <1>1, <1>3, <2>1
<1>7. IsInjective(q) => IsInjective(r)
  <2> SUFFICES ASSUME IsInjective(q), NEW k \in 1..n, NEW l \in 1..n, r[k] = r[l]
               PROVE  k = l
    BY <1>3 DEF IsInjective
  <2>1. at[k] \in kept /\ at[l] \in kept /\ q[at[k]] = q[at[l]]
    BY <1>2
  <2>2. at[k] = at[l] /\ at[k] \in Nat
    BY <1>4, <2>1 DEF IsInjective
  <2> QED
    BY <1>1, <1>2, <2>2
<1> QED
  BY <1>2, <1>3, <1>4, <1>5, <1>6, <1>7 DEF r

-----------------------------------------------------------------------------
(* The inductive invariant of the leaderboards *)

Board == [sort : Sort \cup {"none"}, entries : Seq(Entry)]
Made == [sort : Sort, entries : Seq(Entry)]
BoardContent == [name : BoardNames, sort : Sort, entries : Seq(Entry)]

BoardTypes ==
  /\ player \in Users \cup {NoUser} /\ boardsRead \in BOOLEAN
  /\ boards \in [BoardNames -> Made \cup {NoBoard}]
  /\ handles \subseteq BoardNames
  /\ boardFiles \in [BoardFile -> BoardContent \cup {EmptyFile}]
  /\ saving \subseteq BoardContent /\ torn \subseteq BoardFile
  /\ processes \in 0..MaxProcesses
  /\ best \in [BoardNames -> [Users -> SUBSET Scores]]
  /\ ranked \in [user : Users, name : BoardNames, rank : Nat, uploads : 1..MaxUploads]
                  \cup {NoRank}

(* A file holds the board that is named in it and has it for its file.     *)
OwnIn(files) == \A f \in BoardFile : files[f] /= EmptyFile => FileOf[files[f].name] = f
OwnFile == OwnIn(boardFiles)

(* Save writes the board as the process has it, one at a time.             *)
SavesItsBoard == \A x, y \in saving :
  /\ x = y /\ player /= NoUser /\ boardsRead
  /\ boards[x.name] = [sort |-> x.sort, entries |-> x.entries]

(* Who has read the files has in memory what is in them, but for the board *)
(* being saved, and a handle is of a board that is there.                  *)
MemoryIsFiles ==
  boardsRead /\ player /= NoUser => \A b \in BoardNames :
    (\A x \in saving : x.name /= b) => boards[b] = Found(b)

HandlesMade ==
  \A b \in handles : boardsRead /\ boards[b] \in Made

(* A board as it is now: in memory, or in the files until they are read.   *)
Current(b) == IF player /= NoUser /\ boardsRead THEN boards[b] ELSE Found(b)

(* Each user with a counting score has one entry, with that score.         *)
OneEntryEach(entries, scores) ==
  /\ \A i, j \in DOMAIN entries : entries[i].user = entries[j].user => i = j
  /\ \A u \in Users : scores[u] =
       {entries[i].score : i \in {i \in DOMAIN entries : entries[i].user = u}}

EntriesKept == \A b \in BoardNames : FileOf[b] \notin torn =>
  OneEntryEach(Current(b).entries, best[b])

(* The last rank reported still is the place among the counting scores.    *)
PlaceOf(sort, scores, u, rank) ==
  LET mine   == CHOOSE s \in scores[u] : TRUE
      Ahead(v) == \E s \in scores[v] : Better(sort, s, mine)
      Level(v) == scores[v] = {mine}
  IN  /\ rank > Cardinality({v \in Users : Ahead(v)})
      /\ rank <= Cardinality({v \in Users : Ahead(v) \/ Level(v)})

RankKept ==
  ranked.uploads > 0 /\ FileOf[ranked.name] \notin torn =>
    /\ Current(ranked.name).sort \in Sort
    /\ PlaceOf(Current(ranked.name).sort, best[ranked.name], ranked.user, ranked.rank)

BoardState == BoardTypes /\ HandlesMade
BoardInv == BoardState /\ OwnFile /\ SavesItsBoard /\ MemoryIsFiles /\ EntriesKept /\ RankKept

-----------------------------------------------------------------------------
(* Boards and their entries *)

LEMMA EntriesOf ==
  ASSUME NEW entries \in Seq(Entry)
  PROVE  /\ Len(entries) \in Nat /\ DOMAIN entries = 1..Len(entries)
         /\ \A i \in DOMAIN entries :
              /\ entries[i] \in Entry
              /\ entries[i].user \in Users /\ entries[i].score \in Scores
              /\ entries[i].score \in Nat
<1>1. Len(entries) \in Nat /\ DOMAIN entries = 1..Len(entries)
  OBVIOUS
<1>2. \A i \in DOMAIN entries : entries[i] \in Entry
  OBVIOUS
<1> QED
  BY <1>1, <1>2, LeaderboardsAssumption DEF Entry

(* A board starts with no entries and no scores.                           *)
LEMMA NoEntries ==
  OneEntryEach(<< >>, [u \in Users |-> NoScore])
BY DEF OneEntryEach, NoScore

(* An upload leaves each user one entry, with the score that counts.       *)
LEMMA PlaceKeepsEntries ==
  ASSUME NEW board \in Board, NEW scores \in [Users -> SUBSET Scores],
         NEW u \in Users, NEW score \in Scores, NEW keepBest \in BOOLEAN,
         OneEntryEach(board.entries, scores),
         NEW count,
         count = IF keepBest /\ \E s \in scores[u] : ~Better(board.sort, score, s)
                 THEN scores[u] ELSE {score}
  PROVE  LET after == Place(board, u, score, keepBest)
         IN  OneEntryEach(after.entries, [scores EXCEPT ![u] = count])
<1> DEFINE q == board.entries
           after == Place(board, u, score, keepBest)
           now == [scores EXCEPT ![u] = count]
<1>1. q \in Seq(Entry)
  BY DEF Board
<1>2. /\ Len(q) \in Nat /\ DOMAIN q = 1..Len(q)
      /\ \A i \in DOMAIN q : q[i] \in Entry /\ q[i].user \in Users /\ q[i].score \in Scores
  BY <1>1, EntriesOf
<1>3. /\ \A i, j \in DOMAIN q : q[i].user = q[j].user => i = j
      /\ \A v \in Users : scores[v] = {q[i].score : i \in {i \in DOMAIN q : q[i].user = v}}
  BY DEF OneEntryEach
<1>4. now[u] = count /\ \A v \in Users \ {u} : now[v] = scores[v]
  OBVIOUS
<1>5. CASE Mine(board, u) = {}
  <2> DEFINE e == [user |-> u, score |-> score]
             r == Append(q, e)
  <2>1. after.entries = r
    BY <1>5 DEF Place, Board
  <2>2. e \in Entry /\ e.user = u /\ e.score = score
    BY DEF Entry
  <2>3. /\ DOMAIN r = 1..(Len(q) + 1) /\ r[Len(q) + 1] = e
        /\ \A i \in 1..Len(q) : r[i] = q[i]
    BY <1>1, <1>2, <2>2
  <2>4. \A i \in 1..Len(q) : q[i].user /= u
    BY <1>2, <1>5 DEF Mine
  <2>5. scores[u] = {} /\ count = {score}
    BY <1>2, <1>3, <2>4
  <2>6. \A i, j \in DOMAIN r : r[i].user = r[j].user => i = j
    BY <1>2, <1>3, <2>2, <2>3, <2>4
  <2>7. \A v \in Users : now[v] = {r[i].score : i \in {i \in DOMAIN r : r[i].user = v}}
    <3> HIDE DEF r, e, now
    <3> TAKE v \in Users
    <3>1. CASE v = u
      <4>1. {i \in DOMAIN r : r[i].user = u} = {Len(q) + 1}
        BY <1>2, <2>2, <2>3, <2>4
      <4> QED
        BY <1>4, <2>2, <2>3, <2>5, <3>1, <4>1
    <3>2. CASE v /= u
      <4>1. {i \in DOMAIN r : r[i].user = v} = {i \in DOMAIN q : q[i].user = v}
        BY <1>2, <2>2, <2>3, <3>2
      <4> QED
        BY <1>2, <1>3, <1>4, <2>3, <3>2, <4>1
    <3> QED
      BY <3>1, <3>2
  <2> HIDE DEF after, now, r
  <2> QED
    BY <2>1, <2>6, <2>7 DEF OneEntryEach, after, now
<1>6. CASE Mine(board, u) /= {}
  <2>1. PICK i \in DOMAIN q : q[i].user = u
    BY <1>6 DEF Mine
  <2>2. Mine(board, u) = {i}
    BY <1>3, <2>1 DEF Mine
  <2>3. (CHOOSE k \in Mine(board, u) : \A j \in Mine(board, u) : k <= j) = i
    BY <1>2, <2>1, <2>2
  <2>4. scores[u] = {q[i].score}
    BY <1>3, <2>1, <2>2 DEF Mine
  <2>5. CASE keepBest /\ ~Better(board.sort, score, q[i].score)
    <3>1. after = board
      BY <1>6, <2>3, <2>5 DEF Place
    <3>2. count = scores[u]
      BY <2>4, <2>5
    <3>3. now = scores
      BY <3>2
    <3> QED
      BY <3>1, <3>3
  <2>6. CASE ~(keepBest /\ ~Better(board.sort, score, q[i].score))
    <3> DEFINE r == [q EXCEPT ![i].score = score]
    <3>1. after.entries = r
      BY <1>6, <2>3, <2>6 DEF Place, Board
    <3>2. count = {score}
      BY <2>4, <2>6
    <3>3. /\ DOMAIN r = DOMAIN q /\ r[i].user = q[i].user /\ r[i].score = score
          /\ \A j \in DOMAIN q : j /= i => r[j] = q[j]
      BY <1>2, <2>1 DEF Entry
    <3> HIDE DEF r, now
    <3>4. \A j \in DOMAIN r : r[j].user = q[j].user
      BY <3>3
    <3>5. \A j, k \in DOMAIN r : r[j].user = r[k].user => j = k
      BY <1>3, <3>3, <3>4
    <3>6. \A v \in Users : now[v] = {r[j].score : j \in {j \in DOMAIN r : r[j].user = v}}
      <4> TAKE v \in Users
      <4>1. {j \in DOMAIN r : r[j].user = v} = {j \in DOMAIN q : q[j].user = v}
        BY <3>3, <3>4
      <4>2. CASE v = u
        <5>1. {j \in DOMAIN q : q[j].user = u} = {i}
          BY <2>2 DEF Mine
        <5> QED
          BY <1>4, <3>2, <3>3, <4>1, <4>2, <5>1
      <4>3. CASE v /= u
        <5>1. i \notin {j \in DOMAIN q : q[j].user = v}
          BY <2>1, <4>3
        <5> QED
          BY <1>3, <1>4, <3>3, <4>1, <4>3, <5>1
      <4> QED
        BY <4>2, <4>3
    <3> HIDE DEF after
    <3> QED
      BY <3>1, <3>5, <3>6 DEF OneEntryEach, after, now
  <2> QED
    BY <2>5, <2>6
<1> QED
  BY <1>5, <1>6

(* It is a board of the same order, in which the user has an entry.        *)
LEMMA PlaceIsBoard ==
  ASSUME NEW board \in Board, NEW u \in Users, NEW score \in Scores,
         NEW keepBest \in BOOLEAN
  PROVE  LET after == Place(board, u, score, keepBest)
         IN  after \in Board /\ after.sort = board.sort /\ Mine(after, u) /= {}
<1> DEFINE q == board.entries
           after == Place(board, u, score, keepBest)
           e == [user |-> u, score |-> score]
<1>1. /\ q \in Seq(Entry) /\ Len(q) \in Nat /\ DOMAIN q = 1..Len(q)
      /\ \A i \in DOMAIN q : q[i] \in Entry
  BY EntriesOf DEF Board
<1>2. e \in Entry
  BY DEF Entry
<1>3. CASE Mine(board, u) = {}
  <2>1. after = [board EXCEPT !.entries = Append(q, e)]
    BY <1>3 DEF Place
  <2>2. Append(q, e) \in Seq(Entry) /\ Append(q, e)[Len(q) + 1] = e
        /\ Len(q) + 1 \in DOMAIN Append(q, e)
    BY <1>1, <1>2
  <2>3. after \in Board /\ after.sort = board.sort /\ after.entries = Append(q, e)
    BY <2>1, <2>2 DEF Board
  <2> QED
    BY <2>2, <2>3 DEF Mine
<1>4. CASE Mine(board, u) /= {}
  <2> DEFINE i == CHOOSE i \in Mine(board, u) : \A j \in Mine(board, u) : i <= j
             r == [q EXCEPT ![i].score = score]
  <2>1. CASE after = board
    BY <1>4, <2>1
  <2>2. CASE after = [board EXCEPT !.entries[i].score = score]
    <3>1. after \in [sort : Sort \cup {"none"}, entries : {r}]
      BY <2>2 DEF Board
    <3>2. after.sort = board.sort /\ after.entries = r
      BY <2>2 DEF Board
    <3>3. DOMAIN r = DOMAIN q /\ \A j \in DOMAIN q : r[j].user = q[j].user /\ r[j] \in Entry
      BY <1>1 DEF Entry
    <3>4. r \in Seq(Entry)
      <4>1. r \in [1..Len(q) -> Entry]
        BY <1>1, <3>3
      <4> HIDE DEF r
      <4> QED
        BY <1>1, <4>1
    <3>5. Mine(after, u) = Mine(board, u)
      BY <3>2, <3>3 DEF Mine
    <3> HIDE DEF r
    <3> QED
      BY <1>4, <3>1, <3>2, <3>4, <3>5 DEF Board
  <2>3. after = board \/ after = [board EXCEPT !.entries[i].score = score]
    BY <1>4 DEF Place
  <2> QED
    BY <2>1, <2>2, <2>3
<1> QED
  BY <1>3, <1>4

-----------------------------------------------------------------------------
(* Ranks *)

(* The users of some entries are as many as these.                         *)
LEMMA AsManyUsers ==
  ASSUME NEW entries \in Seq(Entry),
         \A i, j \in DOMAIN entries : entries[i].user = entries[j].user => i = j,
         NEW I \in SUBSET DOMAIN entries
  PROVE  LET T == {entries[i].user : i \in I}
         IN  IsFiniteSet(I) /\ IsFiniteSet(T) /\ Cardinality(T) = Cardinality(I)
<1> DEFINE T == {entries[i].user : i \in I}
           f == [i \in I |-> entries[i].user]
<1>1. IsFiniteSet(I)
  <2>1. Len(entries) \in Nat /\ DOMAIN entries = 1..Len(entries)
    BY EntriesOf
  <2>2. IsFiniteSet(1..Len(entries))
    BY <2>1, FS_Interval
  <2> QED
    BY <2>1, <2>2, FS_Subset
<1>2. f \in [I -> T] /\ \A i \in I : f[i] = entries[i].user
  OBVIOUS
<1>3. f \in Injection(I, T)
  BY <1>2 DEF Injection, IsInjective
<1>4. \A t \in T : \E i \in I : f[i] = t
  BY <1>2
<1> HIDE DEF f, T
<1>5. f \in Surjection(I, T)
  BY <1>2, <1>4 DEF Surjection
<1>6. IsFiniteSet(T) /\ (Cardinality(T) = Cardinality(I) <=> f \in Injection(I, T))
  BY <1>1, <1>5, FS_Surjection
<1> QED
  BY <1>1, <1>3, <1>6 DEF T

(* Whose score a score is.                                                 *)
LEMMA WhoseScore ==
  ASSUME NEW entries \in Seq(Entry), NEW scores \in [Users -> SUBSET Scores],
         OneEntryEach(entries, scores), NEW u \in Users
  PROVE  /\ \A s : s \in scores[u] <=>
              \E i \in DOMAIN entries : entries[i].user = u /\ entries[i].score = s
         /\ \A i \in DOMAIN entries : entries[i].user = u => scores[u] = {entries[i].score}
<1>1. /\ \A i, j \in DOMAIN entries : entries[i].user = entries[j].user => i = j
      /\ scores[u] = {entries[i].score : i \in {i \in DOMAIN entries : entries[i].user = u}}
  BY DEF OneEntryEach
<1>2. \A s : s \in scores[u] <=>
         \E i \in DOMAIN entries : entries[i].user = u /\ entries[i].score = s
  BY <1>1
<1>3. ASSUME NEW i \in DOMAIN entries, entries[i].user = u
      PROVE  scores[u] = {entries[i].score}
  BY <1>1, <1>2, <1>3
<1> QED
  BY <1>2, <1>3

(* There are as many entries as users with a score.                        *)
LEMMA OneEachHolds ==
  ASSUME NEW entries \in Seq(Entry), NEW scores \in [Users -> SUBSET Scores],
         OneEntryEach(entries, scores)
  PROVE  Hold(entries, scores)
<1>1. /\ Len(entries) \in Nat /\ DOMAIN entries = 1..Len(entries)
      /\ \A i \in DOMAIN entries : entries[i].user \in Users
  BY EntriesOf
<1>2. \A u \in Users : scores[u] =
         {entries[i].score : i \in {i \in DOMAIN entries : entries[i].user = u}}
  BY DEF OneEntryEach
<1>3. ToSet(entries) = {entries[i] : i \in DOMAIN entries}
  BY DEF ToSet
<1>4. \A u \in Users : scores[u] = {e.score : e \in {x \in ToSet(entries) : x.user = u}}
  BY <1>2, <1>3
<1>5. {entries[i].user : i \in DOMAIN entries} = {u \in Users : scores[u] /= NoScore}
  <2>1. \A u \in Users : scores[u] /= NoScore <=> \E i \in DOMAIN entries : entries[i].user = u
    <3>1. ASSUME NEW u \in Users
          PROVE  scores[u] /= NoScore <=> \E i \in DOMAIN entries : entries[i].user = u
      <4>1. \A s : s \in scores[u] <=>
               \E i \in DOMAIN entries : entries[i].user = u /\ entries[i].score = s
        BY WhoseScore
      <4> QED
        BY <4>1 DEF NoScore
    <3> QED
      BY <3>1
  <2> QED
    BY <1>1, <2>1
<1>6. Cardinality(DOMAIN entries) = Len(entries)
  <2>1. Cardinality(1..Len(entries)) = IF 1 > Len(entries) THEN 0 ELSE Len(entries) - 1 + 1
    BY <1>1, FS_Interval
  <2> QED
    BY <1>1, <2>1
<1>7. Cardinality({entries[i].user : i \in DOMAIN entries}) = Cardinality(DOMAIN entries)
  BY AsManyUsers DEF OneEntryEach
<1> QED
  BY <1>4, <1>5, <1>6, <1>7 DEF Hold

(* The entries ranked ahead of the i-th.                                   *)
AheadOf(board, i) ==
  {j \in DOMAIN board.entries :
     \/ Better(board.sort, board.entries[j].score, board.entries[i].score)
     \/ j < i /\ board.entries[j].score = board.entries[i].score}

(* A rank is a place among the entries.                                    *)
LEMMA RankBounds ==
  ASSUME NEW board \in Board, NEW i \in DOMAIN board.entries
  PROVE  /\ IsFiniteSet(AheadOf(board, i)) /\ i \notin AheadOf(board, i)
         /\ RankOf(board, i) = Cardinality(AheadOf(board, i)) + 1
         /\ RankOf(board, i) \in 1..Len(board.entries)
<1> DEFINE q == board.entries
           J == AheadOf(board, i)
<1>1. /\ q \in Seq(Entry) /\ Len(q) \in Nat /\ DOMAIN q = 1..Len(q)
      /\ \A j \in DOMAIN q : q[j].score \in Nat
  BY EntriesOf DEF Board
<1>2. i \notin J
  BY <1>1 DEF AheadOf, Better
<1>3. IsFiniteSet(1..Len(q)) /\ Cardinality(1..Len(q)) = Len(q)
  BY <1>1, FS_Interval
<1>4. J \cup {i} \in SUBSET (1..Len(q))
  BY <1>1 DEF AheadOf
<1>5. IsFiniteSet(J)
  BY <1>3, <1>4, FS_Subset
<1>6. Cardinality(J \cup {i}) = Cardinality(J) + 1
  BY <1>2, <1>5, FS_AddElement
<1>7. Cardinality(J \cup {i}) <= Len(q)
  BY <1>3, <1>4, FS_Subset
<1>8. Cardinality(J) \in Nat
  BY <1>5, FS_CardinalityType
<1>9. RankOf(board, i) = 1 + Cardinality(J)
  BY DEF RankOf, AheadOf
<1> HIDE DEF J, q
<1>10. RankOf(board, i) = Cardinality(J) + 1 /\ RankOf(board, i) \in 1..Len(q)
  BY <1>1, <1>6, <1>7, <1>8, <1>9
<1> QED
  BY <1>2, <1>5, <1>10 DEF J, q

(* It is the user's place among the scores.                                *)
LEMMA RankIsPlace ==
  ASSUME NEW board \in Board, NEW scores \in [Users -> SUBSET Scores],
         OneEntryEach(board.entries, scores),
         NEW i \in DOMAIN board.entries
  PROVE  PlaceOf(board.sort, scores, board.entries[i].user, RankOf(board, i))
<1> DEFINE q == board.entries
           J == AheadOf(board, i)
           A == {j \in DOMAIN q : Better(board.sort, q[j].score, q[i].score)}
           B == {j \in DOMAIN q : \/ Better(board.sort, q[j].score, q[i].score)
                                 \/ q[j].score = q[i].score}
           u == q[i].user
           mine == CHOOSE s \in scores[u] : TRUE
<1>1. /\ q \in Seq(Entry) /\ Len(q) \in Nat /\ DOMAIN q = 1..Len(q)
      /\ \A j \in DOMAIN q : q[j].score \in Nat /\ q[j].user \in Users
  BY EntriesOf DEF Board
<1>2. /\ \A j, k \in DOMAIN q : q[j].user = q[k].user => j = k
      /\ \A v \in Users : scores[v] = {q[j].score : j \in {j \in DOMAIN q : q[j].user = v}}
  BY DEF OneEntryEach
<1>3. /\ \A j \in DOMAIN q : scores[q[j].user] = {q[j].score}
      /\ \A v \in Users : \A s : s \in scores[v] <=>
            \E j \in DOMAIN q : q[j].user = v /\ q[j].score = s
  <2>1. ASSUME NEW v \in Users
        PROVE  /\ \A s : s \in scores[v] <=>
                    \E j \in DOMAIN q : q[j].user = v /\ q[j].score = s
               /\ \A j \in DOMAIN q : q[j].user = v => scores[v] = {q[j].score}
    <3>1. q \in Seq(Entry) /\ OneEntryEach(q, scores)
      BY <1>1
    <3> HIDE DEF q
    <3> QED
      BY <3>1, WhoseScore
  <2> QED
    BY <1>1, <2>1
<1>4. mine = q[i].score
  BY <1>3
<1>5. A \subseteq J /\ J \cup {i} \subseteq B
  BY DEF AheadOf
<1>6. \A v \in Users : (\E s \in scores[v] : Better(board.sort, s, mine))
         <=> \E j \in A : q[j].user = v
  <2> HIDE DEF mine
  <2> QED
    BY <1>3, <1>4
<1>7. \A v \in Users : \/ \E s \in scores[v] : Better(board.sort, s, mine)
                       \/ scores[v] = {mine}
         <=> \E j \in B : q[j].user = v
  <2> HIDE DEF mine
  <2>1. ASSUME NEW v \in Users, scores[v] = {mine}
        PROVE  \E j \in B : q[j].user = v
    BY <1>3, <1>4, <2>1
  <2>2. ASSUME NEW j \in DOMAIN q, q[j].score = q[i].score
        PROVE  scores[q[j].user] = {mine}
    BY <1>3, <1>4, <2>2
  <2> QED
    BY <1>1, <1>3, <1>4, <2>1, <2>2
<1>15. /\ {q[j].user : j \in A} = {v \in Users : \E s \in scores[v] : Better(board.sort, s, mine)}
       /\ {q[j].user : j \in B} =
            {v \in Users : \/ \E s \in scores[v] : Better(board.sort, s, mine)
                          \/ scores[v] = {mine}}
  <2>1. A \subseteq DOMAIN q /\ B \subseteq DOMAIN q
    OBVIOUS
  <2> HIDE DEF A, B, mine, q
  <2> QED
    BY <1>1, <1>6, <1>7, <2>1
<1>8. /\ IsFiniteSet(A) /\ Cardinality({q[j].user : j \in A}) = Cardinality(A)
      /\ IsFiniteSet(B) /\ Cardinality({q[j].user : j \in B}) = Cardinality(B)
  <2>1. A \in SUBSET DOMAIN q /\ B \in SUBSET DOMAIN q
    OBVIOUS
  <2> HIDE DEF A, B
  <2> QED
    BY <1>1, <1>2, <2>1, AsManyUsers
<1>9. /\ IsFiniteSet(J) /\ i \notin J
      /\ RankOf(board, i) = Cardinality(J) + 1
  BY RankBounds
<1> HIDE DEF J, A, B
<1>10. Cardinality(J \cup {i}) = Cardinality(J) + 1 /\ IsFiniteSet(J \cup {i})
  BY <1>9, FS_AddElement
<1>11. Cardinality(A) <= Cardinality(J) /\ Cardinality(J \cup {i}) <= Cardinality(B)
  BY <1>5, <1>8, <1>9, <1>10, FS_Subset
<1>12. Cardinality(A) \in Nat /\ Cardinality(B) \in Nat /\ Cardinality(J) \in Nat
  BY <1>8, <1>9, FS_CardinalityType
<1>13. RankOf(board, i) > Cardinality(A) /\ RankOf(board, i) <= Cardinality(B)
  BY <1>9, <1>10, <1>11, <1>12
<1>14. /\ RankOf(board, i) >
           Cardinality({v \in Users : \E s \in scores[v] : Better(board.sort, s, mine)})
      /\ RankOf(board, i) <=
           Cardinality({v \in Users : \/ \E s \in scores[v] : Better(board.sort, s, mine)
                                     \/ scores[v] = {mine}})
  BY <1>8, <1>13, <1>15
<1> QED
  BY <1>14 DEF PlaceOf

(* Ranks are one to one: of two entries one is ahead of the other, and so  *)
(* are those ahead of it.                                                  *)
LEMMA RanksDiffer ==
  ASSUME NEW board \in Board,
         NEW i \in DOMAIN board.entries, NEW j \in DOMAIN board.entries,
         RankOf(board, i) = RankOf(board, j)
  PROVE  i = j
<1> DEFINE q == board.entries
<1>1. /\ q \in Seq(Entry) /\ Len(q) \in Nat /\ DOMAIN q = 1..Len(q)
      /\ \A k \in DOMAIN q : q[k].score \in Nat
  BY EntriesOf DEF Board
<1>2. ASSUME NEW k \in DOMAIN q, NEW l \in AheadOf(board, k), l /= k
      PROVE  RankOf(board, l) < RankOf(board, k)
  <2>1. l \in DOMAIN q
    BY DEF AheadOf
  <2>2. AheadOf(board, l) \cup {l} \subseteq AheadOf(board, k)
    BY <1>1, <2>1 DEF AheadOf, Better
  <2>3. /\ IsFiniteSet(AheadOf(board, l)) /\ l \notin AheadOf(board, l)
        /\ RankOf(board, l) = Cardinality(AheadOf(board, l)) + 1
        /\ IsFiniteSet(AheadOf(board, k))
        /\ RankOf(board, k) = Cardinality(AheadOf(board, k)) + 1
    BY <2>1, RankBounds
  <2>4. Cardinality(AheadOf(board, l) \cup {l}) = Cardinality(AheadOf(board, l)) + 1
    BY <2>3, FS_AddElement
  <2>5. Cardinality(AheadOf(board, l) \cup {l}) <= Cardinality(AheadOf(board, k))
    BY <2>2, <2>3, FS_Subset
  <2>6. Cardinality(AheadOf(board, l)) \in Nat /\ Cardinality(AheadOf(board, k)) \in Nat
    BY <2>3, FS_CardinalityType
  <2> QED
    BY <2>3, <2>4, <2>5, <2>6
<1>3. i /= j => i \in AheadOf(board, j) \/ j \in AheadOf(board, i)
  BY <1>1 DEF AheadOf, Better
<1>4. RankOf(board, i) \in Nat /\ RankOf(board, j) \in Nat
  <2>1. RankOf(board, i) \in 1..Len(q) /\ RankOf(board, j) \in 1..Len(q)
    BY RankBounds
  <2> QED
    BY <1>1, <2>1
<1> QED
  BY <1>2, <1>3, <1>4

(* Every place is somebody's.                                              *)
LEMMA RanksComplete ==
  ASSUME NEW board \in Board, NEW r \in 1..Len(board.entries)
  PROVE  \E i \in DOMAIN board.entries : RankOf(board, i) = r
<1> DEFINE n == Len(board.entries)
           f == [i \in 1..n |-> RankOf(board, i)]
<1>1. n \in Nat /\ DOMAIN board.entries = 1..n
  BY EntriesOf DEF Board
<1>2. \A i \in 1..n : RankOf(board, i) \in 1..n
  BY <1>1, RankBounds
<1>3. f \in Injection(1..n, 1..n)
  <2>1. \A i, j \in 1..n : RankOf(board, i) = RankOf(board, j) => i = j
    BY <1>1, RanksDiffer
  <2>2. f \in [1..n -> 1..n] /\ \A i \in 1..n : f[i] = RankOf(board, i)
    BY <1>2
  <2> QED
    BY <2>1, <2>2 DEF Injection, IsInjective
<1>4. IsFiniteSet(1..n)
  BY <1>1, FS_Interval
<1>5. f \in Surjection(1..n, 1..n)
  <2> HIDE DEF f, n
  <2> QED
    BY <1>3, <1>4, FS_Injection
<1> QED
  BY <1>1, <1>5 DEF Surjection

(* A page of one row has the user of that rank, and all the rows together  *)
(* have all the users; the rows around a user are the pages around his.    *)
LEMMA PagesOfBoard ==
  ASSUME NEW board \in Board, NEW scores \in [Users -> SUBSET Scores],
         OneEntryEach(board.entries, scores), NEW p \in Users
  PROVE  LET total == Cardinality({u \in Users : scores[u] /= NoScore})
             Page(r) == UsersOf(board, GlobalRows(board, r, r))
         IN  /\ \A u \in Users : scores[u] /= NoScore =>
                  Cardinality({r \in 1..total : Page(r) = {u}}) = 1
             /\ UsersOf(board, GlobalRows(board, 1, 0)) = {u \in Users : scores[u] /= NoScore}
             /\ scores[p] /= NoScore => \E r \in 1..total :
                  /\ Page(r) = {p}
                  /\ \A k \in 0..total : UsersOf(board, AroundRows(board, p, -k, k))
                       = UNION {Page(q) : q \in {q \in 1..total : r - q <= k /\ q - r <= k}}
<1> DEFINE e == board.entries
           n == Len(e)
           total == Cardinality({u \in Users : scores[u] /= NoScore})
           Page(r) == UsersOf(board, GlobalRows(board, r, r))
<1>1. /\ e \in Seq(Entry) /\ n \in Nat /\ DOMAIN e = 1..n
      /\ \A i \in DOMAIN e : e[i].user \in Users
  BY EntriesOf DEF Board
<1>2. total = n
  BY <1>1, OneEachHolds DEF Hold
<1>3. \A i \in 1..n : RankOf(board, i) \in 1..n
  BY <1>1, RankBounds
<1>4. ASSUME NEW i \in 1..n
      PROVE  Page(RankOf(board, i)) = {e[i].user}
  <2> DEFINE r == RankOf(board, i)
  <2>1. r \in 1..n
    BY <1>3
  <2>2. GlobalRows(board, r, r) = {j \in 1..n : RankOf(board, j) \in r..r}
    BY <1>1, <2>1 DEF GlobalRows, Between
  <2>3. \A j \in 1..n : RankOf(board, j) \in r..r => j = i
    <3>1. \A j \in 1..n : RankOf(board, j) = r => j = i
      BY <1>1, RanksDiffer
    <3> HIDE DEF r, n
    <3> QED
      BY <1>1, <1>3, <2>1, <3>1
  <2>4. RankOf(board, i) \in r..r
    BY <1>1, <2>1
  <2>5. GlobalRows(board, r, r) = {i}
    <3> HIDE DEF r, n
    <3> QED
      BY <2>2, <2>3, <2>4
  <2> HIDE DEF r
  <2>6. Page(r) = {e[i].user}
    BY <2>5 DEF UsersOf
  <2> QED
    BY <2>6 DEF r
<1>5. \A r \in 1..n : \E i \in 1..n : RankOf(board, i) = r
  BY <1>1, RanksComplete
<1>6. /\ \A u \in Users : scores[u] /= NoScore <=> \E i \in 1..n : e[i].user = u
      /\ \A i, j \in 1..n : e[i].user = e[j].user => i = j
  <2>1. ASSUME NEW u \in Users
        PROVE  scores[u] /= NoScore <=> \E i \in DOMAIN e : e[i].user = u
    <3>1. \A s : s \in scores[u] <=> \E i \in DOMAIN e : e[i].user = u /\ e[i].score = s
      <4> HIDE DEF e
      <4> QED
        BY <1>1, WhoseScore DEF e
    <3> QED
      BY <3>1 DEF NoScore
  <2> QED
    BY <1>1, <2>1 DEF OneEntryEach
<1> HIDE DEF Page, n, e, total
<1>7. ASSUME NEW u \in Users, scores[u] /= NoScore
      PROVE  \E r \in 1..n : Page(r) = {u} /\ \A q \in 1..n : Page(q) = {u} => q = r
  <2>1. PICK i \in 1..n : e[i].user = u
    BY <1>6, <1>7
  <2>2. Page(RankOf(board, i)) = {u} /\ RankOf(board, i) \in 1..n
    BY <1>3, <1>4, <2>1
  <2>3. ASSUME NEW q \in 1..n, Page(q) = {u}
        PROVE  q = RankOf(board, i)
    <3>1. PICK j \in 1..n : RankOf(board, j) = q
      BY <1>5
    <3>2. {e[j].user} = {u}
      BY <1>4, <2>3, <3>1
    <3> QED
      BY <1>6, <2>1, <3>1, <3>2
  <2> QED
    BY <2>2, <2>3
<1>8. \A u \in Users : scores[u] /= NoScore => Cardinality({r \in 1..n : Page(r) = {u}}) = 1
  <2> SUFFICES ASSUME NEW u \in Users, scores[u] /= NoScore
               PROVE  Cardinality({r \in 1..n : Page(r) = {u}}) = 1
    OBVIOUS
  <2>1. PICK r \in 1..n : Page(r) = {u} /\ \A q \in 1..n : Page(q) = {u} => q = r
    BY <1>7
  <2>2. {q \in 1..n : Page(q) = {u}} = {r}
    BY <2>1
  <2> QED
    BY <2>2, FS_Singleton
<1>9. UsersOf(board, GlobalRows(board, 1, 0)) = {u \in Users : scores[u] /= NoScore}
  <2>1. GlobalRows(board, 1, 0) = 1..n
    BY <1>1, <1>3 DEF GlobalRows, Between, n, e
  <2>2. UsersOf(board, 1..n) = {e[i].user : i \in 1..n}
    BY DEF UsersOf, e
  <2> QED
    BY <1>1, <1>6, <2>1, <2>2
<1>10. ASSUME scores[p] /= NoScore
       PROVE  \E r \in 1..n :
                /\ Page(r) = {p}
                /\ \A k \in 0..n : UsersOf(board, AroundRows(board, p, -k, k))
                     = UNION {Page(q) : q \in {q \in 1..n : r - q <= k /\ q - r <= k}}
  <2>1. PICK i \in 1..n : e[i].user = p
    BY <1>6, <1>10
  <2> DEFINE r == RankOf(board, i)
  <2>2. r \in 1..n /\ Page(r) = {p}
    BY <1>3, <1>4, <2>1
  <2>3. Mine(board, p) = {i}
    BY <1>1, <1>6, <2>1 DEF Mine, e
  <2>4. ASSUME NEW k \in 0..n
        PROVE  UsersOf(board, AroundRows(board, p, -k, k))
                 = UNION {Page(q) : q \in {q \in 1..n : r - q <= k /\ q - r <= k}}
    <3>1. AroundRows(board, p, -k, k) = Between(board, r + (-k), r + k)
      BY <2>3 DEF AroundRows
    <3>2. AroundRows(board, p, -k, k) =
            {j \in 1..n : r - RankOf(board, j) <= k /\ RankOf(board, j) - r <= k}
      <4> HIDE DEF r
      <4>1. Between(board, r + (-k), r + k)
              = {j \in 1..n : RankOf(board, j) \in (r + (-k))..(r + k)}
        BY <1>1 DEF Between, e
      <4>2. \A j \in 1..n : RankOf(board, j) \in (r + (-k))..(r + k)
              <=> r - RankOf(board, j) <= k /\ RankOf(board, j) - r <= k
        BY <1>1, <1>3, <2>2
      <4> QED
        BY <3>1, <4>1, <4>2
    <3> DEFINE Rows == {j \in 1..n : r - RankOf(board, j) <= k /\ RankOf(board, j) - r <= k}
               Near == {q \in 1..n : r - q <= k /\ q - r <= k}
    <3>3. UsersOf(board, Rows) = {e[j].user : j \in Rows}
      BY DEF UsersOf, e
    <3>4. \A j \in Rows : RankOf(board, j) \in Near /\ Page(RankOf(board, j)) = {e[j].user}
      BY <1>3, <1>4
    <3>5. \A q \in Near : \E j \in Rows : q = RankOf(board, j)
      BY <1>5
    <3> HIDE DEF r
    <3>6. UNION {Page(q) : q \in Near} = {e[j].user : j \in Rows}
      <4> HIDE DEF Rows, Near
      <4> QED
        BY <3>4, <3>5
    <3> QED
      BY <3>2, <3>3, <3>6
  <2> QED
    BY <2>2, <2>4
<1>11. /\ \A u \in Users : scores[u] /= NoScore =>
            Cardinality({r \in 1..total : Page(r) = {u}}) = 1
       /\ scores[p] /= NoScore => \E r \in 1..total :
            /\ Page(r) = {p}
            /\ \A k \in 0..total : UsersOf(board, AroundRows(board, p, -k, k))
                 = UNION {Page(q) : q \in {q \in 1..total : r - q <= k /\ q - r <= k}}
  BY <1>2, <1>8, <1>10
<1> QED
  BY <1>9, <1>11 DEF Page, total

-----------------------------------------------------------------------------
(* Types of the leaderboards *)

LEMMA BoardsAreBoards ==
  /\ NoBoard \in Board /\ NoBoard \notin Made
  /\ Made \subseteq Board /\ (Made \cup {NoBoard}) \subseteq Board
  /\ \A b \in Board : b.sort \in Sort => b \in Made
  /\ \A b \in Made \cup {NoBoard} : b /= NoBoard => b.sort \in Sort
<1>1. << >> \in Seq(Entry)
  OBVIOUS
<1>2. NoBoard \in Board /\ NoBoard.sort = "none" /\ "none" \notin Sort
  BY <1>1 DEF NoBoard, Board, Sort
<1>3. \A b \in Made : b \in Board /\ b.sort \in Sort
  BY DEF Made, Board
<1>4. \A b \in Board : b.sort \in Sort => b \in Made
  BY DEF Made, Board
<1> QED
  BY <1>2, <1>3, <1>4

(* What Load finds of a board.                                             *)
LEMMA FoundTyped ==
  ASSUME BoardTypes, NEW b \in BoardNames
  PROVE  Found(b) \in Made \cup {NoBoard}
<1>1. CASE ReadsDir /\ \E f \in BoardFile : boardFiles[f].name = b
  <2> DEFINE f == CHOOSE f \in BoardFile : boardFiles[f].name = b
  <2>1. f \in BoardFile /\ boardFiles[f].name = b
    BY <1>1
  <2>2. boardFiles[f] \in BoardContent \cup {EmptyFile}
    BY <2>1 DEF BoardTypes
  <2>3. boardFiles[f] /= EmptyFile
    BY <2>1, LeaderboardsAssumption DEF EmptyFile
  <2>4. boardFiles[f] \in BoardContent
    BY <2>2, <2>3
  <2>5. Found(b) = [sort |-> boardFiles[f].sort, entries |-> boardFiles[f].entries]
    BY <1>1 DEF Found
  <2> HIDE DEF f
  <2> QED
    BY <2>4, <2>5 DEF BoardContent, Made
<1>2. CASE ~(ReadsDir /\ \E f \in BoardFile : boardFiles[f].name = b)
  BY <1>2 DEF Found
<1> QED
  BY <1>1, <1>2

LEMMA BoardsNowTyped ==
  ASSUME BoardTypes
  PROVE  BoardsNow \in [BoardNames -> Made \cup {NoBoard}]
BY FoundTyped DEF BoardsNow, BoardTypes

(* The types of the leaderboards, whatever the files are called and        *)
(* whether or not they are read.                                           *)
LEMMA BoardStateKept ==
  ASSUME BoardState, [BoardNext]_boardVars
  PROVE  BoardState'
<1> USE DEF BoardState
<1>1. CASE FinishSave
  <2>1. PICK x \in saving : /\ boardFiles' = [boardFiles EXCEPT ![FileOf[x.name]] = x]
                            /\ saving' = {}
                            /\ UNCHANGED <<player, boardsRead, boards, handles, processes,
                                           best, torn, ranked>>
    BY <1>1 DEF FinishSave
  <2>2. x \in BoardContent
    BY DEF BoardTypes
  <2>3. boardFiles' \in [BoardFile -> BoardContent \cup {EmptyFile}]
    BY <2>1, <2>2 DEF BoardTypes
  <2> QED
    BY <2>1, <2>3 DEF BoardTypes, HandlesMade
<1>2. CASE Exit
  BY <1>2 DEF Exit, BoardTypes, HandlesMade
<1>3. CASE Die
  <2>1. PICK x \in saving :
          /\ player' = NoUser /\ saving' = {} /\ torn' = torn \cup {FileOf[x.name]}
          /\ \/ UNCHANGED boardFiles
             \/ \E n \in 0..Len(x.entries) : boardFiles' =
                  [boardFiles EXCEPT ![FileOf[x.name]] = [x EXCEPT !.entries = SubSeq(@, 1, n)]]
          /\ UNCHANGED <<boardsRead, boards, handles, processes, best, ranked>>
    BY <1>3 DEF Die
  <2>2. x \in BoardContent
    BY DEF BoardTypes
  <2>3. \A n \in 0..Len(x.entries) : [x EXCEPT !.entries = SubSeq(@, 1, n)] \in BoardContent
    <3> TAKE n \in 0..Len(x.entries)
    <3>1. x.entries \in Seq(Entry)
      BY <2>2 DEF BoardContent
    <3>2. SubSeq(x.entries, 1, n) \in Seq(Entry)
      BY <3>1
    <3> QED
      BY <2>2, <3>2 DEF BoardContent
  <2>4. boardFiles' \in [BoardFile -> BoardContent \cup {EmptyFile}]
    BY <2>1, <2>3 DEF BoardTypes
  <2>5. FileOf[x.name] \in BoardFile
    BY <2>2 DEF BoardContent, BoardFile
  <2> QED
    BY <2>1, <2>4, <2>5 DEF BoardTypes, HandlesMade
<1>4. ASSUME NEW u \in Users, Launch(u)
      PROVE  BoardState'
  <2>1. boards' \in [BoardNames -> Made \cup {NoBoard}]
    BY <1>4 DEF Launch
  <2>2. processes' \in 0..MaxProcesses
    BY <1>4, LeaderboardsAssumption DEF Launch, BoardTypes
  <2>3. /\ player' \in Users /\ boardsRead' = FALSE /\ handles' = {}
        /\ UNCHANGED <<boardFiles, saving, best, torn, ranked>>
    BY <1>4 DEF Launch
  <2> QED
    BY <2>1, <2>2, <2>3 DEF BoardTypes, HandlesMade
<1>5. ASSUME NEW b \in BoardNames, NEW sort \in Sort, NEW create \in BOOLEAN,
             FindOrCreate(b, sort, create)
      PROVE  BoardState'
  <2> DEFINE empty == [sort |-> sort, entries |-> << >>]
             file == [name |-> b, sort |-> sort, entries |-> << >>]
  <2>1. BoardsNow \in [BoardNames -> Made \cup {NoBoard}]
    BY BoardsNowTyped
  <2>2. boardsRead => BoardsNow = boards
    BY DEF BoardsNow
  <2>3. empty \in Made /\ file \in BoardContent /\ << >> \in Seq(Entry)
    BY DEF Made, BoardContent
  <2>4. FileOf[b] \in BoardFile
    BY DEF BoardFile
  <2>5. /\ UNCHANGED <<player, processes, best, torn, ranked>> /\ boardsRead' = TRUE
        /\ \/ /\ BoardsNow[b] /= NoBoard
              /\ boards' = BoardsNow /\ handles' = handles \cup {b}
              /\ UNCHANGED <<boardFiles, saving>>
           \/ boards' = BoardsNow /\ UNCHANGED <<handles, boardFiles, saving>>
           \/ /\ boards' = [BoardsNow EXCEPT ![b] = empty]
              /\ handles' = handles \cup {b}
              /\ saving' = {file}
              /\ boardFiles' = [boardFiles EXCEPT ![FileOf[b]] = EmptyFile]
    BY <1>5 DEF FindOrCreate, Save
  <2> HIDE DEF empty, file
  <2>6. /\ boards' \in [BoardNames -> Made \cup {NoBoard}]
        /\ saving' \subseteq BoardContent
        /\ boardFiles' \in [BoardFile -> BoardContent \cup {EmptyFile}]
        /\ handles' \subseteq BoardNames
    BY <2>1, <2>3, <2>4, <2>5 DEF BoardTypes
  <2>7. HandlesMade'
    BY <2>1, <2>2, <2>3, <2>5 DEF HandlesMade, BoardTypes
  <2> QED
    BY <2>5, <2>6, <2>7 DEF BoardTypes
<1>6. ASSUME NEW b \in BoardNames, NEW score \in Scores, NEW keepBest \in BOOLEAN,
             Upload(b, score, keepBest)
      PROVE  BoardState'
  <2> DEFINE board == Place(BoardsNow[b], player, score, keepBest)
             i == CHOOSE i \in Mine(board, player) : TRUE
             file == [name |-> b, sort |-> board.sort, entries |-> board.entries]
             count == Counts(b, player, score, keepBest)
  <2>1. /\ player /= NoUser /\ b \in handles /\ ranked.uploads < MaxUploads
        /\ boardsRead' = TRUE /\ boards' = [BoardsNow EXCEPT ![b] = board]
        /\ saving' = {file} /\ boardFiles' = [boardFiles EXCEPT ![FileOf[b]] = EmptyFile]
        /\ ranked' = [user |-> player, name |-> b, uploads |-> ranked.uploads + 1,
                      rank |-> RankOf(board, i)]
        /\ best' = [best EXCEPT ![b][player] = count]
        /\ UNCHANGED <<player, handles, processes, torn>>
    BY <1>6 DEF Upload, Serving, Save
  <2>2. player \in Users
    BY <2>1 DEF BoardTypes
  <2>3. BoardsNow = boards /\ BoardsNow[b] \in Made
    BY <2>1 DEF BoardsNow, HandlesMade
  <2>4. board \in Made /\ Mine(board, player) /= {}
    BY <2>2, <2>3, PlaceIsBoard, BoardsAreBoards DEF Made
  <2>5. RankOf(board, i) \in Nat
    <3>1. i \in DOMAIN board.entries
      BY <2>4 DEF Mine
    <3>2. board \in Board /\ Len(board.entries) \in Nat
      BY <2>4, BoardsAreBoards, EntriesOf DEF Made
    <3> HIDE DEF board, i
    <3>3. RankOf(board, i) \in 1..Len(board.entries)
      BY <3>1, <3>2, RankBounds
    <3> QED
      BY <3>2, <3>3
  <2>6. count \subseteq Scores
    BY <2>2 DEF Counts, BoardTypes
  <2>7. file \in BoardContent
    <3> HIDE DEF board
    <3> QED
      BY <2>4 DEF Made, BoardContent
  <2>8. ranked.uploads + 1 \in 1..MaxUploads
    <3>1. ranked.uploads \in 0..MaxUploads
      BY LeaderboardsAssumption DEF BoardTypes, NoRank
    <3> QED
      BY <2>1, <3>1, LeaderboardsAssumption
  <2> HIDE DEF board, file, count, i
  <2>9. /\ boards' \in [BoardNames -> Made \cup {NoBoard}]
        /\ saving' \subseteq BoardContent
        /\ boardFiles' \in [BoardFile -> BoardContent \cup {EmptyFile}]
    BY <2>1, <2>3, <2>4, <2>7 DEF BoardTypes
  <2>10. best' \in [BoardNames -> [Users -> SUBSET Scores]]
    BY <2>1, <2>2, <2>6 DEF BoardTypes
  <2>11. ranked' \in [user : Users, name : BoardNames, rank : Nat, uploads : 1..MaxUploads]
    BY <2>1, <2>2, <2>5, <2>8
  <2>12. HandlesMade'
    BY <2>1, <2>3, <2>4 DEF HandlesMade, BoardTypes
  <2> QED
    BY <2>1, <2>9, <2>10, <2>11, <2>12 DEF BoardTypes
<1>7. CASE UNCHANGED boardVars
  BY <1>7 DEF boardVars, BoardTypes, HandlesMade
<1> QED
  BY <1>1, <1>2, <1>3, <1>4, <1>5, <1>6, <1>7 DEF BoardNext

LEMMA BoardStateFirst ==
  ASSUME BoardInit
  PROVE  BoardState
<1>1. boards \in [BoardNames -> Made \cup {NoBoard}]
  BY DEF BoardInit
<1>2. boardFiles \in [BoardFile -> BoardContent \cup {EmptyFile}]
  BY DEF BoardInit
<1>3. best \in [BoardNames -> [Users -> SUBSET Scores]]
  BY DEF BoardInit, NoScore
<1>4. 0 \in 0..MaxProcesses
  BY LeaderboardsAssumption
<1> QED
  BY <1>1, <1>2, <1>3, <1>4 DEF BoardInit, BoardState, BoardTypes, HandlesMade

(* The types of the leaderboards.                                          *)
THEOREM BoardsTyped == BoardSpec => []BoardTypeOK
<1>1. BoardInit => BoardState
  BY BoardStateFirst
<1>2. BoardState /\ [BoardNext]_boardVars => BoardState'
  BY BoardStateKept
<1>3. BoardState => BoardTypeOK
  <2> SUFFICES ASSUME BoardState
               PROVE  BoardTypeOK
    OBVIOUS
  <2>1. boards \in [BoardNames -> Board]
    BY BoardsAreBoards DEF BoardState, BoardTypes
  <2> QED
    BY <2>1 DEF BoardState, BoardTypes, BoardTypeOK, Board
<1> QED
  BY <1>1, <1>2, <1>3, PTL DEF BoardSpec

-----------------------------------------------------------------------------
(* Scores and ranks, if the directory is read and no two boards have the   *)
(* same file                                                               *)

FilesApart == ReadsDir /\ IsInjective(FileOf)

(* What Load finds in the given files.                                     *)
FoundIn(files, b) ==
  IF ReadsDir /\ \E f \in BoardFile : files[f].name = b
  THEN LET f == CHOOSE f \in BoardFile : files[f].name = b
       IN  [sort |-> files[f].sort, entries |-> files[f].entries]
  ELSE NoBoard

(* A board is found in its file, if it is found.                           *)
Held(x) ==
  IF x = EmptyFile THEN NoBoard ELSE [sort |-> x.sort, entries |-> x.entries]

LEMMA FoundInItsFile ==
  ASSUME FilesApart, NEW files \in [BoardFile -> BoardContent \cup {EmptyFile}],
         OwnIn(files), NEW b \in BoardNames
  PROVE  FoundIn(files, b) = Held(files[FileOf[b]])
<1> DEFINE own == FileOf[b]
<1>1. own \in BoardFile
  BY DEF BoardFile
<1>2. EmptyFile.name /= b
  BY LeaderboardsAssumption DEF EmptyFile
<1>3. \A f \in BoardFile : files[f].name = b => f = own
  BY <1>2 DEF OwnIn
<1>4. files[own] /= EmptyFile => files[own].name = b
  <2>1. SUFFICES ASSUME files[own] /= EmptyFile
                 PROVE  files[own].name = b
    OBVIOUS
  <2>2. files[own].name \in BoardNames /\ FileOf[files[own].name] = FileOf[b]
    BY <1>1, <2>1 DEF BoardContent, OwnIn
  <2> QED
    BY <2>2, LeaderboardsAssumption DEF FilesApart, IsInjective
<1>5. CASE files[own] = EmptyFile
  <2>1. ~\E f \in BoardFile : files[f].name = b
    BY <1>2, <1>3, <1>5
  <2> QED
    BY <1>5, <2>1 DEF FoundIn, Held
<1>6. CASE files[own] /= EmptyFile
  <2>1. (CHOOSE f \in BoardFile : files[f].name = b) = own
    BY <1>1, <1>3, <1>4, <1>6
  <2>2. \E f \in BoardFile : files[f].name = b
    BY <1>1, <1>4, <1>6
  <2> QED
    BY <1>6, <2>1, <2>2 DEF FoundIn, FilesApart, Held
<1> QED
  BY <1>5, <1>6

LEMMA FoundHere ==
  ASSUME FilesApart, BoardTypes, OwnFile, NEW b \in BoardNames
  PROVE  Found(b) = Held(boardFiles[FileOf[b]])
<1>1. Found(b) = FoundIn(boardFiles, b)
  BY DEF Found, FoundIn
<1>2. boardFiles \in [BoardFile -> BoardContent \cup {EmptyFile}] /\ OwnIn(boardFiles)
  BY DEF BoardTypes, OwnFile
<1> QED
  BY <1>1, <1>2, FoundInItsFile

(* Writing the file of one board leaves what is found of the others.       *)
LEMMA FileWritten ==
  ASSUME FilesApart, BoardTypes, OwnFile, NEW b \in BoardNames,
         NEW x \in BoardContent \cup {EmptyFile}, x /= EmptyFile => x.name = b,
         boardFiles' = [boardFiles EXCEPT ![FileOf[b]] = x]
  PROVE  /\ OwnFile'
         /\ \A c \in BoardNames : c /= b => Found(c)' = Found(c)
         /\ Found(b)' = Held(x)
<1>1. FileOf[b] \in BoardFile
  BY DEF BoardFile
<1>2. /\ boardFiles' \in [BoardFile -> BoardContent \cup {EmptyFile}]
      /\ boardFiles'[FileOf[b]] = x
      /\ \A f \in BoardFile : f /= FileOf[b] => boardFiles'[f] = boardFiles[f]
  BY <1>1 DEF BoardTypes
<1>3. OwnIn(boardFiles')
  BY <1>2 DEF OwnIn, OwnFile
<1>4. \A c \in BoardNames : Found(c)' = Held(boardFiles'[FileOf[c]])
  <2> TAKE c \in BoardNames
  <2>1. Found(c)' = FoundIn(boardFiles', c)
    BY DEF Found, FoundIn
  <2> QED
    BY <1>2, <1>3, <2>1, FoundInItsFile
<1>5. \A c \in BoardNames : c /= b => Found(c)' = Found(c)
  <2> SUFFICES ASSUME NEW c \in BoardNames, c /= b
               PROVE  Found(c)' = Found(c)
    OBVIOUS
  <2>1. FileOf[c] \in BoardFile /\ FileOf[c] /= FileOf[b]
    BY LeaderboardsAssumption DEF FilesApart, IsInjective, BoardFile
  <2>2. boardFiles'[FileOf[c]] = boardFiles[FileOf[c]]
    BY <1>2, <2>1
  <2> QED
    BY <1>4, <2>2, FoundHere
<1> QED
  BY <1>2, <1>3, <1>4, <1>5 DEF OwnFile

(* A process that serves sees what is in the files.                        *)
LEMMA ServingSees ==
  ASSUME BoardInv, Serving
  PROVE  \A b \in BoardNames : BoardsNow[b] = Found(b) /\ Current(b) = Found(b)
BY DEF BoardInv, Serving, MemoryIsFiles, BoardsNow, Current

(* What a step keeps that changes no counting score and no entries, and no *)
(* order but that of a board without one.                                  *)
LEMMA SameEntries ==
  ASSUME BoardInv, UNCHANGED <<best, ranked>>, torn \subseteq torn',
         \A b \in BoardNames : FileOf[b] \notin torn' =>
           /\ Current(b)'.entries = Current(b).entries
           /\ Current(b).sort \in Sort => Current(b)'.sort = Current(b).sort
  PROVE  EntriesKept' /\ RankKept'
<1>1. EntriesKept'
  BY DEF BoardInv, EntriesKept
<1>2. RankKept'
  <2> SUFFICES ASSUME ranked'.uploads > 0 /\ FileOf[ranked'.name] \notin torn'
               PROVE  /\ Current(ranked.name)'.sort \in Sort
                      /\ PlaceOf(Current(ranked.name)'.sort, best'[ranked'.name], ranked'.user,
                                ranked'.rank)
    BY DEF RankKept
  <2>1. ranked.uploads > 0 /\ FileOf[ranked.name] \notin torn'
    OBVIOUS
  <2>2. ranked.name \in BoardNames
    BY <2>1 DEF BoardInv, BoardState, BoardTypes, NoRank
  <2>3. /\ Current(ranked.name).sort \in Sort
        /\ PlaceOf(Current(ranked.name).sort, best[ranked.name], ranked.user, ranked.rank)
    BY <2>1 DEF BoardInv, RankKept
  <2>4. Current(ranked.name)'.sort = Current(ranked.name).sort
    <3>1. \A b \in BoardNames : b = ranked.name => Current(b)'.sort = Current(b).sort
      BY <2>1, <2>3
    <3> QED
      BY <2>2, <3>1
  <2> QED
    BY <2>3, <2>4
<1> QED
  BY <1>1, <1>2

LEMMA FinishSaveKeepsBoards ==
  ASSUME FilesApart, BoardInv, BoardState', FinishSave
  PROVE  BoardInv'
<1>1. PICK x \in saving : /\ boardFiles' = [boardFiles EXCEPT ![FileOf[x.name]] = x]
                          /\ saving' = {}
                          /\ UNCHANGED <<player, boardsRead, boards, handles, processes,
                                         best, torn, ranked>>
  BY DEF FinishSave
<1>2. /\ x \in BoardContent /\ x.name \in BoardNames /\ x /= EmptyFile
      /\ boardFiles \in [BoardFile -> BoardContent \cup {EmptyFile}]
  BY LeaderboardsAssumption DEF BoardInv, BoardState, BoardTypes, BoardContent, EmptyFile
<1>3. /\ player /= NoUser /\ boardsRead
      /\ boards[x.name] = [sort |-> x.sort, entries |-> x.entries]
      /\ \A y \in saving : y = x
  BY DEF BoardInv, SavesItsBoard
<1>4. /\ OwnFile'
      /\ \A c \in BoardNames : c /= x.name => Found(c)' = Found(c)
      /\ Found(x.name)' = [sort |-> x.sort, entries |-> x.entries]
  <2>1. BoardTypes /\ OwnFile
    BY DEF BoardInv, BoardState
  <2>2. /\ OwnFile'
        /\ \A c \in BoardNames : c /= x.name => Found(c)' = Found(c)
        /\ \A c \in BoardNames : c = x.name => Found(c)' = Held(x)
    BY <1>1, <1>2, <2>1, FileWritten
  <2> QED
    BY <1>2, <2>2 DEF Held
<1>5. \A b \in BoardNames : boards'[b] = Found(b)'
  <2>1. \A b \in BoardNames : b /= x.name => boards[b] = Found(b)
    BY <1>3 DEF BoardInv, MemoryIsFiles
  <2> QED
    BY <1>1, <1>3, <1>4, <2>1
<1>7. MemoryIsFiles' /\ SavesItsBoard'
  BY <1>1, <1>5 DEF MemoryIsFiles, SavesItsBoard
<1>8. \A b \in BoardNames : Current(b)' = Current(b)
  BY <1>1, <1>3 DEF Current
<1>9. EntriesKept' /\ RankKept'
  BY <1>1, <1>8, SameEntries
<1> QED
  BY <1>4, <1>7, <1>9 DEF BoardInv

LEMMA FindKeepsBoards ==
  ASSUME FilesApart, BoardInv, BoardState', NEW b \in BoardNames, NEW sort \in Sort,
         NEW create \in BOOLEAN, FindOrCreate(b, sort, create)
  PROVE  BoardInv'
<1> DEFINE empty == [sort |-> sort, entries |-> << >>]
           file == [name |-> b, sort |-> sort, entries |-> << >>]
<1>1. /\ Serving /\ boardsRead' = TRUE /\ UNCHANGED <<player, processes, best, torn, ranked>>
      /\ \/ boards' = BoardsNow /\ UNCHANGED <<boardFiles, saving>>
         \/ /\ BoardsNow[b] = NoBoard
            /\ boards' = [BoardsNow EXCEPT ![b] = empty]
            /\ saving' = {file}
            /\ boardFiles' = [boardFiles EXCEPT ![FileOf[b]] = EmptyFile]
  BY DEF FindOrCreate, Save
<1>2. \A c \in BoardNames : BoardsNow[c] = Found(c) /\ Current(c) = Found(c)
  BY <1>1, ServingSees
<1>3. player /= NoUser /\ saving = {} /\ BoardsNow \in [BoardNames -> Made \cup {NoBoard}]
  BY <1>1, BoardsNowTyped DEF Serving, BoardInv, BoardState
<1>4. \A c \in BoardNames : Current(c)' = boards'[c]
  BY <1>1, <1>3 DEF Current
<1>5. CASE boards' = BoardsNow /\ UNCHANGED <<boardFiles, saving>>
  <2>1. \A c \in BoardNames : Found(c)' = Found(c) /\ Current(c)' = Current(c)
    <3>1. \A c \in BoardNames : Found(c)' = Found(c)
      BY <1>5 DEF Found
    <3> QED
      BY <1>2, <1>4, <1>5, <3>1
  <2>2. EntriesKept' /\ RankKept'
    BY <1>1, <2>1, SameEntries
  <2>3. MemoryIsFiles'
    BY <1>2, <1>5, <2>1 DEF MemoryIsFiles
  <2> QED
    BY <1>3, <1>5, <2>2, <2>3 DEF BoardInv, OwnFile, SavesItsBoard
<1>6. CASE /\ BoardsNow[b] = NoBoard
           /\ boards' = [BoardsNow EXCEPT ![b] = empty]
           /\ saving' = {file}
           /\ boardFiles' = [boardFiles EXCEPT ![FileOf[b]] = EmptyFile]
  <2>1. BoardTypes /\ OwnFile
    BY DEF BoardInv, BoardState
  <2>2. OwnFile' /\ \A c \in BoardNames : c /= b => Found(c)' = Found(c)
    BY <1>6, <2>1, FileWritten
  <2>3. /\ boards'[b] = empty /\ \A c \in BoardNames : c /= b => boards'[c] = BoardsNow[c]
    BY <1>3, <1>6
  <2>4. \A c \in BoardNames : c /= b => Current(c)' = Current(c) /\ boards'[c] = Found(c)'
    BY <1>2, <1>4, <2>2, <2>3
  <2>5. /\ Current(b)'.entries = << >> /\ Current(b).entries = << >>
        /\ Current(b).sort \notin Sort
    BY <1>2, <1>4, <1>6, <2>3 DEF NoBoard, Sort
  <2>6. EntriesKept' /\ RankKept'
    BY <1>1, <2>4, <2>5, SameEntries
  <2>7. file.name = b /\ file.sort = sort /\ file.entries = << >>
    OBVIOUS
  <2> HIDE DEF file
  <2>8. MemoryIsFiles'
    BY <1>6, <2>4, <2>7 DEF MemoryIsFiles
  <2>9. SavesItsBoard'
    BY <1>1, <1>3, <1>6, <2>3, <2>7 DEF SavesItsBoard
  <2> QED
    BY <2>2, <2>6, <2>8, <2>9 DEF BoardInv
<1> QED
  BY <1>1, <1>5, <1>6

LEMMA UploadKeepsBoards ==
  ASSUME FilesApart, BoardInv, BoardState', NEW b \in BoardNames, NEW score \in Scores,
         NEW keepBest \in BOOLEAN, Upload(b, score, keepBest)
  PROVE  BoardInv'
<1> DEFINE board == Place(BoardsNow[b], player, score, keepBest)
           i == CHOOSE i \in Mine(board, player) : TRUE
           file == [name |-> b, sort |-> board.sort, entries |-> board.entries]
           count == Counts(b, player, score, keepBest)
<1>1. /\ Serving /\ b \in handles /\ boardsRead' = TRUE
      /\ boards' = [BoardsNow EXCEPT ![b] = board]
      /\ saving' = {file} /\ boardFiles' = [boardFiles EXCEPT ![FileOf[b]] = EmptyFile]
      /\ ranked' = [user |-> player, name |-> b, uploads |-> ranked.uploads + 1,
                    rank |-> RankOf(board, i)]
      /\ best' = [best EXCEPT ![b][player] = count]
      /\ UNCHANGED <<player, handles, processes, torn>>
  BY DEF Upload, Save
<1>2. \A c \in BoardNames : BoardsNow[c] = Found(c) /\ Current(c) = Found(c)
  BY <1>1, ServingSees
<1>3. /\ player \in Users /\ player /= NoUser /\ saving = {}
      /\ BoardsNow \in [BoardNames -> Made \cup {NoBoard}] /\ BoardsNow[b] \in Made
      /\ best \in [BoardNames -> [Users -> SUBSET Scores]]
  BY <1>1, BoardsNowTyped
     DEF Serving, BoardInv, BoardState, BoardTypes, HandlesMade, BoardsNow
<1>4. /\ board \in Made /\ board.sort = BoardsNow[b].sort /\ Mine(board, player) /= {}
  <2>1. BoardsNow[b] \in Board /\ BoardsNow[b].sort \in Sort
    BY <1>3, BoardsAreBoards DEF Made
  <2> QED
    BY <1>3, <2>1, PlaceIsBoard, BoardsAreBoards
<1>5. FileOf[b] \notin torn => OneEntryEach(board.entries, best'[b])
  <2> SUFFICES ASSUME FileOf[b] \notin torn
               PROVE  OneEntryEach(board.entries, best'[b])
    OBVIOUS
  <2> DEFINE before == BoardsNow[b]
  <2>1. before \in Board /\ OneEntryEach(before.entries, best[b])
    BY <1>2, <1>3, BoardsAreBoards DEF BoardInv, EntriesKept
  <2>2. count = IF keepBest /\ \E s \in best[b][player] : ~Better(before.sort, score, s)
                THEN best[b][player] ELSE {score}
    BY DEF Counts
  <2>3. best[b] \in [Users -> SUBSET Scores] /\ best'[b] = [best[b] EXCEPT ![player] = count]
    BY <1>1, <1>3
  <2> HIDE DEF before, count
  <2>4. OneEntryEach(Place(before, player, score, keepBest).entries,
                     [best[b] EXCEPT ![player] = count])
    BY <1>3, <2>1, <2>2, <2>3, PlaceKeepsEntries
  <2> QED
    BY <2>3, <2>4 DEF before
<1>6. OwnFile' /\ \A c \in BoardNames : c /= b => Found(c)' = Found(c)
  <2>1. BoardTypes /\ OwnFile
    BY DEF BoardInv, BoardState
  <2> QED
    BY <1>1, <2>1, FileWritten
<1>7. file.name = b /\ file.sort = board.sort /\ file.entries = board.entries
  OBVIOUS
<1>8. board = [sort |-> board.sort, entries |-> board.entries]
  BY <1>4 DEF Made
<1>9. i \in DOMAIN board.entries
     /\ board.entries[i].user = player
  BY <1>4 DEF Mine
<1> HIDE DEF board, file, i, count
<1>10. boards'[b] = board /\ \A c \in BoardNames : c /= b => boards'[c] = BoardsNow[c]
  BY <1>1, <1>3
<1>11. \A c \in BoardNames : Current(c)' = boards'[c]
  BY <1>1, <1>3 DEF Current
<1>12. \A c \in BoardNames : c /= b =>
         /\ Current(c)' = Current(c) /\ boards'[c] = Found(c)' /\ best'[c] = best[c]
  <2>1. \A c \in BoardNames : c /= b => best'[c] = best[c]
    BY <1>1, <1>3
  <2> QED
    BY <1>2, <1>6, <1>10, <1>11, <2>1
<1>13. MemoryIsFiles'
  BY <1>1, <1>7, <1>12 DEF MemoryIsFiles
<1>14. SavesItsBoard'
  BY <1>1, <1>3, <1>7, <1>8, <1>10 DEF SavesItsBoard
<1>16. EntriesKept'
  BY <1>1, <1>5, <1>10, <1>11, <1>12 DEF BoardInv, EntriesKept
<1>17. RankKept'
  <2> SUFFICES ASSUME FileOf[ranked'.name] \notin torn'
               PROVE  /\ Current(ranked.name)'.sort \in Sort
                      /\ PlaceOf(Current(ranked.name)'.sort, best'[ranked'.name], ranked'.user,
                                ranked'.rank)
    BY DEF RankKept
  <2>1. ranked'.name = b /\ ranked'.user = player /\ ranked'.rank = RankOf(board, i)
    BY <1>1
  <2>2. Current(ranked.name)' = board
    BY <1>1, <1>3, <1>10, <2>1 DEF Current
  <2>3. board \in Board /\ board.sort \in Sort
    BY <1>4, BoardsAreBoards DEF Made
  <2>4. best'[b] \in [Users -> SUBSET Scores]
    BY DEF BoardState, BoardTypes
  <2>5. PlaceOf(board.sort, best'[b], board.entries[i].user, RankOf(board, i))
    BY <1>1, <1>5, <1>9, <2>1, <2>3, <2>4, RankIsPlace
  <2> QED
    BY <1>9, <2>1, <2>2, <2>3, <2>5
<1> QED
  BY <1>6, <1>13, <1>14, <1>16, <1>17 DEF BoardInv

(* Processes that begin, end or die.                                       *)
LEMMA ProcessesKeepBoards ==
  ASSUME FilesApart, BoardInv, BoardState',
         (\E u \in Users : Launch(u)) \/ Exit \/ Die
  PROVE  BoardInv'
<1>1. ASSUME NEW u \in Users, Launch(u)
      PROVE  BoardInv'
  <2>1. /\ player = NoUser /\ boardsRead' = FALSE
        /\ UNCHANGED <<boardFiles, saving, best, torn, ranked>>
    BY <1>1 DEF Launch
  <2>2. saving = {}
    BY <2>1 DEF BoardInv, SavesItsBoard
  <2>3. \A b \in BoardNames : Current(b)' = Current(b)
    BY <2>1 DEF Current, Found
  <2>4. EntriesKept' /\ RankKept'
    BY <2>1, <2>3, SameEntries
  <2> QED
    BY <2>1, <2>2, <2>4 DEF BoardInv, OwnFile, SavesItsBoard, MemoryIsFiles
<1>2. CASE Exit
  <2>1. /\ Serving /\ player' = NoUser
        /\ UNCHANGED <<boardsRead, boards, boardFiles, saving, best, torn, ranked>>
    BY <1>2 DEF Exit
  <2>2. saving = {}
    BY <2>1 DEF Serving
  <2>3. \A b \in BoardNames : Current(b)' = Current(b)
    <3>1. \A b \in BoardNames : Current(b) = Found(b)
      BY <2>1, ServingSees
    <3> QED
      BY <2>1, <3>1 DEF Current, Found
  <2>4. EntriesKept' /\ RankKept'
    BY <2>1, <2>3, SameEntries
  <2> QED
    BY <2>1, <2>2, <2>4 DEF BoardInv, OwnFile, SavesItsBoard, MemoryIsFiles
<1>3. CASE Die
  <2>1. PICK x \in saving :
          /\ player' = NoUser /\ saving' = {} /\ torn' = torn \cup {FileOf[x.name]}
          /\ \/ UNCHANGED boardFiles
             \/ \E n \in 0..Len(x.entries) : boardFiles' =
                  [boardFiles EXCEPT ![FileOf[x.name]] = [x EXCEPT !.entries = SubSeq(@, 1, n)]]
          /\ UNCHANGED <<boardsRead, boards, best, ranked>>
    BY <1>3 DEF Die
  <2>2. /\ x \in BoardContent /\ x.name \in BoardNames
        /\ boardFiles \in [BoardFile -> BoardContent \cup {EmptyFile}]
    BY DEF BoardInv, BoardState, BoardTypes, BoardContent
  <2>3. OwnFile' /\ \A c \in BoardNames : c /= x.name => Found(c)' = Found(c)
    <3>1. CASE UNCHANGED boardFiles
      BY <3>1 DEF BoardInv, OwnFile, Found
    <3>2. ASSUME NEW n \in 0..Len(x.entries), boardFiles' =
                   [boardFiles EXCEPT ![FileOf[x.name]] = [x EXCEPT !.entries = SubSeq(@, 1, n)]]
          PROVE  <2>3!:
      <4> DEFINE y == [x EXCEPT !.entries = SubSeq(@, 1, n)]
      <4>1. x.entries \in Seq(Entry)
        BY <2>2 DEF BoardContent
      <4>2. SubSeq(x.entries, 1, n) \in Seq(Entry)
        BY <4>1
      <4>3. y \in BoardContent /\ y.name = x.name
        BY <2>2, <4>2 DEF BoardContent
      <4>4. BoardTypes /\ OwnFile
        BY DEF BoardInv, BoardState
      <4>5. boardFiles' = [boardFiles EXCEPT ![FileOf[x.name]] = y]
        BY <3>2
      <4> HIDE DEF y
      <4> QED
        BY <2>2, <4>3, <4>4, <4>5, FileWritten
    <3> QED
      BY <2>1, <3>1, <3>2
  <2>4. /\ player /= NoUser /\ boardsRead /\ \A y \in saving : y = x
    BY DEF BoardInv, SavesItsBoard
  <2>5. \A b \in BoardNames : b /= x.name => Current(b)' = Current(b)
    <3>1. \A b \in BoardNames : b /= x.name => Current(b) = Found(b)
      BY <2>4 DEF BoardInv, MemoryIsFiles, Current
    <3>2. \A b \in BoardNames : Current(b)' = Found(b)'
      BY <2>1 DEF Current
    <3> QED
      BY <2>3, <3>1, <3>2
  <2>6. EntriesKept' /\ RankKept'
    BY <2>1, <2>5, SameEntries
  <2> QED
    BY <2>1, <2>3, <2>6 DEF BoardInv, OwnFile, SavesItsBoard, MemoryIsFiles
<1> QED
  BY <1>1, <1>2, <1>3

LEMMA BoardInvFirst ==
  ASSUME FilesApart, BoardInit
  PROVE  BoardInv
<1>1. BoardState /\ OwnFile /\ SavesItsBoard /\ MemoryIsFiles
  BY BoardStateFirst DEF BoardInit, OwnFile, OwnIn, SavesItsBoard, MemoryIsFiles
<1>2. \A b \in BoardNames : Current(b) = NoBoard
  <2>1. \A b \in BoardNames : ~\E f \in BoardFile : boardFiles[f].name = b
    BY LeaderboardsAssumption DEF BoardInit, EmptyFile
  <2> QED
    BY <2>1 DEF Current, Found, BoardInit
<1>3. EntriesKept
  BY <1>2, NoEntries DEF EntriesKept, BoardInit, NoBoard
<1>4. RankKept
  BY DEF RankKept, BoardInit, NoRank
<1> QED
  BY <1>1, <1>3, <1>4 DEF BoardInv

LEMMA BoardInvKept ==
  ASSUME FilesApart, BoardInv, [BoardNext]_boardVars
  PROVE  BoardInv'
<1>1. BoardState'
  BY BoardStateKept DEF BoardInv
<1>2. CASE UNCHANGED boardVars
  <2>1. \A b \in BoardNames : Current(b)' = Current(b) /\ Found(b)' = Found(b)
    BY <1>2 DEF boardVars, Current, Found
  <2>2. EntriesKept' /\ RankKept'
    BY <1>2, <2>1, SameEntries DEF boardVars
  <2> QED
    BY <1>1, <1>2, <2>1, <2>2 DEF BoardInv, boardVars, OwnFile, SavesItsBoard, MemoryIsFiles
<1> QED
  BY <1>1, <1>2, FinishSaveKeepsBoards, FindKeepsBoards, UploadKeepsBoards, ProcessesKeepBoards
     DEF BoardNext

(* Every user's counting score is in the boards and in the files once,     *)
(* across processes and users, unless a process died writing that board;   *)
(* if the directory is read, and no two boards are kept in one file.       *)
THEOREM ScoresStay ==
  ASSUME FilesApart
  PROVE  BoardSpec => []ScoresPersist
<1>1. BoardInit => BoardInv
  BY BoardInvFirst
<1>2. BoardInv /\ [BoardNext]_boardVars => BoardInv'
  BY BoardInvKept
<1>3. BoardInv => ScoresPersist
  <2> SUFFICES ASSUME BoardInv, NEW b \in BoardNames, FileOf[b] \notin torn
               PROVE  /\ saving = {} => Hold(boardFiles[FileOf[b]].entries, best[b])
                      /\ player /= NoUser /\ boardsRead => Hold(boards[b].entries, best[b])
    BY DEF ScoresPersist
  <2>1. Current(b) \in Board
    BY FoundTyped, BoardsAreBoards DEF Current, BoardInv, BoardState, BoardTypes
  <2>2. Hold(Current(b).entries, best[b])
    BY <2>1, OneEachHolds DEF Board, BoardInv, EntriesKept, BoardState, BoardTypes
  <2>3. saving = {} => boardFiles[FileOf[b]].entries = Current(b).entries
    <3> SUFFICES ASSUME saving = {}
                 PROVE  boardFiles[FileOf[b]].entries = Current(b).entries
      OBVIOUS
    <3>1. Current(b) = Found(b)
      BY DEF BoardInv, MemoryIsFiles, Current
    <3>3. Found(b) = Held(boardFiles[FileOf[b]])
      BY FoundHere DEF BoardInv, BoardState
    <3> QED
      BY <3>1, <3>3 DEF NoBoard, EmptyFile, Held
  <2> QED
    BY <2>2, <2>3 DEF Current
<1> QED
  BY <1>1, <1>2, <1>3, PTL DEF BoardSpec

(* The rank an upload reports and the pages of a board are the places of   *)
(* the counting scores, under the same conditions.                         *)
THEOREM RanksAreTrue ==
  ASSUME FilesApart
  PROVE  BoardSpec => []RankTrue
<1>1. BoardInit => BoardInv
  BY BoardInvFirst
<1>2. BoardInv /\ [BoardNext]_boardVars => BoardInv'
  BY BoardInvKept
<1>3. BoardInv => ReportedRankTrue
  <2> SUFFICES ASSUME BoardInv, player = ranked.user, ranked.uploads > 0,
                      FileOf[ranked.name] \notin torn
               PROVE  ReportedRankTrue
    BY DEF ReportedRankTrue
  <2>1. ranked.name \in BoardNames /\ player \in Users /\ player /= NoUser
    BY LeaderboardsAssumption DEF BoardInv, BoardState, BoardTypes, NoRank
  <2>2. BoardsNow[ranked.name] = Current(ranked.name)
    BY <2>1 DEF BoardsNow, Current
  <2>3. PlaceOf(BoardsNow[ranked.name].sort, best[ranked.name], ranked.user, ranked.rank)
    BY <2>2 DEF BoardInv, RankKept
  <2> QED
    BY <2>3 DEF ReportedRankTrue, PlaceOf, Better
<1>4. BoardInv => PagesTrue
  <2> SUFFICES ASSUME BoardInv, NEW b \in BoardNames, FileOf[b] \notin torn, player /= NoUser,
                      boardsRead
               PROVE  PagesTrue!(b)
    BY DEF PagesTrue
  <2>1. player \in Users /\ boards[b] \in Board /\ best[b] \in [Users -> SUBSET Scores]
    BY BoardsAreBoards DEF BoardInv, BoardState, BoardTypes
  <2>2. OneEntryEach(boards[b].entries, best[b])
    BY DEF BoardInv, EntriesKept, Current
  <2> QED
    BY <2>1, <2>2, PagesOfBoard
<1> QED
  BY <1>1, <1>2, <1>3, <1>4, PTL DEF BoardSpec, RankTrue

-----------------------------------------------------------------------------
(* Stats and achievements *)

(* An enumeration of the achievements that have a value.                   *)
Listing(order, f) ==
  /\ order \in Seq(Achievement) /\ IsInjective(order)
  /\ ToSet(order) = DOMAIN f \cap Achievement

StatsTypes ==
  /\ statsUp \in BOOLEAN /\ loaded \in BOOLEAN /\ writing \in BOOLEAN /\ damaged \in BOOLEAN
  /\ statsRun \in 0..MaxStatRuns /\ statCalls \in 0..MaxCalls
  /\ DOMAIN values \subseteq StatName /\ DOMAIN statsFile \subseteq StatName

(* Once the file is read, what is enumerated are the achievements that     *)
(* have a value; until then nothing is.                                    *)
ListedWell == IF loaded THEN Listing(achOrder, values) ELSE achOrder = << >>

(* Who is saving has read the file and is still there, and only a process  *)
(* that has not damaged it leaves it as it should be.                      *)
SavesWhatIsThere == writing => statsUp /\ loaded

(* What the file has, what is being written into it, and what the process  *)
(* that is to read it, or has read it, has: all is as the game left it.    *)
AsLeft == ~damaged =>
  /\ ~writing => Agree(statsFile, Remembered(stored))
  /\ writing => Agree(values, stored)
  /\ IF loaded THEN Agree(values, set) ELSE set = Remembered(stored)

StatsInv == StatsTypes /\ ListedWell /\ SavesWhatIsThere /\ AsLeft

(* The lists of names.                                                     *)
LEMMA StatNames ==
  /\ FileOrder \in Seq(StatName)
  /\ Achievements \in Seq(Achievement) /\ IsInjective(Achievements)
  /\ Achievement \subseteq StatName /\ ToSet(Achievements) = Achievement
<1> DEFINE A == ToSet(Ints)
           B == ToSet(Floats)
           S == A \cup B \cup Achievement
<1>1. Ints \in Seq(A) /\ Floats \in Seq(B) /\ Achievements \in Seq(Achievement)
  BY UserStatsAssumption DEF Achievement
<1>2. Ints \in Seq(S) /\ Floats \in Seq(S) /\ Achievements \in Seq(S)
  <2> HIDE DEF A, B
  <2> QED
    BY <1>1
<1> HIDE DEF S
<1> DEFINE front == Ints \o Floats
<1>3. /\ front \in Seq(S) /\ Len(front) \in Nat /\ Len(Achievements) \in Nat
      /\ DOMAIN Achievements = 1..Len(Achievements)
  BY <1>1, <1>2
<1>4. FileOrder = front \o Achievements
  BY DEF FileOrder
<1> HIDE DEF front
<1>5. /\ FileOrder \in Seq(S) /\ DOMAIN FileOrder = 1..(Len(front) + Len(Achievements))
      /\ \A i \in 1..Len(Achievements) : FileOrder[Len(front) + i] = Achievements[i]
  BY <1>2, <1>3, <1>4
<1>6. FileOrder \in Seq(StatName)
  <2>1. /\ \A i \in DOMAIN FileOrder : FileOrder[i] \in StatName
        /\ FileOrder = [i \in 1..Len(FileOrder) |-> FileOrder[i]] /\ Len(FileOrder) \in Nat
    BY <1>5 DEF StatName, ToSet
  <2> QED
    BY <2>1
<1>7. IsInjective(Achievements)
  <2> SUFFICES ASSUME NEW i \in 1..Len(Achievements), NEW j \in 1..Len(Achievements),
                      Achievements[i] = Achievements[j]
               PROVE  i = j
    BY <1>3 DEF IsInjective
  <2>1. /\ Len(front) + i \in DOMAIN FileOrder /\ Len(front) + j \in DOMAIN FileOrder
        /\ FileOrder[Len(front) + i] = FileOrder[Len(front) + j]
    BY <1>3, <1>5
  <2>2. Len(front) + i = Len(front) + j
    BY <2>1, UserStatsAssumption DEF IsInjective
  <2> QED
    BY <1>3, <2>2
<1>8. Achievement \subseteq StatName
  <2>1. \A i \in 1..Len(Achievements) : Achievements[i] \in StatName
    <3>1. \A i \in 1..Len(Achievements) : Len(front) + i \in DOMAIN FileOrder
      BY <1>3, <1>5
    <3> QED
      BY <1>5, <3>1 DEF StatName, ToSet
  <2> QED
    BY <1>3, <2>1 DEF Achievement, ToSet
<1> QED
  BY <1>1, <1>6, <1>7, <1>8 DEF Achievement

(* Which names have a value.                                               *)
LEMMA ValueNames ==
  ASSUME NEW f
  PROVE  /\ \A n, v : DOMAIN Put(f, n, v) = DOMAIN f \cup {n}
         /\ \A S : DOMAIN Keep(f, S) = DOMAIN f \cap S
         /\ DOMAIN f \subseteq StatName => DOMAIN ReadBack(f) \subseteq StatName
         /\ \A a, t : DOMAIN Unlocked(f, a, t) = DOMAIN f \cup {a}
<1>1. \A n, v : DOMAIN Put(f, n, v) = DOMAIN f \cup {n}
  BY DEF Put
<1>2. \A S : DOMAIN Keep(f, S) = DOMAIN f \cap S
  BY DEF Keep
<1>3. DOMAIN f \subseteq StatName => DOMAIN ReadBack(f) \subseteq StatName
  <2>1. DOMAIN ReadBack(f) = {WordOf[m] : m \in DOMAIN f}
    BY DEF ReadBack
  <2> QED
    BY <2>1, UserStatsAssumption
<1>4. \A a, t : DOMAIN Unlocked(f, a, t) = DOMAIN f \cup {a}
  BY <1>1 DEF Unlocked
<1> QED
  BY <1>1, <1>2, <1>3, <1>4

(* Nothing has no values, and nothing is remembered of it.                 *)
LEMMA ReadNothing == Remembered(Nothing) = Nothing /\ DOMAIN Nothing = {}
BY DEF Remembered, Nothing

(* Two maps that agree on the separate names do so after the same call.    *)
LEMMA AgreeAfter ==
  ASSUME NEW f, NEW g, Agree(f, g)
  PROVE  /\ \A n, v : Agree(Put(f, n, v), Put(g, n, v))
         /\ \A S : Agree(Keep(f, S), Keep(g, S))
         /\ \A a, t : Agree(Unlocked(f, a, t), Unlocked(g, a, t))
         /\ Agree(Remembered(f), Remembered(g))
<1>1. \A n, v : Agree(Put(f, n, v), Put(g, n, v))
  BY DEF Agree, Put
<1>2. \A S : Agree(Keep(f, S), Keep(g, S))
  BY DEF Agree, Keep
<1>3. ASSUME NEW a, NEW t
      PROVE  Agree(Unlocked(f, a, t), Unlocked(g, a, t))
  <2>1. CASE a \in Separate
    BY <1>1, <2>1 DEF Agree, Unlocked
  <2>2. CASE a \notin Separate
    <3>1. Agree(Put(f, a, t), g) /\ Agree(f, Put(g, a, t))
      BY <2>2 DEF Agree, Put
    <3> QED
      BY <1>1, <3>1 DEF Unlocked
  <2> QED
    BY <2>1, <2>2
<1>4. Agree(Remembered(f), Remembered(g))
  BY DEF Agree, Remembered
<1> QED
  BY <1>1, <1>2, <1>3, <1>4

(* Of a separate name the file gives back the value, a float rounded.      *)
LEMMA ReadsBack ==
  ASSUME NEW f, DOMAIN f \subseteq StatName
  PROVE  Agree(ReadBack(f), Remembered(f))
<1> SUFFICES ASSUME NEW n \in Separate
             PROVE  /\ n \in DOMAIN ReadBack(f) <=> n \in DOMAIN f
                    /\ n \in DOMAIN f => ReadBack(f)[n] = Rounded(n, f[n])
  BY DEF Agree, Remembered
<1>1. n \in StatName /\ WordOf[n] = n /\ \A m \in DOMAIN f : WordOf[m] = n <=> m = n
  BY DEF Separate
<1>2. DOMAIN ReadBack(f) = {WordOf[m] : m \in DOMAIN f}
  BY DEF ReadBack
<1>3. n \in DOMAIN ReadBack(f) <=> n \in DOMAIN f
  BY <1>1, <1>2
<1>4. ASSUME n \in DOMAIN f
      PROVE  ReadBack(f)[n] = Rounded(n, f[n])
  <2>1. {m \in DOMAIN f : WordOf[m] = n} = {n}
    BY <1>1, <1>4
  <2>2. LineOf(f, n) = n
    <3> DEFINE q == FileOrder
               r == SelectIn(q, {n})
    <3>1. q \in Seq(StatName)
      BY StatNames
    <3>2. PICK i \in DOMAIN q : q[i] = n
      BY <1>1 DEF StatName, ToSet
    <3> HIDE DEF q
    <3>3. r \in Seq(StatName \cap {n}) /\ \E k \in DOMAIN r : r[k] = q[i]
      <4> DEFINE T == StatName
                 S == {n}
      <4>1. q \in Seq(T) /\ q[i] \in S
        BY <3>1, <3>2
      <4> HIDE DEF T, S
      <4>2. SelectIn(q, S) \in Seq(T \cap S) /\ \E k \in DOMAIN SelectIn(q, S) : SelectIn(q, S)[k] = q[i]
        BY <4>1, SelectInKeeps
      <4> QED
        BY <4>2 DEF T, S
    <3> HIDE DEF r
    <3>4. Len(r) \in DOMAIN r /\ r[Len(r)] = n
      BY <3>3
    <3>5. Last(r) = n
      BY <3>4 DEF Last
    <3> QED
      BY <2>1, <3>5 DEF LineOf, q, r
  <2> QED
    BY <1>1, <1>2, <1>3, <1>4, <2>2 DEF ReadBack, Whole
<1> QED
  BY <1>3, <1>4

(* An achievement joins the listing with its first value.                  *)
LEMMA TrackLists ==
  ASSUME NEW order, NEW f, Listing(order, f), NEW a \in Achievement,
         NEW g, DOMAIN g = DOMAIN f \cup {a}
  PROVE  Listing(Track(order, a, DOMAIN f), g)
<1>1. /\ order \in Seq(Achievement) /\ IsInjective(order)
      /\ ToSet(order) = DOMAIN f \cap Achievement
  BY DEF Listing
<1>2. CASE a \in DOMAIN f
  <2>1. DOMAIN g = DOMAIN f
    BY <1>2
  <2> QED
    BY <1>1, <1>2, <2>1 DEF Track, Listing
<1>3. CASE a \notin DOMAIN f
  <2> DEFINE r == Append(order, a)
             n == Len(order)
  <2>1. /\ n \in Nat /\ DOMAIN order = 1..n /\ r \in Seq(Achievement)
        /\ DOMAIN r = 1..(n + 1) /\ r[n + 1] = a /\ \A i \in 1..n : r[i] = order[i]
    BY <1>1
  <2>2. \A i \in 1..n : order[i] /= a
    BY <1>1, <1>3, <2>1 DEF ToSet
  <2> HIDE DEF r, n
  <2>3. IsInjective(r)
    <3> SUFFICES ASSUME NEW i \in 1..(n + 1), NEW j \in 1..(n + 1), r[i] = r[j]
                 PROVE  i = j
      BY <2>1 DEF IsInjective
    <3>1. i \in 1..n \/ i = n + 1
      BY <2>1
    <3>2. j \in 1..n \/ j = n + 1
      BY <2>1
    <3> QED
      BY <1>1, <2>1, <2>2, <3>1, <3>2 DEF IsInjective
  <2>4. ToSet(r) = ToSet(order) \cup {a}
    <3>1. \A i \in 1..(n + 1) : i \in 1..n \/ i = n + 1
      BY <2>1
    <3>2. n + 1 \in 1..(n + 1) /\ \A i \in 1..n : i \in 1..(n + 1)
      BY <2>1
    <3> QED
      BY <2>1, <3>1, <3>2 DEF ToSet
  <2>5. ToSet(r) = DOMAIN g \cap Achievement
    BY <1>1, <2>4
  <2> QED
    BY <1>3, <2>1, <2>3, <2>5 DEF Track, Listing, r
<1> QED
  BY <1>2, <1>3

(* What a call sees after Load.                                            *)
LEMMA LoadSees ==
  ASSUME StatsInv
  PROVE  /\ Listing(Order, Values) /\ DOMAIN Values \subseteq StatName
         /\ ~damaged /\ ~writing => Agree(Values, set)
<1>1. CASE loaded
  BY <1>1 DEF StatsInv, ListedWell, StatsTypes, AsLeft, Order, Values
<1>2. CASE ~loaded
  <2> DEFINE r == SelectIn(Achievements, DOMAIN statsFile)
  <2>1. Order = r /\ Values = statsFile
    BY <1>2 DEF Order, Values
  <2>2. /\ r \in Seq(Achievement \cap DOMAIN statsFile)
        /\ \A k \in DOMAIN r : \E i \in DOMAIN Achievements : r[k] = Achievements[i]
        /\ \A i \in DOMAIN Achievements :
              Achievements[i] \in DOMAIN statsFile => \E k \in DOMAIN r : r[k] = Achievements[i]
        /\ IsInjective(r)
    <3> DEFINE S == DOMAIN statsFile
    <3>1. Achievements \in Seq(Achievement) /\ IsInjective(Achievements)
      BY StatNames
    <3> HIDE DEF S
    <3>2. /\ SelectIn(Achievements, S) \in Seq(Achievement \cap S)
          /\ \A k \in DOMAIN SelectIn(Achievements, S) :
                \E i \in DOMAIN Achievements : SelectIn(Achievements, S)[k] = Achievements[i]
          /\ \A i \in DOMAIN Achievements : Achievements[i] \in S =>
                \E k \in DOMAIN SelectIn(Achievements, S) : SelectIn(Achievements, S)[k] = Achievements[i]
          /\ IsInjective(SelectIn(Achievements, S))
      <4> DEFINE T == Achievement
                 q == Achievements
      <4>1. q \in Seq(T) /\ IsInjective(q)
        BY <3>1
      <4> HIDE DEF T, q
      <4>2. /\ SelectIn(q, S) \in Seq(T \cap S)
            /\ \A k \in DOMAIN SelectIn(q, S) : \E i \in DOMAIN q : SelectIn(q, S)[k] = q[i]
            /\ \A i \in DOMAIN q : q[i] \in S => \E k \in DOMAIN SelectIn(q, S) : SelectIn(q, S)[k] = q[i]
            /\ IsInjective(q) => IsInjective(SelectIn(q, S))
        BY <4>1, SelectInKeeps
      <4> QED
        BY <4>1, <4>2 DEF T, q
    <3> QED
      BY <3>2 DEF S
  <2> HIDE DEF r
  <2>3. r \in Seq(Achievement) /\ \A k \in DOMAIN r : r[k] \in Achievement \cap DOMAIN statsFile
    <3>1. \A k \in DOMAIN r : r[k] \in Achievement \cap DOMAIN statsFile
      BY <2>2
    <3>2. r = [k \in 1..Len(r) |-> r[k]] /\ Len(r) \in Nat /\ DOMAIN r = 1..Len(r)
      BY <2>2
    <3> QED
      BY <3>1, <3>2
  <2>4. ToSet(r) = DOMAIN statsFile \cap Achievement
    <3>1. \A a \in Achievement : \E i \in DOMAIN Achievements : Achievements[i] = a
      BY DEF Achievement, ToSet
    <3> QED
      BY <2>2, <2>3, <3>1 DEF ToSet
  <2>5. ~damaged /\ ~writing => Agree(statsFile, set)
    BY <1>2 DEF StatsInv, AsLeft
  <2> QED
    BY <2>1, <2>2, <2>3, <2>4, <2>5 DEF Listing, StatsInv, StatsTypes
<1> QED
  BY <1>1, <1>2 DEF StatsInv, StatsTypes

LEMMA StatsFirst ==
  ASSUME StatsInit
  PROVE  StatsInv
<1>1. DOMAIN values = {} /\ DOMAIN statsFile = {}
  BY ReadNothing DEF StatsInit
<1>2. StatsTypes
  <2>1. 0 \in 0..MaxStatRuns /\ 0 \in 0..MaxCalls
    BY UserStatsAssumption
  <2> QED
    BY <1>1, <2>1 DEF StatsInit, StatsTypes
<1>3. AsLeft
  BY ReadNothing DEF StatsInit, AsLeft, Agree
<1> QED
  BY <1>2, <1>3 DEF StatsInit, StatsInv, ListedWell, SavesWhatIsThere

(* A setter changes what the process has and what the game means alike.    *)
LEMMA ChangeKeepsStats ==
  ASSUME StatsInv, Change, UNCHANGED <<statsFile, writing, stored, rest>>,
         Listing(achOrder', values'), DOMAIN values' \subseteq StatName,
         Agree(Values, set) => Agree(values', set')
  PROVE  StatsInv'
<1>1. /\ statsUp /\ ~writing /\ loaded' /\ statCalls < MaxCalls /\ statCalls' = statCalls + 1
      /\ UNCHANGED <<statsRun, statsUp, damaged>>
  BY DEF Change, Call, Serves, rest
<1>2. StatsTypes'
  <2>1. statCalls' \in 0..MaxCalls
    BY <1>1, UserStatsAssumption DEF StatsInv, StatsTypes
  <2> QED
    BY <1>1, <2>1 DEF StatsInv, StatsTypes
<1> QED
  BY <1>1, <1>2, LoadSees DEF StatsInv, StatsTypes, ListedWell, SavesWhatIsThere, AsLeft

LEMMA SettersKeepStats ==
  ASSUME StatsInv,
         \/ \E n \in StatName \ Achievement, v \in StatValues : SetStat(n, v)
         \/ \E a \in Achievement : \/ ClearAchievement(a)
                                   \/ \E now \in 1..MaxTime : SetAchievement(a, now)
  PROVE  StatsInv'
<1>1. Listing(Order, Values) /\ DOMAIN Values \subseteq StatName
  BY LoadSees
<1>2. Achievement \subseteq StatName
  BY StatNames
<1>3. ASSUME NEW n \in StatName \ Achievement, NEW v \in StatValues, SetStat(n, v)
      PROVE  StatsInv'
  <2>1. /\ Change /\ UNCHANGED <<statsFile, writing, stored, rest>>
        /\ values' = Put(Values, n, v) /\ achOrder' = Order /\ set' = Put(set, n, v)
    BY <1>3 DEF SetStat
  <2>2. DOMAIN values' = DOMAIN Values \cup {n}
    BY <2>1, ValueNames
  <2>3. Listing(achOrder', values')
    <3>1. DOMAIN values' \cap Achievement = DOMAIN Values \cap Achievement
      BY <2>2
    <3> QED
      BY <1>1, <2>1, <3>1 DEF Listing
  <2>4. Agree(Values, set) => Agree(values', set')
    BY <2>1, AgreeAfter
  <2>5. DOMAIN values' \subseteq StatName
    BY <1>1, <2>2
  <2> QED
    BY <2>1, <2>3, <2>4, <2>5, ChangeKeepsStats
<1>4. ASSUME NEW a \in Achievement,
             /\ Change /\ UNCHANGED <<statsFile, writing, stored, rest>>
             /\ DOMAIN values' = DOMAIN Values \cup {a}
             /\ achOrder' = Track(Order, a, DOMAIN Values)
             /\ Agree(Values, set) => Agree(values', set')
      PROVE  StatsInv'
  <2>1. Listing(achOrder', values')
    BY <1>1, <1>4, TrackLists
  <2>2. DOMAIN values' \subseteq StatName
    BY <1>1, <1>2, <1>4
  <2> QED
    BY <1>4, <2>1, <2>2, ChangeKeepsStats
<1>5. ASSUME NEW a \in Achievement, ClearAchievement(a)
      PROVE  StatsInv'
  <2>1. /\ Change /\ UNCHANGED <<statsFile, writing, stored, rest>>
        /\ values' = Put(Values, a, 0) /\ set' = Put(set, a, 0)
        /\ achOrder' = Track(Order, a, DOMAIN Values)
    BY <1>5 DEF ClearAchievement
  <2>2. DOMAIN values' = DOMAIN Values \cup {a}
    BY <2>1, ValueNames
  <2>3. Agree(Values, set) => Agree(values', set')
    BY <2>1, AgreeAfter
  <2> QED
    BY <1>4, <2>1, <2>2, <2>3
<1>6. ASSUME NEW a \in Achievement, NEW now \in 1..MaxTime, SetAchievement(a, now)
      PROVE  StatsInv'
  <2>1. /\ Change /\ UNCHANGED <<statsFile, writing, stored, rest>>
        /\ values' = Unlocked(Values, a, now) /\ set' = Unlocked(set, a, now)
        /\ achOrder' = Track(Order, a, DOMAIN Values)
    BY <1>6 DEF SetAchievement
  <2>2. DOMAIN values' = DOMAIN Values \cup {a}
    BY <2>1, ValueNames
  <2>3. Agree(Values, set) => Agree(values', set')
    BY <2>1, AgreeAfter
  <2> QED
    BY <1>4, <2>1, <2>2, <2>3
<1> QED
  BY <1>3, <1>5, <1>6

(* Reading and storing.                                                    *)
LEMMA StoringKeepsStats ==
  ASSUME StatsInv,
         Query \/ StoreStats \/ FinishStore \/ \E all \in BOOLEAN : ResetAllStats(all)
  PROVE  StatsInv'
<1>1. /\ Listing(Order, Values) /\ DOMAIN Values \subseteq StatName
      /\ ~damaged /\ ~writing => Agree(Values, set)
  BY LoadSees
<1>2. CASE Query
  <2>1. /\ statsUp /\ ~writing /\ loaded' /\ values' = Values /\ achOrder' = Order
        /\ UNCHANGED <<statsFile, writing, statCalls, set, stored, statsRun, statsUp, damaged>>
    BY <1>2 DEF Query, Call, Serves, rest
  <2> QED
    BY <1>1, <2>1 DEF Query, StatsInv, StatsTypes, ListedWell, SavesWhatIsThere, AsLeft, Call
<1>3. CASE StoreStats
  <2>1. /\ statsUp /\ ~writing /\ loaded' = TRUE /\ values' = Values /\ achOrder' = Order
        /\ writing' = TRUE /\ statsFile' = Nothing /\ stored' = set
        /\ UNCHANGED <<statCalls, set, statsRun, statsUp, damaged>>
    BY <1>3 DEF StoreStats, Call, Serves, rest
  <2>2. StatsTypes'
    BY <1>1, <2>1, ReadNothing DEF StatsInv, StatsTypes
  <2> QED
    BY <1>1, <2>1, <2>2 DEF StatsInv, ListedWell, SavesWhatIsThere, AsLeft
<1>4. ASSUME NEW all \in BOOLEAN, ResetAllStats(all)
      PROVE  StatsInv'
  <2> DEFINE left == IF all THEN {} ELSE Achievement
  <2>1. /\ statsUp /\ ~writing /\ loaded' = TRUE
        /\ statCalls < MaxCalls /\ statCalls' = statCalls + 1
        /\ writing' = TRUE /\ statsFile' = Nothing
        /\ values' = Keep(Values, left) /\ set' = Keep(set, left) /\ stored' = Keep(set, left)
        /\ achOrder' = IF all THEN << >> ELSE Order
        /\ UNCHANGED <<statsRun, statsUp, damaged>>
    BY <1>4 DEF ResetAllStats, Change, Call, Serves, rest
  <2>2. DOMAIN values' = DOMAIN Values \cap left
    <3> HIDE DEF left
    <3> QED
      BY <2>1, ValueNames
  <2>3. StatsTypes'
    <3>1. statCalls' \in 0..MaxCalls
      BY <2>1, UserStatsAssumption DEF StatsInv, StatsTypes
    <3>2. DOMAIN values' \subseteq StatName /\ DOMAIN statsFile' \subseteq StatName
      BY <1>1, <2>1, <2>2, ReadNothing
    <3> QED
      BY <2>1, <3>1, <3>2 DEF StatsInv, StatsTypes
  <2>4. Listing(achOrder', values')
    <3>1. CASE all
      <4>1. achOrder' = << >> /\ DOMAIN values' \cap Achievement = {}
        BY <2>1, <2>2, <3>1
      <4>2. << >> \in Seq(Achievement) /\ IsInjective(<< >>) /\ ToSet(<< >>) = {}
        BY DEF IsInjective, ToSet
      <4> QED
        BY <4>1, <4>2 DEF Listing
    <3>2. CASE ~all
      <4>1. achOrder' = Order /\ DOMAIN values' \cap Achievement = DOMAIN Values \cap Achievement
        BY <2>1, <2>2, <3>2
      <4> QED
        BY <1>1, <4>1 DEF Listing
    <3> QED
      BY <3>1, <3>2
  <2> HIDE DEF left
  <2>5. Agree(Values, set) => Agree(Keep(Values, left), Keep(set, left))
    BY AgreeAfter
  <2> QED
    BY <1>1, <2>1, <2>3, <2>4, <2>5 DEF StatsInv, ListedWell, SavesWhatIsThere, AsLeft
<1>5. CASE FinishStore
  <2>1. /\ writing /\ writing' = FALSE /\ statsFile' = ReadBack(values)
        /\ UNCHANGED <<loaded, values, achOrder, statCalls, set, stored, statsRun, statsUp, damaged>>
    BY <1>5 DEF FinishStore, rest
  <2>2. DOMAIN values \subseteq StatName
    BY DEF StatsInv, StatsTypes
  <2>3. StatsTypes'
    BY <2>1, <2>2, ValueNames DEF StatsInv, StatsTypes
  <2>4. ~damaged => Agree(statsFile', Remembered(stored))
    <3>1. Agree(ReadBack(values), Remembered(values))
      BY <2>2, ReadsBack
    <3>2. ~damaged => Agree(Remembered(values), Remembered(stored))
      BY <2>1, AgreeAfter DEF StatsInv, AsLeft
    <3> QED
      BY <2>1, <3>1, <3>2 DEF Agree
  <2> QED
    BY <2>1, <2>3, <2>4 DEF StatsInv, ListedWell, SavesWhatIsThere, AsLeft
<1> QED
  BY <1>2, <1>3, <1>4, <1>5

(* What a death in Save leaves has no value of a name that is not one.     *)
LEMMA DyingKeepsNames ==
  ASSUME StatsInv, DieStoring
  PROVE  DOMAIN statsFile' \subseteq StatName
<1> DEFINE S == DOMAIN values
           lines == SelectIn(FileOrder, S)
<1>1. FileOrder \in Seq(StatName) /\ S \subseteq StatName
  BY StatNames DEF StatsInv, StatsTypes
<1>2. lines \in Seq(StatName \cap S)
  <2> HIDE DEF S
  <2> QED
    BY <1>1, SelectInKeeps
<1>3. PICK k \in 0..Len(lines) :
        LET whole == ReadBack(Keep(values, ToSet(SubSeq(lines, 1, k))))
        IN  \/ statsFile' = whole
            \/ k > 0 /\ \E v \in IF lines[k] \in Achievement THEN 0..MaxTime ELSE StatValues :
                 statsFile' = Put(whole, WordOf[lines[k]], v)
  BY DEF DieStoring
<1> DEFINE whole == ReadBack(Keep(values, ToSet(SubSeq(lines, 1, k))))
<1>4. DOMAIN whole \subseteq StatName
  <2> DEFINE part == Keep(values, ToSet(SubSeq(lines, 1, k)))
  <2>1. DOMAIN part \subseteq S
    BY DEF Keep
  <2> HIDE DEF part
  <2>2. DOMAIN ReadBack(part) \subseteq StatName
    BY <1>1, <2>1, ValueNames
  <2> QED
    BY <2>2 DEF part
<1>5. \/ statsFile' = whole
      \/ k > 0 /\ \E v : statsFile' = Put(whole, WordOf[lines[k]], v)
  BY <1>3
<1>6. k > 0 => WordOf[lines[k]] \in StatName
  <2> HIDE DEF lines
  <2>1. k > 0 => lines[k] \in StatName
    BY <1>2
  <2> QED
    BY <2>1, UserStatsAssumption
<1> HIDE DEF whole, lines
<1>7. \A v : DOMAIN Put(whole, WordOf[lines[k]], v) = DOMAIN whole \cup {WordOf[lines[k]]}
  BY ValueNames
<1> QED
  BY <1>4, <1>5, <1>6, <1>7

LEMMA ProcessesKeepStats ==
  ASSUME StatsInv, StartStats \/ EndStats \/ DieStoring
  PROVE  StatsInv'
<1>1. CASE StartStats
  <2>1. /\ statsRun < MaxStatRuns /\ statsUp' = TRUE /\ statsRun' = statsRun + 1
        /\ UNCHANGED <<loaded, values, achOrder, statsFile, writing, statCalls, set,
                       stored, damaged>>
    BY <1>1 DEF StartStats
  <2>2. statsRun' \in 0..MaxStatRuns
    BY <2>1, UserStatsAssumption DEF StatsInv, StatsTypes
  <2>3. StatsTypes'
    BY <2>1, <2>2 DEF StatsInv, StatsTypes
  <2> QED
    BY <2>1, <2>3 DEF StatsInv, ListedWell, SavesWhatIsThere, AsLeft, Listing
<1>2. CASE EndStats \/ DieStoring
  <2>1. /\ statsUp' = FALSE /\ loaded' = FALSE /\ values' = Nothing /\ achOrder' = << >>
        /\ set' = Remembered(stored) /\ UNCHANGED <<statsRun, statCalls, stored>>
        /\ writing' = FALSE
        /\ damaged' = TRUE \/ UNCHANGED <<statsFile, writing, damaged>>
    BY <1>2 DEF EndStats, DieStoring, ProcessGone, Serves
  <2>2. DOMAIN statsFile' \subseteq StatName
    BY <1>2, DyingKeepsNames DEF EndStats, StatsInv, StatsTypes
  <2>3. damaged' \in BOOLEAN
    BY <2>1 DEF StatsInv, StatsTypes
  <2>4. StatsTypes'
    BY <2>1, <2>2, <2>3, ReadNothing DEF StatsInv, StatsTypes
  <2> QED
    BY <2>1, <2>4 DEF StatsInv, ListedWell, SavesWhatIsThere, AsLeft
<1> QED
  BY <1>1, <1>2

LEMMA StatsInvKept ==
  ASSUME StatsInv, [StatsNext]_statVars
  PROVE  StatsInv'
<1>1. CASE UNCHANGED statVars
  BY <1>1 DEF statVars, StatsInv, StatsTypes, ListedWell, Listing, SavesWhatIsThere, AsLeft
<1> QED
  BY <1>1, SettersKeepStats, StoringKeepsStats, ProcessesKeepStats DEF StatsNext

(* The maps and the file have values of the names there are.               *)
THEOREM StatsTyped == StatsSpec => []StatsTypeOK
<1>1. StatsInit => StatsInv
  BY StatsFirst
<1>2. StatsInv /\ [StatsNext]_statVars => StatsInv'
  BY StatsInvKept
<1>3. StatsInv => StatsTypeOK
  <2>1. << >> \in Seq(Achievement)
    OBVIOUS
  <2> QED
    BY <2>1 DEF StatsInv, StatsTypes, ListedWell, Listing, StatsTypeOK
<1> QED
  BY <1>1, <1>2, <1>3, PTL DEF StatsSpec

(* Under a name that is one word and no other name's first, a process      *)
(* reads what it set or, if it did not, what was last stored, whatever     *)
(* becomes of the other names; it enumerates the achievements it reads,    *)
(* and the file holds what was last stored, unless a process died in the   *)
(* middle of storing.                                                      *)
THEOREM StatsStay == StatsSpec => []StatsKept
<1>1. StatsInit => StatsInv
  BY StatsFirst
<1>2. StatsInv /\ [StatsNext]_statVars => StatsInv'
  BY StatsInvKept
<1>3. StatsInv => StatsKept
  BY DEF StatsInv, ListedWell, Listing, AsLeft, AchievementsListed, StatsKept
<1> QED
  BY <1>1, <1>2, <1>3, PTL DEF StatsSpec

-----------------------------------------------------------------------------
(* The channels and the requests of P2P sessions *)

Announced == announcing \cup ToSet(requests)

(* A channel of side s: its packets have arrived in the order they are in, *)
(* as the first so many, and in sessions that were announced.              *)
Rightly(q, s, told, many) ==
  /\ q \in Seq(Packet)
  /\ \A i \in DOMAIN q : /\ [side |-> s, from |-> q[i].from, session |-> q[i].session] \in told
                         /\ q[i].number <= many
  /\ \A i, j \in DOMAIN q : j < i => q[j].number < q[i].number

ChannelsRight == \A s \in Side, c \in Channels : Rightly(inbox[s][c], s, Announced, arrived)

(* A sender that is known has been announced in its present session.       *)
KnownAnnounced == \A s \in Side : \A u \in knownSessions[s] :
  [side |-> s, from |-> u, session |-> session[s][u]] \in Announced

(* What was announced is an earlier session, or the present one of someone *)
(* who is known.                                                           *)
NoneAhead == \A r \in Announced :
  \/ r.session < session[r.side][r.from]
  \/ r.session = session[r.side][r.from] /\ r.from \in knownSessions[r.side]

AnnouncedOnce ==
  /\ \A r1, r2 \in announcing : r1 = r2
  /\ \A i, j \in DOMAIN requests : requests[i] = requests[j] => i = j
  /\ announcing \cap ToSet(requests) = {}

ClosingsCounted == \A s \in Side, u \in Senders : session[s][u] <= closings

P2PInv == /\ P2PTypeOK /\ ClosingsCounted /\ ChannelsRight
          /\ KnownAnnounced /\ NoneAhead /\ AnnouncedOnce

LEMMA TakeRightly ==
  ASSUME NEW q, NEW s, NEW told, NEW many, Rightly(q, s, told, many), NEW n \in 0..Len(q)
  PROVE  Rightly(SubSeq(q, n + 1, Len(q)), s, told, many)
<1> DEFINE r == SubSeq(q, n + 1, Len(q))
           left == Len(q) - n
<1>1. q \in Seq(Packet) /\ Len(q) \in Nat /\ n \in Nat /\ n <= Len(q) /\ DOMAIN q = 1..Len(q)
  BY DEF Rightly
<1>2. /\ r \in Seq(Packet) /\ DOMAIN r = 1..left /\ left \in Nat
      /\ \A i \in 1..left : r[i] = q[n + i]
  <2> HIDE DEF Packet
  <2> QED
    BY <1>1
<1>3. \A i \in 1..left : n + i \in DOMAIN q
  BY <1>1
<1>4. \A i, j \in 1..left : j < i => n + j < n + i
  BY <1>1
<1> HIDE DEF r, left, Packet
<1>5. \A i, j \in DOMAIN r : j < i => r[j].number < r[i].number
  BY <1>2, <1>3, <1>4 DEF Rightly
<1>6. \A i \in DOMAIN r :
        /\ [side |-> s, from |-> r[i].from, session |-> r[i].session] \in told
        /\ r[i].number <= many
  BY <1>2, <1>3 DEF Rightly
<1> QED
  BY <1>2, <1>5, <1>6 DEF Rightly, r

LEMMA DropRightly ==
  ASSUME NEW q, NEW s, NEW told, NEW many, Rightly(q, s, told, many), NEW S
  PROVE  Rightly(SelectIn(q, S), s, told, many)
<1> DEFINE r == SelectIn(q, S)
<1>1. q \in Seq(Packet)
  BY DEF Rightly
<1>2. PICK at \in [1..Len(r) -> PlacesIn(q, S)] :
        /\ \A k \in 1..Len(r) : r[k] = q[at[k]]
        /\ \A k, l \in 1..Len(r) : k < l => at[k] < at[l]
  BY <1>1, SelectInPlaces
<1>3. r \in Seq(Packet) /\ DOMAIN r = 1..Len(r)
  <2> HIDE DEF Packet
  <2>1. r \in Seq(Packet \cap S)
    BY <1>1, SelectInKeeps
  <2> HIDE DEF r
  <2>2. /\ \A k \in DOMAIN r : r[k] \in Packet
        /\ r = [k \in 1..Len(r) |-> r[k]] /\ Len(r) \in Nat /\ DOMAIN r = 1..Len(r)
    BY <2>1
  <2> QED
    BY <2>2
<1>4. \A k \in 1..Len(r) : at[k] \in DOMAIN q
  BY <1>2 DEF PlacesIn
<1> HIDE DEF r, Packet
<1>5. \A i, j \in DOMAIN r : j < i => r[j].number < r[i].number
  BY <1>2, <1>3, <1>4 DEF Rightly
<1>6. \A i \in DOMAIN r :
        /\ [side |-> s, from |-> r[i].from, session |-> r[i].session] \in told
        /\ r[i].number <= many
  BY <1>2, <1>3, <1>4 DEF Rightly
<1> QED
  BY <1>3, <1>5, <1>6 DEF Rightly, r

LEMMA ArriveRightly ==
  ASSUME NEW q, NEW s, NEW told, NEW many \in Nat, Rightly(q, s, told, many),
         NEW p \in Packet, p.number = many + 1,
         [side |-> s, from |-> p.from, session |-> p.session] \in told
  PROVE  Rightly(Append(q, p), s, told, many + 1)
<1> DEFINE r == Append(q, p)
           n == Len(q)
<1>1. q \in Seq(Packet) /\ n \in Nat /\ DOMAIN q = 1..n
  BY DEF Rightly
<1>2. /\ r \in Seq(Packet) /\ DOMAIN r = 1..(n + 1)
      /\ r[n + 1] = p /\ \A i \in 1..n : r[i] = q[i]
  <2> HIDE DEF Packet
  <2> QED
    BY <1>1
<1>3. \A i \in 1..n : q[i].number \in Nat /\ q[i].number <= many
  <2>1. \A i \in 1..n : q[i] \in Packet
    <3> HIDE DEF Packet
    <3> QED
      BY <1>1
  <2>2. \A i \in 1..n : q[i].number <= many
    BY <1>1 DEF Rightly
  <2> QED
    BY <2>1, <2>2 DEF Packet
<1> HIDE DEF r, n, Packet
<1>4. \A i \in 1..(n + 1) : i \in 1..n \/ i = n + 1
  BY <1>1
<1>5. \A i, j \in DOMAIN r : j < i => r[j].number < r[i].number
  <2> SUFFICES ASSUME NEW i \in 1..(n + 1), NEW j \in 1..(n + 1), j < i
               PROVE  r[j].number < r[i].number
    BY <1>2
  <2>1. j \in 1..n
    BY <1>1
  <2>2. CASE i \in 1..n
    BY <1>1, <1>2, <2>1, <2>2 DEF Rightly
  <2>3. CASE i = n + 1
    <3>1. r[i].number = many + 1 /\ r[j].number = q[j].number
      BY <1>2, <2>1, <2>3
    <3> QED
      BY <1>3, <2>1, <3>1
  <2> QED
    BY <1>4, <2>2, <2>3
<1>6. \A i \in DOMAIN r :
        /\ [side |-> s, from |-> r[i].from, session |-> r[i].session] \in told
        /\ r[i].number <= many + 1
  <2> SUFFICES ASSUME NEW i \in 1..(n + 1)
               PROVE  /\ [side |-> s, from |-> r[i].from, session |-> r[i].session] \in told
                      /\ r[i].number <= many + 1
    BY <1>2
  <2>1. CASE i \in 1..n
    <3>1. r[i] = q[i]
      BY <1>2, <2>1
    <3>2. [side |-> s, from |-> q[i].from, session |-> q[i].session] \in told
      BY <1>1, <2>1 DEF Rightly
    <3> QED
      BY <1>3, <2>1, <3>1, <3>2
  <2>2. CASE i = n + 1
    BY <1>2, <2>2
  <2> QED
    BY <1>4, <2>1, <2>2
<1> QED
  BY <1>2, <1>5, <1>6 DEF Rightly, r

LEMMA StillRightly ==
  ASSUME NEW q, NEW s, NEW told, NEW more, NEW many \in Nat, Rightly(q, s, told, many),
         told \subseteq more
  PROVE  Rightly(q, s, more, many) /\ Rightly(q, s, more, many + 1)
<1>1. q \in Seq(Packet)
  BY DEF Rightly
<1>2. \A i \in DOMAIN q : q[i].number \in Nat /\ q[i].number <= many
  <2>1. \A i \in DOMAIN q : q[i] \in Packet
    <3> HIDE DEF Packet
    <3> QED
      BY <1>1
  <2>2. \A i \in DOMAIN q : q[i].number <= many
    BY DEF Rightly
  <2> QED
    BY <2>1, <2>2 DEF Packet
<1>3. \A i \in DOMAIN q : q[i].number <= many + 1
  BY <1>2
<1> QED
  BY <1>3 DEF Rightly

LEMMA SessionsFirst ==
  ASSUME P2PInit
  PROVE  P2PInv
<1>1. /\ \A s \in Side, c \in Channels : inbox[s][c] = << >>
      /\ \A s \in Side : knownSessions[s] = {}
      /\ \A s \in Side, u \in Senders : session[s][u] = 0
      /\ announcing = {} /\ requests = << >> /\ arrived = 0 /\ closings = 0
  BY DEF P2PInit
<1>2. << >> \in Seq(Packet) /\ << >> \in Seq(Request) /\ DOMAIN << >> = {}
  OBVIOUS
<1>3. ToSet(requests) = {}
  BY <1>1, <1>2 DEF ToSet
<1>4. P2PTypeOK
  <2>1. 0 \in 0..MaxPackets /\ 0 \in 0..MaxClosings
    BY P2PAssumption
  <2>2. inbox \in [Side -> [Channels -> Seq(Packet)]]
    <3> HIDE DEF Packet, Side
    <3> QED
      BY <1>2 DEF P2PInit
  <2>3. session \in [Side -> [Senders -> 0..MaxClosings]]
    BY <2>1 DEF P2PInit
  <2>4. knownSessions \in [Side -> SUBSET Senders]
    BY DEF P2PInit
  <2> QED
    BY <1>1, <1>2, <2>1, <2>2, <2>3, <2>4 DEF P2PTypeOK
<1>5. ChannelsRight
  BY <1>1, <1>2 DEF ChannelsRight, Rightly
<1> QED
  BY <1>1, <1>2, <1>3, <1>4, <1>5
     DEF P2PInv, ClosingsCounted, KnownAnnounced, NoneAhead, AnnouncedOnce, Announced

LEMMA ArriveKeepsSessions ==
  ASSUME P2PInv, NEW u \in Senders, NEW s \in Side, NEW c \in Channels, Arrive(u, s, c)
  PROVE  P2PInv'
<1> DEFINE p == [from |-> u, session |-> session[s][u], number |-> arrived + 1]
           r == [side |-> s, from |-> u, session |-> session[s][u]]
<1>1. /\ announcing = {} /\ arrived < MaxPackets /\ arrived' = arrived + 1
      /\ inbox' = [inbox EXCEPT ![s][c] = Append(inbox[s][c], p)]
      /\ announcing' = IF u \in knownSessions[s] THEN {} ELSE {r}
      /\ knownSessions' = [knownSessions EXCEPT ![s] = knownSessions[s] \cup {u}]
      /\ UNCHANGED <<requests, session, closings>>
  BY DEF Arrive
<1>2. /\ inbox \in [Side -> [Channels -> Seq(Packet)]]
      /\ knownSessions \in [Side -> SUBSET Senders]
      /\ requests \in Seq(Request)
      /\ session \in [Side -> [Senders -> 0..MaxClosings]]
      /\ arrived \in Nat /\ arrived \in 0..MaxPackets /\ closings \in 0..MaxClosings
  BY P2PAssumption DEF P2PInv, P2PTypeOK
<1>3. session[s][u] \in 0..MaxClosings /\ arrived + 1 \in 1..MaxPackets
  <2>1. session[s] \in [Senders -> 0..MaxClosings]
    BY <1>2
  <2> QED
    BY <1>1, <1>2, <2>1, P2PAssumption
<1>4. p \in Packet /\ r \in Request
  BY <1>3 DEF Packet, Request
<1>5. /\ inbox'[s][c] = Append(inbox[s][c], p)
      /\ \A t \in Side, d \in Channels : <<t, d>> /= <<s, c>> => inbox'[t][d] = inbox[t][d]
      /\ inbox' \in [Side -> [Channels -> Seq(Packet)]]
  <2> HIDE DEF p, Packet, Side
  <2>1. inbox[s][c] \in Seq(Packet)
    BY <1>2
  <2>2. Append(inbox[s][c], p) \in Seq(Packet)
    BY <1>4, <2>1
  <2> QED
    BY <1>1, <1>2, <2>2
<1>6. /\ knownSessions' \in [Side -> SUBSET Senders]
      /\ knownSessions'[s] = knownSessions[s] \cup {u}
      /\ \A t \in Side : t /= s => knownSessions'[t] = knownSessions[t]
  <2> HIDE DEF Side
  <2> QED
    BY <1>1, <1>2
<1>7. /\ Announced = ToSet(requests) /\ Announced' = announcing' \cup Announced
      /\ Announced \subseteq Announced'
  BY <1>1 DEF Announced
<1>8. r \in Announced'
  BY <1>1, <1>7 DEF P2PInv, KnownAnnounced
<1>9. P2PTypeOK'
  <2> HIDE DEF p, r
  <2> QED
    BY <1>1, <1>2, <1>3, <1>4, <1>5, <1>6 DEF P2PTypeOK
<1>10. ChannelsRight'
  <2> SUFFICES ASSUME NEW t \in Side, NEW d \in Channels
               PROVE  Rightly(inbox'[t][d], t, Announced', arrived + 1)
    BY <1>1 DEF ChannelsRight
  <2>1. Rightly(inbox[t][d], t, Announced, arrived)
    BY DEF P2PInv, ChannelsRight
  <2>2. /\ Rightly(inbox[t][d], t, Announced', arrived)
        /\ Rightly(inbox[t][d], t, Announced', arrived + 1)
    BY <1>2, <1>7, <2>1, StillRightly
  <2>3. CASE <<t, d>> /= <<s, c>>
    BY <1>5, <2>2, <2>3
  <2>4. CASE <<t, d>> = <<s, c>>
    <3>1. p.number = arrived + 1 /\ [side |-> s, from |-> p.from, session |-> p.session] = r
      OBVIOUS
    <3> HIDE DEF p
    <3>2. Rightly(Append(inbox[s][c], p), s, Announced', arrived + 1)
      BY <1>2, <1>4, <1>8, <2>2, <2>4, <3>1, ArriveRightly
    <3> QED
      BY <1>5, <2>4, <3>2
  <2> QED
    BY <2>3, <2>4
<1>11. KnownAnnounced'
  <2> SUFFICES ASSUME NEW t \in Side, NEW v \in knownSessions'[t]
               PROVE  [side |-> t, from |-> v, session |-> session[t][v]] \in Announced'
    BY <1>1 DEF KnownAnnounced
  <2>1. v \in knownSessions[t] \/ (t = s /\ v = u)
    BY <1>6
  <2> QED
    BY <1>7, <1>8, <2>1 DEF P2PInv, KnownAnnounced
<1>12. NoneAhead'
  <2> SUFFICES ASSUME NEW x \in Announced'
               PROVE  \/ x.session < session[x.side][x.from]
                      \/ /\ x.session = session[x.side][x.from]
                         /\ x.from \in knownSessions'[x.side]
    BY <1>1 DEF NoneAhead
  <2>1. CASE x \in Announced
    <3>1. x.side \in Side
      <4>1. PICK i \in DOMAIN requests : x = requests[i]
        BY <1>7, <2>1 DEF ToSet
      <4>2. x \in Request
        <5> HIDE DEF Request
        <5> QED
          BY <1>2, <4>1
      <4> QED
        BY <4>2 DEF Request
    <3> QED
      BY <1>6, <2>1, <3>1 DEF P2PInv, NoneAhead
  <2>2. CASE x = r
    BY <1>6, <2>2
  <2> QED
    BY <1>1, <1>7, <2>1, <2>2
<1>13. AnnouncedOnce'
  <2>1. u \notin knownSessions[s] => r \notin Announced
    <3> SUFFICES ASSUME u \notin knownSessions[s], r \in Announced
                 PROVE  FALSE
      OBVIOUS
    <3>1. r.side = s /\ r.from = u /\ r.session = session[s][u]
      OBVIOUS
    <3> HIDE DEF r
    <3>2. session[s][u] < session[s][u]
      BY <3>1 DEF P2PInv, NoneAhead
    <3> QED
      BY <1>3, <3>2
  <2> HIDE DEF r
  <2> QED
    BY <1>1, <1>7, <2>1 DEF P2PInv, AnnouncedOnce
<1>14. ClosingsCounted'
  BY <1>1 DEF P2PInv, ClosingsCounted
<1> QED
  BY <1>9, <1>10, <1>11, <1>12, <1>13, <1>14 DEF P2PInv

LEMMA PostKeepsSessions ==
  ASSUME P2PInv, PostRequest
  PROVE  P2PInv'
<1>1. PICK r \in announcing : requests' = Append(requests, r)
  BY DEF PostRequest
<1>2. announcing' = {} /\ UNCHANGED <<inbox, knownSessions, session, arrived, closings>>
  BY DEF PostRequest
<1>3. r \in Request /\ announcing = {r} /\ requests \in Seq(Request) /\ r \notin ToSet(requests)
  BY DEF P2PInv, P2PTypeOK, AnnouncedOnce
<1> DEFINE n == Len(requests)
<1>4. /\ n \in Nat /\ DOMAIN requests = 1..n /\ requests' \in Seq(Request)
      /\ DOMAIN requests' = 1..(n + 1) /\ requests'[n + 1] = r
      /\ \A i \in 1..n : requests'[i] = requests[i]
  <2> HIDE DEF Request
  <2> QED
    BY <1>1, <1>3
<1> HIDE DEF n
<1>5. \A i \in 1..(n + 1) : i \in 1..n \/ i = n + 1
  BY <1>4
<1>6. n + 1 \in 1..(n + 1) /\ \A i \in 1..n : i \in 1..(n + 1)
  BY <1>4
<1>7. ToSet(requests)' = ToSet(requests) \cup {r}
  BY <1>4, <1>5, <1>6 DEF ToSet
<1>8. Announced' = Announced
  BY <1>2, <1>3, <1>7 DEF Announced
<1>9. AnnouncedOnce'
  <2>1. \A i \in 1..n : requests[i] /= r
    BY <1>3, <1>4 DEF ToSet
  <2>2. \A i, j \in 1..(n + 1) : requests'[i] = requests'[j] => i = j
    BY <1>4, <1>5, <2>1 DEF P2PInv, AnnouncedOnce
  <2> QED
    BY <1>2, <1>4, <2>2 DEF AnnouncedOnce
<1>10. P2PTypeOK'
  BY <1>2, <1>4 DEF P2PInv, P2PTypeOK
<1> QED
  BY <1>2, <1>8, <1>9, <1>10
     DEF P2PInv, ClosingsCounted, ChannelsRight, KnownAnnounced, NoneAhead

LEMMA TakeKeepsSessions ==
  ASSUME P2PInv, NEW s \in Side, NEW c \in Channels, NEW n \in 0..Len(inbox[s][c]), Take(s, c, n)
  PROVE  P2PInv'
<1> DEFINE q == SubSeq(inbox[s][c], n + 1, Len(inbox[s][c]))
<1>1. /\ inbox' = [inbox EXCEPT ![s][c] = q]
      /\ UNCHANGED <<knownSessions, announcing, requests, session, arrived, closings>>
  BY DEF Take
<1>2. inbox \in [Side -> [Channels -> Seq(Packet)]] /\ Rightly(inbox[s][c], s, Announced, arrived)
  BY DEF P2PInv, P2PTypeOK, ChannelsRight
<1>3. Rightly(q, s, Announced, arrived)
  BY <1>2, TakeRightly
<1> HIDE DEF q
<1>4. /\ inbox'[s][c] = q /\ inbox' \in [Side -> [Channels -> Seq(Packet)]]
      /\ \A t \in Side, d \in Channels : <<t, d>> /= <<s, c>> => inbox'[t][d] = inbox[t][d]
  <2>1. q \in Seq(Packet)
    BY <1>3 DEF Rightly
  <2> HIDE DEF Packet, Side
  <2> QED
    BY <1>1, <1>2, <2>1
<1>5. Announced' = Announced
  BY <1>1 DEF Announced
<1>6. ChannelsRight'
  BY <1>1, <1>3, <1>4, <1>5 DEF P2PInv, ChannelsRight
<1>7. P2PTypeOK'
  BY <1>1, <1>4 DEF P2PInv, P2PTypeOK
<1> QED
  BY <1>1, <1>5, <1>6, <1>7 DEF P2PInv, ClosingsCounted, KnownAnnounced, NoneAhead, AnnouncedOnce

LEMMA CloseKeepsSessions ==
  ASSUME P2PInv, NEW u \in Senders, NEW s \in Side, NEW c \in Channels, CloseP2PChannel(u, c, s)
  PROVE  P2PInv'
<1> DEFINE q == SelectIn(inbox[s][c], {p \in Packet : p.from /= u})
<1>1. /\ closings < MaxClosings /\ closings' = closings + 1
      /\ knownSessions' = [knownSessions EXCEPT ![s] = knownSessions[s] \ {u}]
      /\ inbox' = [inbox EXCEPT ![s][c] = q]
      /\ session' = [session EXCEPT ![s][u] = session[s][u] + 1]
      /\ UNCHANGED <<announcing, requests, arrived>>
  BY DEF CloseP2PChannel, Forget
<1>2. /\ inbox \in [Side -> [Channels -> Seq(Packet)]]
      /\ knownSessions \in [Side -> SUBSET Senders]
      /\ announcing \subseteq Request /\ requests \in Seq(Request)
      /\ session \in [Side -> [Senders -> 0..MaxClosings]] /\ closings \in 0..MaxClosings
      /\ Rightly(inbox[s][c], s, Announced, arrived)
  BY DEF P2PInv, P2PTypeOK, ChannelsRight
<1>3. Rightly(q, s, Announced, arrived)
  <2> DEFINE S == {p \in Packet : p.from /= u}
  <2> HIDE DEF S
  <2>1. Rightly(SelectIn(inbox[s][c], S), s, Announced, arrived)
    BY <1>2, DropRightly
  <2> QED
    BY <2>1 DEF S
<1> HIDE DEF q
<1>4. /\ inbox'[s][c] = q /\ inbox' \in [Side -> [Channels -> Seq(Packet)]]
      /\ \A t \in Side, d \in Channels : <<t, d>> /= <<s, c>> => inbox'[t][d] = inbox[t][d]
  <2>1. q \in Seq(Packet)
    BY <1>3 DEF Rightly
  <2> HIDE DEF Packet, Side
  <2> QED
    BY <1>1, <1>2, <2>1
<1>5. Announced' = Announced
  BY <1>1 DEF Announced
<1>6. ChannelsRight'
  BY <1>1, <1>3, <1>4, <1>5 DEF P2PInv, ChannelsRight
<1>7. /\ \A t \in Side, v \in Senders : session[t][v] \in Nat /\ session[t][v] <= closings
      /\ closings \in Nat /\ MaxClosings \in Nat
  <2>1. \A t \in Side : session[t] \in [Senders -> 0..MaxClosings]
    BY <1>2
  <2>2. \A t \in Side, v \in Senders : session[t][v] \in 0..MaxClosings
    BY <2>1
  <2> QED
    BY <1>2, <2>2, P2PAssumption DEF P2PInv, ClosingsCounted
<1>8. /\ session'[s][u] = session[s][u] + 1
      /\ \A t \in Side, v \in Senders : <<t, v>> /= <<s, u>> => session'[t][v] = session[t][v]
      /\ DOMAIN session' = Side /\ \A t \in Side : DOMAIN session'[t] = Senders
      /\ session' = [t \in Side |-> [v \in Senders |-> session'[t][v]]]
  <2> HIDE DEF Side
  <2> QED
    BY <1>1, <1>2
<1>9. \A t \in Side, v \in Senders :
        session'[t][v] \in 0..MaxClosings /\ session'[t][v] <= closings + 1
          /\ session[t][v] <= session'[t][v]
  <2> TAKE t \in Side, v \in Senders
  <2>1. CASE <<t, v>> = <<s, u>>
    <3>1. session[s][u] \in Nat /\ session[s][u] <= closings
      BY <1>7
    <3> QED
      BY <1>1, <1>7, <1>8, <2>1, <3>1
  <2>2. CASE <<t, v>> /= <<s, u>>
    <3>1. session[t][v] \in Nat /\ session[t][v] <= closings
      BY <1>7
    <3> QED
      BY <1>1, <1>7, <1>8, <2>2, <3>1
  <2> QED
    BY <2>1, <2>2
<1>10. session' \in [Side -> [Senders -> 0..MaxClosings]]
  <2> HIDE DEF Side
  <2> QED
    BY <1>8, <1>9
<1>11. /\ knownSessions' \in [Side -> SUBSET Senders]
       /\ knownSessions'[s] = knownSessions[s] \ {u}
       /\ \A t \in Side : t /= s => knownSessions'[t] = knownSessions[t]
  <2> HIDE DEF Side
  <2> QED
    BY <1>1, <1>2
<1>12. P2PTypeOK'
  <2>1. closings' \in 0..MaxClosings
    BY <1>1, <1>7
  <2> QED
    BY <1>1, <1>2, <1>4, <1>10, <1>11, <2>1 DEF P2PInv, P2PTypeOK
<1>13. KnownAnnounced'
  <2> SUFFICES ASSUME NEW t \in Side, NEW v \in knownSessions'[t]
               PROVE  [side |-> t, from |-> v, session |-> session'[t][v]] \in Announced
    BY <1>5 DEF KnownAnnounced
  <2>1. v \in knownSessions[t] /\ <<t, v>> /= <<s, u>> /\ v \in Senders
    BY <1>2, <1>11
  <2>2. session'[t][v] = session[t][v]
    BY <1>8, <2>1
  <2> QED
    BY <2>1, <2>2 DEF P2PInv, KnownAnnounced
<1>14. NoneAhead'
  <2> SUFFICES ASSUME NEW x \in Announced
               PROVE  \/ x.session < session'[x.side][x.from]
                      \/ /\ x.session = session'[x.side][x.from]
                         /\ x.from \in knownSessions'[x.side]
    BY <1>5 DEF NoneAhead
  <2>1. x \in Request
    BY <1>2 DEF Announced, ToSet
  <2>2. x.side \in Side /\ x.from \in Senders /\ x.session \in Nat
    BY <2>1, P2PAssumption DEF Request
  <2>3. \/ x.session < session[x.side][x.from]
        \/ x.session = session[x.side][x.from] /\ x.from \in knownSessions[x.side]
    BY DEF P2PInv, NoneAhead
  <2>4. session[x.side][x.from] \in Nat
    BY <1>7, <2>2
  <2>5. CASE <<x.side, x.from>> = <<s, u>>
    <3>1. session'[x.side][x.from] = session[x.side][x.from] + 1
      BY <1>8, <2>5
    <3> QED
      BY <2>2, <2>3, <2>4, <3>1
  <2>6. CASE <<x.side, x.from>> /= <<s, u>>
    <3>1. session'[x.side][x.from] = session[x.side][x.from]
      BY <1>8, <2>2, <2>6
    <3>2. x.from \in knownSessions[x.side] => x.from \in knownSessions'[x.side]
      BY <1>11, <2>2, <2>6
    <3> QED
      BY <2>3, <3>1, <3>2
  <2> QED
    BY <2>5, <2>6
<1>15. ClosingsCounted'
  BY <1>1, <1>9 DEF ClosingsCounted
<1>16. AnnouncedOnce'
  BY <1>1 DEF P2PInv, AnnouncedOnce
<1> QED
  BY <1>6, <1>12, <1>13, <1>14, <1>15, <1>16 DEF P2PInv

LEMMA P2PInvKept ==
  ASSUME P2PInv, [P2PNext]_p2pVars
  PROVE  P2PInv'
<1>1. CASE UNCHANGED p2pVars
  BY <1>1 DEF p2pVars, P2PInv, P2PTypeOK, ClosingsCounted, ChannelsRight, KnownAnnounced,
              NoneAhead, AnnouncedOnce, Announced
<1>2. \A s \in Side, c \in Channels : inbox[s][c] \in Seq(Packet)
  BY DEF P2PInv, P2PTypeOK
<1>3. ASSUME NEW s \in Side, NEW c \in Channels, ReadP2PPacket(s, c)
      PROVE  P2PInv'
  <2>1. 1 \in 0..Len(inbox[s][c])
    <3>1. inbox[s][c] \in Seq(Packet) /\ inbox[s][c] /= << >>
      BY <1>2, <1>3 DEF ReadP2PPacket
    <3> HIDE DEF Packet
    <3> QED
      BY <3>1
  <2> QED
    BY <1>3, <2>1, TakeKeepsSessions DEF ReadP2PPacket
<1>4. ASSUME NEW c \in Channels, ReceiveMessagesOnChannel(c)
      PROVE  P2PInv'
  <2>1. PICK n \in 1..MaxBatch : n <= Len(inbox["client"][c]) /\ Take("client", c, n)
    BY <1>4 DEF ReceiveMessagesOnChannel
  <2>2. "client" \in Side
    BY DEF Side
  <2>3. n \in 0..Len(inbox["client"][c])
    <3>1. inbox["client"][c] \in Seq(Packet)
      BY <1>2, <2>2
    <3> HIDE DEF Packet
    <3> QED
      BY <2>1, <3>1, P2PAssumption
  <2> QED
    BY <2>1, <2>2, <2>3, TakeKeepsSessions
<1>5. ASSUME NEW u \in Senders, NEW s \in Side, CloseP2PSessionWithUser(u, s)
      PROVE  P2PInv'
  BY <1>5, P2PAssumption, CloseKeepsSessions DEF CloseP2PSessionWithUser
<1>6. ASSUME NEW u \in Senders, NEW c \in Channels, CloseChannelWithUser(u, c)
      PROVE  P2PInv'
  <2>1. "client" \in Side
    BY DEF Side
  <2> QED
    BY <1>6, <2>1, CloseKeepsSessions DEF CloseChannelWithUser
<1> QED
  BY <1>1, <1>3, <1>4, <1>5, <1>6, ArriveKeepsSessions, PostKeepsSessions DEF P2PNext

(* The packets on every channel, the known senders and the requests are of *)
(* the identities, sessions and numbers there are.                         *)
THEOREM P2PTypes == P2PSpec => []P2PTypeOK
<1>1. P2PInit => P2PInv
  BY SessionsFirst
<1>2. P2PInv /\ [P2PNext]_p2pVars => P2PInv'
  BY P2PInvKept
<1>3. P2PInv => P2PTypeOK
  BY DEF P2PInv
<1> QED
  BY <1>1, <1>2, <1>3, PTL DEF P2PSpec

(* A packet a game can read is of a session that was announced once, and   *)
(* on a channel the packets are in the order in which they arrived.        *)
THEOREM SessionsAreAnnounced == P2PSpec => []SessionsAnnounced
<1>1. P2PInit => P2PInv
  BY SessionsFirst
<1>2. P2PInv /\ [P2PNext]_p2pVars => P2PInv'
  BY P2PInvKept
<1>3. P2PInv => SessionsAnnounced
  <2> SUFFICES ASSUME P2PInv, NEW s \in Side, NEW c \in Channels, NEW i \in DOMAIN inbox[s][c],
                      NEW j \in 1..(i - 1)
               PROVE  inbox[s][c][j].number < inbox[s][c][i].number
    BY DEF SessionsAnnounced, P2PInv, AnnouncedOnce, ChannelsRight, Rightly, Announced
  <2>1. inbox[s][c] \in Seq(Packet)
    BY DEF P2PInv, P2PTypeOK
  <2>2. j \in DOMAIN inbox[s][c] /\ j < i
    <3> HIDE DEF Packet
    <3> QED
      BY <2>1
  <2> QED
    BY <2>2 DEF P2PInv, ChannelsRight, Rightly
<1> QED
  BY <1>1, <1>2, <1>3, PTL DEF P2PSpec
=============================================================================
