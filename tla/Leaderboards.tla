---------------------------- MODULE Leaderboards ----------------------------
(***************************************************************************)
(* ISteamUserStats' leaderboards (src/storage.cpp): boards with one entry  *)
(* per user, kept in a file each, read by the first call of a process and  *)
(* written by every call that changes them.  One process runs at a time;   *)
(* the next may have another user, and any may die while it writes.        *)
(* A handle stands for the name of its board (HandleFor is one to one).    *)
(***************************************************************************)
EXTENDS Integers, Sequences, SequencesExt

CONSTANTS
  BoardNames,
  FileOf,       \* SafeName: per board, its file
  Users,
  Scores,
  ReadsDir,     \* is the directory read at all (not on Windows)?
  NoUser,
  MaxUploads,   \* bound: scores uploaded in one behaviour
  MaxProcesses  \* bound: processes

ASSUME LeaderboardsAssumption ==
  /\ DOMAIN FileOf = BoardNames /\ "none" \notin BoardNames /\ NoUser \notin Users
  /\ Scores \subseteq Nat /\ ReadsDir \in BOOLEAN
  /\ MaxUploads \in Nat /\ MaxProcesses \in Nat

VARIABLES
  player,      \* the user of the process, NoUser if none runs
  boardsRead,  \* has the process read the files?
  boards,      \* its boards, by name
  handles,     \* the boards it has a handle of
  boardFiles,  \* what the files hold
  saving,      \* the board Save is writing, or none
  processes,   \* number of processes started
  best,        \* history: per board and user, the scores its uploads leave it with
  torn,        \* history: the files a process died writing
  ranked       \* history: what the last upload reported

boardVars == <<player, boardsRead, boards, handles, boardFiles, saving,
               processes, best, torn, ranked>>

BoardFile == {FileOf[b] : b \in BoardNames}
Entry == [user : Users, score : Scores]
NoBoard == [sort |-> "none", entries |-> << >>]
Sort == {"ascending", "descending"}
EmptyFile == [name |-> "none", sort |-> "none", entries |-> << >>]
NoScore == {}
NoRank == [user |-> NoUser, name |-> "none", rank |-> 0, uploads |-> 0]

BoardInit ==
  /\ player = NoUser /\ boardsRead = FALSE /\ handles = {}
  /\ boards = [b \in BoardNames |-> NoBoard]
  /\ boardFiles = [f \in BoardFile |-> EmptyFile]
  /\ saving = {} /\ processes = 0 /\ torn = {}
  /\ best = [b \in BoardNames |-> [u \in Users |-> NoScore]]
  /\ ranked = NoRank

---------------------------------------------------------------------------
(* Mutant of Better: whatever the sort, the higher score. *)
BetterDescending(sort, s, t) == s > t

(* RankEntries: a stable sort, best first; a rank is a position.           *)
Better(sort, s, t) == IF sort = "ascending" THEN s < t ELSE s > t

RankOf(board, i) ==
  1 + Cardinality({j \in DOMAIN board.entries :
        \/ Better(board.sort, board.entries[j].score, board.entries[i].score)
        \/ j < i /\ board.entries[j].score = board.entries[i].score})

(* The entries of u: Upload takes the first of them.                       *)
Mine(board, u) == {i \in DOMAIN board.entries : board.entries[i].user = u}

(* Download gives the rows of these entries.  Global: from a rank to a     *)
(* rank, 0 for the last; around the user: of his rank, or of the first if  *)
(* he has none; of the friends: all.                                       *)
Between(board, lo, hi) == {i \in DOMAIN board.entries : RankOf(board, i) \in lo..hi}

GlobalRows(board, start, end) ==
  Between(board, IF start < 1 THEN 1 ELSE start,
                 IF end <= 0 THEN Len(board.entries) ELSE end)

AroundRows(board, u, start, end) ==
  LET center == IF Mine(board, u) = {} THEN 1
                ELSE RankOf(board, CHOOSE i \in Mine(board, u) : TRUE)
  IN  Between(board, center + start, center + end)

(* DownloadLeaderboardEntriesForUsers asks for as many rows as users.      *)
RowsForUsers(board, n) == GlobalRows(board, 1, IF n > 0 THEN n ELSE 1)

(* What Upload makes of a board; keepBest replaces an entry only by a      *)
(* better score.                                                           *)
Place(board, u, score, keepBest) ==
  IF Mine(board, u) = {}
  THEN [board EXCEPT !.entries = Append(@, [user |-> u, score |-> score])]
  ELSE LET i == CHOOSE i \in Mine(board, u) : \A j \in Mine(board, u) : i <= j
       IN  IF keepBest /\ ~Better(board.sort, score, board.entries[i].score)
           THEN board
           ELSE [board EXCEPT !.entries[i].score = score]

(* Load: what the first call of a process finds, by the name in the file.  *)
Found(b) ==
  IF ReadsDir /\ \E f \in BoardFile : boardFiles[f].name = b
  THEN LET f == CHOOSE f \in BoardFile : boardFiles[f].name = b
       IN  [sort |-> boardFiles[f].sort, entries |-> boardFiles[f].entries]
  ELSE NoBoard

(* Mutant of BoardsNow: a new process does not read the files. *)
BoardsUnread == boards

BoardsNow == IF boardsRead THEN boards ELSE [b \in BoardNames |-> Found(b)]

(* Save truncates the file and writes it; FinishSave is the rest of it.    *)
Save(b, board) ==
  /\ saving' = {[name |-> b, sort |-> board.sort, entries |-> board.entries]}
  /\ boardFiles' = [boardFiles EXCEPT ![FileOf[b]] = EmptyFile]

FinishSave == \E board \in saving :
  /\ boardFiles' = [boardFiles EXCEPT ![FileOf[board.name]] = board]
  /\ saving' = {}
  /\ UNCHANGED <<player, boardsRead, boards, handles, processes, best, torn, ranked>>

Serving == player /= NoUser /\ saving = {}

(* FindOrCreateLeaderboard, and FindLeaderboard, which does not create.    *)
FindOrCreate(b, sort, create) ==
  /\ Serving /\ boardsRead' = TRUE
  /\ \/ /\ BoardsNow[b] /= NoBoard
        /\ boards' = BoardsNow /\ handles' = handles \cup {b}
        /\ UNCHANGED <<boardFiles, saving>>
     \/ /\ BoardsNow[b] = NoBoard /\ ~create
        /\ boards' = BoardsNow
        /\ UNCHANGED <<handles, boardFiles, saving>>
     \/ /\ BoardsNow[b] = NoBoard /\ create
        /\ boards' = [BoardsNow EXCEPT ![b] = [sort |-> sort, entries |-> << >>]]
        /\ handles' = handles \cup {b}
        /\ Save(b, [sort |-> sort, entries |-> << >>])
  /\ UNCHANGED <<player, processes, best, torn, ranked>>

(* UploadLeaderboardScore; the score that counts, as a set of one.         *)
Counts(b, u, score, keepBest) ==
  LET old == best[b][u]
  IN  IF keepBest /\ \E s \in old : ~Better(BoardsNow[b].sort, score, s)
      THEN old ELSE {score}

Upload(b, score, keepBest) ==
  /\ Serving /\ b \in handles /\ ranked.uploads < MaxUploads
  /\ LET board == Place(BoardsNow[b], player, score, keepBest)
     IN  /\ boardsRead' = TRUE
         /\ boards' = [BoardsNow EXCEPT ![b] = board]
         /\ Save(b, board)
         /\ ranked' = [user |-> player, name |-> b, uploads |-> ranked.uploads + 1,
                       rank |-> RankOf(board, CHOOSE i \in Mine(board, player) : TRUE)]
  /\ best' = [best EXCEPT ![b][player] = Counts(b, player, score, keepBest)]
  /\ UNCHANGED <<player, handles, processes, torn>>

(* A process begins, ends, or dies in Save with some lines written.        *)
Launch(u) ==
  /\ player = NoUser /\ processes < MaxProcesses
  /\ player' = u /\ processes' = processes + 1
  /\ boardsRead' = FALSE /\ handles' = {}
  /\ boards' = [b \in BoardNames |-> NoBoard]
  /\ UNCHANGED <<boardFiles, saving, best, torn, ranked>>

Exit == Serving /\ player' = NoUser
  /\ UNCHANGED <<boardsRead, boards, handles, boardFiles, saving, processes, best,
                 torn, ranked>>

Die == \E board \in saving :
  /\ player' = NoUser /\ saving' = {}
  /\ torn' = torn \cup {FileOf[board.name]}
  /\ \/ UNCHANGED boardFiles
     \/ \E n \in 0..Len(board.entries) : boardFiles' =
          [boardFiles EXCEPT ![FileOf[board.name]] =
             [board EXCEPT !.entries = SubSeq(@, 1, n)]]
  /\ UNCHANGED <<boardsRead, boards, handles, processes, best, ranked>>

BoardNext ==
  \/ FinishSave \/ Exit \/ Die
  \/ \E u \in Users : Launch(u)
  \/ \E b \in BoardNames, sort \in Sort, create \in BOOLEAN : FindOrCreate(b, sort, create)
  \/ \E b \in BoardNames, score \in Scores, keepBest \in BOOLEAN :
       Upload(b, score, keepBest)

BoardSpec == BoardInit /\ [][BoardNext]_boardVars

---------------------------------------------------------------------------
BoardTypeOK ==
  /\ player \in Users \cup {NoUser} /\ boardsRead \in BOOLEAN
  /\ boards \in [BoardNames -> [sort : Sort \cup {"none"}, entries : Seq(Entry)]]
  /\ handles \subseteq BoardNames
  /\ DOMAIN boardFiles = BoardFile /\ torn \subseteq BoardFile
  /\ processes \in 0..MaxProcesses

(* entries hold one entry for each user that scores has a score of.        *)
Hold(entries, scores) ==
  /\ \A u \in Users : scores[u] = {e.score : e \in {x \in ToSet(entries) : x.user = u}}
  /\ Len(entries) = Cardinality({u \in Users : scores[u] /= NoScore})

(* What the boards hold is every user's counting score, once, across       *)
(* processes and users, unless a process died writing that very board      *)
(* (Load, Upload, Save).                                                   *)
ScoresPersist ==
  \A b \in BoardNames : FileOf[b] \notin torn =>
    /\ saving = {} => Hold(boardFiles[FileOf[b]].entries, best[b])
    /\ player /= NoUser /\ boardsRead => Hold(boards[b].entries, best[b])

(* The rank an upload reports is the user's place among everybody's        *)
(* counting scores: no better than the scores ahead allow, no worse than   *)
(* those it beats (RankEntries, Upload).                                   *)
ReportedRankTrue ==
  (player = ranked.user /\ ranked.uploads > 0 /\ FileOf[ranked.name] \notin torn) =>
    LET scores == best[ranked.name]
        mine   == CHOOSE s \in scores[ranked.user] : TRUE
        sort   == BoardsNow[ranked.name].sort
        Ahead(u) == \E s \in scores[u] : IF sort = "ascending" THEN s < mine ELSE s > mine
        Level(u) == scores[u] = {mine}
    IN  /\ ranked.rank > Cardinality({u \in Users : Ahead(u)})
        /\ ranked.rank <= Cardinality({u \in Users : Ahead(u) \/ Level(u)})

(* Pages of one row each name every user who has a score once, and the     *)
(* page of k rows before and k after the user is that, as far as there are *)
(* as many (Download).                                                     *)
UsersOf(board, rows) == {board.entries[i].user : i \in rows}

PagesTrue ==
  \A b \in BoardNames : FileOf[b] \notin torn /\ player /= NoUser /\ boardsRead =>
    LET board == boards[b]
        total == Cardinality({u \in Users : best[b][u] /= NoScore})
        Page(r) == UsersOf(board, GlobalRows(board, r, r))
    IN  /\ \A u \in Users : best[b][u] /= NoScore =>
             Cardinality({r \in 1..total : Page(r) = {u}}) = 1
        /\ UsersOf(board, GlobalRows(board, 1, 0)) = {u \in Users : best[b][u] /= NoScore}
        /\ best[b][player] /= NoScore => \E r \in 1..total :
             /\ Page(r) = {player}
             /\ \A k \in 0..total : UsersOf(board, AroundRows(board, player, -k, k))
                  = UNION {Page(q) : q \in {q \in 1..total : r - q <= k /\ q - r <= k}}

(* Ranks are the places of the scores, as reported and page by page.       *)
RankTrue == ReportedRankTrue /\ PagesTrue

(* A download for some users gives the rows of those who have a score.     *)
RowsAreTheUsers ==
  \A b \in BoardNames, us \in SUBSET Users \ {{}} :
    FileOf[b] \notin torn /\ player /= NoUser /\ boardsRead =>
      UsersOf(boards[b], RowsForUsers(boards[b], Cardinality(us)))
        = {u \in us : best[b][u] /= NoScore}
=============================================================================
