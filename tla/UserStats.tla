----------------------------- MODULE UserStats -----------------------------
(***************************************************************************)
(* ISteamUserStats' stats and achievements (src/storage.cpp): maps that    *)
(* the first call of a process reads from stats.txt, that every call       *)
(* changes in memory and that StoreStats and ResetAllStats write back in   *)
(* place.  The process may end with changes not stored, or die in a write. *)
(* The file is lines of words: a name that holds a blank comes back as the *)
(* part before it.                                                         *)
(***************************************************************************)
EXTENDS Integers, Sequences, SequencesExt, Filtering

CONSTANTS
  Ints, Floats, Achievements,  \* the names, each kind in the order of its map
  StatValues,    \* values of a stat
  Printed,       \* "%g", as a function: the value that is read back
  WordOf,        \* per name, the name "%255s" reads from its line
  RestOf,        \* per name that is cut, the number read from what is cut off
  MaxTime,       \* bound: seconds that pass; 0 stands for locked
  MaxCalls,      \* bound: calls that change a stat in one behaviour
  MaxStatRuns    \* bound: processes

FileOrder == Ints \o Floats \o Achievements
StatName == ToSet(FileOrder)
Achievement == ToSet(Achievements)
Whole(n) == WordOf[n] = n

ASSUME UserStatsAssumption ==
  /\ \A names \in {Ints, Floats, Achievements} : names \in Seq(ToSet(names))
  /\ IsInjective(FileOrder)
  /\ Printed \in [StatValues -> StatValues]
  /\ \A v \in StatValues : Printed[Printed[v]] = Printed[v]
  /\ WordOf \in [StatName -> StatName] /\ RestOf \in [StatName -> Int]
  /\ \A names \in {Ints, Floats, Achievements} :
       \A n \in ToSet(names) : WordOf[n] \in ToSet(names)
  /\ \A n \in StatName : Whole(WordOf[n])
  /\ MaxTime \in Nat \ {0} /\ MaxCalls \in Nat /\ MaxStatRuns \in Nat

VARIABLES
  statsRun,    \* number of processes started
  statsUp,     \* does one run?
  loaded,      \* has it read the file?
  values,      \* ints, floats and achievements, for the names that have a value
  achOrder,    \* the achievements in order of enumeration
  statsFile,   \* the values in stats.txt, as Load reads them
  writing,     \* has Save truncated the file and not written it yet?
  statCalls,   \* number of calls that changed a stat
  set,         \* history: the values as the game has set them
  stored,      \* history: set, as last stored
  damaged      \* history: has a process died in Save?

statVars == <<statsRun, statsUp, loaded, values, achOrder, statsFile, writing,
              statCalls, set, stored, damaged>>

Nothing == << >>
Keep(f, names) == [n \in DOMAIN f \cap names |-> f[n]]
Put(f, n, v) == [m \in DOMAIN f \cup {n} |-> IF m = n THEN v ELSE f[m]]

StatsInit ==
  /\ statsRun = 0 /\ statsUp = FALSE /\ loaded = FALSE /\ writing = FALSE
  /\ values = Nothing /\ achOrder = << >> /\ statsFile = Nothing
  /\ statCalls = 0 /\ set = Nothing /\ stored = Nothing /\ damaged = FALSE

---------------------------------------------------------------------------
(* A float is written with six digits; integers and times are exact.       *)
Rounded(n, v) == IF n \in ToSet(Floats) THEN Printed[v] ELSE v
Remembered(f) == [n \in DOMAIN f |-> Rounded(n, f[n])]

(* What Load makes of the lines Save writes for f: of a line, the first    *)
(* word of the name and the number behind it, the value only if the name   *)
(* ends there; of the lines of one word, the last.                         *)
LineOf(f, n) == Last(SelectIn(FileOrder, {m \in DOMAIN f : WordOf[m] = n}))
ReadBack(f) ==
  [n \in {WordOf[m] : m \in DOMAIN f} |->
     LET m == LineOf(f, n) IN IF Whole(m) THEN Rounded(m, f[m]) ELSE RestOf[m]]

(* Mutant of Values: a new process does not read the file. *)
ValuesUnread == values

(* Load, which every call begins with: the maps as they are after it.  The *)
(* first words of names that are in order are in order too.                *)
Values == IF loaded THEN values ELSE statsFile
Order ==
  IF loaded THEN achOrder
  ELSE SelectIn(Achievements, DOMAIN statsFile)

Serves == statsUp /\ ~writing
Call == Serves /\ loaded' = TRUE
Change == Call /\ statCalls < MaxCalls /\ statCalls' = statCalls + 1
rest == <<statsRun, statsUp, damaged>>

(* GetStat, GetAchievement, GetNumAchievements and the like: only Load.    *)
Query ==
  /\ Call /\ ~loaded /\ values' = Values /\ achOrder' = Order
  /\ UNCHANGED <<statsFile, writing, statCalls, set, stored, rest>>

(* SetStat, of either type.                                                *)
SetStat(n, v) ==
  /\ Change /\ values' = Put(Values, n, v) /\ achOrder' = Order
  /\ set' = Put(set, n, v)
  /\ UNCHANGED <<statsFile, writing, stored, rest>>

(* Track: an achievement joins the enumeration when it is first mentioned. *)
Track(order, a, known) == IF a \in known THEN order ELSE Append(order, a)

(* SetAchievement keeps the time of the first unlocking, ClearAchievement  *)
(* locks.                                                                  *)
Unlocked(f, a, now) == IF a \in DOMAIN f /\ f[a] /= 0 THEN f ELSE Put(f, a, now)

SetAchievement(a, now) ==
  /\ Change /\ values' = Unlocked(Values, a, now)
  /\ achOrder' = Track(Order, a, DOMAIN Values)
  /\ set' = Unlocked(set, a, now)
  /\ UNCHANGED <<statsFile, writing, stored, rest>>

ClearAchievement(a) ==
  /\ Change /\ values' = Put(Values, a, 0)
  /\ achOrder' = Track(Order, a, DOMAIN Values)
  /\ set' = Put(set, a, 0)
  /\ UNCHANGED <<statsFile, writing, stored, rest>>

(* StoreStats, and ResetAllStats, which stores as well.                    *)
StoreStats ==
  /\ Call /\ writing' = TRUE /\ statsFile' = Nothing
  /\ values' = Values /\ achOrder' = Order /\ stored' = set
  /\ UNCHANGED <<statCalls, set, rest>>

ResetAllStats(achievementsToo) ==
  /\ Change /\ writing' = TRUE /\ statsFile' = Nothing
  /\ LET left == IF achievementsToo THEN {} ELSE Achievement
     IN  /\ values' = Keep(Values, left)
         /\ achOrder' = IF achievementsToo THEN << >> ELSE Order
         /\ set' = Keep(set, left) /\ stored' = Keep(set, left)
  /\ UNCHANGED rest

(* Save opens the file, which empties it, and writes a line per value.     *)
FinishStore ==
  /\ writing /\ writing' = FALSE /\ statsFile' = ReadBack(values)
  /\ UNCHANGED <<loaded, values, achOrder, statCalls, set, stored, rest>>

StartStats ==
  /\ ~statsUp /\ statsRun < MaxStatRuns
  /\ statsUp' = TRUE /\ statsRun' = statsRun + 1
  /\ UNCHANGED <<loaded, values, achOrder, statsFile, writing, statCalls, set,
                 stored, damaged>>

(* What was not stored is lost with the process.                           *)
ProcessGone ==
  /\ statsUp' = FALSE /\ loaded' = FALSE /\ values' = Nothing /\ achOrder' = << >>
  /\ set' = Remembered(stored)
  /\ UNCHANGED <<statsRun, statCalls, stored>>

EndStats == Serves /\ ProcessGone /\ UNCHANGED <<statsFile, writing, damaged>>

(* A death in Save: of the lines some are there, and the last of them may  *)
(* have lost its end.                                                      *)
DieStoring ==
  /\ writing /\ ProcessGone /\ writing' = FALSE /\ damaged' = TRUE
  /\ LET lines == SelectIn(FileOrder, DOMAIN values)
     IN  \E k \in 0..Len(lines) : LET whole == ReadBack(Keep(values, ToSet(SubSeq(lines, 1, k))))
           IN  \/ statsFile' = whole
               \/ k > 0 /\ \E v \in IF lines[k] \in Achievement THEN 0..MaxTime ELSE StatValues :
                    statsFile' = Put(whole, WordOf[lines[k]], v)

StatsNext ==
  \/ Query \/ StoreStats \/ FinishStore \/ StartStats \/ EndStats \/ DieStoring
  \/ \E n \in StatName \ Achievement, v \in StatValues : SetStat(n, v)
  \/ \E a \in Achievement : \/ ClearAchievement(a)
                            \/ \E now \in 1..MaxTime : SetAchievement(a, now)
  \/ \E all \in BOOLEAN : ResetAllStats(all)

StatsSpec == StatsInit /\ [][StatsNext]_statVars

---------------------------------------------------------------------------
StatsTypeOK ==
  /\ statsRun \in 0..MaxStatRuns /\ statCalls \in 0..MaxCalls
  /\ statsUp \in BOOLEAN /\ loaded \in BOOLEAN /\ writing \in BOOLEAN /\ damaged \in BOOLEAN
  /\ DOMAIN values \subseteq StatName /\ DOMAIN statsFile \subseteq StatName
  /\ achOrder \in Seq(Achievement)

(* Enumerating by index names every achievement that has a value once.     *)
AchievementsListed ==
  IsInjective(achOrder) /\ ToSet(achOrder) = DOMAIN values \cap Achievement

(* The names that are one word and no other's first: of "total" and "total *)
(* kills" the file gives "total" back, with the 0 of the second line.      *)
Separate == {n \in StatName : \A m \in StatName : WordOf[m] = n <=> m = n}
Agree(f, g) == \A n \in Separate :
  /\ n \in DOMAIN f <=> n \in DOMAIN g
  /\ n \in DOMAIN f => f[n] = g[n]

(* Under such a name a process reads what it set or, if it did not, what   *)
(* the process before it had set when it stored last (a float to six       *)
(* digits), unless a process died in the middle of storing, and whatever   *)
(* becomes of the other names; it enumerates the achievements it would     *)
(* read (Load, Save, Track and every setter).                              *)
StatsKept == ~damaged =>
  /\ statsUp /\ loaded => Agree(values, set) /\ AchievementsListed
  /\ ~writing => Agree(statsFile, Remembered(stored))
=============================================================================
