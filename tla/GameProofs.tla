----------------------------- MODULE GameProofs -----------------------------
(***************************************************************************)
(* Theorems about Game, for every value of the constants that meets its    *)
(* assumptions, the program's own values among them.                       *)
(***************************************************************************)
EXTENDS Game, TLAPS

-----------------------------------------------------------------------------
(* Which level is being played, and whether the game goes on.              *)

InLevel == pc \in {"spawn", "draw", "move", "touch", "end"}

\* main starts no level past the one that ends the game.
NextLevelExists == pc = "countdown" => level_count < WIN_LEVEL

\* game_init filled the tables, and a level under way uses its row.
Tables ==
  /\ pc = "boot" => level_count = 0 /\ num_enemies = 0 /\ end_position = END_START
  /\ pc # "boot" =>
       \A l \in Levels :
         /\ level_info.num_enemies[l] = ENEMY_SPAWN_RATE * (l + 1)
         /\ level_info.end_location[l] = END_START + END_STEP * (l + 1)
  /\ InLevel => num_enemies = ENEMY_SPAWN_RATE * level_count

\* playing is cleared exactly when this game saw a touch or the last finish.
GoesOn ==
  /\ touched \/ finished <=> playing = -1
  /\ pc \in {"draw", "move", "touch"} => playing = 0
  /\ pc \in {"verdict", "reset"} => playing = -1
  /\ win = 0 <=> everWon
  /\ finished => everWon
  /\ pc = "reset" => hex.text = VerdictText

-----------------------------------------------------------------------------
(* Where the enemies are, while they fit in the arrays.                    *)

Enemies == 0 .. MAX_ENEMIES - 1

InRowZero(k) == ycord(k) = 0

\* A slot holds an enemy or two sentinels; the slots past the level's enemies
\* hold sentinels.
Slots ==
  \A k \in Enemies :
    /\ xcord(k) >= 0 <=> ycord(k) >= 0
    /\ pc # "boot" /\ k >= ENEMY_SPAWN_RATE * level_count => xcord(k) < 0

\* Enemies are placed below row 0: one that is there has walked, so no
\* sentinel precedes it.
RowZeroWalked ==
  \A k \in Enemies : InRowZero(k) => \A j \in 0 .. k : xcord(j) >= 0

\* An enemy stays in row 0 while the player goes down only by walking sideways,
\* one pixel for every STEP of the player's (two in the frame under way).
RowZeroLags ==
  \A k \in Enemies : InRowZero(k) =>
    (xcord(k) + IF pc = "move" /\ k >= i THEN 2 ELSE 1) * STEP >= y

\* The player's next step does not reach an enemy in row 0 ...
Far(k) == xcord(k) - x > STEP \/ x - xcord(k) > STEP \/ y > STEP

RowZeroFar ==
  pc \in {"countdown", "generate", "spawn", "draw"} \/ (pc = "end" /\ playing = 0) =>
    \A k \in Enemies : InRowZero(k) => Far(k)

\* ... so no enemy about to move is where the player is, in row 0.
RowZeroApart ==
  pc = "move" =>
    /\ \A k \in Enemies : InRowZero(k) /\ k >= i => xcord(k) # x \/ y > 0
    /\ \A j \in 0 .. i - 1 : j \in Enemies => xcord(j) >= 0

AtStart == pc \in {"countdown", "generate", "spawn"} => x = 0 /\ y = 0

EnemiesInv ==
  ENEMY_SPAWN_RATE * level_count <= MAX_ENEMIES =>
    Slots /\ RowZeroWalked /\ RowZeroLags /\ RowZeroFar /\ RowZeroApart

LevelInv == TypeOK /\ LevelIndexInBounds /\ NextLevelExists /\ Tables

IInv == LevelInv /\ GoesOn /\ AtStart /\ EnemiesInv
-----------------------------------------------------------------------------
(* Arithmetic                                                              *)

LEMMA TableValues ==
  ASSUME NEW l \in Levels
  PROVE  /\ ENEMY_SPAWN_RATE * (l + 1) \in Nat
         /\ ENEMY_SPAWN_RATE * (l + 1) >= l + 1
         /\ END_STEP * (l + 1) \in Nat
         /\ END_STEP * (l + 1) >= END_STEP
BY CountsAssumption, GeometryAssumption DEF Levels

LEMMA ClampMoves ==
  ASSUME NEW hi \in Nat, NEW v \in 0 .. hi, NEW d \in {-STEP, 0, STEP}
  PROVE  /\ Clamp(v + d, hi) \in 0 .. hi
         /\ Clamp(v + d, hi) - v \in -STEP .. STEP
BY SpeedAssumption, GeometryAssumption DEF Clamp

LEMMA PushValues ==
  ASSUME NEW offset \in Int
  PROVE  /\ Push(offset) \in {-STEP, 0, STEP}
         /\ -Push(offset) \in {-STEP, 0, STEP}
<1>1. STEP \in Int
  BY SpeedAssumption, GeometryAssumption
<1>2. Push(offset) = -STEP \/ Push(offset) = STEP \/ Push(offset) = 0
  BY DEF Push, MARGIN_OF_ERROR_LOW, MARGIN_OF_ERROR_HIGH
<1>3. QED
  BY <1>1, <1>2

LEMMA TowardValues == ASSUME NEW d PROVE Toward(d) \in {-1, 1}
BY DEF Toward, ENEMY_SPEED

LEMMA MemUpdate ==
  ASSUME NEW S, NEW f \in [S -> Int], NEW w, NEW v \in Int
  PROVE  [f EXCEPT ![w] = v] \in [S -> Int]
OBVIOUS

LEMMA MemAdd ==
  ASSUME NEW S, NEW f \in [S -> Int], NEW w, NEW d \in Int
  PROVE  [f EXCEPT ![w] = @ + d] \in [S -> Int]
<1>1. CASE w \in S
  <2>1. f[w] + d \in Int
    BY <1>1
  <2>2. QED
    BY <2>1, MemUpdate
<1>2. CASE w \notin S
  <2>1. [f EXCEPT ![w] = @ + d] = f
    BY <1>2
  <2>2. QED
    BY <2>1
<1>3. QED
  BY <1>1, <1>2

\* What a frame does to the player.
LEMMA PlayerSteps ==
  ASSUME TypeOK, DrawBoxAndFollow
  PROVE  /\ x' \in 0 .. WIDTH - BOX_SIZE /\ x' - x \in -STEP .. STEP
         /\ y' \in 0 .. HEIGHT - BOX_SIZE /\ y' - y \in -STEP .. STEP
<1>1. PICK rx \in Readings, ry \in Readings :
        /\ x' = Clamp(x - Push(rx - CENTER_X), WIDTH - BOX_SIZE)
        /\ y' = Clamp(y + Push(ry - CENTER_Y), HEIGHT - BOX_SIZE)
  BY DEF DrawBoxAndFollow
<1>2. rx - CENTER_X \in Int /\ ry - CENTER_Y \in Int
  BY ReadingsAssumption DEF CENTER_X, CENTER_Y
<1>3. WIDTH - BOX_SIZE \in Nat /\ HEIGHT - BOX_SIZE \in Nat
  BY GeometryAssumption
<1>4. x \in 0 .. WIDTH - BOX_SIZE /\ y \in 0 .. HEIGHT - BOX_SIZE
  BY DEF TypeOK
<1> DEFINE dx == -Push(rx - CENTER_X)
           dy == Push(ry - CENTER_Y)
<1>5. dx \in {-STEP, 0, STEP} /\ dy \in {-STEP, 0, STEP}
  BY <1>2, PushValues
<1>6. x - Push(rx - CENTER_X) = x + dx
  BY <1>2, <1>4, PushValues, SpeedAssumption, GeometryAssumption
<1> HIDE DEF dx, dy
<1>7. /\ Clamp(x + dx, WIDTH - BOX_SIZE) \in 0 .. WIDTH - BOX_SIZE
      /\ Clamp(x + dx, WIDTH - BOX_SIZE) - x \in -STEP .. STEP
  BY <1>3, <1>4, <1>5, ClampMoves
<1>8. /\ Clamp(y + dy, HEIGHT - BOX_SIZE) \in 0 .. HEIGHT - BOX_SIZE
      /\ Clamp(y + dy, HEIGHT - BOX_SIZE) - y \in -STEP .. STEP
  BY <1>3, <1>4, <1>5, ClampMoves
<1>9. QED
  BY <1>1, <1>6, <1>7, <1>8 DEF dy

-----------------------------------------------------------------------------
(* The level index.                                                        *)

LEMMA LevelInvInit == Init => LevelInv
<1> SUFFICES ASSUME Init PROVE LevelInv
  OBVIOUS
<1>1. TypeOK
  <2>1. /\ pc \in PCs /\ hex \in [text : Texts, num : Nat]
        /\ playing \in {-1, 0} /\ win \in {-1, 0}
    BY DEF Init, PCs, Texts
  <2>2. level_info \in [num_enemies : [Levels -> Nat], end_location : [Levels -> Nat]]
    BY DEF Init
  <2>3. mem \in [0 .. MemWords - 1 -> Int]
    BY DEF Init
  <2>4. x \in 0 .. WIDTH - BOX_SIZE /\ y \in 0 .. HEIGHT - BOX_SIZE
    BY GeometryAssumption DEF Init
  <2>5. QED
    BY <2>1, <2>2, <2>3, <2>4, GeometryAssumption DEF Init, TypeOK
<1>2. LevelIndexInBounds /\ NextLevelExists /\ Tables
  BY DEF Init, LevelIndexInBounds, NextLevelExists, Tables, InLevel
<1>3. QED
  BY <1>1, <1>2 DEF LevelInv

LEMMA LevelInvStep == LevelInv /\ [Next]_vars => LevelInv'
<1> SUFFICES ASSUME LevelInv, [Next]_vars PROVE LevelInv'
  OBVIOUS
<1> USE DEF LevelInv, game, player, status, history
<1>0. TypeOK /\ NUM_LEVELS \in Nat \ {0} /\ WIN_LEVEL \in 1 .. NUM_LEVELS
  BY CountsAssumption
<1>1. CASE GameInit
  <2>1. level_info' = [num_enemies  |-> [l \in Levels |-> ENEMY_SPAWN_RATE * (l + 1)],
                       end_location |-> [l \in Levels |-> END_START + END_STEP * (l + 1)]]
    <3>1. num_enemies = 0 /\ end_position = END_START
      BY <1>1 DEF GameInit, Tables
    <3>2. \A l \in Levels : 0 + ENEMY_SPAWN_RATE * (l + 1) = ENEMY_SPAWN_RATE * (l + 1)
      BY TableValues
    <3>3. QED
      BY <1>1, <3>1, <3>2, Zenon DEF GameInit
  <2>2. level_info' \in [num_enemies : [Levels -> Nat], end_location : [Levels -> Nat]]
    BY <2>1, TableValues, GeometryAssumption
  <2>3. mem' \in [0 .. MemWords - 1 -> Int]
    BY <1>1, CountsAssumption DEF GameInit
  <2>4. num_enemies' \in Nat /\ end_position' \in Nat
    <3>1. ENEMY_SPAWN_RATE * NUM_LEVELS \in Nat /\ END_STEP * NUM_LEVELS \in Nat
      BY CountsAssumption, GeometryAssumption
    <3>2. QED
      BY <1>1, <1>0, <3>1 DEF GameInit, TypeOK
  <2>5. x' \in 0 .. WIDTH - BOX_SIZE /\ y' \in 0 .. HEIGHT - BOX_SIZE
    BY <1>1, GeometryAssumption DEF GameInit
  <2>6. TypeOK'
    BY <1>1, <1>0, <2>2, <2>3, <2>4, <2>5 DEF GameInit, TypeOK, PCs
  <2>7. Tables'
    BY <1>1, <2>1 DEF GameInit, Tables, InLevel
  <2>8. LevelIndexInBounds' /\ NextLevelExists'
    BY <1>1, <1>0 DEF GameInit, LevelIndexInBounds, NextLevelExists, Levels
  <2>9. QED
    BY <2>6, <2>7, <2>8
<1>2. CASE BeginLevel
  <2>1. level_count \in Levels /\ level_count' = level_count + 1
    BY <1>2 DEF BeginLevel, LevelIndexInBounds
  <2>2. num_enemies' \in Nat /\ end_location' \in Nat
    BY <1>2, <1>0, <2>1 DEF BeginLevel, TypeOK
  <2>3. hex' \in [text : Texts, num : Nat]
    BY <1>2, <1>0 DEF BeginLevel, TypeOK, LevelText, Texts
  <2>4. TypeOK'
    BY <1>2, <1>0, <2>2, <2>3 DEF BeginLevel, TypeOK, PCs
  <2>5. num_enemies' = ENEMY_SPAWN_RATE * (level_count + 1)
    BY <1>2, <2>1 DEF BeginLevel, Tables
  <2>6. Tables'
    BY <1>2, <2>1, <2>5 DEF BeginLevel, Tables
  <2>7. LevelIndexInBounds' /\ NextLevelExists'
    BY <1>2, <1>0, <2>1 DEF BeginLevel, LevelIndexInBounds, NextLevelExists, Levels
  <2>8. QED
    BY <2>4, <2>6, <2>7
<1>3. CASE SpawnEnemy
  <2>1. mem' \in [0 .. MemWords - 1 -> Int]
    <3>1. PICK ex \in SpawnX, ey \in SpawnY :
            mem' = [mem EXCEPT ![i] = ex, ![MAX_ENEMIES + i] = ey]
      BY <1>3 DEF SpawnEnemy
    <3>2. ex \in Int /\ ey \in Int
      BY DEF SpawnX, SpawnY
    <3>3. [mem EXCEPT ![i] = ex] \in [0 .. MemWords - 1 -> Int]
      BY <1>0, <3>2, MemUpdate DEF TypeOK
    <3>4. [[mem EXCEPT ![i] = ex] EXCEPT ![MAX_ENEMIES + i] = ey] \in [0 .. MemWords - 1 -> Int]
      BY <3>2, <3>3, MemUpdate
    <3>5. QED
      BY <3>1, <3>4
  <2>2. QED
    BY <1>3, <2>1 DEF SpawnEnemy, TypeOK, Tables, LevelIndexInBounds, NextLevelExists, InLevel
<1>4. CASE SpawnGivesUp
  BY <1>4 DEF SpawnGivesUp, TypeOK, Tables, LevelIndexInBounds, NextLevelExists, InLevel
<1>5. CASE EndSpawn
  BY <1>5 DEF EndSpawn, LoopTest, TypeOK, PCs, Tables, LevelIndexInBounds, NextLevelExists, InLevel
<1>6. CASE DrawBoxAndFollow
  <2>1. x' \in 0 .. WIDTH - BOX_SIZE /\ y' \in 0 .. HEIGHT - BOX_SIZE
    BY <1>6, PlayerSteps
  <2>2. QED
    BY <1>6, <2>1 DEF DrawBoxAndFollow, TypeOK, PCs, Tables, LevelIndexInBounds,
       NextLevelExists, InLevel
<1>7. CASE MoveEnemy
  <2> DEFINE x_diff == x - xcord(i)
             y_diff == y - ycord(i)
             xmoved == [mem EXCEPT ![i] = @ + Toward(x_diff)]
             ymoved == [mem EXCEPT ![MAX_ENEMIES + i] = @ + Toward(y_diff)]
  <2>1. mem' = xmoved \/ mem' = ymoved
    BY <1>7 DEF MoveEnemy
  <2>2. mem' \in [0 .. MemWords - 1 -> Int]
    <3>1. Toward(x_diff) \in Int /\ Toward(y_diff) \in Int
      BY TowardValues
    <3> HIDE DEF x_diff, y_diff
    <3>2. xmoved \in [0 .. MemWords - 1 -> Int] /\ ymoved \in [0 .. MemWords - 1 -> Int]
      BY <1>0, <3>1, MemAdd DEF TypeOK
    <3>3. QED
      BY <2>1, <3>2
  <2>3. QED
    BY <1>7, <2>2 DEF MoveEnemy, TypeOK, Tables, LevelIndexInBounds, NextLevelExists, InLevel
<1>8. CASE EndMove
  BY <1>8 DEF EndMove, TypeOK, PCs, Tables, LevelIndexInBounds, NextLevelExists, InLevel
<1>9. CASE CheckTouch
  BY <1>9 DEF CheckTouch, TypeOK, PCs, Tables, LevelIndexInBounds, NextLevelExists, InLevel
<1>10. CASE LevelGoesOn
  BY <1>10 DEF LevelGoesOn, LoopTest, TypeOK, PCs, Tables, LevelIndexInBounds, NextLevelExists,
     InLevel
<1>11. CASE GameWon
  BY <1>11 DEF GameWon, TypeOK, PCs, Tables, LevelIndexInBounds, NextLevelExists, InLevel
<1>12. CASE LevelDone
  <2>1. x' \in 0 .. WIDTH - BOX_SIZE /\ y' \in 0 .. HEIGHT - BOX_SIZE
    BY <1>12, GeometryAssumption DEF LevelDone
  <2>2. NextLevelExists'
    BY <1>12, <1>0 DEF LevelDone, LastLevel, NextLevelExists, TypeOK
  <2>3. QED
    BY <1>12, <2>1, <2>2 DEF LevelDone, TypeOK, PCs, Tables, LevelIndexInBounds, InLevel,
       LEVEL_COUNTDOWN
<1>13. CASE Verdict
  BY <1>13 DEF Verdict, VerdictText, TypeOK, PCs, Texts, Tables, LevelIndexInBounds,
     NextLevelExists, InLevel
<1>14. CASE ResetGame
  <2>1. x' \in 0 .. WIDTH - BOX_SIZE /\ y' \in 0 .. HEIGHT - BOX_SIZE
    BY <1>14, GeometryAssumption DEF ResetGame
  <2>2. mem' \in [0 .. MemWords - 1 -> Int]
    BY <1>14, <1>0 DEF ResetGame, TypeOK
  <2>3. TypeOK'
    BY <1>14, <1>0, <2>1, <2>2 DEF ResetGame, TypeOK, PCs, RESTART_COUNTDOWN
  <2>4. Tables'
    BY <1>14 DEF ResetGame, Tables, InLevel
  <2>5. LevelIndexInBounds' /\ NextLevelExists'
    BY <1>14, <1>0 DEF ResetGame, LevelIndexInBounds, NextLevelExists
  <2>6. QED
    BY <2>3, <2>4, <2>5
<1>15. CASE Countdown
  BY <1>15 DEF Countdown, TypeOK, Texts, Tables, LevelIndexInBounds, NextLevelExists, InLevel
<1>16. CASE EndCountdown
  BY <1>16, <1>0 DEF EndCountdown, TypeOK, PCs, Tables, LevelIndexInBounds, NextLevelExists,
     InLevel, Levels
<1>17. CASE UNCHANGED vars
  BY <1>17 DEF vars, TypeOK, Tables, LevelIndexInBounds, NextLevelExists, InLevel
<1>18. QED
  BY <1>1, <1>2, <1>3, <1>4, <1>5, <1>6, <1>7, <1>8, <1>9, <1>10, <1>11, <1>12,
     <1>13, <1>14, <1>15, <1>16, <1>17 DEF Next

LEMMA LevelInvariant == Spec => []LevelInv
BY LevelInvInit, LevelInvStep, PTL DEF Spec

\* Every variable keeps its type and the player's box stays on the screen.
THEOREM TypeCorrect == Spec => []TypeOK
<1>1. LevelInv => TypeOK
  BY DEF LevelInv
<1>2. QED
  BY <1>1, LevelInvariant, PTL

\* The tables of level_info are never indexed out of their bounds, though
\* nothing in generate_next_level or end_of_level checks it.
THEOREM LevelIndexSafe == Spec => []LevelIndexInBounds
<1>1. LevelInv => LevelIndexInBounds
  BY DEF LevelInv
<1>2. QED
  BY <1>1, LevelInvariant, PTL

-----------------------------------------------------------------------------
(* The end of a game.                                                      *)

GameInv == LevelInv /\ GoesOn

LEMMA GoesOnStep == GameInv /\ [Next]_vars => GoesOn'
<1> SUFFICES ASSUME GameInv, [Next]_vars PROVE GoesOn'
  OBVIOUS
<1> USE DEF GameInv, game, player, status, history
<1>0. GoesOn /\ playing \in {-1, 0} /\ win \in {-1, 0}
      /\ touched \in BOOLEAN /\ finished \in BOOLEAN /\ everWon \in BOOLEAN
  BY DEF LevelInv, TypeOK
<1>1. CASE GameInit \/ BeginLevel \/ SpawnEnemy \/ SpawnGivesUp
  BY <1>0, <1>1 DEF GameInit, BeginLevel, SpawnEnemy, SpawnGivesUp, GoesOn
<1>2. CASE EndSpawn \/ LevelGoesOn
  BY <1>0, <1>2 DEF EndSpawn, LevelGoesOn, LoopTest, GoesOn
<1>3. CASE DrawBoxAndFollow \/ MoveEnemy \/ EndMove
  BY <1>0, <1>3 DEF DrawBoxAndFollow, MoveEnemy, EndMove, GoesOn
<1>4. CASE CheckTouch
  <2>1. CASE player_touching_enemy
    BY <1>0, <1>4, <2>1 DEF CheckTouch, GoesOn
  <2>2. CASE ~player_touching_enemy
    BY <1>0, <1>4, <2>2 DEF CheckTouch, GoesOn
  <2>3. QED
    BY <2>1, <2>2
<1>5. CASE GameWon
  BY <1>0, <1>5 DEF GameWon, GoesOn
<1>6. CASE LevelDone \/ Countdown \/ EndCountdown
  BY <1>0, <1>6 DEF LevelDone, Countdown, EndCountdown, GoesOn
<1>7. CASE Verdict
  BY <1>0, <1>7 DEF Verdict, VerdictText, GoesOn
<1>8. CASE ResetGame
  BY <1>0, <1>8 DEF ResetGame, GoesOn
<1>9. CASE UNCHANGED vars
  BY <1>0, <1>9 DEF vars, GoesOn, VerdictText
<1>10. QED
  BY <1>1, <1>2, <1>3, <1>4, <1>5, <1>6, <1>7, <1>8, <1>9 DEF Next

LEMMA GameInvariant == Spec => []GameInv
<1>1. Init => GoesOn
  BY DEF Init, GoesOn
<1>2. Init => GameInv
  BY <1>1, LevelInvInit DEF GameInv
<1>3. GameInv /\ [Next]_vars => GameInv'
  BY LevelInvStep, GoesOnStep DEF GameInv
<1>4. QED
  BY <1>2, <1>3, PTL DEF Spec

\* No frame of a game is drawn after the player was touched or has finished.
THEOREM GameStopsAtTouch == Spec => []NoFrameAfterTouch
<1>1. GameInv => NoFrameAfterTouch
  BY DEF GameInv, GoesOn, NoFrameAfterTouch
<1>2. QED
  BY <1>1, GameInvariant, PTL

\* Both follow from the order of main's calls alone.
THEOREM MainOrder == Spec => []MainInOrder
<1>1. LevelIndexInBounds /\ NoFrameAfterTouch => MainInOrder
  BY DEF MainInOrder
<1>2. QED
  BY <1>1, LevelIndexSafe, GameStopsAtTouch, PTL

\* "loser" is deserved until the first victory, "winner" is shown only after one.
THEOREM VerdictSound == Spec => []VerdictUntilFirstWin
<1>1. GameInv => VerdictUntilFirstWin
  BY DEF GameInv, GoesOn, VerdictUntilFirstWin, VerdictText
<1>2. QED
  BY <1>1, GameInvariant, PTL

-----------------------------------------------------------------------------
(* The enemies.                                                            *)

LEMMA CoordTypes ==
  ASSUME TypeOK
  PROVE  \A k \in Enemies :
           /\ k \in 0 .. MemWords - 1 /\ MAX_ENEMIES + k \in 0 .. MemWords - 1
           /\ xcord(k) \in Int /\ ycord(k) \in Int
BY CountsAssumption DEF TypeOK, Enemies, MemWords, xcord, ycord

\* Where an iteration of move_enemies_towards_player leaves the enemies.
LEMMA MoveEffect ==
  ASSUME LevelInv, MoveEnemy, ENEMY_SPAWN_RATE * level_count <= MAX_ENEMIES
  PROVE  /\ i \in Enemies
         /\ \A k \in Enemies : k # i => xcord(k)' = xcord(k) /\ ycord(k)' = ycord(k)
         /\ \/ /\ xcord(i) < x /\ mem'[i] = xcord(i) + 1
               /\ mem'[MAX_ENEMIES + i] = ycord(i)
            \/ /\ xcord(i) - x > abs(y - ycord(i)) /\ mem'[i] = xcord(i) - 1
               /\ mem'[MAX_ENEMIES + i] = ycord(i)
            \/ /\ ycord(i) < y /\ mem'[MAX_ENEMIES + i] = ycord(i) + 1
               /\ mem'[i] = xcord(i)
            \/ /\ ycord(i) >= y /\ mem'[MAX_ENEMIES + i] = ycord(i) - 1
               /\ abs(x - xcord(i)) <= abs(y - ycord(i))
               /\ mem'[i] = xcord(i)
<1> DEFINE x_diff == x - xcord(i)
           y_diff == y - ycord(i)
<1>1. TypeOK /\ num_enemies = ENEMY_SPAWN_RATE * level_count
  BY DEF LevelInv, Tables, InLevel, MoveEnemy
<1>2. i \in Enemies
  BY <1>1, CountsAssumption DEF MoveEnemy, TypeOK, Enemies
<1>3. /\ i \in 0 .. MemWords - 1 /\ MAX_ENEMIES + i \in 0 .. MemWords - 1
      /\ xcord(i) \in Int /\ ycord(i) \in Int
  BY <1>1, <1>2, CoordTypes
<1>4. x \in Int /\ y \in Int /\ MAX_ENEMIES \in Nat \ {0}
  BY <1>1, CountsAssumption, GeometryAssumption DEF TypeOK
<1>5. CASE MovesInX(x_diff, y_diff)
  <2>1. mem' = [mem EXCEPT ![i] = @ + Toward(x_diff)]
    BY <1>5 DEF MoveEnemy
  <2>2. /\ mem'[i] = xcord(i) + Toward(x_diff) /\ mem'[MAX_ENEMIES + i] = ycord(i)
        /\ \A k \in Enemies : k # i => xcord(k)' = xcord(k) /\ ycord(k)' = ycord(k)
    BY <1>1, <1>2, <1>3, <1>4, <2>1 DEF TypeOK, xcord, ycord, Enemies
  <2>3. abs(x_diff) > abs(y_diff)
    BY <1>5 DEF MovesInX
  <2>4. \/ xcord(i) < x /\ Toward(x_diff) = 1
        \/ xcord(i) - x > abs(y - ycord(i)) /\ Toward(x_diff) = -1
    BY <1>3, <1>4, <2>3 DEF abs, Toward, ENEMY_SPEED
  <2>5. QED
    BY <1>2, <1>3, <2>2, <2>4
<1>6. CASE ~MovesInX(x_diff, y_diff)
  <2>1. mem' = [mem EXCEPT ![MAX_ENEMIES + i] = @ + Toward(y_diff)]
    BY <1>6 DEF MoveEnemy
  <2>2. /\ mem'[MAX_ENEMIES + i] = ycord(i) + Toward(y_diff) /\ mem'[i] = xcord(i)
        /\ \A k \in Enemies : k # i => xcord(k)' = xcord(k) /\ ycord(k)' = ycord(k)
    BY <1>1, <1>2, <1>3, <1>4, <2>1 DEF TypeOK, xcord, ycord, Enemies
  <2>3. abs(x - xcord(i)) <= abs(y - ycord(i))
    BY <1>3, <1>4, <1>6 DEF MovesInX, abs
  <2>4. \/ ycord(i) < y /\ Toward(y_diff) = 1
        \/ ycord(i) >= y /\ Toward(y_diff) = -1
    BY <1>3, <1>4 DEF Toward, ENEMY_SPEED
  <2>5. QED
    BY <1>2, <1>3, <2>2, <2>3, <2>4
<1>7. QED
  BY <1>5, <1>6

\* A placed enemy is on the screen, below row 0 and off column 0.
LEMMA SpawnEffect ==
  ASSUME LevelInv, SpawnEnemy, ENEMY_SPAWN_RATE * level_count <= MAX_ENEMIES
  PROVE  /\ i \in Enemies /\ i < ENEMY_SPAWN_RATE * level_count
         /\ \A k \in Enemies : k # i => xcord(k)' = xcord(k) /\ ycord(k)' = ycord(k)
         /\ mem'[i] \in Nat \ {0} /\ mem'[MAX_ENEMIES + i] \in Nat \ {0}
<1>1. TypeOK /\ num_enemies = ENEMY_SPAWN_RATE * level_count
  BY DEF LevelInv, Tables, InLevel, SpawnEnemy
<1>2. i \in Enemies /\ i < ENEMY_SPAWN_RATE * level_count
  BY <1>1, CountsAssumption DEF SpawnEnemy, TypeOK, Enemies
<1>3. PICK ex \in SpawnX, ey \in SpawnY :
        mem' = [mem EXCEPT ![i] = ex, ![MAX_ENEMIES + i] = ey]
  BY DEF SpawnEnemy
<1>4. ex \in Nat \ {0} /\ ey \in Nat \ {0}
  BY GeometryAssumption DEF SpawnX, SpawnY
<1>5. i \in 0 .. MemWords - 1 /\ MAX_ENEMIES + i \in 0 .. MemWords - 1
  BY <1>1, <1>2, CoordTypes
<1>6. mem'[i] = ex /\ mem'[MAX_ENEMIES + i] = ey
  BY <1>1, <1>2, <1>3, <1>5, CountsAssumption DEF TypeOK, Enemies, xcord, ycord
<1>7. ASSUME NEW k \in Enemies, k # i
      PROVE  xcord(k)' = xcord(k) /\ ycord(k)' = ycord(k)
  <2>1. k \in 0 .. MemWords - 1 /\ MAX_ENEMIES + k \in 0 .. MemWords - 1
    BY <1>1, CoordTypes
  <2>2. k # MAX_ENEMIES + i /\ MAX_ENEMIES + k # i /\ MAX_ENEMIES + k # MAX_ENEMIES + i
    BY <1>2, <1>7, CountsAssumption DEF Enemies
  <2>3. mem'[k] = mem[k] /\ mem'[MAX_ENEMIES + k] = mem[MAX_ENEMIES + k]
    BY <1>1, <1>3, <1>7, <2>1, <2>2 DEF TypeOK
  <2>4. QED
    BY <2>3 DEF xcord, ycord
<1>8. QED
  BY <1>2, <1>4, <1>6, <1>7

LEMMA SafeCount ==
  ASSUME NEW l \in Nat, ENEMY_SPAWN_RATE * (l + 1) <= MAX_ENEMIES
  PROVE  ENEMY_SPAWN_RATE * l <= MAX_ENEMIES /\ ENEMY_SPAWN_RATE * l <= ENEMY_SPAWN_RATE * (l + 1)
<1>1. ENEMY_SPAWN_RATE * (l + 1) = ENEMY_SPAWN_RATE * l + ENEMY_SPAWN_RATE
  BY CountsAssumption
<1>2. ENEMY_SPAWN_RATE * l \in Nat
  BY CountsAssumption
<1>3. QED
  BY <1>1, <1>2, CountsAssumption

EnemiesSafe == Slots /\ RowZeroWalked /\ RowZeroLags /\ RowZeroFar /\ RowZeroApart

\* Steps that change no coordinate and no level, apart from the three whose
\* change of pc matters.
LEMMA QuietStep ==
  ASSUME IInv, EnemiesSafe, UNCHANGED <<mem, x, y, level_count, i, playing>>,
         pc # "boot", pc' # "boot",
         \/ pc' = pc
         \/ /\ pc' # "move" /\ pc # "move"
            /\ pc' \in {"countdown", "generate", "spawn", "draw", "end"} =>
                 pc \in {"countdown", "generate", "spawn"} \/ (pc = "end" /\ playing = 0)
  PROVE  EnemiesSafe'
<1>1. Slots' /\ RowZeroWalked'
  BY DEF EnemiesSafe, Slots, RowZeroWalked, InRowZero, xcord, ycord
<1>2. RowZeroLags' /\ RowZeroApart'
  BY DEF EnemiesSafe, RowZeroLags, RowZeroApart, InRowZero, xcord, ycord
<1>3. RowZeroFar'
  BY DEF EnemiesSafe, RowZeroFar, Far, InRowZero, xcord, ycord
<1>4. QED
  BY <1>1, <1>2, <1>3 DEF EnemiesSafe

LEMMA SpawnStep ==
  ASSUME IInv, EnemiesSafe, SpawnEnemy, ENEMY_SPAWN_RATE * level_count <= MAX_ENEMIES
  PROVE  EnemiesSafe'
<1> USE DEF IInv
<1>0. LevelInv /\ TypeOK
  BY DEF LevelInv
<1>1. /\ i \in Enemies /\ i < ENEMY_SPAWN_RATE * level_count
      /\ \A k \in Enemies : k # i => xcord(k)' = xcord(k) /\ ycord(k)' = ycord(k)
      /\ mem'[i] \in Nat \ {0} /\ mem'[MAX_ENEMIES + i] \in Nat \ {0}
  BY <1>0, SpawnEffect
<1>2. \A k \in Enemies : k = i => xcord(k)' \in Nat \ {0} /\ ycord(k)' \in Nat \ {0}
  BY <1>1 DEF xcord, ycord
<1>3. /\ pc = "spawn" /\ pc' = "spawn" /\ level_count' = level_count
      /\ x' = x /\ y' = y
  BY DEF SpawnEnemy, game, player
<1>4. \A k \in Enemies : InRowZero(k)' => InRowZero(k) /\ k # i
  BY <1>1, <1>2 DEF InRowZero
<1>5. Slots'
  <2> SUFFICES ASSUME NEW k \in Enemies
               PROVE  /\ xcord(k)' >= 0 <=> ycord(k)' >= 0
                      /\ k >= ENEMY_SPAWN_RATE * level_count => xcord(k)' < 0
    BY <1>3 DEF Slots
  <2>1. CASE k = i
    BY <1>1, <1>2, <2>1, <1>0, CountsAssumption DEF Enemies, TypeOK
  <2>2. CASE k # i
    BY <1>1, <1>3, <2>2 DEF EnemiesSafe, Slots
  <2>3. QED
    BY <2>1, <2>2
<1>6. RowZeroWalked'
  <2> SUFFICES ASSUME NEW k \in Enemies, InRowZero(k)', NEW j \in 0 .. k
               PROVE  xcord(j)' >= 0
    BY DEF RowZeroWalked
  <2>1. xcord(j) >= 0
    BY <1>4 DEF EnemiesSafe, RowZeroWalked
  <2>2. j \in Enemies
    BY CountsAssumption DEF Enemies
  <2>3. QED
    BY <1>1, <1>2, <2>1, <2>2
<1>7. RowZeroLags'
  BY <1>1, <1>3, <1>4 DEF EnemiesSafe, RowZeroLags
<1>8. RowZeroFar'
  BY <1>1, <1>3, <1>4 DEF EnemiesSafe, RowZeroFar, Far
<1>9. RowZeroApart'
  BY <1>3 DEF RowZeroApart
<1>10. QED
  BY <1>5, <1>6, <1>7, <1>8, <1>9 DEF EnemiesSafe

\* A frame moves the player: an enemy in row 0 falls behind by one STEP at most.
LEMMA FrameStep ==
  ASSUME IInv, EnemiesSafe, DrawBoxAndFollow
  PROVE  EnemiesSafe'
<1>0. TypeOK /\ STEP \in Nat \ {0} /\ x \in Nat /\ y \in Nat
  BY SpeedAssumption, GeometryAssumption DEF IInv, LevelInv, TypeOK
<1>1. /\ x' \in Nat /\ x' <= x + STEP /\ x' >= x - STEP
      /\ y' \in Nat /\ y' <= y + STEP /\ y' >= y - STEP
  BY <1>0, PlayerSteps, GeometryAssumption
<1>2. pc = "draw" /\ pc' = "move" /\ i' = 0 /\ mem' = mem /\ level_count' = level_count
  BY DEF DrawBoxAndFollow, game
<1>3. \A k \in Enemies : xcord(k)' = xcord(k) /\ ycord(k)' = ycord(k) /\ xcord(k) \in Int
  BY <1>0, <1>2, CoordTypes DEF xcord, ycord
<1>4. \A k \in Enemies : InRowZero(k)' <=> InRowZero(k)
  BY <1>3 DEF InRowZero
<1>5. Slots' /\ RowZeroWalked'
  BY <1>2 DEF EnemiesSafe, Slots, RowZeroWalked, InRowZero, xcord, ycord
<1>6. RowZeroLags'
  <2> SUFFICES ASSUME NEW k \in Enemies, InRowZero(k)
               PROVE  (xcord(k) + 2) * STEP >= y'
    BY <1>2, <1>3, <1>4 DEF RowZeroLags, Enemies
  <2>1. (xcord(k) + 1) * STEP >= y
    BY <1>2 DEF EnemiesSafe, RowZeroLags
  <2>2. (xcord(k) + 2) * STEP = (xcord(k) + 1) * STEP + STEP /\ (xcord(k) + 1) * STEP \in Int
    BY <1>0, <1>3
  <2>3. QED
    BY <1>0, <1>1, <2>1, <2>2
<1>7. RowZeroFar'
  BY <1>2 DEF RowZeroFar
<1>8. RowZeroApart'
  <2> SUFFICES ASSUME NEW k \in Enemies, InRowZero(k)
               PROVE  xcord(k) # x' \/ y' > 0
    BY <1>2, <1>3, <1>4 DEF RowZeroApart
  <2>1. xcord(k) - x > STEP \/ x - xcord(k) > STEP \/ y > STEP
    BY <1>2 DEF EnemiesSafe, RowZeroFar, Far
  <2>2. xcord(k) \in Int
    BY <1>3
  <2>3. CASE y > STEP
    BY <1>0, <1>1, <2>3
  <2>4. CASE xcord(k) - x > STEP
    <3>1. xcord(k) > x'
      BY <1>0, <1>1, <2>2, <2>4
    <3>2. QED
      BY <1>1, <2>2, <3>1
  <2>5. CASE x - xcord(k) > STEP
    <3>1. xcord(k) < x'
      BY <1>0, <1>1, <2>2, <2>5
    <3>2. QED
      BY <1>1, <2>2, <3>1
  <2>6. QED
    BY <2>1, <2>3, <2>4, <2>5
<1>9. QED
  BY <1>5, <1>6, <1>7, <1>8 DEF EnemiesSafe

\* The step the sentinel depends on: no iteration takes a coordinate below 0,
\* and an enemy that walked into row 0 or along it keeps its distance.
LEMMA MoveStep ==
  ASSUME IInv, EnemiesSafe, MoveEnemy, ENEMY_SPAWN_RATE * level_count <= MAX_ENEMIES
  PROVE  /\ EnemiesSafe'
         /\ \A k \in Enemies : /\ xcord(k) >= 0 => xcord(k)' >= 0
                               /\ ycord(k) >= 0 => ycord(k)' >= 0
<1> DEFINE r == xcord(i)
           s == ycord(i)
<1>0. /\ LevelInv /\ TypeOK /\ STEP \in Nat \ {0} /\ x \in Nat /\ y \in Nat /\ i \in Nat
      /\ \A k \in Enemies : xcord(k) \in Int /\ ycord(k) \in Int
  BY SpeedAssumption, GeometryAssumption, CoordTypes DEF IInv, LevelInv, TypeOK
<1>1. /\ i \in Enemies
      /\ \A k \in Enemies : k # i => xcord(k)' = xcord(k) /\ ycord(k)' = ycord(k)
      /\ \/ r < x /\ mem'[i] = r + 1 /\ mem'[MAX_ENEMIES + i] = s
         \/ r - x > abs(y - s) /\ mem'[i] = r - 1 /\ mem'[MAX_ENEMIES + i] = s
         \/ s < y /\ mem'[MAX_ENEMIES + i] = s + 1 /\ mem'[i] = r
         \/ /\ s >= y /\ mem'[MAX_ENEMIES + i] = s - 1
            /\ abs(x - r) <= abs(y - s) /\ mem'[i] = r
  BY <1>0, MoveEffect
<1>2. \A k \in Enemies : k = i => xcord(k)' = mem'[i] /\ ycord(k)' = mem'[MAX_ENEMIES + i]
  BY DEF xcord, ycord
<1>3. /\ pc = "move" /\ pc' = "move" /\ i' = i + 1
      /\ level_count' = level_count /\ x' = x /\ y' = y
  BY DEF MoveEnemy, game, player
<1>4. r \in Nat /\ s \in Nat
  BY <1>0, <1>1 DEF MoveEnemy, Sentinel
<1>5. s = 0 => r # x \/ y > 0
  BY <1>0, <1>1, <1>3 DEF EnemiesSafe, RowZeroApart, InRowZero
<1>6. s = 0 => (r + 2) * STEP >= y
  BY <1>1, <1>3, <1>0 DEF EnemiesSafe, RowZeroLags, InRowZero
<1> HIDE DEF r, s
<1>7. mem'[i] \in Nat /\ mem'[MAX_ENEMIES + i] \in Nat
  BY <1>0, <1>1, <1>4, <1>5 DEF abs
<1>8. mem'[MAX_ENEMIES + i] = 0 => (mem'[i] + 1) * STEP >= y
  <2> SUFFICES ASSUME mem'[MAX_ENEMIES + i] = 0 PROVE (mem'[i] + 1) * STEP >= y
    OBVIOUS
  <2>1. CASE mem'[i] = r + 1 /\ s = 0
    BY <1>4, <1>6, <2>1
  <2>2. CASE r - x > abs(y - s) /\ mem'[i] = r - 1 /\ s = 0
    <3>1. r >= y
      BY <1>0, <1>4, <2>2 DEF abs
    <3>2. r * STEP >= r /\ r * STEP \in Int
      BY <1>0, <1>4
    <3>3. QED
      BY <1>0, <1>4, <2>2, <3>1, <3>2
  <2>3. CASE s = 1 /\ s >= y /\ mem'[i] = r
    <3>1. r * STEP \in Nat /\ (r + 1) * STEP = r * STEP + STEP
      BY <1>0, <1>4
    <3>2. QED
      BY <1>0, <2>3, <3>1
  <2>4. QED
    BY <1>0, <1>1, <1>4, <2>1, <2>2, <2>3
<1>9. \A k \in Enemies : k # i /\ InRowZero(k)' => InRowZero(k)
  BY <1>1 DEF InRowZero
<1>10. \A k \in Enemies : xcord(k) >= 0 => xcord(k)' >= 0
  BY <1>1, <1>2, <1>7
<1>11. \A k \in Enemies : ycord(k) >= 0 => ycord(k)' >= 0
  BY <1>1, <1>2, <1>7
<1>12. Slots'
  <2> SUFFICES ASSUME NEW k \in Enemies
               PROVE  /\ xcord(k)' >= 0 <=> ycord(k)' >= 0
                      /\ k >= ENEMY_SPAWN_RATE * level_count => xcord(k)' < 0
    BY <1>3 DEF Slots
  <2>1. /\ xcord(k) >= 0 <=> ycord(k) >= 0
        /\ k >= ENEMY_SPAWN_RATE * level_count => xcord(k) < 0
    BY <1>3 DEF EnemiesSafe, Slots
  <2>2. CASE k = i
    <3>1. ~(k >= ENEMY_SPAWN_RATE * level_count)
      BY <1>0, <1>4, <2>1, <2>2 DEF r
    <3>2. QED
      BY <1>2, <1>7, <2>2, <3>1
  <2>3. CASE k # i
    BY <1>1, <2>1, <2>3
  <2>4. QED
    BY <2>2, <2>3
<1>13. RowZeroWalked' /\ RowZeroApart'
  <2>1. ASSUME NEW k \in Enemies, InRowZero(k)', NEW j \in 0 .. k
        PROVE  xcord(j)' >= 0
    <3>1. j \in Enemies
      BY CountsAssumption DEF Enemies
    <3>2. CASE k = i
      <4>1. xcord(j) >= 0
        BY <1>0, <1>3, <1>4, <3>1, <3>2 DEF EnemiesSafe, RowZeroApart, r, Enemies
      <4>2. QED
        BY <1>10, <3>1, <4>1
    <3>3. CASE k # i
      BY <1>9, <1>10, <2>1, <3>1, <3>3 DEF EnemiesSafe, RowZeroWalked
    <3>4. QED
      BY <3>2, <3>3
  <2>2. ASSUME NEW k \in Enemies, InRowZero(k)', k >= i + 1
        PROVE  xcord(k)' # x \/ y > 0
    BY <1>0, <1>1, <1>3, <1>9, <2>2 DEF EnemiesSafe, RowZeroApart, Enemies
  <2>3. ASSUME NEW j \in 0 .. i, j \in Enemies
        PROVE  xcord(j)' >= 0
    <3>1. xcord(j) >= 0
      BY <1>0, <1>3, <1>4, <2>3 DEF EnemiesSafe, RowZeroApart, r
    <3>2. QED
      BY <1>10, <2>3, <3>1
  <2>4. RowZeroWalked'
    BY <2>1 DEF RowZeroWalked
  <2>5. RowZeroApart'
    <3>1. i' - 1 = i
      BY <1>0, <1>3
    <3>2. QED
      BY <1>3, <2>2, <2>3, <3>1 DEF RowZeroApart
  <2>6. QED
    BY <2>4, <2>5
<1>14. RowZeroLags'
  <2> SUFFICES ASSUME NEW k \in Enemies, InRowZero(k)'
               PROVE  (xcord(k)' + IF k >= i + 1 THEN 2 ELSE 1) * STEP >= y
    BY <1>3 DEF RowZeroLags
  <2>1. CASE k = i
    BY <1>0, <1>2, <1>8, <2>1 DEF InRowZero
  <2>2. CASE k # i
    <3>1. (xcord(k) + IF k >= i THEN 2 ELSE 1) * STEP >= y
      BY <1>3, <1>9, <2>2 DEF EnemiesSafe, RowZeroLags
    <3>2. k >= i + 1 <=> k >= i
      BY <1>0, <2>2 DEF Enemies
    <3>3. QED
      BY <1>1, <2>2, <3>1, <3>2
  <2>3. QED
    BY <2>1, <2>2
<1>15. RowZeroFar'
  BY <1>3 DEF RowZeroFar
<1>16. QED
  BY <1>10, <1>11, <1>12, <1>13, <1>14, <1>15 DEF EnemiesSafe

\* The iterations stop at the first sentinel, and no enemy after it is in row 0.
LEMMA EndMoveStep ==
  ASSUME IInv, EnemiesSafe, EndMove
  PROVE  EnemiesSafe'
<1>0. /\ TypeOK /\ num_enemies = ENEMY_SPAWN_RATE * level_count /\ i \in Nat
      /\ STEP \in Nat \ {0} /\ y \in Nat /\ num_enemies \in Nat
      /\ \A k \in Enemies : xcord(k) \in Int /\ ycord(k) \in Int
  BY SpeedAssumption, GeometryAssumption, CoordTypes
     DEF IInv, LevelInv, Tables, InLevel, EndMove, TypeOK
<1>1. /\ pc = "move" /\ pc' = "touch" /\ mem' = mem /\ level_count' = level_count
      /\ x' = x /\ y' = y
  BY DEF EndMove, game, player
<1>2. \A k \in Enemies : InRowZero(k) => k < i
  <2> SUFFICES ASSUME NEW k \in Enemies, InRowZero(k), k >= i PROVE FALSE
    BY <1>0 DEF Enemies
  <2>1. xcord(k) >= 0 /\ ~(k >= ENEMY_SPAWN_RATE * level_count)
    BY <1>0, <1>1 DEF EnemiesSafe, Slots, InRowZero
  <2>2. i \in Enemies /\ Sentinel(i)
    BY <1>0, <1>1, <2>1, CountsAssumption DEF EndMove, Enemies
  <2>3. xcord(i) < 0
    BY <1>0, <2>2 DEF EnemiesSafe, Slots, Sentinel
  <2>4. xcord(i) >= 0
    BY <1>0 DEF EnemiesSafe, RowZeroWalked, Enemies
  <2>5. QED
    BY <1>0, <2>2, <2>3, <2>4
<1>3. Slots' /\ RowZeroWalked'
  BY <1>1 DEF EnemiesSafe, Slots, RowZeroWalked, InRowZero, xcord, ycord
<1>4. RowZeroLags'
  <2> SUFFICES ASSUME NEW k \in Enemies, InRowZero(k) PROVE (xcord(k) + 1) * STEP >= y
    BY <1>1 DEF RowZeroLags, InRowZero, xcord, ycord
  <2>1. ~(k >= i)
    BY <1>0, <1>2 DEF Enemies
  <2>2. QED
    BY <1>1, <2>1 DEF EnemiesSafe, RowZeroLags
<1>5. RowZeroFar' /\ RowZeroApart'
  BY <1>1 DEF RowZeroFar, RowZeroApart
<1>6. QED
  BY <1>3, <1>4, <1>5 DEF EnemiesSafe

\* If the game goes on no enemy touches the player, so none in row 0 is near.
LEMMA TouchStep ==
  ASSUME IInv, EnemiesSafe, CheckTouch
  PROVE  EnemiesSafe'
<1>0. /\ TypeOK /\ num_enemies = ENEMY_SPAWN_RATE * level_count /\ num_enemies \in Nat
      /\ STEP \in Nat /\ STEP <= BOX_SIZE /\ BOX_SIZE \in Nat /\ x \in Nat /\ y \in Nat
      /\ \A k \in Enemies : xcord(k) \in Int /\ ycord(k) \in Int
  BY SpeedAssumption, GeometryAssumption, CoordTypes
     DEF IInv, LevelInv, Tables, InLevel, CheckTouch, TypeOK
<1>1. /\ pc = "touch" /\ pc' = "end" /\ mem' = mem /\ level_count' = level_count
      /\ x' = x /\ y' = y /\ i' = i
  BY DEF CheckTouch, game, player
<1>2. Slots' /\ RowZeroWalked'
  BY <1>1 DEF EnemiesSafe, Slots, RowZeroWalked, InRowZero, xcord, ycord
<1>3. RowZeroLags' /\ RowZeroApart'
  BY <1>1 DEF EnemiesSafe, RowZeroLags, RowZeroApart, InRowZero, xcord, ycord
<1>4. RowZeroFar'
  <2> SUFFICES ASSUME ~player_touching_enemy, NEW k \in Enemies, InRowZero(k)
               PROVE  Far(k)
    BY <1>1 DEF CheckTouch, RowZeroFar, Far, InRowZero, xcord, ycord
  <2>1. xcord(k) >= 0 /\ ~(k >= ENEMY_SPAWN_RATE * level_count)
    BY <1>0, <1>1 DEF EnemiesSafe, Slots, InRowZero
  <2>2. k \in 0 .. num_enemies - 1
    BY <1>0, <2>1 DEF Enemies
  <2>3. Live(k)
    <3> SUFFICES ASSUME NEW j \in 0 .. k PROVE ~Sentinel(j)
      BY DEF Live
    <3>1. j \in Enemies
      BY CountsAssumption DEF Enemies
    <3>2. xcord(j) >= 0
      BY DEF EnemiesSafe, RowZeroWalked
    <3>3. ycord(j) >= 0
      BY <3>1, <3>2 DEF EnemiesSafe, Slots
    <3>4. QED
      BY <1>0, <3>1, <3>2, <3>3 DEF Sentinel
  <2>4. ~Touches(k)
    BY <2>2, <2>3 DEF player_touching_enemy
  <2>5. ycord(k) = 0 /\ xcord(k) \in Int
    BY <1>0 DEF InRowZero
  <2>6. ~ (/\ x + BOX_SIZE >= xcord(k) /\ x <= xcord(k) + BOX_SIZE
           /\ y <= BOX_SIZE)
    BY <1>0, <2>4, <2>5 DEF Touches
  <2>7. QED
    BY <1>0, <2>5, <2>6 DEF Far
<1>5. QED
  BY <1>2, <1>3, <1>4 DEF EnemiesSafe

\* An enemy still in row 0 when a level ends has walked further than a STEP.
LEMMA LevelDoneStep ==
  ASSUME IInv, EnemiesSafe, LevelDone
  PROVE  EnemiesSafe'
<1>0. /\ TypeOK /\ STEP \in Nat \ {0} /\ x \in Nat /\ y \in Nat
      /\ \A k \in Enemies : xcord(k) \in Int /\ ycord(k) \in Int
  BY SpeedAssumption, GeometryAssumption, CoordTypes DEF IInv, LevelInv, TypeOK
<1>1. /\ pc = "end" /\ pc' = "countdown" /\ mem' = mem /\ level_count' = level_count
      /\ x' = 0 /\ y' = 0
  BY DEF LevelDone, game
<1>2. y > STEP * (STEP + 1)
  <2>1. level_count - 1 \in Levels
    BY <1>1 DEF IInv, LevelInv, LevelIndexInBounds
  <2>2. /\ level_info.end_location[level_count - 1] = END_START + END_STEP * (level_count - 1 + 1)
        /\ END_STEP * (level_count - 1 + 1) >= END_STEP
        /\ END_STEP * (level_count - 1 + 1) \in Nat
    BY <1>1, <2>1, TableValues DEF IInv, LevelInv, Tables
  <2>3. y >= level_info.end_location[level_count - 1]
    BY DEF LevelDone, end_of_level
  <2>4. STEP * (STEP + 1) \in Nat
    BY <1>0
  <2> DEFINE e == END_STEP * (level_count - 1 + 1)
             q == STEP * (STEP + 1)
  <2>5. /\ y >= END_START + e /\ e >= END_STEP /\ e \in Nat
        /\ q \in Nat /\ q < END_START + END_STEP
    BY <2>2, <2>3, <2>4, SpeedAssumption
  <2> HIDE DEF e, q
  <2>6. y > q
    BY <1>0, <2>5, GeometryAssumption
  <2>7. QED
    BY <2>6 DEF q
<1>3. \A k \in Enemies : InRowZero(k) => xcord(k) > STEP
  <2> SUFFICES ASSUME NEW k \in Enemies, InRowZero(k), xcord(k) <= STEP PROVE FALSE
    BY <1>0
  <2>1. (xcord(k) + 1) * STEP >= y
    BY <1>1 DEF EnemiesSafe, RowZeroLags
  <2>2. \A n \in Int : n <= STEP + 1 => n * STEP <= (STEP + 1) * STEP
    BY <1>0
  <2>3. (xcord(k) + 1) * STEP <= (STEP + 1) * STEP
    BY <1>0, <2>2
  <2>4. (STEP + 1) * STEP = STEP * (STEP + 1) /\ (STEP + 1) * STEP \in Int
        /\ (xcord(k) + 1) * STEP \in Int
    BY <1>0
  <2>5. QED
    BY <1>0, <1>2, <2>1, <2>3, <2>4
<1>4. Slots' /\ RowZeroWalked'
  BY <1>1 DEF EnemiesSafe, Slots, RowZeroWalked, InRowZero, xcord, ycord
<1>5. RowZeroFar'
  BY <1>0, <1>1, <1>3 DEF RowZeroFar, Far, InRowZero, xcord, ycord
<1>6. RowZeroLags'
  <2> SUFFICES ASSUME NEW k \in Enemies, InRowZero(k) PROVE (xcord(k) + 1) * STEP >= 0
    BY <1>1 DEF RowZeroLags, InRowZero, xcord, ycord
  <2>1. xcord(k) + 1 \in Nat
    BY <1>0, <1>3
  <2>2. \A n \in Nat : n * STEP >= 0
    BY <1>0
  <2>3. QED
    BY <2>1, <2>2
<1>7. RowZeroApart'
  BY <1>1 DEF RowZeroApart
<1>8. QED
  BY <1>4, <1>5, <1>6, <1>7 DEF EnemiesSafe

\* game_init and reset_game leave nothing but sentinels.
LEMMA ClearedStep ==
  ASSUME TypeOK, mem' = [w \in 0 .. MemWords - 1 |-> IF w < 2 * MAX_ENEMIES THEN -1
                                                     ELSE mem'[w]],
         pc' \notin {"boot", "move"}
  PROVE  EnemiesSafe'
<1>1. \A k \in Enemies : xcord(k)' = -1 /\ ycord(k)' = -1
  <2> SUFFICES ASSUME NEW k \in Enemies PROVE mem'[k] = -1 /\ mem'[MAX_ENEMIES + k] = -1
    BY DEF xcord, ycord
  <2>1. /\ k \in 0 .. MemWords - 1 /\ MAX_ENEMIES + k \in 0 .. MemWords - 1
        /\ k < 2 * MAX_ENEMIES /\ MAX_ENEMIES + k < 2 * MAX_ENEMIES
    BY CoordTypes, CountsAssumption DEF Enemies
  <2>2. QED
    BY <2>1
<1>2. \A k \in Enemies : ~InRowZero(k)'
  BY <1>1 DEF InRowZero
<1>3. Slots'
  BY <1>1 DEF Slots
<1>4. RowZeroWalked' /\ RowZeroLags' /\ RowZeroFar' /\ RowZeroApart'
  BY <1>2 DEF RowZeroWalked, RowZeroLags, RowZeroFar, RowZeroApart
<1>5. QED
  BY <1>3, <1>4 DEF EnemiesSafe

LEMMA EnemiesStep == IInv /\ [Next]_vars => EnemiesInv'
<1> SUFFICES ASSUME IInv, [Next]_vars, (ENEMY_SPAWN_RATE * level_count <= MAX_ENEMIES)'
             PROVE  EnemiesSafe'
  BY DEF EnemiesInv, EnemiesSafe
<1> USE DEF game, player, status, history
<1>0. /\ LevelInv /\ TypeOK
      /\ ENEMY_SPAWN_RATE * level_count <= MAX_ENEMIES => EnemiesSafe
  BY DEF IInv, LevelInv, EnemiesInv, EnemiesSafe
<1>1. CASE GameInit
  <2>1. mem' = [w \in 0 .. MemWords - 1 |-> IF w < 2 * MAX_ENEMIES THEN -1 ELSE mem'[w]]
    BY <1>1 DEF GameInit
  <2>2. QED
    BY <1>0, <1>1, <2>1, ClearedStep DEF GameInit
<1>2. CASE ResetGame
  <2>1. mem' = [w \in 0 .. MemWords - 1 |-> IF w < 2 * MAX_ENEMIES THEN -1 ELSE mem'[w]]
    BY <1>2 DEF ResetGame
  <2>2. QED
    BY <1>0, <1>2, <2>1, ClearedStep DEF ResetGame
<1>3. CASE BeginLevel
  <2>1. /\ level_count' = level_count + 1 /\ mem' = mem /\ x' = x /\ y' = y
        /\ pc = "generate" /\ pc' = "spawn" /\ level_count \in Nat
    BY <1>0, <1>3 DEF BeginLevel, TypeOK
  <2>2. /\ EnemiesSafe
        /\ ENEMY_SPAWN_RATE * level_count <= ENEMY_SPAWN_RATE * (level_count + 1)
    BY <1>0, <2>1, SafeCount
  <2>3. Slots'
    <3> SUFFICES ASSUME NEW k \in Enemies, k >= ENEMY_SPAWN_RATE * (level_count + 1)
                 PROVE  k >= ENEMY_SPAWN_RATE * level_count
      BY <2>1, <2>2 DEF EnemiesSafe, Slots, xcord, ycord
    <3>1. ENEMY_SPAWN_RATE * level_count \in Nat /\ ENEMY_SPAWN_RATE * (level_count + 1) \in Nat
      BY <2>1, CountsAssumption
    <3>2. QED
      BY <2>2, <3>1 DEF Enemies
  <2>4. RowZeroWalked'
    BY <2>1, <2>2 DEF EnemiesSafe, RowZeroWalked, InRowZero, xcord, ycord
  <2>5. RowZeroLags' /\ RowZeroFar' /\ RowZeroApart'
    BY <2>1, <2>2 DEF EnemiesSafe, RowZeroLags, RowZeroFar, RowZeroApart, Far, InRowZero, xcord,
       ycord
  <2>6. QED
    BY <2>3, <2>4, <2>5 DEF EnemiesSafe
<1>4. CASE SpawnEnemy
  BY <1>0, <1>4, SpawnStep DEF SpawnEnemy
<1>5. CASE DrawBoxAndFollow
  BY <1>0, <1>5, FrameStep DEF DrawBoxAndFollow
<1>6. CASE MoveEnemy
  BY <1>0, <1>6, MoveStep DEF MoveEnemy
<1>7. CASE EndMove
  BY <1>0, <1>7, EndMoveStep DEF EndMove
<1>8. CASE CheckTouch
  BY <1>0, <1>8, TouchStep DEF CheckTouch
<1>9. CASE LevelDone
  BY <1>0, <1>9, LevelDoneStep DEF LevelDone
<1>10. CASE SpawnGivesUp
  <2>1. /\ pc = "spawn" /\ pc' = "spawn" /\ level_count' = level_count
        /\ mem' = mem /\ x' = x /\ y' = y
    BY <1>10 DEF SpawnGivesUp
  <2>2. EnemiesSafe
    BY <1>0, <2>1
  <2>3. Slots' /\ RowZeroWalked'
    BY <2>1, <2>2 DEF EnemiesSafe, Slots, RowZeroWalked, InRowZero, xcord, ycord
  <2>4. RowZeroLags' /\ RowZeroFar' /\ RowZeroApart'
    BY <2>1, <2>2 DEF EnemiesSafe, RowZeroLags, RowZeroFar, RowZeroApart, Far, InRowZero, xcord,
       ycord
  <2>5. QED
    BY <2>3, <2>4 DEF EnemiesSafe
<1>11. CASE EndSpawn \/ LevelGoesOn
  BY <1>0, <1>11, QuietStep DEF EndSpawn, LevelGoesOn, LoopTest
<1>12. CASE GameWon
  <2>1. /\ pc' = "verdict" /\ pc = "end" /\ level_count' = level_count
        /\ mem' = mem /\ x' = x /\ y' = y
    BY <1>12 DEF GameWon
  <2>2. EnemiesSafe
    BY <1>0, <2>1
  <2>3. Slots' /\ RowZeroWalked'
    BY <2>1, <2>2 DEF EnemiesSafe, Slots, RowZeroWalked, InRowZero, xcord, ycord
  <2>4. RowZeroLags' /\ RowZeroFar' /\ RowZeroApart'
    BY <2>1, <2>2 DEF EnemiesSafe, RowZeroLags, RowZeroFar, RowZeroApart, InRowZero, xcord, ycord
  <2>5. QED
    BY <2>3, <2>4 DEF EnemiesSafe
<1>13. CASE Verdict \/ Countdown \/ EndCountdown
  BY <1>0, <1>13, QuietStep DEF Verdict, Countdown, EndCountdown
<1>14. CASE UNCHANGED vars
  <2>1. UNCHANGED <<pc, i, mem, x, y, playing, level_count>>
    BY <1>14 DEF vars
  <2>2. EnemiesSafe
    BY <1>0, <2>1
  <2>3. Slots' /\ RowZeroWalked'
    BY <2>1, <2>2 DEF EnemiesSafe, Slots, RowZeroWalked, InRowZero, xcord, ycord
  <2>4. RowZeroLags' /\ RowZeroFar' /\ RowZeroApart'
    BY <2>1, <2>2 DEF EnemiesSafe, RowZeroLags, RowZeroFar, RowZeroApart, Far, InRowZero, xcord,
       ycord
  <2>5. QED
    BY <2>3, <2>4 DEF EnemiesSafe
<1>15. QED
  BY <1>1, <1>2, <1>3, <1>4, <1>5, <1>6, <1>7, <1>8, <1>9, <1>10, <1>11, <1>12,
     <1>13, <1>14 DEF Next

LEMMA EnemiesInit == Init => EnemiesInv
<1> SUFFICES ASSUME Init PROVE EnemiesSafe
  BY DEF EnemiesInv, EnemiesSafe
<1>1. \A k \in Enemies : xcord(k) = 0 /\ ycord(k) = 0
  BY CountsAssumption DEF Init, Enemies, MemWords, xcord, ycord
<1>2. Slots
  BY <1>1 DEF Init, Slots
<1>3. RowZeroWalked
  <2> SUFFICES ASSUME NEW k \in Enemies, NEW j \in 0 .. k PROVE xcord(j) >= 0
    BY DEF RowZeroWalked
  <2>1. j \in Enemies
    BY CountsAssumption DEF Enemies
  <2>2. QED
    BY <1>1, <2>1
<1>4. RowZeroLags
  BY <1>1, SpeedAssumption, GeometryAssumption DEF Init, RowZeroLags
<1>5. RowZeroFar /\ RowZeroApart
  BY DEF Init, RowZeroFar, RowZeroApart
<1>6. QED
  BY <1>2, <1>3, <1>4, <1>5 DEF EnemiesSafe

LEMMA FullInvariant == Spec => []IInv
<1>1. Init => AtStart
  BY DEF Init, AtStart
<1>2. Init => IInv
  BY <1>1, LevelInvInit, EnemiesInit, GeometryAssumption DEF IInv, GoesOn, Init
<1>3. ASSUME IInv, [Next]_vars PROVE AtStart'
  <2> USE DEF IInv, game, player
  <2>1. CASE GameInit \/ LevelDone \/ ResetGame
    BY <1>3, <2>1 DEF GameInit, LevelDone, ResetGame, AtStart
  <2>2. CASE BeginLevel \/ SpawnEnemy \/ SpawnGivesUp \/ Countdown \/ EndCountdown
    BY <1>3, <2>2 DEF BeginLevel, SpawnEnemy, SpawnGivesUp, Countdown, EndCountdown, AtStart
  <2>3. CASE EndSpawn \/ LevelGoesOn
    BY <1>3, <2>3 DEF EndSpawn, LevelGoesOn, LoopTest, AtStart
  <2>4. CASE DrawBoxAndFollow \/ MoveEnemy \/ EndMove \/ CheckTouch \/ GameWon \/ Verdict
    BY <1>3, <2>4 DEF DrawBoxAndFollow, MoveEnemy, EndMove, CheckTouch, GameWon, Verdict, AtStart
  <2>5. CASE UNCHANGED vars
    BY <1>3, <2>5 DEF vars, AtStart
  <2>6. QED
    BY <1>3, <2>1, <2>2, <2>3, <2>4, <2>5 DEF Next
<1>4. IInv /\ [Next]_vars => IInv'
  BY <1>3, LevelInvStep, GoesOnStep, EnemiesStep DEF IInv, GameInv
<1>5. QED
  BY <1>2, <1>4, PTL DEF Spec

\* move_enemies_towards_player makes no coordinate negative, so no enemy turns
\* into the sentinel that would hide the others, in any level that fits.
THEOREM EnemiesStay == Spec => NoEnemyVanishes
<1> DEFINE Step == (pc = "move" /\ num_enemies <= MAX_ENEMIES) =>
              \A w \in 0 .. 2 * MAX_ENEMIES - 1 : mem[w] >= 0 => mem'[w] >= 0
<1>1. ASSUME IInv, [Next]_vars PROVE [Step]_vars
  <2> SUFFICES ASSUME pc = "move", num_enemies <= MAX_ENEMIES, ~UNCHANGED mem,
                      NEW w \in 0 .. 2 * MAX_ENEMIES - 1, mem[w] >= 0
               PROVE  mem'[w] >= 0
    OBVIOUS
  <2>1. MoveEnemy
    BY <1>1 DEF Next, vars, GameInit, BeginLevel, SpawnEnemy, SpawnGivesUp, EndSpawn,
       DrawBoxAndFollow, EndMove, CheckTouch, LevelGoesOn, GameWon, LevelDone, Verdict,
       ResetGame, Countdown, EndCountdown
  <2>2. ENEMY_SPAWN_RATE * level_count <= MAX_ENEMIES
    BY <1>1 DEF IInv, LevelInv, Tables, InLevel
  <2>3. EnemiesSafe
    BY <1>1, <2>2 DEF IInv, EnemiesInv, EnemiesSafe
  <2>4. \A k \in Enemies : /\ xcord(k) >= 0 => xcord(k)' >= 0
                           /\ ycord(k) >= 0 => ycord(k)' >= 0
    BY <1>1, <2>1, <2>2, <2>3, MoveStep
  <2>5. CASE w \in Enemies
    BY <2>4, <2>5 DEF xcord
  <2>6. CASE w \notin Enemies
    <3>1. w - MAX_ENEMIES \in Enemies /\ MAX_ENEMIES + (w - MAX_ENEMIES) = w
      BY <2>6, CountsAssumption DEF Enemies
    <3>2. QED
      BY <2>4, <3>1 DEF ycord
  <2>7. QED
    BY <2>5, <2>6
<1>2. QED
  BY <1>1, FullInvariant, PTL DEF Spec, NoEnemyVanishes

-----------------------------------------------------------------------------
(* The level's name.                                                       *)

\* No enemy reaches a word past those of the largest level; the other words of
\* the names are intact until the arrays were overrun.
NamesIntact ==
  pc # "boot" =>
    \A w \in 2 * MAX_ENEMIES .. MemWords - 1 :
      ~overran \/ w >= MAX_ENEMIES + ENEMY_SPAWN_RATE * NUM_LEVELS => mem[w] = NAME

Shown ==
  InLevel =>
    /\ hex.num = level_count
    /\ hex.text = "garbled" => overran /\ Spilled(level_count - 1)
    /\ hex.text \in {"lvl", "garbled"}

NameInv == LevelInv /\ NamesIntact /\ Shown

\* An enemy is stored in words below those that NamesIntact is about.
StoredInSpill ==
  /\ i \in Nat /\ i < ENEMY_SPAWN_RATE * NUM_LEVELS
  /\ overran' = (overran \/ i >= MAX_ENEMIES)
  /\ \A w \in 0 .. MemWords - 1 : w # i /\ w # MAX_ENEMIES + i => mem'[w] = mem[w]

LEMMA LevelCount ==
  ASSUME NEW l \in 1 .. NUM_LEVELS
  PROVE  ENEMY_SPAWN_RATE * l <= ENEMY_SPAWN_RATE * NUM_LEVELS
<1>1. \A d \in Nat : ENEMY_SPAWN_RATE * (l + d) = ENEMY_SPAWN_RATE * l + ENEMY_SPAWN_RATE * d
  BY CountsAssumption
<1>2. NUM_LEVELS - l \in Nat /\ l + (NUM_LEVELS - l) = NUM_LEVELS
  BY CountsAssumption
<1>3. ENEMY_SPAWN_RATE * (NUM_LEVELS - l) \in Nat /\ ENEMY_SPAWN_RATE * l \in Nat
  BY <1>2, CountsAssumption
<1>4. ENEMY_SPAWN_RATE * NUM_LEVELS = ENEMY_SPAWN_RATE * l + ENEMY_SPAWN_RATE * (NUM_LEVELS - l)
  BY <1>1, <1>2
<1>5. QED
  BY <1>3, <1>4

LEMMA InLevelCount ==
  ASSUME LevelInv, InLevel
  PROVE  num_enemies \in Nat /\ num_enemies <= ENEMY_SPAWN_RATE * NUM_LEVELS
<1>1. level_count \in 1 .. NUM_LEVELS /\ num_enemies = ENEMY_SPAWN_RATE * level_count
  BY CountsAssumption DEF LevelInv, LevelIndexInBounds, Levels, Tables, InLevel, TypeOK
<1>2. QED
  BY <1>1, LevelCount, CountsAssumption

LEMMA SpillKeepsNames ==
  ASSUME NameInv, StoredInSpill, pc # "boot"
  PROVE  NamesIntact'
<1>1. ENEMY_SPAWN_RATE * NUM_LEVELS \in Nat /\ MAX_ENEMIES \in Nat \ {0} /\ MemWords \in Nat
  BY CountsAssumption DEF MemWords
<1>2. SUFFICES ASSUME NEW w \in 2 * MAX_ENEMIES .. MemWords - 1,
                      ~overran' \/ w >= MAX_ENEMIES + ENEMY_SPAWN_RATE * NUM_LEVELS
               PROVE  mem'[w] = NAME
  BY DEF NamesIntact
<1>3. overran \in BOOLEAN
  BY DEF NameInv, LevelInv, TypeOK
<1>4. w # i /\ w # MAX_ENEMIES + i /\ w \in 0 .. MemWords - 1
  <2> DEFINE R == ENEMY_SPAWN_RATE * NUM_LEVELS
  <2>1. R \in Nat /\ i \in Nat /\ i < R
    BY <1>1 DEF StoredInSpill
  <2>2. ~(i >= MAX_ENEMIES) \/ w >= MAX_ENEMIES + R
    <3>1. CASE ~overran'
      <4>1. ~(overran \/ i >= MAX_ENEMIES)
        BY <3>1, Zenon DEF StoredInSpill
      <4>2. QED
        BY <4>1, Zenon
    <3>2. CASE w >= MAX_ENEMIES + ENEMY_SPAWN_RATE * NUM_LEVELS
      BY <3>2, Zenon
    <3>3. QED
      BY <1>2, <3>1, <3>2, Zenon
  <2>3. w \in 2 * MAX_ENEMIES .. MemWords - 1
    BY <1>2
  <2> HIDE DEF R
  <2>4. QED
    BY <1>1, <2>1, <2>2, <2>3
<1>5. mem'[w] = mem[w]
  BY <1>4 DEF StoredInSpill
<1>6. ~overran \/ w >= MAX_ENEMIES + ENEMY_SPAWN_RATE * NUM_LEVELS
  BY <1>2, <1>3 DEF StoredInSpill
<1>7. QED
  BY <1>5, <1>6 DEF NameInv, NamesIntact

LEMMA NameStep == NameInv /\ [Next]_vars => NameInv'
<1> SUFFICES ASSUME NameInv, [Next]_vars PROVE NamesIntact' /\ Shown'
  BY LevelInvStep DEF NameInv
<1> USE DEF game, player, status, history
<1>0. LevelInv /\ TypeOK /\ NamesIntact /\ Shown /\ MAX_ENEMIES \in Nat \ {0}
  BY CountsAssumption DEF NameInv, LevelInv
<1>1. CASE GameInit
  <2>1. \A w \in 2 * MAX_ENEMIES .. MemWords - 1 :
          w \in 0 .. MemWords - 1 /\ ~(w < 2 * MAX_ENEMIES)
    BY <1>0
  <2>2. QED
    BY <1>0, <1>1, <2>1 DEF GameInit, NamesIntact, Shown, InLevel
<1>2. CASE BeginLevel
  <2>1. level_count \in Levels /\ mem' = mem /\ pc = "generate" /\ overran' = overran
    BY <1>0, <1>2 DEF BeginLevel, LevelInv, LevelIndexInBounds
  <2>2. LevelText(level_count) = "garbled" => overran /\ Spilled(level_count)
    <3>1. SUFFICES ASSUME NEW w \in NameWords(level_count), mem[w] # NAME
                   PROVE  overran /\ Spilled(level_count)
      BY DEF LevelText
    <3>2. w \in 2 * MAX_ENEMIES .. MemWords - 1
      BY DEF NameWords
    <3>3. overran /\ ~(w >= MAX_ENEMIES + ENEMY_SPAWN_RATE * NUM_LEVELS)
      BY <1>0, <2>1, <3>1, <3>2 DEF NamesIntact
    <3>4. w < MAX_ENEMIES + ENEMY_SPAWN_RATE * NUM_LEVELS
      BY <3>2, <3>3, CountsAssumption DEF MemWords
    <3>5. QED
      BY <3>3, <3>4 DEF Spilled
  <2>3. LevelText(level_count) \in {"lvl", "garbled"}
    BY DEF LevelText
  <2>4. /\ hex'.text = LevelText(level_count) /\ hex'.num = level_count'
        /\ level_count' = level_count + 1 /\ level_count \in Int
    BY <1>0, <1>2 DEF BeginLevel, TypeOK
  <2>5. Spilled(level_count' - 1) = Spilled(level_count)
    <3>1. level_count' - 1 = level_count
      BY <2>4
    <3>2. QED
      BY <3>1
  <2>6. NamesIntact'
    BY <1>0, <1>2, <2>1 DEF BeginLevel, NamesIntact
  <2>7. QED
    BY <2>1, <2>2, <2>3, <2>4, <2>5, <2>6 DEF Shown, Spilled, NameWords
<1>3. CASE SpawnEnemy
  <2>1. pc # "boot" /\ InLevel /\ i \in Nat /\ i < num_enemies
    BY <1>0, <1>3 DEF SpawnEnemy, InLevel, TypeOK
  <2>2. i < ENEMY_SPAWN_RATE * NUM_LEVELS
    BY <1>0, <2>1, InLevelCount, CountsAssumption
  <2>3. PICK ex, ey : mem' = [mem EXCEPT ![i] = ex, ![MAX_ENEMIES + i] = ey]
    BY <1>3 DEF SpawnEnemy
  <2>4. \A w \in 0 .. MemWords - 1 : w # i /\ w # MAX_ENEMIES + i => mem'[w] = mem[w]
    BY <1>0, <2>3 DEF TypeOK
  <2>5. NamesIntact'
    BY <1>3, <2>1, <2>2, <2>4, SpillKeepsNames DEF SpawnEnemy, StoredInSpill
  <2>6. QED
    BY <1>0, <1>3, <2>5 DEF SpawnEnemy, Shown, InLevel, Spilled, NameWords
<1>4. CASE MoveEnemy
  <2>1. pc # "boot" /\ InLevel /\ i \in Nat /\ i < num_enemies
    BY <1>0, <1>4 DEF MoveEnemy, InLevel, TypeOK
  <2>2. i < ENEMY_SPAWN_RATE * NUM_LEVELS
    BY <1>0, <2>1, InLevelCount, CountsAssumption
  <2>3. \A w \in 0 .. MemWords - 1 : w # i /\ w # MAX_ENEMIES + i => mem'[w] = mem[w]
    BY <1>0, <1>4 DEF MoveEnemy, TypeOK
  <2>4. NamesIntact'
    BY <1>4, <2>1, <2>2, <2>3, SpillKeepsNames DEF MoveEnemy, StoredInSpill
  <2>5. QED
    BY <1>0, <1>4, <2>4 DEF MoveEnemy, Shown, InLevel, Spilled, NameWords
<1>5. CASE ResetGame
  <2>1. \A w \in 2 * MAX_ENEMIES .. MemWords - 1 :
          w \in 0 .. MemWords - 1 /\ ~(w < 2 * MAX_ENEMIES)
    BY <1>0
  <2>2. QED
    BY <1>0, <1>5, <2>1 DEF ResetGame, NamesIntact, Shown, InLevel
<1>6. CASE SpawnGivesUp \/ EndSpawn \/ LevelGoesOn
  BY <1>0, <1>6 DEF SpawnGivesUp, EndSpawn, LevelGoesOn, LoopTest, NamesIntact, Shown, InLevel
<1>7. CASE DrawBoxAndFollow \/ EndMove \/ CheckTouch
  BY <1>0, <1>7 DEF DrawBoxAndFollow, EndMove, CheckTouch, NamesIntact, Shown, InLevel
<1>8. CASE GameWon \/ LevelDone \/ Verdict \/ Countdown \/ EndCountdown
  BY <1>0, <1>8 DEF GameWon, LevelDone, Verdict, Countdown, EndCountdown, NamesIntact, Shown,
     InLevel
<1>9. CASE UNCHANGED vars
  BY <1>0, <1>9 DEF vars, NamesIntact, Shown, InLevel
<1>10. QED
  BY <1>1, <1>2, <1>3, <1>4, <1>5, <1>6, <1>7, <1>8, <1>9 DEF Next

\* In every frame of every game the displays name the level that is being
\* played, until an enemy was stored past the end of its array; and even then for
\* each level whose name no enemy of the largest level reaches (game.c:150).
THEOREM LevelNamed == Spec => []LevelShown
<1>1. Init => NameInv
  BY LevelInvInit DEF Init, NameInv, NamesIntact, Shown, InLevel
<1>2. NameInv /\ [Next]_vars => NameInv'
  BY NameStep
<1>3. NameInv => LevelShown
  BY DEF NameInv, Shown, InLevel, LevelShown
<1>4. QED
  BY <1>1, <1>2, <1>3, PTL DEF Spec
=============================================================================
