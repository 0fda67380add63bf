-------------------------------- MODULE Game --------------------------------
(***************************************************************************)
(* The game of src/Final: the main loop (hello_world.c), the level and     *)
(* enemy logic (game.c) and the player's movement (lcd.c, joystick.c).     *)
(* The program is one thread; pc says which call of main's loop runs next, *)
(* and the two loops over the enemies take one step per iteration.         *)
(* Drawing changes no game state and is left to the display modules.       *)
(***************************************************************************)
EXTENDS Integers

CONSTANTS
  NUM_LEVELS, MAX_ENEMIES, ENEMY_SPAWN_RATE,   \* game.h
  BOX_SIZE, BOX_OFFSET, SAFE_DISTANCE,         \* game.h
  WIDTH, HEIGHT,                               \* lcd.h
  STEP,         \* pixels the player moves per frame (the literal 5 of lcd.c)
  END_START,    \* first value of end_position (70)
  END_STEP,     \* distance between two finish lines (20)
  WIN_LEVEL,    \* the level main compares with to end the game (5)
  NAME_WORDS,   \* words of level_info.level_hex that follow ycord in memory
  NAME,         \* what game_init leaves in those words, read as an int
  Readings      \* values the ADC may return for an axis, after the shift

ENEMY_SPEED == 1
CENTER_X == 119
CENTER_Y == 120
MARGIN_OF_ERROR_LOW == -5
MARGIN_OF_ERROR_HIGH == 5
LEVEL_COUNTDOWN == 3
RESTART_COUNTDOWN == 5

Levels == 0 .. NUM_LEVELS - 1
MemWords == 2 * MAX_ENEMIES + NAME_WORDS

ASSUME CountsAssumption ==
  /\ NUM_LEVELS \in Nat \ {0}
  /\ MAX_ENEMIES \in Nat \ {0}
  /\ ENEMY_SPAWN_RATE \in Nat \ {0}
  /\ NAME_WORDS \in Nat /\ NAME \in Nat
  /\ WIN_LEVEL \in 1 .. NUM_LEVELS
  /\ ENEMY_SPAWN_RATE * NUM_LEVELS <= MAX_ENEMIES + NAME_WORDS

ASSUME GeometryAssumption ==
  /\ BOX_SIZE \in Nat \ {0} /\ BOX_OFFSET \in Nat \ {0}
  /\ SAFE_DISTANCE \in Nat
  /\ WIDTH \in Nat /\ WIDTH > BOX_SIZE + BOX_OFFSET
  /\ HEIGHT \in Nat /\ HEIGHT >= BOX_SIZE
  /\ END_START \in Nat /\ END_STEP \in Nat
  /\ END_START + END_STEP > BOX_SIZE + BOX_OFFSET
  /\ END_START + END_STEP * WIN_LEVEL <= HEIGHT - BOX_SIZE   \* 170 <= 230

\* The player is slow enough, against the length of a level and the size of a
\* box: 5 <= 10 and 5 * 6 < 90 in the program.
ASSUME SpeedAssumption ==
  /\ STEP \in 1 .. BOX_SIZE
  /\ STEP * (STEP + 1) < END_START + END_STEP

ASSUME ReadingsAssumption == Readings # {} /\ Readings \subseteq 0 .. 255

VARIABLES
  pc,            \* the call of main that comes next
  i,             \* loop index of generate_next_level and move_enemies_...
  level_count, num_enemies, end_position, end_location,  \* statics of game.c
  level_info,    \* the tables game_init fills (names are in mem)
  mem,           \* xcord, ycord and the first words of level_info, as linked
  x, y,          \* the player (lcd.c)
  playing, win,  \* statics of main
  hex,           \* the message on the 7-segment displays
  count,         \* loop variable of countdown
  touched,       \* history: this game saw the player touch an enemy
  finished,      \* history: this game saw the last finish line reached
  everWon,       \* history: some game since power-on was finished
  overran        \* history: an enemy was stored past the end of its array

vars == <<pc, i, level_count, num_enemies, end_position, end_location,
          level_info, mem, x, y, playing, win, hex, count,
          touched, finished, everWon, overran>>

game == <<level_count, num_enemies, end_position, end_location, level_info>>
player == <<x, y>>
status == <<playing, win>>
history == <<touched, finished, everWon, overran>>

-----------------------------------------------------------------------------
(* Memory.  The linker places xcord, ycord and level_info one after the    *)
(* other, so xcord[MAX_ENEMIES + k] is ycord[k] and ycord[MAX_ENEMIES + k] *)
(* is word k of the level names.                                           *)

xcord(k) == mem[k]
ycord(k) == mem[MAX_ENEMIES + k]

Sentinel(k) == xcord(k) < 0 \/ ycord(k) < 0

\* The loops over the enemies stop at the first sentinel.
Live(k) == \A j \in 0 .. k : ~Sentinel(j)

abs(n) == IF n < 0 THEN -n ELSE n

\* The boxes of the player and of enemy k overlap or touch.
Touches(k) ==
  /\ x + BOX_SIZE >= xcord(k) /\ x <= xcord(k) + BOX_SIZE
  /\ y + BOX_SIZE >= ycord(k) /\ y <= ycord(k) + BOX_SIZE

\* A bug to detect: the first enemy is left out.
SecondEnemyOn == \E k \in 1 .. num_enemies - 1 : Live(k) /\ Touches(k)

player_touching_enemy ==
  \E k \in 0 .. num_enemies - 1 : Live(k) /\ Touches(k)

end_of_level == y >= level_info.end_location[level_count - 1]

-----------------------------------------------------------------------------
Init ==
  /\ pc = "boot" /\ i = 0
  /\ level_count = 0 /\ num_enemies = 0
  /\ end_position = END_START /\ end_location = 0
  /\ level_info = [num_enemies |-> [l \in Levels |-> 0],
                   end_location |-> [l \in Levels |-> 0]]
  /\ mem = [w \in 0 .. MemWords - 1 |-> 0]
  /\ x = 0 /\ y = 0
  /\ playing = 0 /\ win = -1
  /\ hex = [text |-> "blank", num |-> 0]
  /\ count = 0
  /\ touched = FALSE /\ finished = FALSE /\ everWon = FALSE /\ overran = FALSE

\* lcd_init's reset of the player and game_init: the tables accumulate the
\* static counters, which keep their last value.
GameInit ==
  /\ pc = "boot"
  /\ level_count' = 0
  /\ level_info' =
       [num_enemies  |-> [l \in Levels |-> num_enemies + ENEMY_SPAWN_RATE * (l + 1)],
        end_location |-> [l \in Levels |-> end_position + END_STEP * (l + 1)]]
  /\ num_enemies' = num_enemies + ENEMY_SPAWN_RATE * NUM_LEVELS
  /\ end_position' = end_position + END_STEP * NUM_LEVELS
  /\ mem' = [w \in 0 .. MemWords - 1 |-> IF w < 2 * MAX_ENEMIES THEN -1 ELSE NAME]
  /\ x' = 0 /\ y' = 0
  /\ pc' = "generate"
  /\ UNCHANGED <<i, end_location, status, hex, count, history>>

-----------------------------------------------------------------------------
(* generate_next_level                                                     *)

\* The words of memory that hold row l (6 bytes) of level_info.level_hex.
NameWords(l) ==
  {w \in 2 * MAX_ENEMIES .. MemWords - 1 :
     w - 2 * MAX_ENEMIES \in (6 * l) \div 4 .. (6 * l + 5) \div 4}

\* A name shows as written by game_init if nothing has overwritten its words.
LevelText(l) ==
  IF \A w \in NameWords(l) : mem[w] = NAME THEN "lvl" ELSE "garbled"

BeginLevel ==
  /\ pc = "generate"
  /\ level_count' = level_count + 1
  /\ hex' = [text |-> LevelText(level_count), num |-> level_count + 1]
  /\ num_enemies' = level_info.num_enemies[level_count]
  /\ end_location' = level_info.end_location[level_count]
  /\ i' = 0
  /\ pc' = "spawn"
  /\ UNCHANGED <<end_position, level_info, mem, player, status, count, history>>

\* A bug to detect: enemies may start in the first rows.
SpawnRowZero == 0 .. end_location - BOX_SIZE - 1

SpawnX == BOX_OFFSET .. WIDTH - BOX_SIZE - 1
SpawnY == BOX_OFFSET .. end_location - BOX_SIZE - 1

\* The inner loop over the earlier enemies breaks: one of them is too close,
\* or the player is (which only the loop's body looks at).
Collision(ex, ey) ==
  \E j \in 0 .. i - 1 :
    \/ abs(xcord(j) - ex) < BOX_SIZE /\ abs(ycord(j) - ey) < BOX_SIZE
    \/ /\ abs(x - ex) < BOX_SIZE + SAFE_DISTANCE
       /\ abs(y - ey) < BOX_SIZE + SAFE_DISTANCE

SpawnEnemy ==
  /\ pc = "spawn" /\ i < num_enemies
  /\ \E ex \in SpawnX, ey \in SpawnY :
       /\ ~Collision(ex, ey)
       /\ mem' = [mem EXCEPT ![i] = ex, ![MAX_ENEMIES + i] = ey]
  /\ overran' = (overran \/ i >= MAX_ENEMIES)
  /\ i' = i + 1
  /\ UNCHANGED <<pc, game, player, status, hex, count, touched, finished, everWon>>

\* MAX_ATTEMPTS random places in a row collide: the error is printed and the
\* enemy keeps whatever coordinates its index had.
SpawnGivesUp ==
  /\ pc = "spawn" /\ i < num_enemies
  /\ \E ex \in SpawnX, ey \in SpawnY : Collision(ex, ey)
  /\ i' = i + 1
  /\ UNCHANGED <<pc, game, mem, player, status, hex, count, history>>

\* Both callers go on to the test of the inner loop, while(!playing).
LoopTest == IF playing = 0 THEN "draw" ELSE "verdict"

\* A bug to detect: a frame is drawn without testing playing.
EndSpawnUntested ==
  /\ pc = "spawn" /\ i = num_enemies
  /\ pc' = "draw"
  /\ UNCHANGED <<i, game, mem, player, status, hex, count, history>>

EndSpawn ==
  /\ pc = "spawn" /\ i = num_enemies
  /\ pc' = LoopTest
  /\ UNCHANGED <<i, game, mem, player, status, hex, count, history>>

-----------------------------------------------------------------------------
(* One frame                                                               *)

\* A bug to detect: only the lower border stops the player.
ClampBelow(v, hi) == IF v < 0 THEN 0 ELSE v

Clamp(v, hi) == IF v < 0 THEN 0 ELSE IF v > hi THEN hi ELSE v

\* Pixels per frame for a joystick offset from its centre.
Push(offset) ==
  IF offset < MARGIN_OF_ERROR_LOW THEN -STEP
  ELSE IF offset > MARGIN_OF_ERROR_HIGH THEN STEP ELSE 0

\* draw_box_and_follow, as far as it changes the game: follow_joystick.
DrawBoxAndFollow ==
  /\ pc = "draw"
  /\ \E rx \in Readings, ry \in Readings :
       /\ x' = Clamp(x - Push(rx - CENTER_X), WIDTH - BOX_SIZE)
       /\ y' = Clamp(y + Push(ry - CENTER_Y), HEIGHT - BOX_SIZE)
  /\ i' = 0
  /\ pc' = "move"
  /\ UNCHANGED <<game, mem, status, hex, count, history>>

MovesInX(x_diff, y_diff) == abs(x_diff) > abs(y_diff)

Toward(diff) == IF diff > 0 THEN ENEMY_SPEED ELSE -ENEMY_SPEED

\* One iteration of move_enemies_towards_player.
MoveEnemy ==
  /\ pc = "move" /\ i < num_enemies /\ ~Sentinel(i)
  /\ LET x_diff == x - xcord(i)
         y_diff == y - ycord(i)
     IN  mem' = IF MovesInX(x_diff, y_diff)
                  THEN [mem EXCEPT ![i] = @ + Toward(x_diff)]
                  ELSE [mem EXCEPT ![MAX_ENEMIES + i] = @ + Toward(y_diff)]
  /\ overran' = (overran \/ i >= MAX_ENEMIES)
  /\ i' = i + 1
  /\ UNCHANGED <<pc, game, player, status, hex, count, touched, finished, everWon>>

EndMove ==
  /\ pc = "move"
  /\ i < num_enemies => Sentinel(i)
  /\ pc' = "touch"
  /\ UNCHANGED <<i, game, mem, player, status, hex, count, history>>

CheckTouch ==
  /\ pc = "touch"
  /\ playing' = IF player_touching_enemy THEN -1 ELSE playing
  /\ touched' = (touched \/ player_touching_enemy)
  /\ pc' = "end"
  /\ UNCHANGED <<i, game, mem, player, win, hex, count, finished, everWon, overran>>

LevelGoesOn ==
  /\ pc = "end" /\ ~end_of_level
  /\ pc' = LoopTest
  /\ UNCHANGED <<i, game, mem, player, status, hex, count, history>>

LastLevel == level_count >= WIN_LEVEL

GameWon ==
  /\ pc = "end" /\ end_of_level /\ LastLevel
  /\ win' = 0 /\ playing' = -1
  /\ finished' = TRUE /\ everWon' = TRUE
  /\ pc' = "verdict"
  /\ UNCHANGED <<i, game, mem, player, hex, count, touched, overran>>

\* The next level follows even if the player was just touched.
LevelDone ==
  /\ pc = "end" /\ end_of_level /\ ~LastLevel
  /\ x' = 0 /\ y' = 0
  /\ count' = LEVEL_COUNTDOWN
  /\ pc' = "countdown"
  /\ UNCHANGED <<i, game, mem, status, hex, history>>

-----------------------------------------------------------------------------
(* Between games                                                           *)

\* A bug to detect: win is tested the other way round.
WinnerIfSet == IF win # 0 THEN "winner" ELSE "loser"

VerdictText == IF win = 0 THEN "winner" ELSE "loser"

\* hex_message.
Verdict ==
  /\ pc = "verdict"
  /\ hex' = [text |-> VerdictText, num |-> 0]
  /\ pc' = "reset"
  /\ UNCHANGED <<i, game, mem, player, status, count, history>>

\* reset_game, playing = 0; win keeps its value.
ResetGame ==
  /\ pc = "reset"
  /\ level_count' = 0 /\ num_enemies' = 0 /\ end_position' = 100
  /\ x' = 0 /\ y' = 0
  /\ mem' = [w \in 0 .. MemWords - 1 |-> IF w < 2 * MAX_ENEMIES THEN -1 ELSE mem[w]]
  /\ playing' = 0
  /\ count' = RESTART_COUNTDOWN
  /\ pc' = "countdown"
  /\ touched' = FALSE /\ finished' = FALSE
  /\ UNCHANGED <<i, end_location, level_info, win, hex, everWon, overran>>

Countdown ==
  /\ pc = "countdown" /\ count > 0
  /\ hex' = [text |-> "count", num |-> count]
  /\ count' = count - 1
  /\ UNCHANGED <<pc, i, game, mem, player, status, history>>

\* A bug to detect: a new level is played without being generated.
CountdownThenPlay ==
  /\ pc = "countdown" /\ count = 0
  /\ pc' = IF level_count > 0 THEN "draw" ELSE "generate"
  /\ UNCHANGED <<i, game, mem, player, status, hex, count, history>>

EndCountdown ==
  /\ pc = "countdown" /\ count = 0
  /\ pc' = "generate"
  /\ UNCHANGED <<i, game, mem, player, status, hex, count, history>>

-----------------------------------------------------------------------------
Next ==
  \/ GameInit
  \/ BeginLevel \/ SpawnEnemy \/ SpawnGivesUp \/ EndSpawn
  \/ DrawBoxAndFollow \/ MoveEnemy \/ EndMove \/ CheckTouch
  \/ LevelGoesOn \/ GameWon \/ LevelDone
  \/ Verdict \/ ResetGame \/ Countdown \/ EndCountdown

Spec == Init /\ [][Next]_vars

\* main never returns and nothing preempts it for ever.
FairSpec == Spec /\ WF_vars(Next)
-----------------------------------------------------------------------------
(* Properties                                                              *)

PCs == {"boot", "generate", "spawn", "draw", "move", "touch", "end",
        "verdict", "reset", "countdown"}
Texts == {"blank", "lvl", "garbled", "winner", "loser", "count"}

\* Every variable has its type, and the player's box is on the screen.
TypeOK ==
  /\ pc \in PCs /\ i \in Nat
  /\ level_count \in Nat /\ num_enemies \in Nat
  /\ end_position \in Nat /\ end_location \in Nat
  /\ level_info \in [num_enemies : [Levels -> Nat], end_location : [Levels -> Nat]]
  /\ mem \in [0 .. MemWords - 1 -> Int]
  /\ x \in 0 .. WIDTH - BOX_SIZE /\ y \in 0 .. HEIGHT - BOX_SIZE
  /\ playing \in {-1, 0} /\ win \in {-1, 0}
  /\ hex \in [text : Texts, num : Nat]
  /\ count \in Nat
  /\ touched \in BOOLEAN /\ finished \in BOOLEAN
  /\ everWon \in BOOLEAN /\ overran \in BOOLEAN

\* Nothing in game.c checks level_count before it indexes level_info: only
\* main's order of calls keeps the index inside the tables, both when a level
\* begins (level_count) and in every frame (level_count - 1).
LevelIndexInBounds ==
  /\ pc = "generate" => level_count \in Levels
  /\ pc \in {"spawn", "draw", "move", "touch", "end"} => level_count - 1 \in Levels

\* Moving an enemy never makes a coordinate negative: -1 is the sentinel, and
\* an enemy that walked into it would take every later enemy out of the game.
\* It must hold too for an enemy a level inherited from the previous one.
NoEnemyVanishes ==
  [][(pc = "move" /\ num_enemies <= MAX_ENEMIES) =>
       \A w \in 0 .. 2 * MAX_ENEMIES - 1 : mem[w] >= 0 => mem'[w] >= 0]_vars

\* Once the player was touched no frame of that game is drawn, even when the
\* same frame completed a level and a new one was generated.
NoFrameAfterTouch == pc = "draw" => ~touched /\ ~finished

\* main's calls come in an order that keeps the tables' index in bounds and ends
\* a game at the touch, even where the enemies overrun their arrays.
MainInOrder == LevelIndexInBounds /\ NoFrameAfterTouch

\* Until some game is finished, a game the player was touched in ends with
\* "loser"; and "winner" is shown only after a finished game.
VerdictUntilFirstWin ==
  pc = "reset" => /\ hex.text = "loser" => touched /\ ~everWon
                  /\ hex.text = "winner" => everWon

\* The words of level_info that an enemy of the largest level is stored over.
Spilled(l) ==
  \E w \in NameWords(l) : w < MAX_ENEMIES + ENEMY_SPAWN_RATE * NUM_LEVELS

\* The displays name the level that is being played, in every game, until an
\* enemy was placed or moved past the end of its array (game.c:150, 290); from
\* then on only the names of the first rows, which such an enemy reaches, may be
\* garbled.
LevelShown ==
  pc \in {"draw", "move", "touch", "end"} =>
    /\ hex.num = level_count
    /\ hex.text = "garbled" => overran /\ Spilled(level_count - 1)
    /\ hex.text \in {"lvl", "garbled"}

\* A player who stops moving is caught: either the player's box moves for ever
\* or games are lost for ever.
ChaseTerminates ==
  \/ []<>touched
  \/ []<><<pc = "draw">>_player

-----------------------------------------------------------------------------
(* What a comment says, and the program does not do                        *)

\* game.c:156, the check returns -1 if the player touches an enemy.
EveryTouchCounts ==
  pc = "end" /\ num_enemies <= MAX_ENEMIES =>
    ((\E k \in 0 .. num_enemies - 1 : ~Sentinel(k) /\ Touches(k)) => touched)
=============================================================================
