-------------------------------- MODULE Board --------------------------------
(***************************************************************************)
(* The board of the game between processes (G4 - IPC/game-lib.c): placing a *)
(* piece, the column the parent chooses, the test for a win.  Row 0 is the  *)
(* top row; a square is 0, or the player whose piece lies on it.            *)
(***************************************************************************)
EXTENDS Integers, FiniteSets

CONSTANTS
  Dimension,      \* board->dimension
  RandomColumns   \* bound: the columns rand() % dimension gives

ASSUME DimensionAssumption ==
  Dimension \in Nat \ {0} /\ RandomColumns \subseteq 0 .. Dimension - 1

Index == 0 .. Dimension - 1
Boards == [Index -> [Index -> 0 .. 2]]
EmptyBoard == [row \in Index |-> [col \in Index |-> 0]]

NoMove == [row |-> -1, col |-> -1]     \* a NULL GameMove*
Moves == [row : Index, col : Index]

\* Mutant: the search starts at the top, so that a piece does not fall.
OpenFromTop(board, col) ==
  IF board[0][col] = 0 THEN 0 ELSE -1

\* The lowest empty square of a column; -1 when the column is full.
findFirstOpenPosition(board, col) ==
  CHOOSE row \in -1 .. Dimension - 1 :
    /\ row = -1 \/ board[row][col] = 0
    /\ \A r \in row + 1 .. Dimension - 1 : board[r][col] # 0

\* The topmost piece of a column; the bottom square when there is none.
findTopPiecePosition(board, col) ==
  CHOOSE row \in Index :
    /\ row = Dimension - 1 \/ board[row][col] # 0
    /\ \A r \in 0 .. row - 1 : board[r][col] = 0

\* Mutant: row and column of the move are swapped.
PlaceSwapped(board, value, row, col) ==
  LET top == findFirstOpenPosition(board, row)
  IN  IF top = -1 THEN [board |-> board, move |-> NoMove]
      ELSE [board |-> [board EXCEPT ![top][row] = value],
            move  |-> [row |-> top, col |-> row]]

\* The row that is asked for is only tested for its range: the piece falls.
placePieceAtPosition(board, value, row, col) ==
  LET top == findFirstOpenPosition(board, col)
  IN  IF row \notin 0 .. Dimension \/ col \notin 0 .. Dimension \/ top = -1
      THEN [board |-> board, move |-> NoMove]
      ELSE [board |-> [board EXCEPT ![top][col] = value],
            move  |-> [row |-> top, col |-> col]]

placePieceInColumn(board, value, col) == placePieceAtPosition(board, value, 0, col)

-----------------------------------------------------------------------------
\* n pieces of one player in a row, from a square on in a direction.
Run(board, value, row, col, down, right, n) ==
  \A k \in 0 .. n - 1 :
    /\ row + k * down \in Index /\ col + k * right \in Index
    /\ board[row + k * down][col + k * right] = value

DIR_LEFT == -1
DIR_RIGHT == 1

\* The searches count the pieces of a run; a win is a count of exactly four.
Exactly(board, search, row, col, down, right, n) ==
  /\ Run(board, search, row, col, down, right, n)
  /\ ~Run(board, search, row, col, down, right, n + 1)

searchHorizontally(board, search, direction, row, col, matches) ==
  Exactly(board, search, row, col, 0, direction, matches)
searchDiagonally(board, search, direction, row, col, matches) ==
  Exactly(board, search, row, col, 1, direction, matches)
searchDown(board, search, row, col, matches) ==
  Exactly(board, search, row, col, 1, 0, matches)

\* Mutant: three in a row are enough.
WinAtThree(board, value) ==
  \E col \in Index :
    searchDown(board, value, findTopPiecePosition(board, col), col, 3)

\* A win is looked for from the topmost piece of each column, to the left and
\* along both diagonals only from the fourth column on.
checkForWin(board, value) ==
  \E col \in Index : \E top \in {findTopPiecePosition(board, col)} :
    /\ board[top][col] # 0
    /\ \/ /\ col >= 3
          /\ \/ searchHorizontally(board, value, DIR_LEFT, top, col, 4)
             \/ /\ top <= Dimension - 4
                /\ searchDiagonally(board, value, DIR_LEFT, top, col, 4)
             \/ /\ top # Dimension - 1
                /\ searchDiagonally(board, value, DIR_RIGHT, top, col, 4)
       \/ /\ col <= Dimension - 4
          /\ searchHorizontally(board, value, DIR_RIGHT, top, col, 4)
       \/ searchDown(board, value, top, col, 4)

-----------------------------------------------------------------------------
(***************************************************************************)
(* placePieceAtBestPosition.                                                *)
(***************************************************************************)
\* n own pieces next to the square a piece would fall on.  The three searches
\* downwards begin on that square itself, which is empty.
Promises(board, value, col, n) ==
  \E open \in {findFirstOpenPosition(board, col)} :
    \/ /\ open # Dimension - 1
       /\ \E side \in -1 .. 1 : Run(board, value, open, col, 1, side, n)
    \/ Run(board, value, open, col - 1, 0, DIR_LEFT, n)
    \/ Run(board, value, open, col + 1, 0, DIR_RIGHT, n)

\* The first column that promises most; any column when none promises anything.
BestColumns(board, value) ==
  IF \A col \in Index : ~Promises(board, value, col, 1) THEN RandomColumns
  ELSE {col \in Index : \E n \in 1 .. Dimension :
          /\ Promises(board, value, col, n)
          /\ \A c \in Index : ~Promises(board, value, c, n + 1)
          /\ \A c \in 0 .. col - 1 : ~Promises(board, value, c, n)}

\* A full column makes the search read rows[-1], which lies before the array.
ReadsOutside(board) == \E col \in Index : findFirstOpenPosition(board, col) = -1

-----------------------------------------------------------------------------
\* Four squares in a line that a player owns: the game's own notion of a win.
HasLine(board, value) ==
  \E row, col \in Index : \E d \in {<<0, 1>>, <<1, 0>>, <<1, 1>>, <<1, -1>>} :
    Run(board, value, row, col, d[1], d[2], 4)

\* No piece has an empty square below it.
Settled(board) ==
  \A row, col \in Index :
    board[row][col] # 0 /\ row < Dimension - 1 => board[row + 1][col] # 0

PiecesIn(board, col, value) == Cardinality({row \in Index : board[row][col] = value})

==============================================================================
