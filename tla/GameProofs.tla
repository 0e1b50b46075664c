----------------------------- MODULE GameProofs ------------------------------
(***************************************************************************)
(* Proofs about the games between processes, for any number of games, any   *)
(* size of the board and whatever the children choose: the boards and pipes *)
(* stay in order, and why the processes may all wait for each other.        *)
(***************************************************************************)
EXTENDS Game, FiniteSetTheorems, SequenceTheorems, WellFoundedInduction, TLAPS

-----------------------------------------------------------------------------
(***************************************************************************)
(* The searches of the board find what they look for.                       *)
(***************************************************************************)

\* A set of numbers has a least one: among the intervals from 0 to its members,
\* which are finite sets, one has no other below it.
LEMMA LeastElement ==
  ASSUME NEW S \in SUBSET Nat, S # {}
  PROVE  Least(S) \in S /\ \A m \in S : Least(S) <= m
<1> DEFINE Intervals == {0 .. n : n \in S}
<1>1. Intervals \subseteq FiniteSubsetsOf(Nat) /\ Intervals # {}
  <2> SUFFICES ASSUME NEW n \in S PROVE 0 .. n \in FiniteSubsetsOf(Nat)
    OBVIOUS
  <2>1. IsFiniteSet(0 .. n)
    BY FS_Interval
  <2> QED  BY <2>1 DEF FiniteSubsetsOf
<1>2. PICK X \in Intervals :
        \A Y \in Intervals : <<Y, X>> \notin StrictSubsetOrdering(Nat)
  <2> HIDE DEF Intervals
  <2> QED  BY <1>1, FS_StrictSubsetOrderingWellFounded, WFMin
<1>3. PICK n \in S : X = 0 .. n
  OBVIOUS
<1>4. ASSUME NEW m \in S, m < n
      PROVE  FALSE
  <2>1. n \in X /\ n \notin 0 .. m
    BY <1>3, <1>4
  <2>2. 0 .. m \subseteq X /\ X \subseteq Nat
    BY <1>3, <1>4
  <2>3. <<0 .. m, X>> \in StrictSubsetOrdering(Nat)
    BY <2>1, <2>2 DEF StrictSubsetOrdering
  <2> QED  BY <1>2, <2>3
<1>5. \A m \in S : n <= m
  BY <1>4
<1> QED  BY <1>5 DEF Least

\* findFirstOpenPosition finds the lowest empty square.
LEMMA FirstOpen ==
  ASSUME NEW b \in Boards, NEW col \in Index
  PROVE  /\ findFirstOpenPosition(b, col) \in -1 .. Dimension - 1
         /\ \/ findFirstOpenPosition(b, col) = -1
            \/ b[findFirstOpenPosition(b, col)][col] = 0
         /\ \A r \in findFirstOpenPosition(b, col) + 1 .. Dimension - 1 : b[r][col] # 0
<1> USE DimensionAssumption DEF Index
<1> DEFINE Empty == {r \in Index : b[r][col] = 0}
           Lowest(row) == /\ row = -1 \/ b[row][col] = 0
                          /\ \A r \in row + 1 .. Dimension - 1 : b[r][col] # 0
<1>1. \E row \in -1 .. Dimension - 1 : Lowest(row)
  <2>1. CASE Empty = {}
    <3>1. Lowest(-1)
      BY <2>1
    <3> QED  BY <3>1
  <2>2. CASE Empty # {}
    <3> DEFINE FromBelow == {Dimension - 1 - r : r \in Empty}
    <3>1. FromBelow \in SUBSET Nat /\ FromBelow # {}
      BY <2>2
    <3>2. PICK n \in FromBelow : \A m \in FromBelow : n <= m
      <4> HIDE DEF FromBelow
      <4> QED  BY <3>1, LeastElement
    <3>3. PICK row \in Empty : n = Dimension - 1 - row
      OBVIOUS
    <3>4. \A r \in Empty : r <= row
      BY <3>2, <3>3
    <3>5. Lowest(row)
      BY <3>4
    <3> QED  BY <3>5
  <2> QED  BY <2>1, <2>2
<1>2. findFirstOpenPosition(b, col) = CHOOSE row \in -1 .. Dimension - 1 : Lowest(row)
  BY DEF findFirstOpenPosition
<1>3. /\ findFirstOpenPosition(b, col) \in -1 .. Dimension - 1
      /\ Lowest(findFirstOpenPosition(b, col))
  <2> HIDE DEF Lowest
  <2> QED  BY <1>1, <1>2
<1> QED  BY <1>3

\* A column is full when no empty square is found.
LEMMA FullColumn ==
  ASSUME NEW b \in Boards, NEW col \in Index
  PROVE  findFirstOpenPosition(b, col) = -1 <=> \A r \in Index : b[r][col] # 0
<1>1. findFirstOpenPosition(b, col) + 1 \in Int
  BY FirstOpen, DimensionAssumption
<1> QED  BY <1>1, FirstOpen, DimensionAssumption DEF Index

\* findTopPiecePosition finds the topmost piece, and it alone.
Topmost(b, col, top) ==
  /\ top = Dimension - 1 \/ b[top][col] # 0
  /\ \A r \in 0 .. top - 1 : b[r][col] = 0

LEMMA FirstTop ==
  ASSUME NEW b \in Boards, NEW col \in Index
  PROVE  /\ findTopPiecePosition(b, col) \in Index
         /\ Topmost(b, col, findTopPiecePosition(b, col))
         /\ \A top \in Index : Topmost(b, col, top) => top = findTopPiecePosition(b, col)
<1> USE DimensionAssumption DEF Index
<1> DEFINE Taken == {r \in Index : b[r][col] # 0}
<1>1. \E top \in Index : Topmost(b, col, top)
  <2>1. CASE Taken = {}
    <3>1. Topmost(b, col, Dimension - 1)
      BY <2>1 DEF Topmost
    <3> QED  BY <3>1
  <2>2. CASE Taken # {}
    <3>1. PICK top \in Taken : \A r \in Taken : top <= r
      <4>1. Taken \in SUBSET Nat
        OBVIOUS
      <4> HIDE DEF Taken
      <4> QED  BY <2>2, <4>1, LeastElement
    <3>2. \A r \in 0 .. top - 1 : r \in Index /\ r \notin Taken
      BY <3>1
    <3>3. Topmost(b, col, top)
      BY <3>1, <3>2 DEF Topmost
    <3> QED  BY <3>1, <3>3
  <2> QED  BY <2>1, <2>2
<1>2. findTopPiecePosition(b, col) = CHOOSE top \in Index : Topmost(b, col, top)
  BY DEF findTopPiecePosition, Topmost
<1>3. \A s, t \in Index : Topmost(b, col, s) /\ Topmost(b, col, t) => s = t
  <2> SUFFICES ASSUME NEW s \in Index, NEW t \in Index, s < t,
                      Topmost(b, col, s), Topmost(b, col, t)
               PROVE  FALSE
    OBVIOUS
  <2>1. b[s][col] = 0
    BY DEF Topmost
  <2> QED  BY <2>1 DEF Topmost
<1> QED  BY <1>1, <1>2, <1>3

With(b, row, col, value) == [b EXCEPT ![row][col] = value]

\* A piece falls onto the lowest empty square of its column, if there is one.
LEMMA PieceFalls ==
  ASSUME NEW b \in Boards, NEW value \in 1 .. 2, NEW row \in Index, NEW col \in Index
  PROVE  \/ /\ findFirstOpenPosition(b, col) = -1
            /\ placePieceAtPosition(b, value, row, col) = [board |-> b, move |-> NoMove]
         \/ \E top \in Index :
              /\ b[top][col] = 0 /\ \A r \in top + 1 .. Dimension - 1 : b[r][col] # 0
              /\ findFirstOpenPosition(b, col) # -1
              /\ placePieceAtPosition(b, value, row, col) =
                   [board |-> With(b, top, col, value),
                    move  |-> [row |-> top, col |-> col]]
<1> USE DimensionAssumption DEF Index
<1>1. CASE findFirstOpenPosition(b, col) = -1
  BY <1>1 DEF placePieceAtPosition
<1>2. CASE findFirstOpenPosition(b, col) # -1
  <2> DEFINE top == findFirstOpenPosition(b, col)
  <2>1. /\ top \in Index /\ b[top][col] = 0
        /\ \A r \in top + 1 .. Dimension - 1 : b[r][col] # 0
    BY <1>2, FirstOpen
  <2>2. row \in 0 .. Dimension /\ col \in 0 .. Dimension
    OBVIOUS
  <2>3. placePieceAtPosition(b, value, row, col) =
          [board |-> With(b, top, col, value), move |-> [row |-> top, col |-> col]]
    BY <1>2, <2>2 DEF placePieceAtPosition, With
  <2> QED  BY <1>2, <2>1, <2>3
<1> QED  BY <1>1, <1>2


\* The board stays one, and loses no piece; a column that is full stays full.
LEMMA PlacedBoard ==
  ASSUME NEW b \in Boards, NEW value \in 1 .. 2, NEW row \in Index, NEW col \in Index
  PROVE  LET placed == placePieceAtPosition(b, value, row, col) IN
         /\ placed.board \in Boards
         /\ placed.move \in Moves \cup {NoMove}
         /\ placed.move # NoMove => placed.move.col = col
         /\ placed.move = NoMove <=> findFirstOpenPosition(b, col) = -1
         /\ \A r, c \in Index :
              \/ placed.board[r][c] = b[r][c]
              \/ b[r][c] = 0 /\ placed.board[r][c] = value
         /\ \A c \in Index : findFirstOpenPosition(b, c) = -1
                              => findFirstOpenPosition(placed.board, c) = -1
         /\ Settled(b) => Settled(placed.board)
<1> DEFINE placed == placePieceAtPosition(b, value, row, col)
<1> USE DimensionAssumption
<1>1. CASE findFirstOpenPosition(b, col) = -1
  <2>1. placed = [board |-> b, move |-> NoMove]
    BY <1>1, PieceFalls
  <2>2. placed.board = b /\ placed.move = NoMove
    BY <2>1
  <2> HIDE DEF placed
  <2>3. \A r, c \in Index : placed.board[r][c] = b[r][c]
    BY <2>2
  <2> QED  BY <1>1, <2>2, <2>3 DEF placed
<1>2. CASE findFirstOpenPosition(b, col) # -1
  <2>1. PICK top \in Index :
          /\ b[top][col] = 0 /\ \A r \in top + 1 .. Dimension - 1 : b[r][col] # 0
          /\ placed = [board |-> With(b, top, col, value),
                       move  |-> [row |-> top, col |-> col]]
    BY <1>2, PieceFalls
  <2>2. /\ placed.board = [b EXCEPT ![top][col] = value]
        /\ placed.move = [row |-> top, col |-> col]
    BY <2>1 DEF With
  <2> HIDE DEF placed
  <2>3. placed.board \in Boards
    BY <2>2 DEF Boards
  <2>4. \A r, c \in Index :
          placed.board[r][c] = IF r = top /\ c = col THEN value ELSE b[r][c]
    BY <2>2 DEF Boards
  <2>5. placed.move \in Moves /\ placed.move # NoMove /\ placed.move.col = col
    <3>1. top # -1
      BY DEF Index
    <3>2. placed.move.row = top /\ NoMove.row = -1 /\ placed.move.col = col
      BY <2>2 DEF NoMove
    <3> QED  BY <2>2, <3>1, <3>2 DEF Moves
  <2>6. ASSUME NEW c \in Index, findFirstOpenPosition(b, c) = -1
        PROVE  findFirstOpenPosition(placed.board, c) = -1
    <3>1. \A r \in Index : b[r][c] # 0
      BY <2>6, FullColumn
    <3>2. \A r \in Index : placed.board[r][c] # 0
      BY <2>4, <3>1
    <3> QED  BY <2>3, <3>2, FullColumn
  <2>7. ASSUME Settled(b) PROVE Settled(placed.board)
    <3> SUFFICES ASSUME NEW r \in Index, NEW c \in Index,
                        placed.board[r][c] # 0, r < Dimension - 1
                 PROVE  placed.board[r + 1][c] # 0
      BY DEF Settled
    <3>1. r + 1 \in Index /\ (r = top => r + 1 \in top + 1 .. Dimension - 1)
      BY DEF Index
    <3>2. CASE r = top /\ c = col
      BY <2>1, <2>4, <3>1, <3>2 DEF Index
    <3>3. CASE ~(r = top /\ c = col)
      BY <2>4, <2>7, <3>1, <3>3 DEF Settled
    <3> QED  BY <3>2, <3>3
  <2>8. \A r, c \in Index :
          \/ placed.board[r][c] = b[r][c]
          \/ b[r][c] = 0 /\ placed.board[r][c] = value
    BY <2>1, <2>4
  <2> QED  BY <1>2, <2>3, <2>5, <2>6, <2>7, <2>8 DEF placed
<1> QED  BY <1>1, <1>2

Ones(b, col) == {row \in Index : b[row][col] = 1}

LEMMA PiecesFinite ==
  ASSUME NEW b, NEW col
  PROVE  /\ IsFiniteSet(Ones(b, col))
         /\ PiecesIn(b, col, 1) = Cardinality(Ones(b, col))
         /\ PiecesIn(b, col, 1) \in Nat
<1>1. IsFiniteSet(Index)
  BY DimensionAssumption, FS_Interval DEF Index
<1>2. IsFiniteSet(Ones(b, col))
  BY <1>1, FS_Subset DEF Ones
<1>3. PiecesIn(b, col, 1) = Cardinality(Ones(b, col))
  BY DEF PiecesIn, Ones
<1> QED  BY <1>2, <1>3, FS_CardinalityType

\* A piece is one more of its own in its column, unless the column is full, and
\* none of the other player's.
LEMMA PiecesCounted ==
  ASSUME NEW b \in Boards, NEW value \in 1 .. 2, NEW row \in Index, NEW col \in Index,
         NEW c \in Index
  PROVE  LET placed == placePieceAtPosition(b, value, row, col) IN
         PiecesIn(placed.board, c, 1) = PiecesIn(b, c, 1) +
           IF value = 1 /\ c = col /\ findFirstOpenPosition(b, col) # -1 THEN 1 ELSE 0
<1> DEFINE placed == placePieceAtPosition(b, value, row, col)
<1>0. PiecesIn(b, c, 1) \in Nat
  BY PiecesFinite
<1>1. CASE findFirstOpenPosition(b, col) = -1
  <2>1. placed.board = b
    BY <1>1, PieceFalls
  <2> HIDE DEF placed
  <2>2. PiecesIn(placed.board, c, 1) = PiecesIn(b, c, 1)
    BY <2>1
  <2> QED  BY <1>0, <1>1, <2>2 DEF placed
<1>2. CASE findFirstOpenPosition(b, col) # -1
  <2>1. PICK top \in Index : /\ b[top][col] = 0
                             /\ placed.board = With(b, top, col, value)
    BY <1>2, PieceFalls
  <2> HIDE DEF placed
  <2>2. \A r \in Index : placed.board[r][c] = IF r = top /\ c = col THEN value ELSE b[r][c]
    BY <2>1 DEF With, Boards
  <2>3. CASE value = 1 /\ c = col
    <3>1. Ones(placed.board, c) = Ones(b, c) \cup {top} /\ top \notin Ones(b, c)
      BY <2>1, <2>2, <2>3 DEF Ones
    <3>2. Cardinality(Ones(placed.board, c)) = Cardinality(Ones(b, c)) + 1
      BY <3>1, PiecesFinite, FS_AddElement
    <3> QED  BY <1>2, <2>3, <3>2, PiecesFinite DEF placed
  <2>4. CASE ~(value = 1 /\ c = col)
    <3>1. Ones(placed.board, c) = Ones(b, c)
      BY <2>1, <2>2, <2>4 DEF Ones
    <3>2. PiecesIn(placed.board, c, 1) = PiecesIn(b, c, 1)
      BY <3>1, PiecesFinite
    <3> QED  BY <1>0, <2>4, <3>2 DEF placed
  <2> QED  BY <2>3, <2>4
<1> QED  BY <1>1, <1>2

-----------------------------------------------------------------------------
(***************************************************************************)
(* The test for a win.                                                      *)
(***************************************************************************)

\* What checkForWin finds is a line.
LEMMA WinIsLine ==
  ASSUME NEW b \in Boards, NEW value, checkForWin(b, value)
  PROVE  HasLine(b, value)
<1> USE DimensionAssumption
<1> DEFINE Directions == {<<0, 1>>, <<1, 0>>, <<1, 1>>, <<1, -1>>}
<1>1. PICK col \in Index, top \in Index :
        \/ Run(b, value, top, col, 0, -1, 4)
        \/ Run(b, value, top, col, 1, -1, 4)
        \/ Run(b, value, top, col, 1, 1, 4)
        \/ Run(b, value, top, col, 0, 1, 4)
        \/ Run(b, value, top, col, 1, 0, 4)
  BY FirstTop DEF checkForWin, searchHorizontally, searchDiagonally, searchDown, Exactly,
                  DIR_LEFT, DIR_RIGHT
<1>2. ASSUME NEW r \in Index, NEW c \in Index, NEW dr \in {0, 1}, NEW dc \in {-1, 0, 1},
             <<dr, dc>> \in Directions, Run(b, value, r, c, dr, dc, 4)
      PROVE  HasLine(b, value)
  <2>1. /\ <<dr, dc>>[1] = dr /\ <<dr, dc>>[2] = dc
    OBVIOUS
  <2> QED  BY <1>2, <2>1, Zenon DEF HasLine
<1>3. CASE Run(b, value, top, col, 0, -1, 4)
  <2>1. \A k \in 0 .. 3 : /\ top + k * 0 \in Index /\ col + k * (-1) \in Index
                          /\ b[top + k * 0][col + k * (-1)] = value
    BY <1>3 DEF Run
  <2>2. \A k \in 0 .. 3 : top + k * 0 = top /\ col + k * (-1) = col - k
    BY DEF Index
  <2>3. \A k \in 0 .. 3 : col - k \in Index /\ b[top][col - k] = value
    BY <2>1, <2>2
  <2>4. col - 3 \in Index
    BY <2>3
  <2>5. \A k \in 0 .. 4 - 1 : /\ top + k * 0 \in Index /\ (col - 3) + k * 1 \in Index
                              /\ b[top + k * 0][(col - 3) + k * 1] = value
    <3> SUFFICES ASSUME NEW k \in 0 .. 4 - 1
                 PROVE  /\ top + k * 0 \in Index /\ (col - 3) + k * 1 \in Index
                        /\ b[top + k * 0][(col - 3) + k * 1] = value
      OBVIOUS
    <3>1. 3 - k \in 0 .. 3 /\ top + k * 0 = top /\ (col - 3) + k * 1 = col - (3 - k)
      BY DEF Index
    <3> QED  BY <2>3, <3>1
  <2>6. Run(b, value, top, col - 3, 0, 1, 4)
    BY <2>5 DEF Run
  <2> QED  BY <1>2, <2>4, <2>6
<1> QED  BY <1>1, <1>2, <1>3

\* The parent's piece makes no win for the child.
LEMMA NoNewWin ==
  ASSUME NEW b \in Boards, NEW row \in Index, NEW col \in Index,
         checkForWin(placePieceAtPosition(b, 1, row, col).board, 2)
  PROVE  checkForWin(b, 2)
<1> DEFINE p == placePieceAtPosition(b, 1, row, col).board
<1>1. p \in Boards /\ \A r, c \in Index : p[r][c] = b[r][c] \/ (b[r][c] = 0 /\ p[r][c] = 1)
  BY PlacedBoard
<1> HIDE DEF p
<1>2. \A r, c \in Index : p[r][c] = 2 <=> b[r][c] = 2
  BY <1>1
<1>3. \A r, c, dr, dc, n : Run(p, 2, r, c, dr, dc, n) <=> Run(b, 2, r, c, dr, dc, n)
  BY <1>2 DEF Run
<1>4. PICK c \in Index :
        LET top == findTopPiecePosition(p, c) IN
        /\ p[top][c] # 0
        /\ \/ /\ c >= 3
              /\ \/ searchHorizontally(p, 2, DIR_LEFT, top, c, 4)
                 \/ top <= Dimension - 4 /\ searchDiagonally(p, 2, DIR_LEFT, top, c, 4)
                 \/ top # Dimension - 1 /\ searchDiagonally(p, 2, DIR_RIGHT, top, c, 4)
           \/ c <= Dimension - 4 /\ searchHorizontally(p, 2, DIR_RIGHT, top, c, 4)
           \/ searchDown(p, 2, top, c, 4)
  BY DEF checkForWin, p
<1> DEFINE top == findTopPiecePosition(p, c)
<1>5. top \in Index /\ Topmost(p, c, top)
  BY <1>1, FirstTop
<1>6. p[top][c] = 2
  <2>1. \E dr, dc \in -1 .. 1 : Run(p, 2, top, c, dr, dc, 4)
    <3> HIDE DEF top
    <3> QED  BY <1>4 DEF searchHorizontally, searchDiagonally, searchDown, Exactly,
                         DIR_LEFT, DIR_RIGHT, top
  <2>2. PICK dr \in -1 .. 1, dc \in -1 .. 1 : Run(p, 2, top, c, dr, dc, 4)
    BY <2>1
  <2> HIDE DEF top
  <2>3. 0 \in 0 .. 4 - 1 /\ top + 0 * dr = top /\ c + 0 * dc = c
    BY <1>5, DimensionAssumption DEF Index
  <2> QED  BY <2>2, <2>3 DEF Run
<1>7. Topmost(b, c, top)
  <2> HIDE DEF top
  <2>1. b[top][c] # 0
    BY <1>2, <1>5, <1>6
  <2>2. \A r \in 0 .. top - 1 : r \in Index
    BY <1>5, DimensionAssumption DEF Index
  <2>3. \A r \in 0 .. top - 1 : b[r][c] = 0
    BY <1>1, <1>5, <2>2 DEF Topmost
  <2> QED  BY <2>1, <2>3 DEF Topmost
<1>8. top = findTopPiecePosition(b, c)
  BY <1>5, <1>7, FirstTop
<1>9. b[top][c] # 0
  BY <1>2, <1>5, <1>6
<1>10. \A dr, dc : Exactly(p, 2, top, c, dr, dc, 4) <=> Exactly(b, 2, top, c, dr, dc, 4)
  BY <1>3 DEF Exactly
<1> QED
  <2> HIDE DEF top
  <2> QED  BY <1>4, <1>8, <1>9, <1>10 DEF checkForWin, searchHorizontally, searchDiagonally,
                                          searchDown, top

LEMMA EmptyBoardEmpty ==
  /\ EmptyBoard \in Boards /\ Settled(EmptyBoard) /\ ~checkForWin(EmptyBoard, 2)
  /\ \A col \in Index : findFirstOpenPosition(EmptyBoard, col) # -1
<1> USE DimensionAssumption
<1>1. EmptyBoard \in Boards /\ \A r, c \in Index : EmptyBoard[r][c] = 0
  BY DEF EmptyBoard, Boards
<1> HIDE DEF EmptyBoard
<1>2. Settled(EmptyBoard)
  BY <1>1 DEF Settled
<1>3. ~checkForWin(EmptyBoard, 2)
  BY <1>1, FirstTop DEF checkForWin
<1>4. 0 \in Index
  BY DEF Index
<1> QED  BY <1>1, <1>2, <1>3, <1>4, FullColumn

-----------------------------------------------------------------------------
(***************************************************************************)
(* The inductive invariant.                                                 *)
(***************************************************************************)
IInv == Inv /\ ParentPiecesAgree /\ FinishedHasLine

\* A pipe holds nothing or one move.
LEMMA OneOrNone ==
  ASSUME NEW S, NEW s \in Seq(S), Len(s) <= 1, s # <<>>
  PROVE  s[1] \in S /\ Len(s) = 1 /\ Tail(s) = <<>>
<1>1. Len(s) = 1
  <2> DEFINE n == Len(s)
  <2>1. n \in Nat \ {0} /\ n <= 1
    BY EmptySeq
  <2> HIDE DEF n
  <2>2. n = 1
    BY <2>1
  <2> QED  BY <2>2 DEF n
<1>2. s[1] \in S
  BY <1>1, ElementOfSeq
<1>3. Tail(s) \in Seq(S) /\ Len(Tail(s)) = 0
  BY <1>1, HeadTailProperties
<1>4. Tail(s) = <<>>
  BY <1>3, EmptySeq
<1> QED  BY <1>1, <1>2, <1>4

LEMMA OneMove ==
  ASSUME NEW S, NEW m \in S
  PROVE  /\ Append(<<>>, m) = <<m>> /\ <<m>> \in Seq(S) /\ <<m>> # <<>>
         /\ Len(<<m>>) = 1 /\ <<m>>[1] = m /\ Len(<<>>) = 0 /\ <<>> \in Seq(S)
OBVIOUS

LEMMA GamesFacts ==
  /\ 0 \in Games /\ Games \subseteq Nat
  /\ IsFiniteSet(Games) /\ Cardinality(Games) = Children
<1> USE ChildrenAssumption
<1>1. IsFiniteSet(0 .. Children - 1) /\ Cardinality(0 .. Children - 1) = Children
  BY FS_Interval
<1> QED  BY <1>1 DEF Games

Finished == {g \in Games : finished[g]}

LEMMA FinishedCounted ==
  /\ IsFiniteSet(Finished) /\ Cardinality(Finished) \in 0 .. Children
  /\ Cardinality(Finished) = Children => Finished = Games
  /\ Counted <=> /\ games_complete = Cardinality(Finished) \/ \E g \in Games : Lost(g)
                 /\ parent \in {"reap", "exit"} => games_complete = Children
<1>1. Finished \subseteq Games
  BY DEF Finished
<1>2. /\ IsFiniteSet(Finished) /\ Cardinality(Finished) \in Nat
      /\ Cardinality(Finished) <= Children
      /\ Cardinality(Finished) = Children => Finished = Games
  BY <1>1, GamesFacts, FS_Subset, FS_CardinalityType
<1>3. Cardinality(Finished) \in 0 .. Children
  BY <1>2, ChildrenAssumption
<1>4. Counted <=> /\ games_complete = Cardinality(Finished) \/ \E g \in Games : Lost(g)
                  /\ parent \in {"reap", "exit"} => games_complete = Children
  BY DEF Counted, Finished
<1> QED  BY <1>2, <1>3, <1>4

LEMMA InitIInv == Init => IInv
<1> SUFFICES ASSUME Init PROVE IInv
  OBVIOUS
<1> USE DEF Init
<1>1. TypeOK
  BY GamesFacts, EmptyBoardEmpty, ChildrenAssumption, OneMove DEF TypeOK, ParentPoints
<1>2. PiecesSettle
  BY EmptyBoardEmpty DEF PiecesSettle
<1>3. OneMoveInFlight
  BY OneMove DEF OneMoveInFlight
<1>4. Opening /\ ParentsTurn /\ TurnKept
  BY GamesFacts DEF Opening, ParentsTurn, TurnKept, Unopened
<1>5. WinSeen
  BY EmptyBoardEmpty DEF WinSeen
<1>6. Counted
  <2>1. Finished = {}
    BY DEF Finished
  <2> QED  BY <2>1, FinishedCounted, FS_EmptySet
<1>7. ParentPiecesAgree
  BY PiecesFinite DEF ParentPiecesAgree, InFlight
<1>8. FinishedHasLine
  BY DEF FinishedHasLine
<1> QED  BY <1>1, <1>2, <1>3, <1>4, <1>5, <1>6, <1>7, <1>8 DEF IInv, Inv

\* What the for loop goes on with.
LEMMA AdvanceTo ==
  ASSUME TypeOK, Advance(games_complete', finished')
  PROVE  /\ i' \in Games
         /\ \/ parent' = "read" /\ ~finished'[i']
            \/ parent' = "reap" /\ games_complete' = Children
            \/ parent' = "spin"
<1> DEFINE later == {g \in Games : g > i /\ ~finished'[g]}
           others == {g \in Games : ~finished'[g]}
<1>1. later \in SUBSET Nat /\ others \in SUBSET Nat
  BY GamesFacts
<1>2. later # {} => Least(later) \in later
  <2> HIDE DEF later
  <2> QED  BY <1>1, LeastElement
<1>3. others # {} => Least(others) \in others
  <2> HIDE DEF others
  <2> QED  BY <1>1, LeastElement
<1>4. i \in Games
  BY DEF TypeOK
<1> QED  BY <1>2, <1>3, <1>4, GamesFacts DEF Advance

-----------------------------------------------------------------------------
(***************************************************************************)
(* Each step of the parent keeps the invariant.                             *)
(***************************************************************************)
LEMMA ForkStep ==
  ASSUME IInv, Fork \/ ForkFails
  PROVE  IInv'
<1> USE DEF IInv, Inv
<1>1. /\ parent = "fork"
      /\ \/ child' = [child EXCEPT ![i] = "play"] /\ i' = i + 1 /\ i + 1 < Children /\ parent' = "fork"
         \/ child' = [child EXCEPT ![i] = "play"] /\ i' = 0 /\ i + 1 >= Children /\ parent' = "open"
         \/ child' = child /\ i' = i /\ parent' = "error"
      /\ UNCHANGED <<games_complete, lastMove, board, finished, childBoard, down, up>>
  BY ChildrenAssumption DEF Fork, ForkFails, childVars, TypeOK, Games
<1>2. i \in Games /\ child \in [Games -> {"none", "play", "leaving", "gone"}]
  BY DEF TypeOK
<1>3. i' \in Games /\ parent' \in {"fork", "open", "error"}
  BY <1>1, <1>2, ChildrenAssumption DEF Games
<1>4. TypeOK'
  <2>1. child' \in [Games -> {"none", "play", "leaving", "gone"}]
    BY <1>1, <1>2
  <2> QED  BY <1>1, <1>3, <2>1 DEF TypeOK, ParentPoints
<1>5. PiecesSettle' /\ OneMoveInFlight'
  BY <1>1 DEF PiecesSettle, OneMoveInFlight
<1>6. \A g \in Games : Unopened(g) /\ ~finished[g]
  BY <1>1 DEF Opening, Unopened
<1>7. \A g \in Games : child'[g] = "none" => parent' = "error" \/ (parent' = "fork" /\ i' <= g)
  <2> SUFFICES ASSUME NEW g \in Games, child'[g] = "none", parent' # "error"
               PROVE  parent' = "fork" /\ i' <= g
    OBVIOUS
  <2>1. child[g] = "none" /\ g # i /\ i' \in {i + 1, 0}
    BY <1>1, <1>2
  <2>2. i < g
    BY <1>1, <1>2, <2>1 DEF Opening, Games
  <2> QED  BY <1>1, <1>2, <2>2, ChildrenAssumption DEF Games
<1>8. Opening'
  BY <1>1, <1>6, <1>7 DEF Opening
<1>9. ParentsTurn' /\ WinSeen' /\ TurnKept'
  <2>1. ParentsTurn' /\ WinSeen'
    BY <1>1, <1>3 DEF ParentsTurn, WinSeen
  <2>2. \A g \in Games : Unopened(g)' \/ ParentGone'
    BY <1>1, <1>3 DEF Unopened, ParentGone, Games
  <2> QED  BY <2>1, <2>2 DEF TurnKept
<1>10. Counted'
  <2>1. Finished = {} /\ Finished' = {}
    BY <1>1, <1>6 DEF Finished
  <2>2. games_complete' = 0
    BY <1>1 DEF Opening
  <2>3. games_complete' = Cardinality(Finished')
    BY <2>1, <2>2, FS_EmptySet
  <2>4. Finished' = {g \in Games : finished'[g]}
    BY DEF Finished
  <2> QED  BY <1>3, <2>3, <2>4 DEF Counted
<1>11. ParentPiecesAgree'
  BY <1>1, <1>3 DEF ParentPiecesAgree, InFlight
<1>12. FinishedHasLine'
  BY <1>1 DEF FinishedHasLine
<1> QED  BY <1>4, <1>5, <1>8, <1>9, <1>10, <1>11, <1>12

\* The parent's first piece falls on an empty board, and its move is sent.
LEMMA OpenStep ==
  ASSUME IInv, Open
  PROVE  IInv'
<1> USE DEF IInv, Inv
<1>1. /\ parent = "open" /\ i \in Games /\ board[i] = EmptyBoard
      /\ down[i] = <<>> /\ up[i] = <<>> /\ \A g \in Games : ~finished[g] /\ child[g] # "none"
  BY DEF Open, TypeOK, Opening, Unopened, Games
<1>2. PICK col \in Index :
        LET placed == placePieceAtPosition(EmptyBoard, 1, 0, col) IN
        /\ board' = [board EXCEPT ![i] = placed.board]
        /\ lastMove' = placed.move
        /\ down' = [down EXCEPT ![i] = Append(@, placed.move)]
  <2>1. BestColumns(board[i], 1) \subseteq Index
    BY DimensionAssumption DEF BestColumns, Index
  <2> QED  BY <1>1, <2>1 DEF Open
<1>3. /\ UNCHANGED <<games_complete, finished, child, childBoard, up>>
      /\ \/ i' = i + 1 /\ i + 1 < Children /\ parent' = "open"
         \/ i' = 0 /\ i + 1 >= Children /\ parent' = "read"
  BY <1>1, ChildrenAssumption DEF Open, childVars, Games
<1>4. 0 \in Index /\ 1 \in 1 .. 2
  BY DimensionAssumption DEF Index
<1> DEFINE placed == placePieceAtPosition(EmptyBoard, 1, 0, col)
<1>5. /\ placed.board \in Boards /\ Settled(placed.board) /\ ~checkForWin(placed.board, 2)
      /\ placed.move \in Moves /\ placed.move.col = col
  BY <1>4, EmptyBoardEmpty, PlacedBoard, NoNewWin
<1>6. \A c \in Index : PiecesIn(placed.board, c, 1) =
                       PiecesIn(EmptyBoard, c, 1) + IF c = col THEN 1 ELSE 0
  BY <1>4, EmptyBoardEmpty, PiecesCounted
<1> HIDE DEF placed
<1>7. /\ board' = [board EXCEPT ![i] = placed.board] /\ lastMove' = placed.move
      /\ down' = [down EXCEPT ![i] = <<placed.move>>]
  BY <1>1, <1>2, <1>5, OneMove DEF placed
<1>8. i' \in Games /\ parent' \in {"open", "read"}
  BY <1>1, <1>3, GamesFacts, ChildrenAssumption DEF Games
<1>9. TypeOK'
  <2>1. board' \in [Games -> Boards]
    BY <1>1, <1>5, <1>7 DEF TypeOK
  <2>2. \A g \in Games : down'[g] \in Seq(Moves)
    <3>1. <<placed.move>> \in Seq(Moves)
      BY <1>5, OneMove
    <3>2. \A g \in Games : down'[g] = down[g] \/ down'[g] = <<placed.move>>
      BY <1>7
    <3> QED  BY <3>1, <3>2 DEF TypeOK
  <2> QED  BY <1>3, <1>5, <1>7, <1>8, <2>1, <2>2 DEF TypeOK, ParentPoints
<1>10. PiecesSettle' /\ WinSeen' /\ FinishedHasLine'
  <2>1. \A g \in Games : board'[g] = board[g] \/ board'[g] = placed.board
    BY <1>7 DEF TypeOK
  <2>2. \A g \in Games : ~checkForWin(board[g], 2)
    BY <1>1 DEF WinSeen
  <2> QED  BY <1>1, <1>3, <1>5, <2>1, <2>2 DEF PiecesSettle, WinSeen, FinishedHasLine
<1>11. /\ down'[i] = <<placed.move>> /\ board'[i] = placed.board
       /\ \A g \in Games \ {i} : down'[g] = down[g] /\ board'[g] = board[g]
  BY <1>1, <1>7 DEF TypeOK
<1>12. OneMoveInFlight'
  <2>1. Len(down'[i]) = 1 /\ Len(up'[i]) = 0
    BY <1>1, <1>3, <1>5, <1>11, OneMove
  <2>2. Len(down'[i]) + Len(up'[i]) <= 1
    BY <2>1
  <2>3. \A g \in Games \ {i} : Len(down'[g]) + Len(up'[g]) <= 1
    BY <1>3, <1>11 DEF OneMoveInFlight
  <2> QED  BY <2>2, <2>3 DEF OneMoveInFlight
<1>13. Opening'
  <2>1. \A g \in Games : Unopened(g)' => g # i /\ Unopened(g)
    BY <1>1, <1>3 DEF Unopened, Games
  <2>2. \A g \in Games : Unopened(g)' => board'[g] = EmptyBoard /\ down'[g] = <<>> /\ up'[g] = <<>>
    BY <1>3, <1>11, <2>1 DEF Opening
  <2>3. games_complete' = 0 /\ \A g \in Games : ~finished'[g] /\ child'[g] # "none"
    BY <1>1, <1>3 DEF Opening
  <2> QED  BY <2>2, <2>3 DEF Opening
<1>14. ParentsTurn'
  BY <1>1, <1>3, <1>5, <1>7, <1>8 DEF ParentsTurn
<1>15. TurnKept'
  <2>0. down'[i] # <<>>
    BY <1>5, <1>11, OneMove
  <2> SUFFICES ASSUME NEW g \in Games, g # i, ~Unopened(g)', ~finished[g],
                      child[g] = "play", ~ReadsOutside(childBoard[g])
               PROVE  down[g] # <<>> \/ up[g] # <<>>
    <3>1. \A g \in Games \ {i} : down'[g] = down[g] /\ up'[g] = up[g]
      BY <1>3, <1>11
    <3> QED  BY <1>3, <2>0, <3>1, Zenon DEF TurnKept
  <2>1. ~Unopened(g) /\ ~ParentGone
    BY <1>1, <1>3, ChildrenAssumption DEF Unopened, ParentGone, Games
  <2> QED  BY <1>1, <2>1 DEF TurnKept
<1>16. Counted'
  <2>1. {g \in Games : finished'[g]} = {}
    BY <1>1, <1>3
  <2>2. games_complete' = Cardinality({g \in Games : finished'[g]})
    BY <1>1, <1>3, <2>1, FS_EmptySet DEF Opening
  <2> QED  BY <1>8, <2>2 DEF Counted
<1>17. ParentPiecesAgree'
  <2> SUFFICES ASSUME NEW g \in Games, NEW c \in Index, findFirstOpenPosition(childBoard[g], c) # -1
               PROVE  PiecesIn(board'[g], c, 1) = PiecesIn(childBoard[g], c, 1) + InFlight(g, c)'
    BY <1>3 DEF ParentPiecesAgree
  <2>1. PiecesIn(board[g], c, 1) = PiecesIn(childBoard[g], c, 1) + InFlight(g, c)
    BY <1>1 DEF ParentPiecesAgree, WinSeen
  <2>2. CASE g # i
    BY <1>1, <1>8, <1>11, <2>1, <2>2 DEF InFlight
  <2>3. CASE g = i
    <3>1. InFlight(g, c) = 0
      BY <1>1, <2>3 DEF InFlight
    <3>2. InFlight(g, c)' = IF c = col THEN 1 ELSE 0
      BY <1>5, <1>8, <1>11, <2>3, OneMove DEF InFlight
    <3>3. PiecesIn(childBoard[g], c, 1) \in Nat
      BY PiecesFinite
    <3> QED  BY <1>1, <1>6, <1>11, <2>1, <2>3, <3>1, <3>2, <3>3
  <2> QED  BY <2>2, <2>3
<1> QED  BY <1>9, <1>10, <1>12, <1>13, <1>14, <1>15, <1>16, <1>17

\* The parent reads the child's move, places its piece where its own last move
\* went and, unless that wins the game, places a piece of its own.
LEMMA ReadMoveStep ==
  ASSUME IInv, ReadMove
  PROVE  IInv'
<1> USE DEF IInv, Inv
<1>1. /\ parent = "read" /\ i \in Games /\ ~finished[i] /\ up[i] # <<>>
      /\ lastMove \in Moves /\ lastMove.row \in Index /\ lastMove.col \in Index
      /\ ~checkForWin(board[i], 2)
  <2>1. parent = "read" /\ up[i] # <<>> /\ i \in Games
    BY DEF ReadMove, HasMove, TypeOK
  <2>2. ~finished[i] /\ lastMove \in Moves
    BY <2>1 DEF ParentsTurn
  <2> QED  BY <2>1, <2>2 DEF WinSeen, Moves
<1> DEFINE answered == placePieceAtPosition(board[i], 2, lastMove.row, lastMove.col).board
<1>2. /\ answered \in Boards /\ Settled(answered)
      /\ \A c \in Index : PiecesIn(answered, c, 1) = PiecesIn(board[i], c, 1)
  <2>1. board[i] \in Boards /\ Settled(board[i]) /\ 2 \in 1 .. 2
    BY <1>1 DEF TypeOK, PiecesSettle
  <2>2. answered \in Boards /\ Settled(answered)
    BY <1>1, <2>1, PlacedBoard
  <2>3. \A c \in Index : PiecesIn(answered, c, 1) = PiecesIn(board[i], c, 1) + 0
    BY <1>1, <2>1, PiecesCounted
  <2>4. \A c \in Index : PiecesIn(board[i], c, 1) \in Nat
    BY PiecesFinite
  <2> QED  BY <2>2, <2>3, <2>4
<1>3. PICK b \in Boards :
        /\ Settled(b) /\ board' = [board EXCEPT ![i] = b] /\ lastMove' \in Moves
        /\ \/ /\ parent' = "write" /\ checkForWin(b, 2)
           \/ /\ parent' = "segv" /\ ~checkForWin(b, 2)
              /\ \A c \in Index : PiecesIn(b, c, 1) = PiecesIn(board[i], c, 1)
           \/ /\ parent' = "write" /\ ~checkForWin(b, 2)
              /\ \A c \in Index : PiecesIn(b, c, 1) =
                   PiecesIn(board[i], c, 1) + IF lastMove'.col = c THEN 1 ELSE 0
  <2> HIDE DEF answered
  <2>1. CASE /\ checkForWin(answered, 2) /\ board' = [board EXCEPT ![i] = answered]
             /\ parent' = "write" /\ lastMove' = lastMove
    BY <1>1, <1>2, <2>1
  <2>2. CASE /\ ~checkForWin(answered, 2) /\ board' = [board EXCEPT ![i] = answered]
             /\ parent' = "segv" /\ lastMove' = lastMove
    BY <1>1, <1>2, <2>2
  <2>3. ASSUME ~checkForWin(answered, 2), ~ReadsOutside(answered), parent' = "write",
               NEW col \in BestColumns(answered, 1),
               board' = [board EXCEPT ![i] = placePieceAtPosition(answered, 1, 0, col).board],
               lastMove' = placePieceAtPosition(answered, 1, 0, col).move
        PROVE  \E b \in Boards :
                 /\ Settled(b) /\ board' = [board EXCEPT ![i] = b] /\ lastMove' \in Moves
                 /\ parent' = "write" /\ ~checkForWin(b, 2)
                 /\ \A c \in Index : PiecesIn(b, c, 1) =
                      PiecesIn(board[i], c, 1) + IF lastMove'.col = c THEN 1 ELSE 0
    <3>1. col \in Index /\ 0 \in Index /\ 1 \in 1 .. 2
      BY DimensionAssumption DEF BestColumns, Index
    <3>2. findFirstOpenPosition(answered, col) # -1
      BY <2>3, <3>1 DEF ReadsOutside
    <3> DEFINE placed == placePieceAtPosition(answered, 1, 0, col)
    <3>3. /\ placed.board \in Boards /\ Settled(placed.board) /\ ~checkForWin(placed.board, 2)
          /\ placed.move \in Moves /\ placed.move.col = col
      BY <1>2, <2>3, <3>1, <3>2, PlacedBoard, NoNewWin
    <3>4. \A c \in Index : PiecesIn(placed.board, c, 1) =
                           PiecesIn(answered, c, 1) + IF c = col THEN 1 ELSE 0
      BY <1>2, <3>1, <3>2, PiecesCounted
    <3>5. board' = [board EXCEPT ![i] = placed.board] /\ lastMove' = placed.move
      BY <2>3
    <3> HIDE DEF placed
    <3>6. \A c \in Index : PiecesIn(placed.board, c, 1) =
                           PiecesIn(board[i], c, 1) + IF lastMove'.col = c THEN 1 ELSE 0
      BY <1>2, <3>3, <3>4, <3>5
    <3> QED  BY <2>3, <3>3, <3>5, <3>6
  <2>4. \/ /\ checkForWin(answered, 2) /\ board' = [board EXCEPT ![i] = answered]
           /\ parent' = "write" /\ lastMove' = lastMove
        \/ /\ ~checkForWin(answered, 2) /\ board' = [board EXCEPT ![i] = answered]
           /\ parent' = "segv" /\ lastMove' = lastMove
        \/ /\ ~checkForWin(answered, 2) /\ ~ReadsOutside(answered) /\ parent' = "write"
           /\ \E col \in BestColumns(answered, 1) :
                /\ board' = [board EXCEPT ![i] = placePieceAtPosition(answered, 1, 0, col).board]
                /\ lastMove' = placePieceAtPosition(answered, 1, 0, col).move
    BY DEF ReadMove, answered
  <2> QED  BY <2>1, <2>2, <2>3, <2>4
<1>4. /\ down[i] = <<>> /\ Tail(up[i]) = <<>>
      /\ up' = [up EXCEPT ![i] = Tail(up[i])]
  <2>1. up[i] \in Seq(Moves) /\ down[i] \in Seq(Moves) /\ Len(down[i]) + Len(up[i]) <= 1
    BY <1>1 DEF TypeOK, OneMoveInFlight
  <2> DEFINE m == Len(down[i])
             n == Len(up[i])
  <2>2. n \in Nat \ {0} /\ m \in Nat /\ m + n <= 1 /\ (down[i] # <<>> => m # 0)
    BY <1>1, <2>1, EmptySeq, LenProperties
  <2> HIDE DEF m, n
  <2>3. n <= 1 /\ down[i] = <<>>
    BY <2>2
  <2> USE DEF n
  <2> QED  BY <1>1, <2>1, <2>3, OneOrNone DEF ReadMove
<1>5. /\ i' = i
      /\ \A g \in Games \ {i} : board'[g] = board[g] /\ up'[g] = up[g]
      /\ up'[i] = <<>> /\ board'[i] = b
      /\ UNCHANGED <<games_complete, finished, childBoard, down>>
  BY <1>1, <1>3, <1>4 DEF ReadMove, TypeOK
<1>6. /\ child' \in [Games -> {"none", "play", "leaving", "gone"}]
      /\ \A g \in Games : child'[g] = child[g] \/ (child[g] = "play" /\ child'[g] = "leaving")
  <2>1. child' = child \/ (child[i] = "play" /\ child' = [child EXCEPT ![i] = "leaving"])
    BY DEF ReadMove
  <2> QED  BY <1>1, <2>1 DEF TypeOK
<1>7. parent' \in {"write", "segv"} /\ lastMove' \in Moves
  BY <1>3
<1>8. TypeOK'
  <2>1. board' \in [Games -> Boards]
    BY <1>3 DEF TypeOK
  <2>2. up' \in [Games -> Seq(Moves)]
    BY <1>4, OneMove DEF TypeOK
  <2> QED  BY <1>1, <1>5, <1>6, <1>7, <2>1, <2>2 DEF TypeOK, ParentPoints
<1>9. PiecesSettle' /\ OneMoveInFlight'
  <2>1. PiecesSettle'
    BY <1>3, <1>5 DEF PiecesSettle
  <2>2. Len(down'[i]) + Len(up'[i]) <= 1
    <3>1. down'[i] = <<>> /\ up'[i] = <<>> /\ Len(<<>>) = 0
      BY <1>4, <1>5, EmptySeq
    <3> HIDE DEF Inv, IInv
    <3> QED  BY <3>1
  <2>3. \A g \in Games \ {i} : Len(down'[g]) + Len(up'[g]) <= 1
    BY <1>5 DEF OneMoveInFlight
  <2> QED  BY <2>1, <2>2, <2>3 DEF OneMoveInFlight
<1>10. Opening'
  BY <1>1, <1>6, <1>7 DEF Opening, Unopened
<1>11. ParentsTurn' /\ FinishedHasLine'
  BY <1>1, <1>4, <1>5, <1>7 DEF ParentsTurn, FinishedHasLine
<1>12. WinSeen'
  BY <1>1, <1>3, <1>5 DEF WinSeen
<1>13. TurnKept'
  <2> SUFFICES ASSUME NEW g \in Games, g # i, ~finished[g], child[g] = "play",
                      ~ReadsOutside(childBoard[g])
               PROVE  down[g] # <<>> \/ up[g] # <<>>
    BY <1>5, <1>6, <1>7 DEF TurnKept, ParentGone
  <2> QED  BY <1>1 DEF TurnKept, Unopened, ParentGone
<1>14. Counted'
  <2>1. \A g \in Games : Lost(g) => Lost(g)'
    BY <1>1, <1>5, <1>6 DEF Lost
  <2>2. finished' = finished /\ games_complete' = games_complete
    BY <1>5
  <2> QED  BY <1>7, <2>1, <2>2 DEF Counted
<1>15. ParentPiecesAgree'
  <2> SUFFICES ASSUME NEW g \in Games, NEW c \in Index, ~finished[g], ~checkForWin(board'[g], 2),
                      findFirstOpenPosition(childBoard[g], c) # -1
               PROVE  PiecesIn(board'[g], c, 1) = PiecesIn(childBoard[g], c, 1) + InFlight(g, c)'
    BY <1>5 DEF ParentPiecesAgree
  <2>1. PiecesIn(board[g], c, 1) = PiecesIn(childBoard[g], c, 1) + InFlight(g, c)
    BY <1>1 DEF ParentPiecesAgree, WinSeen
  <2>2. CASE g # i
    BY <1>1, <1>5, <2>1, <2>2 DEF InFlight
  <2>3. CASE g = i
    <3>1. InFlight(g, c) = 0
      BY <1>1, <1>4, <2>3 DEF InFlight
    <3>2. InFlight(g, c)' = IF parent' = "write" /\ lastMove'.col = c THEN 1 ELSE 0
      BY <1>4, <1>5, <1>7, <2>3 DEF InFlight
    <3>3. PiecesIn(childBoard[g], c, 1) \in Nat
      BY PiecesFinite
    <3> QED  BY <1>3, <1>5, <2>1, <2>3, <3>1, <3>2, <3>3
  <2> QED  BY <2>2, <2>3
<1> QED  BY <1>8, <1>9, <1>10, <1>11, <1>12, <1>13, <1>14, <1>15

\* The parent's answer is sent, and a game that is won is counted; or there is
\* nobody left to read it.
LEMMA WriteMoveStep ==
  ASSUME IInv, WriteMove
  PROVE  IInv'
<1> USE DEF IInv, Inv
<1>1. /\ parent = "write" /\ i \in Games /\ ~finished[i] /\ lastMove \in Moves
      /\ down[i] = <<>> /\ up[i] = <<>>
      /\ \A g \in Games : child[g] # "none"
  BY DEF WriteMove, TypeOK, ParentsTurn, Opening
<1>2. UNCHANGED <<lastMove, board, child, childBoard, up>>
  BY DEF WriteMove, childVars
<1>3. CASE parent' = "sigpipe" /\ UNCHANGED <<i, games_complete, finished, down>>
  <2>1. TypeOK'
    BY <1>2, <1>3 DEF TypeOK, ParentPoints
  <2>2. PiecesSettle' /\ OneMoveInFlight' /\ FinishedHasLine'
    BY <1>2, <1>3 DEF PiecesSettle, OneMoveInFlight, FinishedHasLine
  <2>3. Opening' /\ ParentsTurn' /\ WinSeen' /\ TurnKept'
    BY <1>1, <1>2, <1>3
       DEF Opening, Unopened, ParentsTurn, WinSeen, TurnKept, ParentGone
  <2>4. Counted'
    BY <1>1, <1>2, <1>3 DEF Counted, Lost
  <2>5. ParentPiecesAgree'
    BY <1>1, <1>2, <1>3 DEF ParentPiecesAgree, InFlight
  <2> QED  BY <2>1, <2>2, <2>3, <2>4, <2>5
<1>4. CASE /\ down' = [down EXCEPT ![i] = Append(@, lastMove)]
           /\ finished' = [finished EXCEPT ![i] = Won(i)]
           /\ games_complete' = IF Won(i) THEN Count(games_complete) ELSE games_complete
           /\ Advance(games_complete', finished')
  <2>1. /\ down' = [down EXCEPT ![i] = <<lastMove>>]
        /\ down'[i] = <<lastMove>> /\ down'[i] # <<>> /\ down'[i][1] = lastMove
        /\ \A g \in Games \ {i} : down'[g] = down[g]
    BY <1>1, <1>4, OneMove DEF TypeOK
  <2>2. Won(i) \in BOOLEAN /\ (~Won(i) => ~checkForWin(board[i], 2))
    BY DEF Won, checkForWin
  <2>3. /\ finished' \in [Games -> BOOLEAN] /\ finished'[i] = Won(i)
        /\ \A g \in Games \ {i} : finished'[g] = finished[g]
    BY <1>1, <1>4, <2>2 DEF TypeOK
  <2>4. /\ i' \in Games
        /\ \/ parent' = "read" /\ ~finished'[i']
           \/ parent' = "reap" /\ games_complete' = Children
           \/ parent' = "spin"
    BY <1>4, AdvanceTo
  <2>5. TypeOK'
    <3>1. games_complete' \in 0 .. Children + 1
      BY <1>4, ChildrenAssumption DEF TypeOK, Count
    <3>2. \A g \in Games : down'[g] \in Seq(Moves)
      BY <1>1, <2>1, OneMove DEF TypeOK
    <3>3. down' \in [Games -> Seq(Moves)]
      BY <2>1, <3>2 DEF TypeOK
    <3> QED  BY <1>2, <2>3, <2>4, <3>1, <3>3 DEF TypeOK, ParentPoints
  <2>6. PiecesSettle' /\ OneMoveInFlight'
    <3>1. Len(down'[i]) = 1 /\ Len(up'[i]) = 0
      BY <1>1, <1>2, <2>1, OneMove
    <3>2. Len(down'[i]) + Len(up'[i]) <= 1
      BY <3>1
    <3>3. \A g \in Games \ {i} : Len(down'[g]) + Len(up'[g]) <= 1
      BY <1>2, <2>1 DEF OneMoveInFlight
    <3> QED  BY <1>2, <3>2, <3>3 DEF PiecesSettle, OneMoveInFlight
  <2>7. Opening' /\ ParentsTurn'
    BY <1>1, <1>2, <2>4 DEF Opening, Unopened, ParentsTurn
  <2>8. WinSeen'
    BY <1>1, <1>2, <2>2, <2>3 DEF WinSeen
  <2>9. TurnKept'
    <3> SUFFICES ASSUME NEW g \in Games, g # i, ~finished[g], child[g] = "play",
                        ~ReadsOutside(childBoard[g])
                 PROVE  down[g] # <<>> \/ up[g] # <<>>
      <4>1. /\ \A g \in Games \ {i} : /\ down'[g] = down[g] /\ up'[g] = up[g]
                                     /\ finished'[g] = finished[g]
            /\ child' = child /\ childBoard' = childBoard /\ down'[i] # <<>>
        BY <1>2, <2>1, <2>3
      <4> QED  BY <4>1, Zenon DEF TurnKept
    <3> QED  BY <1>1 DEF TurnKept, Unopened, ParentGone
  <2>10. Counted'
    <3>1. \A g \in Games : Lost(g) => Lost(g)'
      BY <1>1, <1>2, <2>3, <2>4 DEF Lost
    <3>2. parent' \in {"reap", "exit"} => games_complete' = Children
      BY <2>4
    <3>3. CASE \E g \in Games : Lost(g)
      BY <3>1, <3>2, <3>3 DEF Counted
    <3>4. CASE games_complete = Cardinality(Finished) /\ ~Won(i)
      <4>1. {g \in Games : finished'[g]} = Finished
        BY <1>1, <2>3, <3>4 DEF Finished
      <4>2. games_complete' = Cardinality(Finished)
        BY <1>4, <3>4
      <4> QED  BY <3>2, <4>1, <4>2 DEF Counted
    <3>5. CASE games_complete = Cardinality(Finished) /\ Won(i)
      <4>1. {g \in Games : finished'[g]} = Finished \cup {i} /\ i \notin Finished
        BY <1>1, <2>3, <3>5 DEF Finished
      <4>2. Cardinality(Finished \cup {i}) = Cardinality(Finished) + 1
        BY <4>1, FinishedCounted, FS_AddElement
      <4>3. Cardinality(Finished) \in 0 .. Children /\ Cardinality(Finished) # Children
        BY <1>1, <4>1, FinishedCounted
      <4>4. games_complete' = Cardinality(Finished) + 1
        BY <1>4, <3>5, <4>3, ChildrenAssumption DEF Count
      <4> QED  BY <3>2, <4>1, <4>2, <4>4 DEF Counted
    <3> QED  BY <3>3, <3>4, <3>5, FinishedCounted
  <2>11. FinishedHasLine'
    <3>1. Won(i) => HasLine(board[i], 1) \/ HasLine(board[i], 2)
      BY <1>1, WinIsLine DEF Won, TypeOK
    <3> QED  BY <1>1, <1>2, <2>3, <3>1 DEF FinishedHasLine
  <2>12. ParentPiecesAgree'
    <3> SUFFICES ASSUME NEW g \in Games, NEW c \in Index,
                        ~finished'[g], ~checkForWin(board[g], 2),
                        findFirstOpenPosition(childBoard[g], c) # -1
                 PROVE  PiecesIn(board[g], c, 1) =
                          PiecesIn(childBoard[g], c, 1) + InFlight(g, c)'
      BY <1>2 DEF ParentPiecesAgree
    <3>1. PiecesIn(board[g], c, 1) = PiecesIn(childBoard[g], c, 1) + InFlight(g, c)
      BY <1>1, <2>3 DEF ParentPiecesAgree
    <3>2. InFlight(g, c)' = InFlight(g, c)
      BY <1>1, <1>2, <2>1, <2>4 DEF InFlight
    <3> QED  BY <3>1, <3>2
  <2> QED  BY <2>5, <2>6, <2>7, <2>8, <2>9, <2>10, <2>11, <2>12
<1> QED  BY <1>3, <1>4 DEF WriteMove

\* End-of-file is read only from a child that is gone: its game is lost.
LEMMA ReadEndStep ==
  ASSUME IInv, ReadEnd
  PROVE  IInv'
<1> USE DEF IInv, Inv
<1>1. /\ parent = "read" /\ i \in Games /\ ~finished[i] /\ lastMove \in Moves
      /\ up[i] = <<>> /\ ~ChildEndHeld(i)
      /\ \A g \in Games : child[g] # "none"
  BY DEF ReadEnd, TypeOK, ParentsTurn, Opening
<1>2. /\ UNCHANGED <<lastMove, board, finished, child, childBoard, down, up>>
      /\ games_complete' = Count(games_complete)
  BY DEF ReadEnd, childVars
<1>3. /\ i' \in Games
      /\ \/ parent' = "read" /\ ~finished[i']
         \/ parent' = "reap" /\ games_complete' = Children
  <2> DEFINE left == {g \in Games : ~finished[g]}
  <2>1. left \in SUBSET Nat /\ i \in left
    BY <1>1, GamesFacts
  <2>2. Least(left) \in left
    <3> HIDE DEF left
    <3> QED  BY <2>1, LeastElement
  <2> QED  BY <2>2, GamesFacts DEF ReadEnd
<1>4. \E g \in Games : Lost(g)'
  <2> PICK g \in Games : g = i
    BY <1>1
  <2>1. ~Alive(i)
    <3>1. i >= i
      BY <1>1, GamesFacts
    <3> QED  BY <1>1, <3>1 DEF ChildEndHeld, Alive
  <2>2. child[i] = "gone"
    BY <1>1, <2>1 DEF TypeOK, Alive
  <2> QED  BY <1>1, <1>2, <1>3, <2>2 DEF Lost
<1>5. TypeOK'
  <2>1. games_complete' \in 0 .. Children + 1
    BY <1>2, ChildrenAssumption DEF TypeOK, Count
  <2> QED  BY <1>2, <1>3, <2>1 DEF TypeOK, ParentPoints
<1>6. PiecesSettle' /\ OneMoveInFlight' /\ FinishedHasLine'
  BY <1>2 DEF PiecesSettle, OneMoveInFlight, FinishedHasLine
<1>7. Opening' /\ ParentsTurn' /\ WinSeen'
  BY <1>1, <1>2, <1>3 DEF Opening, Unopened, ParentsTurn, WinSeen
<1>8. TurnKept'
  BY <1>1, <1>2, <1>3 DEF TurnKept, Unopened, ParentGone
<1>9. Counted'
  BY <1>1, <1>3, <1>4 DEF Counted
<1>10. ParentPiecesAgree'
  BY <1>1, <1>2, <1>3 DEF ParentPiecesAgree, InFlight
<1> QED  BY <1>5, <1>6, <1>7, <1>8, <1>9, <1>10

LEMMA ReapStep ==
  ASSUME IInv, Reap
  PROVE  IInv'
<1> USE DEF IInv, Inv
<1>1. /\ parent = "reap" /\ parent' = "exit"
      /\ UNCHANGED <<i, games_complete, lastMove, board, finished, child, childBoard,
                     down, up>>
  BY DEF Reap, childVars
<1>2. TypeOK'
  BY <1>1 DEF TypeOK, ParentPoints
<1>3. PiecesSettle' /\ OneMoveInFlight' /\ FinishedHasLine'
  BY <1>1 DEF PiecesSettle, OneMoveInFlight, FinishedHasLine
<1>4. Opening' /\ ParentsTurn' /\ WinSeen' /\ TurnKept'
  BY <1>1 DEF Opening, Unopened, ParentsTurn, WinSeen, TurnKept, ParentGone
<1>5. Counted'
  BY <1>1 DEF Counted, Lost
<1>6. ParentPiecesAgree'
  BY <1>1 DEF ParentPiecesAgree, InFlight
<1> QED  BY <1>2, <1>3, <1>4, <1>5, <1>6

-----------------------------------------------------------------------------
(***************************************************************************)
(* Each step of a child keeps the invariant.                                *)
(***************************************************************************)
\* A child that leaves or is gone changes nothing but where it is.
LEMMA ChildEnds ==
  ASSUME IInv, NEW g \in Games, ChildEOF(g) \/ ChildExit(g)
  PROVE  IInv'
<1> USE DEF IInv, Inv
<1>1. /\ UNCHANGED <<parent, i, games_complete, lastMove, board, finished, childBoard,
                     down, up>>
      /\ child' \in [Games -> {"none", "play", "leaving", "gone"}]
      /\ \A c \in Games : /\ child'[c] \in {"none", "play"} => child'[c] = child[c]
                          /\ child[c] = "gone" => child'[c] = "gone"
  BY DEF ChildEOF, ChildExit, parentVars, TypeOK
<1>2. TypeOK'
  BY <1>1 DEF TypeOK
<1>3. PiecesSettle' /\ OneMoveInFlight' /\ FinishedHasLine'
  BY <1>1 DEF PiecesSettle, OneMoveInFlight, FinishedHasLine
<1>4. Opening' /\ ParentsTurn' /\ WinSeen' /\ TurnKept'
  BY <1>1 DEF Opening, Unopened, ParentsTurn, WinSeen, TurnKept, ParentGone
<1>5. Counted'
  BY <1>1 DEF Counted, Lost
<1>6. ParentPiecesAgree'
  BY <1>1 DEF ParentPiecesAgree, InFlight
<1> QED  BY <1>2, <1>3, <1>4, <1>5, <1>6

\* What the child's turn does to its board: the parent's piece falls where the
\* parent sent it, and no other of the parent's.  If the child goes on without a
\* move of its own, the column it chose is full.
LEMMA TurnPlaces ==
  ASSUME IInv, NEW g \in Games, ChildTurn(g)
  PROVE  /\ down[g][1] \in Moves /\ up[g] = <<>> /\ down' = [down EXCEPT ![g] = <<>>]
         /\ \E b \in Boards, sent \in Moves \cup {NoMove} :
              /\ Settled(b)
              /\ childBoard' = [childBoard EXCEPT ![g] = b]
              /\ Send(g, sent)
              /\ \/ child' = [child EXCEPT ![g] = "leaving"]
                 \/ /\ child' = [child EXCEPT ![g] = "play"]
                    /\ ParentEndHeld(g)
                    /\ sent = NoMove => ReadsOutside(b)
              /\ \A c \in Index : findFirstOpenPosition(b, c) # -1 =>
                   /\ findFirstOpenPosition(childBoard[g], c) # -1
                   /\ PiecesIn(b, c, 1) = PiecesIn(childBoard[g], c, 1)
                                            + IF c = down[g][1].col THEN 1 ELSE 0
<1> USE DEF IInv, Inv
<1>1. /\ down[g] # <<>> /\ down' = [down EXCEPT ![g] = Tail(@)]
      /\ down[g] \in Seq(Moves) /\ up[g] \in Seq(Moves) /\ Len(down[g]) + Len(up[g]) <= 1
  BY DEF ChildTurn, TypeOK, OneMoveInFlight
<1>2. Len(down[g]) <= 1 /\ up[g] = <<>>
  <2> DEFINE m == Len(down[g])
             n == Len(up[g])
  <2>1. m \in Nat \ {0} /\ n \in Nat /\ m + n <= 1 /\ (up[g] # <<>> => n # 0)
    BY <1>1, EmptySeq, LenProperties
  <2> HIDE DEF m, n
  <2>2. m <= 1 /\ up[g] = <<>>
    BY <2>1
  <2> QED  BY <2>2 DEF m
<1>3. down[g][1] \in Moves /\ Tail(down[g]) = <<>>
  BY <1>1, <1>2, OneOrNone
<1>4. down' = [down EXCEPT ![g] = <<>>]
  BY <1>1, <1>3
<1> DEFINE move == down[g][1]
           theirs == placePieceAtPosition(childBoard[g], 1, move.row, move.col)
<1>5. move.row \in Index /\ move.col \in Index
  BY <1>3 DEF Moves
<1>6. childBoard[g] \in Boards /\ Settled(childBoard[g]) /\ 1 \in 1 .. 2 /\ 2 \in 1 .. 2
  BY DEF TypeOK, PiecesSettle
<1> HIDE DEF move
<1>7. /\ theirs.board \in Boards /\ Settled(theirs.board)
      /\ theirs.move \in Moves \cup {NoMove}
      /\ \A c \in Index : findFirstOpenPosition(childBoard[g], c) = -1
                            => findFirstOpenPosition(theirs.board, c) = -1
  BY <1>5, <1>6, PlacedBoard
<1>8. \A c \in Index : findFirstOpenPosition(childBoard[g], c) # -1 =>
        PiecesIn(theirs.board, c, 1) =
          PiecesIn(childBoard[g], c, 1) + IF c = move.col THEN 1 ELSE 0
  BY <1>5, <1>6, PiecesCounted
<1> HIDE DEF theirs
<1>9. CASE /\ childBoard' = [childBoard EXCEPT ![g] = theirs.board]
           /\ Send(g, theirs.move)
           /\ child' = [child EXCEPT ![g] = "leaving"]
  BY <1>2, <1>3, <1>4, <1>7, <1>8, <1>9 DEF move
<1>10. ASSUME NEW col \in RandomColumns,
              childBoard' = [childBoard EXCEPT ![g] =
                               placePieceInColumn(theirs.board, 2, col).board],
              Send(g, placePieceInColumn(theirs.board, 2, col).move),
              \/ child' = [child EXCEPT ![g] = "leaving"]
              \/ child' = [child EXCEPT ![g] = "play"] /\ ParentEndHeld(g)
       PROVE  \E b \in Boards, sent \in Moves \cup {NoMove} :
              /\ Settled(b)
              /\ childBoard' = [childBoard EXCEPT ![g] = b]
              /\ Send(g, sent)
              /\ \/ child' = [child EXCEPT ![g] = "leaving"]
                 \/ /\ child' = [child EXCEPT ![g] = "play"]
                    /\ ParentEndHeld(g)
                    /\ sent = NoMove => ReadsOutside(b)
              /\ \A c \in Index : findFirstOpenPosition(b, c) # -1 =>
                   /\ findFirstOpenPosition(childBoard[g], c) # -1
                   /\ PiecesIn(b, c, 1) = PiecesIn(childBoard[g], c, 1)
                                            + IF c = move.col THEN 1 ELSE 0
  <2> DEFINE mine == placePieceAtPosition(theirs.board, 2, 0, col)
  <2>1. col \in Index /\ 0 \in Index
    BY DimensionAssumption DEF Index
  <2>2. /\ mine.board \in Boards /\ Settled(mine.board)
        /\ mine.move \in Moves \cup {NoMove}
        /\ mine.move = NoMove => findFirstOpenPosition(mine.board, col) = -1
        /\ \A c \in Index : findFirstOpenPosition(theirs.board, c) = -1
                              => findFirstOpenPosition(mine.board, c) = -1
    BY <1>6, <1>7, <2>1, PlacedBoard
  <2>3. \A c \in Index : PiecesIn(mine.board, c, 1) = PiecesIn(theirs.board, c, 1)
    <3>1. \A c \in Index : PiecesIn(mine.board, c, 1) = PiecesIn(theirs.board, c, 1) + 0
      BY <1>6, <1>7, <2>1, PiecesCounted
    <3>2. \A c \in Index : PiecesIn(theirs.board, c, 1) \in Nat
      BY PiecesFinite
    <3> QED  BY <3>1, <3>2
  <2>4. mine.move = NoMove => ReadsOutside(mine.board)
    BY <2>1, <2>2 DEF ReadsOutside
  <2>5. /\ childBoard' = [childBoard EXCEPT ![g] = mine.board]
        /\ Send(g, mine.move)
    BY <1>10 DEF placePieceInColumn
  <2> HIDE DEF mine
  <2>6. \A c \in Index : findFirstOpenPosition(mine.board, c) # -1 =>
          /\ findFirstOpenPosition(childBoard[g], c) # -1
          /\ PiecesIn(mine.board, c, 1) = PiecesIn(childBoard[g], c, 1)
                                            + IF c = move.col THEN 1 ELSE 0
    BY <1>7, <1>8, <2>2, <2>3
  <2> QED  BY <1>10, <2>2, <2>4, <2>5, <2>6
<1>11. \/ /\ childBoard' = [childBoard EXCEPT ![g] = theirs.board]
          /\ Send(g, theirs.move)
          /\ child' = [child EXCEPT ![g] = "leaving"]
       \/ \E col \in RandomColumns :
            /\ childBoard' = [childBoard EXCEPT ![g] =
                                placePieceInColumn(theirs.board, 2, col).board]
            /\ Send(g, placePieceInColumn(theirs.board, 2, col).move)
            /\ \/ child' = [child EXCEPT ![g] = "leaving"]
               \/ child' = [child EXCEPT ![g] = "play"] /\ ParentEndHeld(g)
  <2>1. \/ /\ childBoard' = [childBoard EXCEPT ![g] = theirs.board]
           /\ Send(g, theirs.move)
           /\ child' = [child EXCEPT ![g] = "leaving"]
        \/ \E mine \in {placePieceInColumn(theirs.board, 2, col) : col \in RandomColumns} :
             /\ childBoard' = [childBoard EXCEPT ![g] = mine.board]
             /\ Send(g, mine.move)
             /\ child' = [child EXCEPT ![g] =
                  IF checkForWin(mine.board, 2) \/ ~ParentEndHeld(g)
                  THEN "leaving" ELSE "play"]
    BY DEF ChildTurn, theirs, move
  <2>2. ASSUME NEW mine, child' = [child EXCEPT ![g] =
                  IF checkForWin(mine.board, 2) \/ ~ParentEndHeld(g)
                  THEN "leaving" ELSE "play"]
        PROVE  \/ child' = [child EXCEPT ![g] = "leaving"]
               \/ child' = [child EXCEPT ![g] = "play"] /\ ParentEndHeld(g)
    BY <2>2
  <2> QED  BY <2>1, <2>2
<1>12. CASE \E col \in RandomColumns :
            /\ childBoard' = [childBoard EXCEPT ![g] =
                                placePieceInColumn(theirs.board, 2, col).board]
            /\ Send(g, placePieceInColumn(theirs.board, 2, col).move)
            /\ \/ child' = [child EXCEPT ![g] = "leaving"]
               \/ child' = [child EXCEPT ![g] = "play"] /\ ParentEndHeld(g)
  BY <1>2, <1>3, <1>4, <1>10, <1>12 DEF move
<1> QED  BY <1>9, <1>11, <1>12

LEMMA ChildTurnStep ==
  ASSUME IInv, NEW g \in Games, ChildTurn(g)
  PROVE  IInv'
<1> USE DEF IInv, Inv
<1> DEFINE move == down[g][1]
<1>1. /\ child[g] = "play" /\ down[g] # <<>>
      /\ UNCHANGED <<parent, i, games_complete, lastMove, board, finished>>
  BY DEF ChildTurn, parentVars
<1>2. move \in Moves /\ up[g] = <<>> /\ down' = [down EXCEPT ![g] = <<>>]
  BY TurnPlaces
<1>3. PICK b \in Boards, sent \in Moves \cup {NoMove} :
        /\ Settled(b)
        /\ childBoard' = [childBoard EXCEPT ![g] = b]
        /\ Send(g, sent)
        /\ \/ child' = [child EXCEPT ![g] = "leaving"]
           \/ /\ child' = [child EXCEPT ![g] = "play"]
              /\ ParentEndHeld(g)
              /\ sent = NoMove => ReadsOutside(b)
        /\ \A c \in Index : findFirstOpenPosition(b, c) # -1 =>
             /\ findFirstOpenPosition(childBoard[g], c) # -1
             /\ PiecesIn(b, c, 1) = PiecesIn(childBoard[g], c, 1)
                                      + IF c = move.col THEN 1 ELSE 0
  BY TurnPlaces
<1>4. ~Unopened(g) /\ ~(parent \in {"write", "sigpipe"} /\ i = g)
  BY <1>1 DEF Opening, ParentsTurn
<1>5. /\ down'[g] = <<>>
      /\ \A h \in Games \ {g} : down'[h] = down[h]
      /\ down' \in [Games -> Seq(Moves)]
  BY <1>2, OneMove DEF TypeOK
<1>6. /\ \/ up' = up /\ (sent = NoMove \/ ~ParentEndHeld(g))
         \/ sent \in Moves /\ up' = [up EXCEPT ![g] = <<sent>>]
  BY <1>2, <1>3, OneMove DEF Send, TypeOK
<1>7. /\ up' \in [Games -> Seq(Moves)]
      /\ \A h \in Games \ {g} : up'[h] = up[h]
      /\ \/ up'[g] = <<>> /\ (sent = NoMove \/ ~ParentEndHeld(g))
         \/ sent \in Moves /\ up'[g] = <<sent>>
  <2>1. up \in [Games -> Seq(Moves)]
    BY DEF TypeOK
  <2>2. CASE up' = up
    BY <1>2, <1>6, <2>1, <2>2
  <2>3. CASE sent \in Moves /\ up' = [up EXCEPT ![g] = <<sent>>]
    <3>1. <<sent>> \in Seq(Moves)
      BY <2>3, OneMove
    <3> QED  BY <2>1, <2>3, <3>1
  <2> QED  BY <1>6, <2>2, <2>3
<1>8. /\ childBoard' \in [Games -> Boards] /\ childBoard'[g] = b
      /\ \A h \in Games \ {g} : childBoard'[h] = childBoard[h]
  BY <1>3 DEF TypeOK
<1>9. /\ child' \in [Games -> {"none", "play", "leaving", "gone"}]
      /\ \A h \in Games \ {g} : child'[h] = child[h]
      /\ child'[g] = "leaving" \/ /\ child'[g] = "play" /\ ParentEndHeld(g)
                                  /\ sent = NoMove => ReadsOutside(b)
  BY <1>3 DEF TypeOK
<1>10. TypeOK'
  BY <1>1, <1>5, <1>7, <1>8, <1>9 DEF TypeOK
<1>11. PiecesSettle' /\ OneMoveInFlight' /\ FinishedHasLine'
  <2>1. Len(<<>>) = 0
    BY EmptySeq
  <2>2. Len(up'[g]) <= 1
    <3>1. sent \in Moves => Len(<<sent>>) = 1
      BY OneMove
    <3>2. CASE up'[g] = <<>>
      BY <2>1, <3>2
    <3>3. CASE sent \in Moves /\ up'[g] = <<sent>>
      <4>1. Len(up'[g]) = 1
        BY <3>1, <3>3, Zenon
      <4> QED  BY <4>1
    <3> QED  BY <1>7, <3>2, <3>3
  <2>3. Len(up'[g]) \in Nat /\ Len(down'[g]) = 0
    BY <1>5, <1>7, <2>1, LenProperties
  <2>4. Len(down'[g]) + Len(up'[g]) <= 1
    BY <2>2, <2>3
  <2>5. \A h \in Games \ {g} : Len(down'[h]) + Len(up'[h]) <= 1
    BY <1>5, <1>7 DEF OneMoveInFlight
  <2>6. PiecesSettle' /\ FinishedHasLine'
    BY <1>1, <1>3, <1>8 DEF PiecesSettle, FinishedHasLine
  <2> QED  BY <2>4, <2>5, <2>6 DEF OneMoveInFlight
<1>12. Opening'
  <2>1. \A h \in Games : Unopened(h)' => h # g /\ Unopened(h)
    BY <1>1, <1>4 DEF Unopened
  <2> QED  BY <1>1, <1>5, <1>7, <1>9, <2>1 DEF Opening
<1>13. ParentsTurn' /\ WinSeen'
  <2>1. parent \in {"write", "sigpipe"} => i \in Games \ {g}
    BY <1>4 DEF TypeOK
  <2> QED  BY <1>1, <1>5, <1>7, <2>1 DEF ParentsTurn, WinSeen
<1>14. TurnKept'
  <2>1. ASSUME child'[g] = "play", ~ReadsOutside(childBoard'[g])
        PROVE  up'[g] # <<>>
    <3>1. sent # NoMove /\ ParentEndHeld(g)
      BY <1>8, <1>9, <2>1
    <3> QED  BY <1>7, <3>1, OneMove
  <2>2. \A h \in Games : Unopened(h)' = Unopened(h)
    BY <1>1 DEF Unopened
  <2>3. ParentGone' = ParentGone
    BY <1>1 DEF ParentGone
  <2> SUFFICES ASSUME NEW h \in Games, h # g, ~Unopened(h)', ~ParentGone', ~finished'[h],
                      child'[h] = "play", ~ReadsOutside(childBoard'[h])
               PROVE  down'[h] # <<>> \/ up'[h] # <<>> \/ (parent' = "write" /\ i' = h)
    BY <2>1, Zenon DEF TurnKept
  <2> QED  BY <1>1, <1>5, <1>7, <1>8, <1>9, <2>2, <2>3 DEF TurnKept
<1>15. Counted'
  <2>1. \A h \in Games : Lost(h) => h # g /\ Lost(h)'
    BY <1>1, <1>7, <1>9 DEF Lost
  <2> QED  BY <1>1, <2>1 DEF Counted
<1>16. ParentPiecesAgree'
  <2> SUFFICES ASSUME NEW h \in Games, NEW c \in Index, ~finished[h], ~checkForWin(board[h], 2),
                      findFirstOpenPosition(childBoard'[h], c) # -1
               PROVE  PiecesIn(board[h], c, 1) =
                        PiecesIn(childBoard'[h], c, 1) + InFlight(h, c)'
    BY <1>1 DEF ParentPiecesAgree
  <2>1. CASE h # g
    <3>1. PiecesIn(board[h], c, 1) = PiecesIn(childBoard[h], c, 1) + InFlight(h, c)
      BY <1>8, <2>1 DEF ParentPiecesAgree
    <3>2. InFlight(h, c)' = InFlight(h, c)
      BY <1>1, <1>5, <2>1 DEF InFlight
    <3> QED  BY <1>8, <2>1, <3>1, <3>2
  <2>2. CASE h = g
    <3>1. /\ findFirstOpenPosition(childBoard[g], c) # -1
          /\ PiecesIn(b, c, 1) = PiecesIn(childBoard[g], c, 1)
                                   + IF c = move.col THEN 1 ELSE 0
      BY <1>3, <1>8, <2>2
    <3>2. InFlight(g, c) = IF c = move.col THEN 1 ELSE 0
      BY <1>1, <1>4 DEF InFlight
    <3>3. InFlight(h, c)' = 0
      BY <1>1, <1>4, <1>5, <2>2 DEF InFlight
    <3>4. PiecesIn(board[g], c, 1) = PiecesIn(childBoard[g], c, 1) + InFlight(g, c)
      BY <2>2, <3>1 DEF ParentPiecesAgree
    <3>5. PiecesIn(b, c, 1) \in Nat
      BY PiecesFinite
    <3> QED  BY <1>8, <2>2, <3>1, <3>2, <3>3, <3>4, <3>5
  <2> QED  BY <2>1, <2>2
<1> QED  BY <1>10, <1>11, <1>12, <1>13, <1>14, <1>15, <1>16

-----------------------------------------------------------------------------
(***************************************************************************)
(* The theorems.                                                            *)
(***************************************************************************)
LEMMA NextIInv == IInv /\ [Next]_vars => IInv'
<1> SUFFICES ASSUME IInv, [Next]_vars PROVE IInv'
  OBVIOUS
<1>1. CASE Fork \/ ForkFails
  BY <1>1, ForkStep
<1>2. CASE Open
  BY <1>2, OpenStep
<1>3. CASE ReadMove
  BY <1>3, ReadMoveStep
<1>4. CASE ReadEnd
  BY <1>4, ReadEndStep
<1>5. CASE WriteMove
  BY <1>5, WriteMoveStep
<1>6. CASE Reap
  BY <1>6, ReapStep
<1>7. ASSUME NEW g \in Games, ChildRuns(g) PROVE IInv'
  BY <1>7, ChildTurnStep, ChildEnds DEF ChildRuns
<1>8. CASE UNCHANGED vars
  BY <1>8 DEF vars, parentVars, childVars, IInv, Inv, TypeOK, PiecesSettle, OneMoveInFlight,
              Opening, Unopened, ParentsTurn, WinSeen, TurnKept, ParentGone, Counted, Lost,
              ParentPiecesAgree, InFlight, FinishedHasLine
<1> QED  BY <1>1, <1>2, <1>3, <1>4, <1>5, <1>6, <1>7, <1>8 DEF Next, ParentRuns

LEMMA Invariance == Spec => []IInv
<1> QED  BY InitIInv, NextIInv, PTL DEF Spec

\* The boards and pipes stay in order: on all four boards pieces lie on pieces,
\* a game's two pipes hold one move at most, the parent answers the game whose
\* move it read, and every game is counted once or its child is gone.
THEOREM BoardsInOrder == Spec => []Inv
<1>1. IInv => Inv
  BY DEF IInv
<1> QED  BY <1>1, Invariance, PTL

\* The parent's pieces lie in the same columns of both boards while the game
\* goes on, but for the move on its way and for columns full on the child's.
THEOREM BoardsAgree == Spec => []ParentPiecesAgree
<1>1. IInv => ParentPiecesAgree
  BY DEF IInv
<1> QED  BY <1>1, Invariance, PTL

\* Whatever the searches of checkForWin miss, a game that counts as finished
\* has a line of four on the parent's board.
THEOREM FinishedIsWon == Spec => []FinishedHasLine
<1>1. IInv => FinishedHasLine
  BY DEF IInv
<1> QED  BY <1>1, Invariance, PTL

\* The processes wait for each other for ever only when a child chose a column
\* that is full on its board, or is gone before the parent saw the game end.
THEOREM StuckHasAReason == Spec => []StuckForAReason
<1>1. ASSUME IInv, Stuck, \A g \in Games : ~(child[g] = "gone" /\ ~finished[g])
      PROVE  \E g \in Games : child[g] = "play" /\ ReadsOutside(childBoard[g])
  <2> USE <1>1 DEF IInv, Inv
  <2>1. CASE parent = "read" /\ up[i] = <<>>
    <3>1. i \in Games /\ ~finished[i] /\ ~Unopened(i) /\ ~ParentGone
      BY <2>1 DEF TypeOK, ParentsTurn, Unopened, ParentGone
    <3>2. child[i] # "none" /\ child[i] # "gone"
      BY <2>1, <3>1 DEF Opening
    <3>3. child[i] = "play" /\ down[i] = <<>>
      BY <3>1, <3>2 DEF Stuck, ChildWaits
    <3> QED  BY <2>1, <3>1, <3>3 DEF TurnKept
  <2>2. CASE parent = "reap" /\ \E c \in Games : child[c] # "gone"
    <3>1. PICK c \in Games : child[c] # "gone"
      BY <2>2
    <3>2. child[c] # "none"
      BY <2>2 DEF Opening
    <3>3. ~finished[c]
      BY <3>1, <3>2 DEF Stuck, ChildWaits, ParentEndHeld
    <3>4. games_complete = Children /\ ~\E g \in Games : Lost(g)
      BY <2>2 DEF Counted, Lost
    <3>5. Finished = Games
      BY <3>4, FinishedCounted
    <3> QED  BY <3>3, <3>5 DEF Finished
  <2> QED  BY <2>1, <2>2 DEF Stuck
<1>2. IInv => StuckForAReason
  BY <1>1 DEF StuckForAReason
<1> QED  BY <1>2, Invariance, PTL

==============================================================================
