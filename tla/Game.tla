-------------------------------- MODULE Game ---------------------------------
(***************************************************************************)
(* The parent that plays several games of connect four at a time, each      *)
(* against a child process (G4 - IPC/main.c).  Each game has two pipes and  *)
(* two boards, one in each process.                                         *)
(***************************************************************************)
EXTENDS Board, Sequences

CONSTANT Children   \* children: how many games

ASSUME ChildrenAssumption == Children \in Nat \ {0}

Games == 0 .. Children - 1
Least(S) == CHOOSE n \in S : \A m \in S : n <= m

VARIABLES
  parent,         \* where the parent is
  i,              \* its loop variable
  games_complete, \* counted up to Children + 1; beyond, it never comes back
  lastMove,       \* the parent's last move, in whatever game it was
  board,          \* the boards of the parent
  finished,       \* their finished
  child,          \* where each child is
  childBoard,     \* boards[i] in child i
  down,           \* the pipe fd[i][0], parent to child
  up              \* the pipe fd[i][1], child to parent

parentVars == <<parent, i, games_complete, lastMove, board, finished>>
childVars == <<child, childBoard>>
vars == <<parentVars, childVars, down, up>>

\* "fork", "open": the two loops before the main one; "read": about to read the
\* move of game i; "write": about to answer it; "reap": in waitpid; "spin": in
\* the while loop with no game left; "exit": returned; "error": exit(1);
\* "segv", "sigpipe": killed by that signal.
ParentPoints ==
  {"fork", "open", "read", "write", "reap", "spin", "exit", "error", "segv", "sigpipe"}
ParentGone == parent \in {"exit", "error", "segv", "sigpipe"}

\* "leaving": the child has left its loop, or a signal has hit it.
Alive(c) == child[c] \in {"play", "leaving"}

Init ==
  /\ parent = "fork" /\ i = 0 /\ games_complete = 0 /\ lastMove = NoMove
  /\ board = [g \in Games |-> EmptyBoard]
  /\ finished = [g \in Games |-> FALSE]
  /\ child = [g \in Games |-> "none"]
  /\ childBoard = [g \in Games |-> EmptyBoard]
  /\ down = [g \in Games |-> <<>>] /\ up = [g \in Games |-> <<>>]

-----------------------------------------------------------------------------
(***************************************************************************)
(* Who holds the ends of the pipes of game g.  A child closes the parent's  *)
(* ends of its own and all earlier games, and keeps the children's ends of  *)
(* the earlier games until it exits.                                        *)
(***************************************************************************)
ChildEndHeld(g) ==
  \/ \E c \in Games : c >= g /\ Alive(c)
  \/ parent = "fork" \/ (parent = "open" /\ i <= g)

\* Mutant: the parent keeps its ends of the pipes of a game that is won.
NeverClosed(g) == ~ParentGone

ParentEndHeld(g) == ~ParentGone /\ ~finished[g]

-----------------------------------------------------------------------------
(***************************************************************************)
(* The parent.                                                              *)
(***************************************************************************)
Fork ==
  /\ parent = "fork"
  /\ child' = [child EXCEPT ![i] = "play"]
  /\ IF i + 1 < Children THEN i' = i + 1 /\ UNCHANGED parent
                         ELSE i' = 0 /\ parent' = "open"
  /\ UNCHANGED <<games_complete, lastMove, board, finished, childBoard, down, up>>

ForkFails ==
  /\ parent = "fork"
  /\ parent' = "error"
  /\ UNCHANGED <<i, games_complete, lastMove, board, finished, childVars, down, up>>

\* The parent's first move in each game; it is the only reader of fd[i][1] now.
Open ==
  /\ parent = "open"
  /\ \E col \in BestColumns(board[i], 1) :
       LET placed == placePieceAtPosition(board[i], 1, 0, col)
       IN  /\ board' = [board EXCEPT ![i] = placed.board]
           /\ lastMove' = placed.move
           /\ down' = [down EXCEPT ![i] = Append(@, placed.move)]
  /\ IF i + 1 < Children THEN i' = i + 1 /\ UNCHANGED parent
                         ELSE i' = 0 /\ parent' = "read"
  /\ UNCHANGED <<games_complete, finished, childVars, up>>

\* The for loop goes on with the next game that is not finished; at its end
\* the while loop ends or begins it anew.
Advance(complete, done) ==
  LET later  == {g \in Games : g > i /\ ~done[g]}
      others == {g \in Games : ~done[g]}
  IN  IF later # {} THEN parent' = "read" /\ i' = Least(later)
      ELSE IF complete = Children THEN parent' = "reap" /\ i' = 0
      ELSE IF others = {} THEN parent' = "spin" /\ UNCHANGED i
      ELSE parent' = "read" /\ i' = Least(others)

\* Mutant: a game that has ended is not counted.
CountNothing(n) == n

\* bound: beyond Children + 1 the count makes no difference.
Count(n) == IF n > Children THEN n ELSE n + 1

\* read returned 0: the game counts as complete, but not as finished, and the
\* break leaves the for loop.
ReadEnd ==
  /\ parent = "read" /\ up[i] = <<>> /\ ~ChildEndHeld(i)
  /\ games_complete' = Count(games_complete)
  /\ IF games_complete' = Children THEN parent' = "reap" /\ i' = 0
     ELSE parent' = "read" /\ i' = Least({g \in Games : ~finished[g]})
  /\ UNCHANGED <<lastMove, board, finished, childVars, down, up>>

HasMove(g) == up[g] # <<>>

\* The child's piece is placed where the parent's last move went.  A child
\* whose move equals that move is killed.
ReadMove ==
  /\ parent = "read" /\ HasMove(i)
  /\ up' = [up EXCEPT ![i] = IF @ = <<>> THEN @ ELSE Tail(@)]
  /\ child' = IF up[i] # <<>> /\ up[i][1] = lastMove /\ child[i] = "play"
              THEN [child EXCEPT ![i] = "leaving"] ELSE child
  /\ \E answered \in {placePieceAtPosition(board[i], 2, lastMove.row, lastMove.col).board} :
       \/ /\ checkForWin(answered, 2)
          /\ board' = [board EXCEPT ![i] = answered]
          /\ parent' = "write"
          /\ UNCHANGED lastMove
       \/ /\ ~checkForWin(answered, 2) /\ ReadsOutside(answered)
          /\ board' = [board EXCEPT ![i] = answered]
          /\ parent' = "segv"
          /\ UNCHANGED lastMove
       \/ /\ ~checkForWin(answered, 2) /\ ~ReadsOutside(answered)
          /\ \E placed \in {placePieceAtPosition(answered, 1, 0, col) : col \in BestColumns(answered, 1)} :
               /\ board' = [board EXCEPT ![i] = placed.board]
               /\ lastMove' = placed.move
               /\ parent' = "write"
  /\ UNCHANGED <<i, games_complete, finished, childBoard, down>>

Won(g) == checkForWin(board[g], 1) \/ checkForWin(board[g], 2)

\* The parent's answer; a won game is closed and counted.  Without a reader
\* the write kills the parent.
WriteMove ==
  /\ parent = "write"
  /\ IF ~ChildEndHeld(i)
     THEN /\ parent' = "sigpipe"
          /\ UNCHANGED <<i, games_complete, finished, down>>
     ELSE /\ down' = [down EXCEPT ![i] = Append(@, lastMove)]
          /\ finished' = [finished EXCEPT ![i] = Won(i)]
          /\ games_complete' = IF Won(i) THEN Count(games_complete) ELSE games_complete
          /\ Advance(games_complete', finished')
  /\ UNCHANGED <<lastMove, board, childVars, up>>

Reap ==
  /\ parent = "reap"
  /\ \A c \in Games : child[c] = "gone"
  /\ parent' = "exit"
  /\ UNCHANGED <<i, games_complete, lastMove, board, finished, childVars, down, up>>

-----------------------------------------------------------------------------
(***************************************************************************)
(* The child of game g.                                                     *)
(***************************************************************************)
\* A write of a NULL move fails, and nothing is sent; without a reader it
\* kills the child.
Send(g, move) ==
  up' = IF move = NoMove \/ ~ParentEndHeld(g) THEN up
        ELSE [up EXCEPT ![g] = Append(@, move)]

\* The child places the parent's piece, tests for the parent's win, answers
\* in a random column and tests for its own win.
ChildTurn(g) ==
  /\ child[g] = "play" /\ down[g] # <<>>
  /\ down' = [down EXCEPT ![g] = Tail(@)]
  /\ \E theirs \in {placePieceAtPosition(childBoard[g], 1, down[g][1].row, down[g][1].col)} :
       \/ /\ checkForWin(theirs.board, 1)
          /\ childBoard' = [childBoard EXCEPT ![g] = theirs.board]
          /\ Send(g, theirs.move)
          /\ child' = [child EXCEPT ![g] = "leaving"]
       \/ /\ ~checkForWin(theirs.board, 1)
          /\ \E mine \in {placePieceInColumn(theirs.board, 2, col) : col \in RandomColumns} :
               /\ childBoard' = [childBoard EXCEPT ![g] = mine.board]
               /\ Send(g, mine.move)
               /\ child' = [child EXCEPT ![g] =
                    IF checkForWin(mine.board, 2) \/ ~ParentEndHeld(g)
                    THEN "leaving" ELSE "play"]
  /\ UNCHANGED parentVars

ChildEOF(g) ==
  /\ child[g] = "play" /\ down[g] = <<>> /\ ~ParentEndHeld(g)
  /\ child' = [child EXCEPT ![g] = "leaving"]
  /\ UNCHANGED <<parentVars, childBoard, down, up>>

\* exit closes what the child still holds of all pipes.
ChildExit(g) ==
  /\ child[g] = "leaving"
  /\ child' = [child EXCEPT ![g] = "gone"]
  /\ UNCHANGED <<parentVars, childBoard, down, up>>

-----------------------------------------------------------------------------
ParentRuns == Fork \/ ForkFails \/ Open \/ ReadMove \/ ReadEnd \/ WriteMove \/ Reap
ChildRuns(g) == ChildTurn(g) \/ ChildEOF(g) \/ ChildExit(g)

Next == ParentRuns \/ \E g \in Games : ChildRuns(g)

\* Every process is scheduled.
Fairness == WF_vars(ParentRuns) /\ \A g \in Games : WF_vars(ChildRuns(g))

Spec == Init /\ [][Next]_vars
FairSpec == Spec /\ Fairness

-----------------------------------------------------------------------------
TypeOK ==
  /\ parent \in ParentPoints
  /\ i \in Games
  /\ games_complete \in 0 .. Children + 1
  /\ lastMove \in Moves \cup {NoMove}
  /\ board \in [Games -> Boards] /\ childBoard \in [Games -> Boards]
  /\ finished \in [Games -> BOOLEAN]
  /\ child \in [Games -> {"none", "play", "leaving", "gone"}]
  /\ down \in [Games -> Seq(Moves)] /\ up \in [Games -> Seq(Moves)]

\* On all four boards pieces lie on pieces, whoever placed them and from
\* whichever process the move came.
PiecesSettle == \A g \in Games : Settled(board[g]) /\ Settled(childBoard[g])

\* The two pipes of a game hold one move at most: nobody moves out of turn,
\* also when a child is killed and when a move could not be sent.
OneMoveInFlight == \A g \in Games : Len(down[g]) + Len(up[g]) <= 1

\* A game that the parent has not opened yet is empty, and none is finished.
Unopened(g) == parent = "fork" \/ (parent = "open" /\ i <= g)
Opening ==
  /\ \A g \in Games : Unopened(g) =>
       board[g] = EmptyBoard /\ down[g] = <<>> /\ up[g] = <<>>
  /\ parent \in {"fork", "open"} =>
       games_complete = 0 /\ \A g \in Games : ~finished[g]
  /\ \A g \in Games : child[g] = "none" => parent = "error" \/ (parent = "fork" /\ i <= g)

\* The parent reads and answers a game that is not finished, in which nothing
\* is in the pipes when it is to answer.
ParentsTurn ==
  /\ parent \in {"read", "write"} => ~finished[i] /\ lastMove \in Moves
  /\ parent \in {"write", "sigpipe"} => down[i] = <<>> /\ up[i] = <<>>

\* A win of the child is seen at once.
WinSeen == \A g \in Games :
  ~finished[g] /\ checkForWin(board[g], 2) => parent \in {"write", "sigpipe"} /\ i = g

\* Somebody is to move in every game whose child plays and has no full column.
TurnKept == \A g \in Games :
  /\ ~Unopened(g) /\ ~ParentGone /\ ~finished[g]
  /\ child[g] = "play" /\ ~ReadsOutside(childBoard[g])
  => down[g] # <<>> \/ up[g] # <<>> \/ (parent = "write" /\ i = g)

\* Games are counted once, but for one whose child is gone for good.
Lost(g) ==
  child[g] = "gone" /\ ~finished[g] /\ up[g] = <<>> /\ ~(parent = "write" /\ i = g)
Counted ==
  /\ games_complete = Cardinality({g \in Games : finished[g]}) \/ \E g \in Games : Lost(g)
  /\ parent \in {"reap", "exit"} => games_complete = Children

\* The invariant of the boards, the pipes, and whose turn it is.
Inv ==
  /\ TypeOK /\ PiecesSettle /\ OneMoveInFlight /\ Opening /\ ParentsTurn
  /\ WinSeen /\ TurnKept /\ Counted

\* The parent has sent the move of its board, or is about to.
InFlight(g, col) ==
  IF \/ down[g] # <<>> /\ down[g][1].col = col
     \/ parent \in {"write", "sigpipe"} /\ i = g /\ lastMove.col = col
  THEN 1 ELSE 0

\* The parent's pieces are in the same columns of both boards, as long as the
\* game goes on and the column is not full on the child's board.
ParentPiecesAgree ==
  \A g \in Games, col \in Index :
    /\ ~finished[g] /\ ~checkForWin(board[g], 2)
    /\ findFirstOpenPosition(childBoard[g], col) # -1
    => PiecesIn(board[g], col, 1) = PiecesIn(childBoard[g], col, 1) + InFlight(g, col)

\* A game that counts as finished has a line of four on the parent's board.
FinishedHasLine ==
  \A g \in Games : finished[g] => HasLine(board[g], 1) \/ HasLine(board[g], 2)

ChildWaits(g) ==
  child[g] \in {"none", "gone"} \/ (child[g] = "play" /\ down[g] = <<>> /\ ParentEndHeld(g))
Stuck ==
  /\ \A g \in Games : ChildWaits(g)
  /\ \/ parent = "read" /\ up[i] = <<>> /\ ChildEndHeld(i)
     \/ parent = "reap" /\ \E c \in Games : child[c] # "gone"

\* All wait for each other only when a child's move was not sent because its
\* column was full, or a child is gone whose game the parent has not finished.
StuckForAReason ==
  Stuck =>
    \/ \E g \in Games : child[g] = "play" /\ ReadsOutside(childBoard[g])
    \/ \E g \in Games : child[g] = "gone" /\ ~finished[g]

\* The processes come to an end, stop for good, or the parent counts past the
\* number of games and reads end-of-file for ever.
ComesToAnEnd == <>(ParentGone \/ Stuck \/ games_complete > Children)

==============================================================================
