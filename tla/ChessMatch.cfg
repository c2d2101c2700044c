SPECIFICATION Spec
CONSTANT Starts <- MCStarts
INVARIANT MovesAreChess
INVARIANT BoardSound
INVARIANT TurnHasMove
INVARIANT BotMoveAccepted
INVARIANT FenKeepsBoard
PROPERTY OneMoveAtATime
CHECK_DEADLOCK FALSE
