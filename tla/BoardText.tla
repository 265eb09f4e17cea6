------------------------------ MODULE BoardText ------------------------------
(***************************************************************************)
(* Boards as text: shared/io/board_parser.cpp and board_printer.cpp, which *)
(* the text tests write their boards in.  A line is the sequence of its    *)
(* tokens, a token the sequence of its characters, so that empty lines and *)
(* lines of blanks are the same here, as they are for the parser.          *)
(***************************************************************************)
EXTENDS PieceRules, Sequences, SequencesExt

Dot == <<".">>
KindChar == [King |-> "K", Queen |-> "Q", Rook |-> "R", Bishop |-> "B", Knight |-> "N", Pawn |-> "P"]
ColorChar == [White |-> "w", Black |-> "b"]

KindOf(char)  == CHOOSE k \in Kinds : KindChar[k] = char
ColorOf(char) == CHOOSE c \in Colors : ColorChar[c] = char

-----------------------------------------------------------------------------
(* BoardPrinter::print; kindOf gives the kind of each piece.               *)

Token(grid, kindOf, pos) ==
  IF grid[pos] = NoPiece THEN Dot ELSE <<ColorChar[Color[grid[pos]]], KindChar[kindOf[grid[pos]]]>>

print(grid, kindOf) ==
  [r \in 1 .. Height |-> [c \in 1 .. Width |-> Token(grid, kindOf, At(r - 1, c - 1))]]

-----------------------------------------------------------------------------
(* BoardParser::parse                                                      *)

\* Lines without a token and lines with the word "Board" are skipped; no other
\* token of a text has that word inside.
Header == <<"B", "o", "a", "r", "d">>
IsRow(line) == line # << >> /\ Header \notin ToSet(line)
RowNumbers(text) == { n \in 1 .. Len(text) : IsRow(text[n]) }
Rows(text) ==
  LET row(r) == CHOOSE n \in RowNumbers(text) : Cardinality({ m \in RowNumbers(text) : m <= n }) = r
  IN  [r \in 1 .. Cardinality(RowNumbers(text)) |-> text[row(r)]]

\* Mutant of KnownToken: a token may have any length.
KnownStart(token) ==
  Len(token) >= 2 /\ token[1] \in {"w", "b"} /\ token[2] \in {KindChar[k] : k \in Kinds}
KnownToken(token) ==
  Len(token) = 2 /\ token[1] \in {"w", "b"} /\ token[2] \in {KindChar[k] : k \in Kinds}

SameWidth(rows) == \A row \in ToSet(rows) : Len(row) = Len(rows[1])
Known(rows) == \A row \in ToSet(rows) : \A token \in ToSet(row) : token = Dot \/ KnownToken(token)

\* Ids count the pieces, row by row.
NextId(rows, r, c) ==
  Cardinality({ p \in (1 .. r) \X (1 .. Len(rows[1])) :
                  /\ rows[p[1]][p[2]] # Dot
                  /\ p[1] < r \/ p[2] <= c })

ParsedPiece(rows, r, c) ==
  LET token == rows[r][c]
  IN  [id |-> NextId(rows, r, c), color |-> ColorOf(token[1]), kind |-> KindOf(token[2])]

Refused(why) == [error |-> why, width |-> 0, height |-> 0, pieces |-> << >>]

\* A board, or the error that is thrown; the widths are compared before the
\* tokens.  Cells without a piece are not in the domain of "pieces".
parse(text) ==
  LET rows == Rows(text)
      occupied == { p \in (1 .. Len(rows)) \X (1 .. Len(rows[1])) : rows[p[1]][p[2]] # Dot }
  IN  IF rows = << >> THEN Refused("none")
      ELSE IF ~SameWidth(rows) THEN Refused("ROW_WIDTH_MISMATCH")
      ELSE IF ~Known(rows) THEN Refused("UNKNOWN_TOKEN")
      ELSE [error  |-> "none", width |-> Len(rows[1]), height |-> Len(rows),
            pieces |-> [p \in occupied |-> ParsedPiece(rows, p[1], p[2])]]

-----------------------------------------------------------------------------
(* What a caller may rely on, for a board and the kinds of its pieces.     *)

\* The text of a board, with a title and blank lines around its rows, is read
\* as that board: the same pieces on the same cells, with ids from 1 on.
ReadsBack(grid, kindOf) ==
  LET text  == <<<<Header>>, << >>>> \o print(grid, kindOf) \o <<<< >>>>
      board == parse(text)
      occupied == { <<pos.row + 1, pos.col + 1>> : pos \in { c \in Cells : grid[c] # NoPiece } }
  IN  /\ board.error = "none" /\ board.width = Width /\ board.height = Height
      /\ DOMAIN board.pieces = occupied
      /\ \A p \in occupied :
           LET piece == grid[At(p[1] - 1, p[2] - 1)]
           IN  board.pieces[p].color = Color[piece] /\ board.pieces[p].kind = kindOf[piece]
      /\ { board.pieces[p].id : p \in occupied } = 1 .. Cardinality(occupied)

\* A row with a token too few is refused for its width, whatever its tokens
\* are; a token that is too long is refused when all rows are equally wide.
RefusesBadText(grid, kindOf) ==
  LET rows  == print(grid, kindOf)
      short == [rows EXCEPT ![1] = Append(SubSeq(@, 1, Len(@) - 2), <<"?">>)]
      long  == [rows EXCEPT ![Height][Width] = Append(@, "K")]
  IN  /\ Width > 1 /\ Height > 1 => parse(short).error = "ROW_WIDTH_MISMATCH"
      /\ parse(long).error = "UNKNOWN_TOKEN"
=============================================================================
