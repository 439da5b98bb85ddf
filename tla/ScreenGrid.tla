----------------------------- MODULE ScreenGrid -----------------------------
(***************************************************************************)
(* The emulator behind a screenshot: parity/vt.py, class Terminal, and the *)
(* projection that follows one printed cell to where it ends up            *)
(* (observe_cli_terminal.py, class _Projection).                           *)
(*                                                                         *)
(* A wide glyph takes two cells, its own and an empty continuation.  Every *)
(* control is an action: printing with wrap, line feeds in the scroll      *)
(* region, reverse index, cursor moves, erasing, the region, resizing.     *)
(* Styles, modes and the parsing of the byte stream are left out.          *)
(***************************************************************************)
EXTENDS Integers, Sequences

CONSTANTS
    MaxRows, MaxCols,  \* sizes the terminal is given
    MaxSaved           \* bound: rows of scrollback that are kept

ASSUME ScreenGridAssumption ==
    MaxRows \in Nat \ {0} /\ MaxCols \in Nat \ {0, 1} /\ MaxSaved \in Nat

VARIABLES
    rows, cols, grid, row, col,
    wrap,          \* pending_wrap
    top, bottom,   \* the scroll region
    scrollback,
    slots          \* history: slots printed, at most one

screenVars == <<rows, cols, grid, row, col, wrap, top, bottom, scrollback, slots>>
size == <<rows, cols>>
region == <<top, bottom>>
cursor == <<row, col, wrap>>

\* "slot" is what the projection believes, "printed" what was printed there.
\* Text and style are left out: a blank is a narrow cell.
Cell(width) == [width |-> width, slot |-> FALSE, printed |-> FALSE]
Blank == Cell(1)
BlankRow(n) == [c \in 0..n - 1 |-> Blank]

Lesser(a, b) == IF a < b THEN a ELSE b
Greater(a, b) == IF a > b THEN a ELSE b

ScreenInit ==
    /\ rows \in 1..MaxRows /\ cols \in 2..MaxCols
    /\ grid = [r \in 0..rows - 1 |-> BlankRow(cols)]
    /\ row = 0 /\ col = 0 /\ wrap = FALSE /\ top = 0 /\ bottom = rows - 1
    /\ scrollback = <<>> /\ slots = 0

\* Rows first..last move up by one, or down by one; a blank row comes in.
MoveUp(g, first, last) ==
    [r \in DOMAIN g |-> IF r \in first..last - 1 THEN g[r + 1]
                        ELSE IF r = last THEN BlankRow(cols) ELSE g[r]]
MoveDown(g, first, last) ==
    [r \in DOMAIN g |-> IF r \in first + 1..last THEN g[r - 1]
                        ELSE IF r = first THEN BlankRow(cols) ELSE g[r]]

\* _line_feed, as a new grid, row and scrollback.
Saved(list) == SubSeq(list, Greater(1, Len(list) - MaxSaved + 1), Len(list))
LineFeed ==
    IF row = bottom
    THEN [grid |-> MoveUp(grid, top, bottom), row |-> row,
          saved |-> IF top = 0 THEN Saved(Append(scrollback, grid[top])) ELSE scrollback]
    ELSE [grid |-> grid, row |-> Lesser(rows - 1, row + 1), saved |-> scrollback]

\* _clear_cell: the other half of a wide glyph goes too.
ClearCell(g, r, c) ==
    LET line == g[r]
        other == IF line[c].width = 0 /\ c > 0 THEN {c - 1}
                 ELSE IF line[c].width = 2 /\ c + 1 < cols THEN {c + 1} ELSE {}
    IN  [g EXCEPT ![r] = [i \in DOMAIN line |-> IF i \in other \cup {c} THEN Blank ELSE line[i]]]

\* Where the projection looks for the cell that was just printed.
PrintedColumn(at, pending) == IF pending THEN at ELSE at - 1

\* _put of a glyph that takes cells: wrap, clear what is overwritten, print.
Put(width, slot) ==
    LET wraps == wrap \/ col + width > cols
        fed == IF wraps THEN LineFeed ELSE [grid |-> grid, row |-> row, saved |-> scrollback]
        at == IF wraps THEN 0 ELSE col
        once == ClearCell(fed.grid, fed.row, at)
        clear == IF width = 2 THEN ClearCell(once, fed.row, at + 1) ELSE once
        glyph == [Cell(width) EXCEPT !.printed = slot]
        shown == [clear EXCEPT ![fed.row] = [i \in DOMAIN @ |->
                     IF i = at THEN glyph ELSE IF i = at + 1 /\ width = 2 THEN Cell(0) ELSE @[i]]]
        full == at + width >= cols
        column == IF full THEN cols - 1 ELSE at + width
    IN  /\ slot => width = 1 /\ slots = 0
        /\ slots' = IF slot THEN 1 ELSE slots
        /\ row' = fed.row /\ col' = column /\ wrap' = full /\ scrollback' = fed.saved
        /\ grid' = IF slot THEN [shown EXCEPT ![fed.row][PrintedColumn(column, full)].slot = TRUE]
                   ELSE shown
        /\ UNCHANGED <<size, region>>

\* _put of a combining character: onto the glyph before the cursor, as a new
\* cell, which the projection does not know.
MarkedColumn ==
    LET at == IF wrap THEN col ELSE col - 1
    IN  IF at < 0 THEN at ELSE IF grid[row][at].width = 0 THEN at - 1 ELSE at
Combine ==
    /\ MarkedColumn >= 0
    /\ grid' = [grid EXCEPT ![row][MarkedColumn] = Cell(@.width)]
    /\ UNCHANGED <<size, region, cursor, scrollback, slots>>

LF ==
    /\ grid' = LineFeed.grid /\ row' = LineFeed.row /\ scrollback' = LineFeed.saved /\ wrap' = FALSE
    /\ UNCHANGED <<size, region, col, slots>>

\* ESC M, reverse index.
ReverseIndex ==
    /\ wrap' = FALSE
    /\ grid' = IF row = top THEN MoveDown(grid, top, bottom) ELSE grid
    /\ row' = IF row = top \/ row = 0 THEN row ELSE row - 1
    /\ UNCHANGED <<size, region, col, scrollback, slots>>

\* CR, BS, TAB and the CSI A, B, C, D, G and H: the cursor goes somewhere on
\* the screen and is off the wrap.
Move ==
    /\ \/ col' = 0 /\ row' = row
       \/ col' = Greater(0, col - 1) /\ row' = row
       \/ col' = Lesser(cols - 1, (col \div 8 + 1) * 8) /\ row' = row
       \/ \E n \in 1..MaxRows + 1 : row' \in {Greater(0, row - n), Lesser(rows - 1, row + n)} /\ col' = col
       \/ \E n \in 1..MaxCols + 1 :
             col' \in {Greater(0, col - n), Lesser(cols - 1, col + n), Lesser(cols - 1, n - 1)} /\ row' = row
       \/ \E n \in 1..MaxRows + 1, m \in 1..MaxCols + 1 :
             row' = Lesser(rows - 1, n - 1) /\ col' = Lesser(cols - 1, m - 1)
    /\ wrap' = FALSE
    /\ UNCHANGED <<size, region, grid, scrollback, slots>>

\* CSI J and K, modes 0, 1 and 2: cell by cell, a wide glyph as a whole.
Erased(mode, whole) ==
    {rc \in (0..rows - 1) \X (0..cols - 1) :
        LET before == rc[1] < row \/ (rc[1] = row /\ rc[2] <= col)
            after == rc[1] > row \/ (rc[1] = row /\ rc[2] >= col)
        IN  /\ mode = 2 \/ (mode = 0 /\ after) \/ (mode = 1 /\ before)
            /\ whole \/ rc[1] = row}
ClearAll(cells) ==
    LET Gone(r, c) ==
            \/ <<r, c>> \in cells
            \/ grid[r][c].width = 0 /\ c > 0 /\ <<r, c - 1>> \in cells
            \/ grid[r][c].width = 2 /\ c + 1 < cols /\ <<r, c + 1>> \in cells
    IN  [r \in DOMAIN grid |-> [c \in DOMAIN grid[r] |-> IF Gone(r, c) THEN Blank ELSE grid[r][c]]]
Erase(mode, whole) ==
    /\ grid' = ClearAll(Erased(mode, whole)) /\ wrap' = FALSE
    /\ UNCHANGED <<size, region, row, col, scrollback, slots>>

EraseScrollback ==
    /\ scrollback' = <<>> /\ wrap' = FALSE
    /\ UNCHANGED <<size, region, grid, row, col, slots>>

Region(first, last) ==
    /\ 1 <= first /\ first < last /\ last <= rows
    /\ top' = first - 1 /\ bottom' = last - 1 /\ row' = 0 /\ col' = 0 /\ wrap' = FALSE
    /\ UNCHANGED <<size, grid, scrollback, slots>>

\* faulty: the row is cut and padded
CutAnywhere(line, n) == [c \in 0..n - 1 |-> IF c \in DOMAIN line THEN line[c] ELSE Blank]
\* One row of resize: cut or padded; a wide glyph cut in two is blanked.
CutRow(line, n) ==
    [c \in 0..n - 1 |-> IF c \notin DOMAIN line \/ (c = n - 1 /\ line[c].width = 2) THEN Blank ELSE line[c]]

\* resize: the bottom rows stay, without reflow.
Resize(height, width) ==
    LET removed == Greater(0, rows - height)
    IN  /\ rows' = height /\ cols' = width
        /\ scrollback' = Saved(scrollback \o [i \in 1..removed |-> grid[i - 1]])
        /\ grid' = [r \in 0..height - 1 |->
                       IF r + removed < rows THEN CutRow(grid[r + removed], width) ELSE BlankRow(width)]
        /\ row' = Greater(0, Lesser(height - 1, row - removed)) /\ col' = Lesser(width - 1, col)
        /\ top' = 0 /\ bottom' = height - 1 /\ wrap' = FALSE /\ UNCHANGED slots

ScreenNext ==
    \/ \E width \in {1, 2}, slot \in BOOLEAN : Put(width, slot)
    \/ Combine \/ LF \/ ReverseIndex \/ Move \/ EraseScrollback
    \/ \E mode \in 0..2, whole \in BOOLEAN : Erase(mode, whole)
    \/ \E first, last \in 1..MaxRows : Region(first, last)
    \/ \E height \in 1..MaxRows, width \in 2..MaxCols : Resize(height, width)
ScreenSpec == ScreenInit /\ [][ScreenNext]_screenVars

-----------------------------------------------------------------------------
Cells == UNION {{<<r, c>> : c \in DOMAIN grid[r]} : r \in DOMAIN grid}
At(rc) == grid[rc[1]][rc[2]]

\* The cursor, the region and every row fit the size the terminal has now,
\* and a wrap is pending only behind the last column.
ScreenTypeOK ==
    /\ rows \in 1..MaxRows /\ cols \in 2..MaxCols
    /\ DOMAIN grid = 0..rows - 1 /\ \A r \in DOMAIN grid : DOMAIN grid[r] = 0..cols - 1
    /\ row \in 0..rows - 1 /\ col \in 0..cols - 1 /\ (wrap => col = cols - 1)
    /\ top \in 0..bottom /\ bottom \in 0..rows - 1
    /\ \A rc \in Cells : At(rc).width \in 0..2

\* A line in which every wide glyph has both its halves.
WholeLine(line) ==
    \A c \in DOMAIN line :
        /\ line[c].width = 2 => c + 1 \in DOMAIN line /\ line[c + 1].width = 0
        /\ line[c].width = 0 => c - 1 \in DOMAIN line /\ line[c - 1].width = 2

\* Half a wide glyph is never on the screen or in the scrollback, whatever was
\* printed over it, erased, scrolled or cut off (_clear_cell, resize).
WholeGlyphs ==
    /\ \A r \in DOMAIN grid : WholeLine(grid[r])
    /\ \A i \in DOMAIN scrollback : WholeLine(scrollback[i])

\* Wherever the cursor was moved, a combining character would go onto a glyph
\* or a blank, never onto the empty half of one (_put).
MarksOnGlyphs == MarkedColumn >= 0 => grid[row][MarkedColumn].width # 0

\* The projection replaces the text of the cell that was printed in the slot
\* and of no other, wherever it was scrolled to (_Projection._put).
SlotFollowsCell == \A rc \in Cells : At(rc).slot = At(rc).printed

\* Whatever is printed, erased, scrolled or resized, no half of a glyph is
\* left, marks go onto glyphs, and the projected slot stays with its cell.
ScreenIsWhole == ScreenTypeOK /\ WholeGlyphs /\ MarksOnGlyphs /\ SlotFollowsCell

=============================================================================
