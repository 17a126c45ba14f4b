--------------------------- MODULE DevicesLemmas ----------------------------
(***************************************************************************)
(* The operators of Devices, for screens of any size, words of any width   *)
(* and any key codes: what the console functions do to the screen, the end *)
(* of interrupt to the lines in service, a tick to the counters, rounding  *)
(* to the rates, and a byte to the events.                                 *)
(***************************************************************************)
EXTENDS Devices, FiniteSetTheorems, Induction

-----------------------------------------------------------------------------
(* Types.                                                                  *)
Glyphs    == Chars \cup {Blank, Newline, "a", "t"}
Index     == 0 .. (VGA_HEIGHT + 1) * VGA_WIDTH - 1
Consoles  == [row : Nat, column : Nat, cells : [Index -> Glyphs]]
Bytes     == 0 .. 255
Events    == {KeyEvent(b, x) : b \in Bytes, x \in BOOLEAN}
Papers    == {p \in Seq(Seq(Glyphs)) : p # <<>>}
Words     == 0 .. WORD - 1
Clocks    == [system_timer_ms : Words, fractions : Words, tick_count : Words]
Places    == {"idle", "write", "test_column", "load_column", "store_column",
              "column0", "test_row", "load_row", "store_row", "scroll"}
Mains     == [pc : Places, c : Glyphs, at : Nat, left : Nat]
Histories == [bytes : Seq(Bytes), events : Seq(Events), elapsed : Nat, lost : Nat,
              early : BOOLEAN, paper : Papers, torn : BOOLEAN, typed : Nat]

LEMMA Sizes == VGA_WIDTH \in Nat \ {0} /\ VGA_HEIGHT \in Nat \ {0} /\ WORD \in Nat \ {0} /\ Tick \in Nat
  BY DevicesAssumption

(* The place of a cell: its row and its column.                            *)
LEMMA CellAt ==
    ASSUME NEW r \in Nat, NEW x \in 0 .. VGA_WIDTH - 1
    PROVE  (r * VGA_WIDTH + x) \div VGA_WIDTH = r
<1>1. r * VGA_WIDTH + x = VGA_WIDTH * r + x
  BY Sizes
<1>2. (VGA_WIDTH * r + x) \div VGA_WIDTH = r
  BY Sizes, DivisionUnique
<1> QED
  BY <1>1, <1>2

LEMMA RowOf ==
    ASSUME NEW i \in Nat
    PROVE  \E r \in Nat, x \in 0 .. VGA_WIDTH - 1 : i = r * VGA_WIDTH + x /\ i \div VGA_WIDTH = r
<1> DEFINE q == i \div VGA_WIDTH
           x == i % VGA_WIDTH
<1>1. i = VGA_WIDTH * q + x /\ x \in 0 .. VGA_WIDTH - 1 /\ q \in Int
  BY Sizes, Division
<1>2. q \in Nat
  BY Sizes
<1> HIDE DEF q, x
<1>3. VGA_WIDTH * q = q * VGA_WIDTH
  BY <1>2, Sizes
<1> QED
  BY <1>1, <1>2, <1>3 DEF q

(* Rows in order: an index below r * VGA_WIDTH is in a row before r.       *)
LEMMA RowsInOrder ==
    ASSUME NEW a \in Nat, NEW b \in Nat, NEW x \in 0 .. VGA_WIDTH - 1
    PROVE  a * VGA_WIDTH + x < b * VGA_WIDTH <=> a < b
<1>1. ASSUME a < b PROVE a * VGA_WIDTH + x < b * VGA_WIDTH
  <2>1. (a + 1) * VGA_WIDTH <= b * VGA_WIDTH
    BY <1>1, Sizes
  <2>2. (a + 1) * VGA_WIDTH = a * VGA_WIDTH + VGA_WIDTH
    BY Sizes
  <2> QED
    BY <2>1, <2>2, Sizes
<1>2. ASSUME b <= a PROVE b * VGA_WIDTH <= a * VGA_WIDTH + x
  <2>1. b * VGA_WIDTH <= a * VGA_WIDTH
    BY <1>2, Sizes
  <2> QED
    BY <2>1, Sizes
<1> QED
  BY <1>1, <1>2, Sizes

(* The cells of a console, by row and column.                              *)
LEMMA InIndex ==
    ASSUME NEW r \in 0 .. VGA_HEIGHT, NEW x \in 0 .. VGA_WIDTH - 1
    PROVE  r * VGA_WIDTH + x \in Index
<1>1. r * VGA_WIDTH + x < (VGA_HEIGHT + 1) * VGA_WIDTH
  BY Sizes, RowsInOrder
<1>2. r * VGA_WIDTH \in Nat /\ (VGA_HEIGHT + 1) * VGA_WIDTH \in Nat
  BY Sizes
<1> QED
  BY <1>1, <1>2 DEF Index

LEMMA IndexBelow ==
    ASSUME NEW i \in Index
    PROVE  \E r \in 0 .. VGA_HEIGHT, x \in 0 .. VGA_WIDTH - 1 : i = r * VGA_WIDTH + x /\ i \div VGA_WIDTH = r
<1>1. i \in Nat /\ i < (VGA_HEIGHT + 1) * VGA_WIDTH
  BY Sizes DEF Index
<1>2. PICK r \in Nat, x \in 0 .. VGA_WIDTH - 1 : i = r * VGA_WIDTH + x /\ i \div VGA_WIDTH = r
  BY <1>1, RowOf
<1>3. r < VGA_HEIGHT + 1
  BY <1>1, <1>2, Sizes, RowsInOrder
<1> QED
  BY <1>2, <1>3, Sizes

(* i and i + VGA_WIDTH are cells above each other.                         *)
LEMMA Below ==
    ASSUME NEW i \in Index, i < VGA_HEIGHT * VGA_WIDTH
    PROVE  i + VGA_WIDTH \in Index
<1>1. (VGA_HEIGHT + 1) * VGA_WIDTH = VGA_HEIGHT * VGA_WIDTH + VGA_WIDTH /\ VGA_HEIGHT * VGA_WIDTH \in Nat
  BY Sizes
<1> QED
  BY <1>1, Sizes DEF Index

-----------------------------------------------------------------------------
(* What terminal_scroll and its steps do to each cell.                     *)
ScrolledCells(c, from) ==
    [i \in Index |-> IF i \div VGA_WIDTH = VGA_HEIGHT - 1 THEN Blank
                     ELSE IF from <= i \div VGA_WIDTH /\ i < VGA_HEIGHT * VGA_WIDTH THEN c.cells[i + VGA_WIDTH]
                     ELSE c.cells[i]]

LEMMA ScrollIs ==
    ASSUME NEW c \in Consoles
    PROVE  terminal_scroll(c) = [c EXCEPT !.cells = ScrolledCells(c, 0)]
<1> DEFINE up == Cells(c, LAMBDA i : IF i < VGA_HEIGHT * VGA_WIDTH THEN c.cells[i + VGA_WIDTH] ELSE c.cells[i])
<1>1. up = [c EXCEPT !.cells = [i \in Index |-> IF i < VGA_HEIGHT * VGA_WIDTH THEN c.cells[i + VGA_WIDTH] ELSE c.cells[i]]]
  BY DEF Cells, Consoles
<1>2. terminal_scroll(c) = [up EXCEPT !.cells = [i \in Index |-> IF i \div VGA_WIDTH = VGA_HEIGHT - 1 THEN Blank ELSE up.cells[i]]]
  BY <1>1, Zenon DEF terminal_scroll, ClearLast, Cells, Consoles
<1>3. \A i \in Index : 0 <= i \div VGA_WIDTH
  <2> TAKE i \in Index
  <2>1. PICK r \in 0 .. VGA_HEIGHT, x \in 0 .. VGA_WIDTH - 1 : i = r * VGA_WIDTH + x /\ i \div VGA_WIDTH = r
    BY IndexBelow
  <2> QED
    BY <2>1, Sizes
<1> HIDE DEF up
<1> QED
  BY <1>1, <1>2, <1>3, Zenon DEF Consoles, ScrolledCells

-----------------------------------------------------------------------------
(* The console shows a paper: what the ideal terminal has in each cell.    *)
GlyphAt(paper, row, column) ==
    IF row < Len(paper) /\ column < Len(paper[row + 1]) THEN paper[row + 1][column + 1] ELSE Blank

CellsShow(c, paper) ==
    \A row \in 0 .. VGA_HEIGHT - 1, column \in 0 .. VGA_WIDTH - 1 :
        c.cells[row * VGA_WIDTH + column] = GlyphAt(paper, row, column)

Fits(paper) == paper \in Papers /\ Len(paper) <= VGA_HEIGHT

(* All but the column: a last line may be full, about to be left.          *)
ShowsLines(c, paper) ==
    /\ Fits(paper)
    /\ c.row = Len(paper) - 1
    /\ CellsShow(c, paper)

Shows(c, paper) ==
    /\ ShowsLines(c, paper)
    /\ c.column = Len(paper[Len(paper)])
    /\ c.column < VGA_WIDTH

LEMMA PaperType ==
    ASSUME NEW p \in Papers
    PROVE  /\ p \in Seq(Seq(Glyphs)) /\ Len(p) \in Nat /\ Len(p) > 0
           /\ \A k \in 1 .. Len(p) : p[k] \in Seq(Glyphs) /\ Len(p[k]) \in Nat
           /\ <<>> \in Seq(Glyphs)
  BY DEF Papers

LEMMA NextLineShows ==
    ASSUME NEW c \in Consoles, NEW p, ShowsLines(c, p)
    PROVE  terminal_nextline(c) \in Consoles /\ Shows(terminal_nextline(c), NewLine(p))
<1> DEFINE new == terminal_nextline(c)
           np  == NewLine(p)
<1>1. p \in Papers /\ p \in Seq(Seq(Glyphs)) /\ Len(p) \in Nat /\ Len(p) > 0 /\ Len(p) <= VGA_HEIGHT
      /\ c.row = Len(p) - 1 /\ CellsShow(c, p) /\ <<>> \in Seq(Glyphs)
  BY PaperType DEF ShowsLines, Fits
<1>2. CASE Len(p) # VGA_HEIGHT
  <2>1. new = [c EXCEPT !.column = 0, !.row = @ + 1]
    <3>1. c.row + 1 # VGA_HEIGHT
      BY <1>1, <1>2
    <3> QED
      BY <3>1, Zenon DEF terminal_nextline
  <2>2. np = Append(p, <<>>)
    BY <1>2 DEF NewLine
  <2>3. new \in Consoles /\ new.cells = c.cells /\ new.column = 0 /\ new.row = Len(p)
    <3> HIDE DEF new
    <3>1. new \in Consoles /\ new.cells = c.cells /\ new.column = 0 /\ new.row = c.row + 1
      <4>1. c.row \in Nat /\ c.row + 1 \in Nat /\ c.cells \in [Index -> Glyphs]
        BY DEF Consoles
      <4>2. new = [row |-> c.row + 1, column |-> 0, cells |-> c.cells]
        BY <2>1, Zenon DEF Consoles
      <4> QED
        BY <4>1, <4>2 DEF Consoles
    <3> QED
      BY <1>1, <3>1
  <2>4. np \in Seq(Seq(Glyphs)) /\ Len(np) = Len(p) + 1 /\ np[Len(np)] = <<>>
        /\ \A k \in 1 .. Len(p) : np[k] = p[k]
    BY <1>1, <2>2
  <2>5. ASSUME NEW row \in 0 .. VGA_HEIGHT - 1, NEW column \in 0 .. VGA_WIDTH - 1
        PROVE  GlyphAt(np, row, column) = GlyphAt(p, row, column)
    <3>1. CASE row < Len(p)
      <4>1. row + 1 \in 1 .. Len(p) /\ row < Len(p) + 1
        BY <1>1, <3>1
      <4>2. np[row + 1] = p[row + 1] /\ row < Len(np)
        <5> HIDE DEF np
        <5> QED
          BY <2>4, <4>1
      <4> QED
        BY <3>1, <4>2 DEF GlyphAt
    <3>2. CASE row = Len(p)
      <4>1. Len(np[row + 1]) = 0
        BY <1>1, <2>4, <3>2
      <4> QED
        BY <1>1, <3>2, <4>1, Sizes DEF GlyphAt
    <3>3. CASE row > Len(p)
      BY <1>1, <2>4, <3>3, SMTT(20) DEF GlyphAt
    <3> QED
      BY <1>1, <3>1, <3>2, <3>3
  <2>6. CellsShow(new, np)
    BY <1>1, <2>3, <2>5 DEF CellsShow
  <2>7. Fits(np)
    BY <1>1, <1>2, <2>4, Sizes DEF Fits, Papers
  <2> HIDE DEF new, np
  <2>8. Len(np[Len(np)]) = 0
    BY <2>4
  <2> QED
    BY <1>1, <2>3, <2>4, <2>6, <2>7, <2>8, Sizes DEF Shows, ShowsLines, new, np
<1>3. CASE Len(p) = VGA_HEIGHT
  <2> DEFINE c0 == [c EXCEPT !.column = 0]
  <2>0. c0 \in Consoles /\ c0.cells = c.cells /\ c0.row = c.row /\ c0.column = 0
    BY DEF Consoles
  <2>1. new = terminal_scroll(c0)
    BY <1>1, <1>3, Sizes DEF terminal_nextline
  <2>2. np = Append(Tail(p), <<>>)
    BY <1>3 DEF NewLine
  <2> HIDE DEF c0
  <2>3. new = [c0 EXCEPT !.cells = ScrolledCells(c0, 0)]
    BY <2>0, <2>1, ScrollIs
  <2>4. ScrolledCells(c0, 0) \in [Index -> Glyphs]
    <3>1. ASSUME NEW i \in Index, i < VGA_HEIGHT * VGA_WIDTH PROVE c0.cells[i + VGA_WIDTH] \in Glyphs
      BY <2>0, <3>1, Below DEF Consoles
    <3>2. \A i \in Index : c0.cells[i] \in Glyphs /\ Blank \in Glyphs
      BY <2>0 DEF Consoles, Glyphs
    <3> QED
      BY <3>1, <3>2 DEF ScrolledCells
  <2>5. new \in Consoles /\ new.cells = ScrolledCells(c0, 0) /\ new.column = 0 /\ new.row = Len(p) - 1
    BY <1>1, <2>0, <2>3, <2>4, Zenon DEF Consoles
  <2>6. np \in Seq(Seq(Glyphs)) /\ Len(np) = Len(p) /\ np[Len(np)] = <<>>
        /\ \A k \in 1 .. Len(p) - 1 : np[k] = p[k + 1]
    <3>1. Tail(p) \in Seq(Seq(Glyphs)) /\ Len(Tail(p)) = Len(p) - 1
          /\ \A k \in 1 .. Len(p) - 1 : Tail(p)[k] = p[k + 1]
      BY <1>1
    <3> QED
      BY <1>1, <2>2, <3>1
  <2>7. ASSUME NEW row \in 0 .. VGA_HEIGHT - 1, NEW column \in 0 .. VGA_WIDTH - 1
        PROVE  new.cells[row * VGA_WIDTH + column] = GlyphAt(np, row, column)
    <3>1. row * VGA_WIDTH + column \in Index /\ (row * VGA_WIDTH + column) \div VGA_WIDTH = row
      BY CellAt, InIndex, Sizes
    <3>2. CASE row = VGA_HEIGHT - 1
      <4>1. Len(np[row + 1]) = 0
        BY <1>3, <2>6, <3>2
      <4>2. GlyphAt(np, row, column) = Blank
        BY <4>1 DEF GlyphAt
      <4> QED
        BY <2>5, <3>1, <3>2, <4>2 DEF ScrolledCells
    <3>3. CASE row # VGA_HEIGHT - 1
      <4>1. row * VGA_WIDTH + column < VGA_HEIGHT * VGA_WIDTH
        BY RowsInOrder, Sizes
      <4>2. (row * VGA_WIDTH + column) + VGA_WIDTH = (row + 1) * VGA_WIDTH + column
        BY Sizes
      <4>3. new.cells[row * VGA_WIDTH + column] = c.cells[(row + 1) * VGA_WIDTH + column]
        BY <2>0, <2>5, <3>1, <3>3, <4>1, <4>2 DEF ScrolledCells
      <4>4. row + 1 \in 0 .. VGA_HEIGHT - 1
        BY <3>3, Sizes
      <4>5. new.cells[row * VGA_WIDTH + column] = GlyphAt(p, row + 1, column)
        BY <1>1, <4>3, <4>4 DEF CellsShow
      <4>6. GlyphAt(p, row + 1, column) = GlyphAt(np, row, column)
        <5>1. np[row + 1] = p[(row + 1) + 1] /\ row < Len(np) /\ row + 1 < Len(p)
          BY <1>1, <1>3, <2>6, <4>4, Sizes
        <5> QED
          BY <5>1 DEF GlyphAt
      <4> QED
        BY <4>5, <4>6
    <3> QED
      BY <3>2, <3>3
  <2>8. CellsShow(new, np)
    BY <2>7 DEF CellsShow
  <2>9. Fits(np)
    BY <1>1, <2>6 DEF Fits, Papers
  <2> HIDE DEF new, np
  <2>10. Len(np[Len(np)]) = 0
    BY <2>6
  <2> QED
    BY <1>1, <2>5, <2>6, <2>8, <2>9, <2>10, Sizes DEF Shows, ShowsLines, new, np
<1> QED
  BY <1>2, <1>3

(* terminal_putchar prints what the ideal terminal would.                  *)
LEMMA PutcharShows ==
    ASSUME NEW c \in Consoles, NEW p, NEW ch \in Glyphs, Shows(c, p)
    PROVE  terminal_putchar(c, ch) \in Consoles /\ Shows(terminal_putchar(c, ch), Typed(p, ch))
<1>1. p \in Papers /\ p \in Seq(Seq(Glyphs)) /\ Len(p) \in Nat /\ Len(p) > 0 /\ Len(p) <= VGA_HEIGHT
      /\ c.row = Len(p) - 1 /\ CellsShow(c, p)
      /\ p[Len(p)] \in Seq(Glyphs) /\ c.column = Len(p[Len(p)]) /\ c.column < VGA_WIDTH
  BY PaperType DEF Shows, ShowsLines, Fits
<1>2. CASE ch = Newline
  <2>1. terminal_putchar(c, ch) = terminal_nextline(c) /\ Typed(p, ch) = NewLine(p)
    BY <1>2 DEF terminal_putchar, Typed
  <2>2. ShowsLines(c, p)
    BY DEF Shows
  <2> QED
    BY <2>1, <2>2, NextLineShows
<1>3. CASE ch # Newline
  <2> DEFINE line == Append(p[Len(p)], ch)
             pp   == [p EXCEPT ![Len(p)] = line]
             at   == c.row * VGA_WIDTH + c.column
             put  == terminal_putentryat(c, ch, at)
  <2>1. c.row \in 0 .. VGA_HEIGHT - 1 /\ c.column \in 0 .. VGA_WIDTH - 1
    BY <1>1, Sizes DEF Consoles
  <2>2. at \in Index
    <3>1. c.row \in 0 .. VGA_HEIGHT
      BY <2>1, Sizes
    <3> QED
      BY <2>1, <3>1, InIndex
  <2>3. put = [c EXCEPT !.cells[at] = ch]
    BY <2>2 DEF terminal_putentryat, Consoles
  <2>4. put \in Consoles /\ put.row = c.row /\ put.column = c.column
        /\ put.cells[at] = ch /\ \A i \in Index : i # at => put.cells[i] = c.cells[i]
    BY <2>2, <2>3 DEF Consoles
  <2>5. line \in Seq(Glyphs) /\ Len(line) = c.column + 1 /\ line[c.column + 1] = ch
        /\ \A k \in 1 .. c.column : line[k] = p[Len(p)][k]
    BY <1>1
  <2>6. pp \in Seq(Seq(Glyphs)) /\ Len(pp) = Len(p) /\ pp[Len(p)] = line
        /\ \A k \in 1 .. Len(p) : k # Len(p) => pp[k] = p[k]
    BY <1>1, <2>5
  <2>7. ASSUME NEW row \in 0 .. VGA_HEIGHT - 1, NEW column \in 0 .. VGA_WIDTH - 1
        PROVE  put.cells[row * VGA_WIDTH + column] = GlyphAt(pp, row, column)
    <3> DEFINE i == row * VGA_WIDTH + column
    <3>1. i \in Index /\ i \div VGA_WIDTH = row
      BY CellAt, InIndex, Sizes
    <3>2. at \div VGA_WIDTH = c.row
      BY <2>1, CellAt, Sizes
    <3>3. c.cells[i] = GlyphAt(p, row, column)
      BY <1>1 DEF CellsShow
    <3>4. CASE row = c.row /\ column = c.column
      <4>1. put.cells[i] = ch
        BY <2>4, <3>4
      <4>2. GlyphAt(pp, row, column) = ch
        <5> HIDE DEF line, pp, put, at, i
        <5>1. row + 1 = Len(p) /\ row < Len(pp) /\ column < Len(line) /\ pp[row + 1] = line
          BY <1>1, <2>5, <2>6, <3>4
        <5>2. line[column + 1] = ch
          BY <2>5, <3>4
        <5> QED
          BY <5>1, <5>2 DEF GlyphAt
      <4> QED
        BY <4>1, <4>2
    <3>5. CASE row = c.row /\ column # c.column
      <4>1. i # at
        BY <2>1, <3>5, Sizes
      <4>2. GlyphAt(pp, row, column) = GlyphAt(p, row, column)
        <5> HIDE DEF line, pp, put, at, i
        <5>1. row + 1 = Len(p) /\ row < Len(pp) /\ row < Len(p) /\ pp[row + 1] = line
          BY <1>1, <2>6, <3>5
        <5>2. CASE column < c.column
          <6>1. column + 1 \in 1 .. c.column /\ column < Len(line)
            BY <2>1, <2>5, <5>2
          <6>2. line[column + 1] = p[Len(p)][column + 1]
            BY <2>5, <6>1
          <6> QED
            BY <1>1, <5>1, <5>2, <6>1, <6>2 DEF GlyphAt
        <5>3. CASE column > c.column
          <6>1. ~ (column < Len(line)) /\ ~ (column < Len(p[Len(p)]))
            BY <1>1, <2>1, <2>5, <5>3
          <6> QED
            BY <5>1, <6>1 DEF GlyphAt
        <5> QED
          BY <2>1, <3>5, <5>2, <5>3
      <4> HIDE DEF i, at, put
      <4> QED
        BY <2>4, <3>1, <3>3, <4>1, <4>2 DEF i
    <3>6. CASE row # c.row
      <4>1. i # at
        BY <3>1, <3>2, <3>6
      <4>2. GlyphAt(pp, row, column) = GlyphAt(p, row, column)
        <5> HIDE DEF line, pp, put, at, i
        <5> QED
          BY <1>1, <2>6, <3>6, SMTT(20) DEF GlyphAt
      <4> HIDE DEF i, at, put
      <4> QED
        BY <2>4, <3>1, <3>3, <4>1, <4>2 DEF i
    <3> QED
      BY <3>4, <3>5, <3>6
  <2>8. CellsShow(put, pp)
    BY <2>7, Zenon DEF CellsShow
  <2>9. Fits(pp)
    <3> HIDE DEF pp
    <3>1. pp # <<>>
      BY <1>1, <2>6
    <3> QED
      BY <1>1, <2>6, <3>1 DEF Fits, Papers
  <2>10. terminal_putchar(c, ch) = IF c.column + 1 = VGA_WIDTH THEN terminal_nextline(put) ELSE [put EXCEPT !.column = @ + 1]
    BY <1>3 DEF terminal_putchar
  <2>11. Typed(p, ch) = IF Len(line) = VGA_WIDTH THEN NewLine(pp) ELSE pp
    BY <1>3 DEF Typed
  <2> HIDE DEF line, pp, put
  <2>12. ShowsLines(put, pp)
    BY <1>1, <2>4, <2>6, <2>8, <2>9 DEF ShowsLines
  <2>13. CASE c.column + 1 = VGA_WIDTH
    <3>1. terminal_putchar(c, ch) = terminal_nextline(put) /\ Typed(p, ch) = NewLine(pp)
      BY <2>5, <2>10, <2>11, <2>13
    <3> QED
      BY <2>4, <2>12, <3>1, NextLineShows
  <2>14. CASE c.column + 1 # VGA_WIDTH
    <3> DEFINE new == [put EXCEPT !.column = @ + 1]
    <3>1. terminal_putchar(c, ch) = new /\ Typed(p, ch) = pp
      BY <2>5, <2>10, <2>11, <2>14
    <3>2. new \in Consoles /\ new.row = put.row /\ new.cells = put.cells /\ new.column = c.column + 1
      BY <2>4 DEF Consoles
    <3> HIDE DEF new
    <3>3. ShowsLines(new, pp)
      BY <2>12, <3>2 DEF ShowsLines, CellsShow
    <3>4. Shows(new, pp)
      BY <2>1, <2>5, <2>6, <2>14, <3>2, <3>3, Sizes DEF Shows
    <3> QED
      BY <3>1, <3>2, <3>4
  <2> QED
    BY <2>13, <2>14
<1> QED
  BY <1>2, <1>3

-----------------------------------------------------------------------------
(* Types of the console's operations, wherever the cursor is; from a place *)
(* on the screen they stay on it.                                          *)
Visible(c) == c.row < VGA_HEIGHT /\ c.column < VGA_WIDTH

LEMMA ScrolledType ==
    ASSUME NEW c \in Consoles, NEW from
    PROVE  ScrolledCells(c, from) \in [Index -> Glyphs]
<1>1. ASSUME NEW i \in Index, i < VGA_HEIGHT * VGA_WIDTH PROVE c.cells[i + VGA_WIDTH] \in Glyphs
  BY <1>1, Below DEF Consoles
<1>2. \A i \in Index : c.cells[i] \in Glyphs /\ Blank \in Glyphs
  BY DEF Consoles, Glyphs
<1> QED
  BY <1>1, <1>2 DEF ScrolledCells

LEMMA SetCells ==
    ASSUME NEW c \in Consoles, NEW f \in [Index -> Glyphs]
    PROVE  LET d == [c EXCEPT !.cells = f]
           IN  d \in Consoles /\ d.row = c.row /\ d.column = c.column /\ d.cells = f
  BY DEF Consoles

LEMMA ScrollType ==
    ASSUME NEW c \in Consoles
    PROVE  /\ terminal_scroll(c) \in Consoles
           /\ terminal_scroll(c).row = c.row /\ terminal_scroll(c).column = c.column
<1> DEFINE f == ScrolledCells(c, 0)
<1>1. terminal_scroll(c) = [c EXCEPT !.cells = f]
  BY ScrollIs
<1>2. f \in [Index -> Glyphs]
  BY ScrolledType
<1> HIDE DEF f
<1> QED
  BY <1>1, <1>2, SetCells

LEMMA PutentryType ==
    ASSUME NEW c \in Consoles, NEW ch \in Glyphs, NEW i
    PROVE  /\ terminal_putentryat(c, ch, i) \in Consoles
           /\ terminal_putentryat(c, ch, i).row = c.row
           /\ terminal_putentryat(c, ch, i).column = c.column
  BY DEF terminal_putentryat, Consoles

LEMMA NextlineType ==
    ASSUME NEW c \in Consoles
    PROVE  /\ terminal_nextline(c) \in Consoles
           /\ Visible(c) => Visible(terminal_nextline(c))
<1> DEFINE c0 == [c EXCEPT !.column = 0]
<1>1. c0 \in Consoles /\ c0.row = c.row /\ c0.column = 0 /\ c.row \in Nat
  BY DEF Consoles
<1>2. CASE c.row + 1 = VGA_HEIGHT
  <2>1. terminal_nextline(c) = terminal_scroll(c0)
    BY <1>2 DEF terminal_nextline
  <2> HIDE DEF c0
  <2> QED
    BY <1>1, <2>1, ScrollType, Sizes DEF Visible
<1>3. CASE c.row + 1 # VGA_HEIGHT
  <2> DEFINE d == [row |-> c.row + 1, column |-> 0, cells |-> c.cells]
  <2>1. terminal_nextline(c) = [c EXCEPT !.column = 0, !.row = @ + 1]
    BY <1>3, Zenon DEF terminal_nextline
  <2>2. terminal_nextline(c) = d
    BY <2>1, Zenon DEF Consoles
  <2>3. d \in Consoles
    BY <1>1 DEF Consoles
  <2>4. Visible(c) => Visible(d)
    BY <1>1, <1>3, Sizes DEF Visible
  <2> QED
    BY <2>2, <2>3, <2>4
<1> QED
  BY <1>2, <1>3

LEMMA PutcharType ==
    ASSUME NEW c \in Consoles, NEW ch \in Glyphs
    PROVE  /\ terminal_putchar(c, ch) \in Consoles
           /\ Visible(c) => Visible(terminal_putchar(c, ch))
<1> DEFINE put == terminal_putentryat(c, ch, c.row * VGA_WIDTH + c.column)
           new == [put EXCEPT !.column = @ + 1]
<1>1. terminal_putchar(c, ch) = IF ch = Newline THEN terminal_nextline(c)
                                ELSE IF c.column + 1 = VGA_WIDTH THEN terminal_nextline(put) ELSE new
  BY DEF terminal_putchar
<1>2. put \in Consoles /\ put.row = c.row /\ put.column = c.column
  BY PutentryType
<1> HIDE DEF put
<1>3. new \in Consoles /\ new.row = c.row /\ new.column = c.column + 1
  BY <1>2 DEF Consoles
<1> HIDE DEF new
<1>4. c.column + 1 # VGA_WIDTH /\ Visible(c) => Visible(new)
  <2>1. c.column \in Nat
    BY DEF Consoles
  <2> QED
    BY <1>3, <2>1, Sizes DEF Visible
<1>5. Visible(c) => Visible(put)
  BY <1>2 DEF Visible
<1>6. terminal_nextline(c) \in Consoles /\ (Visible(c) => Visible(terminal_nextline(c)))
  BY NextlineType
<1>7. terminal_nextline(put) \in Consoles /\ (Visible(put) => Visible(terminal_nextline(put)))
  BY <1>2, NextlineType
<1> QED
  BY <1>1, <1>3, <1>4, <1>5, <1>6, <1>7

LEMMA TypedType ==
    ASSUME NEW p \in Papers, NEW ch \in Glyphs
    PROVE  Typed(p, ch) \in Papers
<1> DEFINE line == Append(p[Len(p)], ch)
           pp   == [p EXCEPT ![Len(p)] = line]
<1>1. p \in Seq(Seq(Glyphs)) /\ Len(p) \in Nat /\ Len(p) > 0 /\ p[Len(p)] \in Seq(Glyphs) /\ <<>> \in Seq(Glyphs)
  BY PaperType
<1>2. line \in Seq(Glyphs)
  BY <1>1
<1> HIDE DEF line
<1>3. pp \in Papers
  <2>1. pp \in Seq(Seq(Glyphs)) /\ Len(pp) = Len(p)
    BY <1>1, <1>2
  <2>2. pp # <<>>
    BY <1>1, <2>1
  <2> QED
    BY <2>1, <2>2 DEF Papers
<1>4. ASSUME NEW q \in Papers PROVE NewLine(q) \in Papers
  <2>1. q \in Seq(Seq(Glyphs)) /\ Len(q) > 0 /\ q # <<>>
    BY PaperType DEF Papers
  <2>2. Tail(q) \in Seq(Seq(Glyphs))
    BY <2>1
  <2>3. ASSUME NEW z \in Seq(Seq(Glyphs)) PROVE Append(z, <<>>) \in Papers
    <3>1. Append(z, <<>>) \in Seq(Seq(Glyphs)) /\ Len(Append(z, <<>>)) = Len(z) + 1 /\ Len(z) \in Nat
      BY <1>1
    <3>2. Append(z, <<>>) # <<>>
      BY <3>1, SMTT(20)
    <3> QED
      BY <3>1, <3>2 DEF Papers
  <2> QED
    BY <2>1, <2>2, <2>3, Zenon DEF NewLine
<1> HIDE DEF pp
<1>5. Typed(p, ch) = IF ch = Newline THEN NewLine(p) ELSE IF Len(line) = VGA_WIDTH THEN NewLine(pp) ELSE pp
  BY DEF Typed, line, pp
<1> QED
  BY <1>3, <1>4, <1>5

-----------------------------------------------------------------------------
(* terminal_write, a character at a time.                                  *)
LEMMA WritingDef ==
    ASSUME NEW c \in Consoles, NEW text \in Seq(Glyphs)
    PROVE  LET w == Writing(c, text)
           IN  /\ w \in [0 .. Len(text) -> Consoles] /\ w[0] = c
               /\ \A n \in 1 .. Len(text) : w[n] = terminal_putchar(w[n - 1], text[n])
<1> DEFINE N == Len(text)
           step == [x \in Consoles \X (1 .. N) |-> terminal_putchar(x[1], text[x[2]])]
<1>1. N \in Nat /\ \A n \in 1 .. N : text[n] \in Glyphs
  OBVIOUS
<1>2. StepUpTo(step, N, Consoles)
  BY <1>1, PutcharType DEF StepUpTo
<1>3. \A d \in Consoles, n \in 1 .. N : step[<<d, n>>] = terminal_putchar(d, text[n])
  OBVIOUS
<1> HIDE DEF step, N
<1>4. PICK f : ByRecursionUpTo(f, N, Consoles, c, step)
  BY <1>1, <1>2, RecursionUpTo
<1>5. f \in [0 .. N -> Consoles] /\ f[0] = c
  BY <1>4 DEF ByRecursionUpTo
<1>6. ASSUME NEW n \in 1 .. N PROVE f[n] = terminal_putchar(f[n - 1], text[n])
  <2>1. f[n - 1] \in Consoles
    BY <1>1, <1>5
  <2>2. f[n] = step[<<f[n - 1], n>>]
    BY <1>4 DEF ByRecursionUpTo
  <2> QED
    BY <1>3, <2>1, <2>2
<1>7. f = [n \in 0 .. N |-> IF n = 0 THEN c ELSE terminal_putchar(f[n - 1], text[n])]
  <2>1. ASSUME NEW n \in 0 .. N PROVE f[n] = IF n = 0 THEN c ELSE terminal_putchar(f[n - 1], text[n])
    BY <1>1, <1>5, <1>6
  <2> QED
    BY <1>5, <2>1
<1> DEFINE w == Writing(c, text)
<1>8. w = [n \in 0 .. N |-> IF n = 0 THEN c ELSE terminal_putchar(w[n - 1], text[n])]
  BY <1>7, Zenon DEF Writing, N
<1> HIDE DEF w
<1>9. w[0] = c /\ \A n \in 1 .. N : w[n] = terminal_putchar(w[n - 1], text[n])
  BY <1>1, <1>8
<1> DEFINE T == {n \in 0 .. N : w[n] \in Consoles}
<1>10. 0 \in T
  BY <1>1, <1>9
<1>11. \A n \in 0 .. N - 1 : n \in T => n + 1 \in T
  <2> TAKE n \in 0 .. N - 1
  <2> HAVE n \in T
  <2>1. w[n] \in Consoles /\ n + 1 \in 1 .. N /\ (n + 1) - 1 = n /\ text[n + 1] \in Glyphs
    BY <1>1
  <2>2. w[n + 1] = terminal_putchar(w[n], text[n + 1])
    BY <1>9, <2>1
  <2>3. w[n + 1] \in Consoles
    BY <2>1, <2>2, PutcharType
  <2> QED
    BY <1>1, <2>1, <2>3
<1>12. \A n \in 0 .. N : n \in T
  <2> HIDE DEF T
  <2> QED
    BY <1>1, <1>10, <1>11, InductionUpTo, SMTT(20)
<1>13. w \in [0 .. N -> Consoles]
  BY <1>8, <1>12
<1> QED
  BY <1>9, <1>13 DEF w, N

LEMMA TypingDef ==
    ASSUME NEW p \in Papers, NEW text \in Seq(Glyphs)
    PROVE  LET w == Typing(p, text)
           IN  /\ w \in [0 .. Len(text) -> Papers] /\ w[0] = p
               /\ \A n \in 1 .. Len(text) : w[n] = Typed(w[n - 1], text[n])
<1> DEFINE N == Len(text)
           step == [x \in Papers \X (1 .. N) |-> Typed(x[1], text[x[2]])]
<1>1. N \in Nat /\ \A n \in 1 .. N : text[n] \in Glyphs
  OBVIOUS
<1>2. StepUpTo(step, N, Papers)
  BY <1>1, TypedType DEF StepUpTo
<1>3. \A d \in Papers, n \in 1 .. N : step[<<d, n>>] = Typed(d, text[n])
  OBVIOUS
<1> HIDE DEF step, N
<1>4. PICK f : ByRecursionUpTo(f, N, Papers, p, step)
  BY <1>1, <1>2, RecursionUpTo
<1>5. f \in [0 .. N -> Papers] /\ f[0] = p
  BY <1>4 DEF ByRecursionUpTo
<1>6. ASSUME NEW n \in 1 .. N PROVE f[n] = Typed(f[n - 1], text[n])
  <2>1. f[n - 1] \in Papers
    BY <1>1, <1>5
  <2>2. f[n] = step[<<f[n - 1], n>>]
    BY <1>4 DEF ByRecursionUpTo
  <2> QED
    BY <1>3, <2>1, <2>2
<1>7. f = [n \in 0 .. N |-> IF n = 0 THEN p ELSE Typed(f[n - 1], text[n])]
  <2>1. ASSUME NEW n \in 0 .. N PROVE f[n] = IF n = 0 THEN p ELSE Typed(f[n - 1], text[n])
    BY <1>1, <1>5, <1>6
  <2> QED
    BY <1>5, <2>1
<1> DEFINE w == Typing(p, text)
<1>8. w = [n \in 0 .. N |-> IF n = 0 THEN p ELSE Typed(w[n - 1], text[n])]
  BY <1>7, Zenon DEF Typing, N
<1> HIDE DEF w
<1>9. w[0] = p /\ \A n \in 1 .. N : w[n] = Typed(w[n - 1], text[n])
  BY <1>1, <1>8
<1> DEFINE T == {n \in 0 .. N : w[n] \in Papers}
<1>10. 0 \in T
  BY <1>1, <1>9
<1>11. \A n \in 0 .. N - 1 : n \in T => n + 1 \in T
  <2> TAKE n \in 0 .. N - 1
  <2> HAVE n \in T
  <2>1. w[n] \in Papers /\ n + 1 \in 1 .. N /\ (n + 1) - 1 = n /\ text[n + 1] \in Glyphs
    BY <1>1
  <2>2. w[n + 1] = Typed(w[n], text[n + 1])
    BY <1>9, <2>1
  <2>3. w[n + 1] \in Papers
    BY <2>1, <2>2, TypedType
  <2> QED
    BY <1>1, <2>1, <2>3
<1>12. \A n \in 0 .. N : n \in T
  <2> HIDE DEF T
  <2> QED
    BY <1>1, <1>10, <1>11, InductionUpTo
<1>13. w \in [0 .. N -> Papers]
  BY <1>8, <1>12
<1> QED
  BY <1>9, <1>13 DEF w, N

LEMMA WriteType ==
    ASSUME NEW c \in Consoles, NEW text \in Seq(Glyphs)
    PROVE  /\ terminal_write(c, text) \in Consoles
           /\ Visible(c) => Visible(terminal_write(c, text))
<1> DEFINE w == Writing(c, text)
           N == Len(text)
           T == {n \in 0 .. N : Visible(c) => Visible(w[n])}
<1>1. /\ w \in [0 .. N -> Consoles] /\ w[0] = c
      /\ \A n \in 1 .. N : w[n] = terminal_putchar(w[n - 1], text[n])
  BY WritingDef
<1>2. N \in Nat /\ \A n \in 1 .. N : text[n] \in Glyphs
  OBVIOUS
<1> HIDE DEF w, N
<1>3. 0 \in T
  BY <1>1, <1>2
<1>4. \A n \in 0 .. N - 1 : n \in T => n + 1 \in T
  <2> TAKE n \in 0 .. N - 1
  <2> HAVE n \in T
  <2>1. w[n] \in Consoles /\ n + 1 \in 1 .. N /\ (n + 1) - 1 = n /\ text[n + 1] \in Glyphs
        /\ n + 1 \in 0 .. N
    BY <1>1, <1>2
  <2>2. w[n + 1] = terminal_putchar(w[n], text[n + 1])
    BY <1>1, <2>1
  <2>3. Visible(w[n]) => Visible(w[n + 1])
    BY <2>1, <2>2, PutcharType
  <2> QED
    BY <2>1, <2>3
<1>5. \A n \in 0 .. N : n \in T
  <2> HIDE DEF T
  <2> QED
    BY <1>2, <1>3, <1>4, InductionUpTo, SMTT(20)
<1>6. N \in 0 .. N
  BY <1>2
<1>7. terminal_write(c, text) = w[N]
  BY DEF terminal_write, w, N
<1> QED
  BY <1>1, <1>5, <1>6, <1>7

(* terminal_write prints what the ideal terminal would.                    *)
LEMMA WriteShows ==
    ASSUME NEW c \in Consoles, NEW p \in Papers, NEW text \in Seq(Glyphs), Shows(c, p)
    PROVE  Shows(terminal_write(c, text), TypedAll(p, text)) /\ TypedAll(p, text) \in Papers
<1> DEFINE w == Writing(c, text)
           t == Typing(p, text)
           N == Len(text)
           T == {n \in 0 .. N : Shows(w[n], t[n])}
<1>1. /\ w \in [0 .. N -> Consoles] /\ w[0] = c
      /\ \A n \in 1 .. N : w[n] = terminal_putchar(w[n - 1], text[n])
  BY WritingDef
<1>2. /\ t \in [0 .. N -> Papers] /\ t[0] = p
      /\ \A n \in 1 .. N : t[n] = Typed(t[n - 1], text[n])
  BY TypingDef
<1>3. N \in Nat /\ \A n \in 1 .. N : text[n] \in Glyphs
  OBVIOUS
<1> HIDE DEF w, t, N
<1>4. 0 \in T
  BY <1>1, <1>2, <1>3
<1>5. \A n \in 0 .. N - 1 : n \in T => n + 1 \in T
  <2> TAKE n \in 0 .. N - 1
  <2> HAVE n \in T
  <2>1. w[n] \in Consoles /\ n + 1 \in 1 .. N /\ (n + 1) - 1 = n /\ text[n + 1] \in Glyphs
        /\ n + 1 \in 0 .. N
    BY <1>1, <1>3
  <2>2. w[n + 1] = terminal_putchar(w[n], text[n + 1]) /\ t[n + 1] = Typed(t[n], text[n + 1])
    BY <1>1, <1>2, <2>1
  <2>3. Shows(w[n + 1], t[n + 1])
    BY <2>1, <2>2, PutcharShows
  <2> QED
    BY <2>1, <2>3
<1>6. \A n \in 0 .. N : n \in T
  <2> HIDE DEF T
  <2> QED
    BY <1>3, <1>4, <1>5, InductionUpTo
<1>7. N \in 0 .. N
  BY <1>3
<1>8. terminal_write(c, text) = w[N] /\ TypedAll(p, text) = t[N]
  BY DEF terminal_write, TypedAll, w, t, N
<1> QED
  BY <1>2, <1>6, <1>7, <1>8

-----------------------------------------------------------------------------
(* What main's undisturbed steps through terminal_putchar will leave.      *)
AfterColumn(c) == IF c.column + 1 = VGA_WIDTH THEN terminal_nextline(c) ELSE [c EXCEPT !.column = @ + 1]

WillShow(m, c, paper) ==
    /\ m.pc = "idle"         => Shows(c, paper)
    /\ m.pc = "write"        => Shows(AfterColumn(terminal_putentryat(c, m.c, m.at)), paper)
    /\ m.pc = "test_column"  => Shows(AfterColumn(c), paper)
    /\ m.pc = "load_column"  => Shows([c EXCEPT !.column = @ + 1], paper)
    /\ m.pc = "store_column" => Shows([c EXCEPT !.column = m.at + 1], paper)
    /\ m.pc = "column0"      => Shows(terminal_nextline(c), paper)
    /\ m.pc = "test_row"     => c.column = 0 /\ Shows(terminal_nextline(c), paper)
    /\ m.pc = "load_row"     => Shows([c EXCEPT !.row = @ + 1], paper)
    /\ m.pc = "store_row"    => Shows([c EXCEPT !.row = m.at + 1], paper)
    /\ m.pc = "scroll"       => Shows([c EXCEPT !.cells = ScrolledCells(c, m.at)], paper)

(* One row of the scroll, and the clearing of the last.                    *)
LEMMA ScrollRowIs ==
    ASSUME NEW c \in Consoles, NEW at \in 0 .. VGA_HEIGHT - 1
    PROVE  /\ ScrollRow(c, at) \in Consoles
           /\ ScrollRow(c, at).row = c.row /\ ScrollRow(c, at).column = c.column
           /\ ScrolledCells(ScrollRow(c, at), at + 1) = ScrolledCells(c, at)
<1> DEFINE f == [i \in Index |-> IF i \div VGA_WIDTH = at THEN c.cells[i + VGA_WIDTH] ELSE c.cells[i]]
           d == ScrollRow(c, at)
<1>1. d = [c EXCEPT !.cells = f]
  BY DEF ScrollRow, Cells, Consoles
<1>2. ASSUME NEW i \in Index
      PROVE  /\ i \div VGA_WIDTH \in 0 .. VGA_HEIGHT
             /\ i < VGA_HEIGHT * VGA_WIDTH <=> i \div VGA_WIDTH < VGA_HEIGHT
             /\ i < VGA_HEIGHT * VGA_WIDTH => i + VGA_WIDTH \in Index /\ (i + VGA_WIDTH) \div VGA_WIDTH = i \div VGA_WIDTH + 1
  <2>1. PICK r \in 0 .. VGA_HEIGHT, x \in 0 .. VGA_WIDTH - 1 : i = r * VGA_WIDTH + x /\ i \div VGA_WIDTH = r
    BY IndexBelow
  <2>2. i < VGA_HEIGHT * VGA_WIDTH <=> r < VGA_HEIGHT
    BY <2>1, RowsInOrder, Sizes
  <2>3. i + VGA_WIDTH = (r + 1) * VGA_WIDTH + x
    BY <2>1, Sizes
  <2>4. ((r + 1) * VGA_WIDTH + x) \div VGA_WIDTH = r + 1
    BY CellAt
  <2>5. i < VGA_HEIGHT * VGA_WIDTH => i + VGA_WIDTH \in Index
    BY Below
  <2> QED
    BY <2>1, <2>2, <2>3, <2>4, <2>5
<1>3. f \in [Index -> Glyphs]
  <2>1. \A i \in Index : c.cells[i] \in Glyphs
    BY DEF Consoles
  <2>2. \A i \in Index : i \div VGA_WIDTH = at => c.cells[i + VGA_WIDTH] \in Glyphs
    BY <1>2, <2>1, Sizes
  <2> QED
    BY <2>1, <2>2
<1> HIDE DEF d
<1>4. d \in Consoles /\ d.row = c.row /\ d.column = c.column /\ d.cells = f
  <2> HIDE DEF f
  <2> QED
    BY <1>1, <1>3, SetCells
<1>5. ASSUME NEW i \in Index PROVE ScrolledCells(d, at + 1)[i] = ScrolledCells(c, at)[i]
  <2> DEFINE r == i \div VGA_WIDTH
  <2>1. r \in 0 .. VGA_HEIGHT /\ (i < VGA_HEIGHT * VGA_WIDTH <=> r < VGA_HEIGHT)
    BY <1>2
  <2>2. d.cells[i] = IF r = at THEN c.cells[i + VGA_WIDTH] ELSE c.cells[i]
    BY <1>4
  <2>3. r < VGA_HEIGHT /\ r # at - 1 => d.cells[i + VGA_WIDTH] = c.cells[i + VGA_WIDTH]
    BY <1>2, <1>4, Sizes
  <2>4. ScrolledCells(d, at + 1)[i] = IF r = VGA_HEIGHT - 1 THEN Blank
                     ELSE IF at + 1 <= r /\ i < VGA_HEIGHT * VGA_WIDTH THEN d.cells[i + VGA_WIDTH] ELSE d.cells[i]
    BY DEF ScrolledCells
  <2>5. ScrolledCells(c, at)[i] = IF r = VGA_HEIGHT - 1 THEN Blank
                     ELSE IF at <= r /\ i < VGA_HEIGHT * VGA_WIDTH THEN c.cells[i + VGA_WIDTH] ELSE c.cells[i]
    BY DEF ScrolledCells
  <2> HIDE DEF r
  <2> QED
    BY <2>1, <2>2, <2>3, <2>4, <2>5, Sizes
<1>6. ScrolledCells(d, at + 1) = ScrolledCells(c, at)
  <2>1. ScrolledCells(d, at + 1) \in [Index -> Glyphs] /\ ScrolledCells(c, at) \in [Index -> Glyphs]
    BY <1>4, ScrolledType
  <2> QED
    BY <1>5, <2>1
<1> QED
  BY <1>4, <1>6 DEF d

LEMMA ClearLastIs ==
    ASSUME NEW c \in Consoles
    PROVE  ClearLast(c) = [c EXCEPT !.cells = ScrolledCells(c, VGA_HEIGHT)]
<1> DEFINE f == [i \in Index |-> IF i \div VGA_WIDTH = VGA_HEIGHT - 1 THEN Blank ELSE c.cells[i]]
<1>1. ClearLast(c) = [c EXCEPT !.cells = f]
  BY DEF ClearLast, Cells, Consoles
<1>2. ASSUME NEW i \in Index PROVE ~ (VGA_HEIGHT <= i \div VGA_WIDTH /\ i < VGA_HEIGHT * VGA_WIDTH)
  <2>1. PICK r \in 0 .. VGA_HEIGHT, x \in 0 .. VGA_WIDTH - 1 : i = r * VGA_WIDTH + x /\ i \div VGA_WIDTH = r
    BY IndexBelow
  <2>2. i < VGA_HEIGHT * VGA_WIDTH <=> r < VGA_HEIGHT
    BY <2>1, RowsInOrder, Sizes
  <2> QED
    BY <2>1, <2>2, Sizes
<1>3. f = ScrolledCells(c, VGA_HEIGHT)
  BY <1>2 DEF ScrolledCells
<1> HIDE DEF f
<1> QED
  BY <1>1, <1>3

-----------------------------------------------------------------------------
(* The texts that handlers print.                                          *)
LEMMA WriteNothing ==
    ASSUME NEW c \in Consoles
    PROVE  terminal_write(c, <<>>) = c
<1>1. <<>> \in Seq(Glyphs) /\ Len(<<>>) = 0
  OBVIOUS
<1>2. Writing(c, <<>>)[0] = c
  BY <1>1, WritingDef, Zenon
<1> QED
  BY <1>1, <1>2 DEF terminal_write

LEMMA Texts ==
    /\ <<>> \in Seq(Glyphs)
    /\ dummy_time_event \in Seq(Glyphs)
    /\ \A event : dummy_key_handler(event) \in Seq(Glyphs)
<1>1. "a" \in Glyphs /\ "t" \in Glyphs /\ Newline \in Glyphs
  BY DEF Glyphs
<1>2. <<>> \in Seq(Glyphs) /\ <<"a">> \in Seq(Glyphs) /\ <<Newline>> \in Seq(Glyphs) /\ <<"t", Newline>> \in Seq(Glyphs)
  BY <1>1
<1>3. dummy_time_event \in Seq(Glyphs)
  BY <1>2 DEF dummy_time_event
<1>4. ASSUME NEW event PROVE dummy_key_handler(event) \in Seq(Glyphs)
  <2>1. CASE event.pressed /\ event.code = "A"
    BY <1>2, <2>1 DEF dummy_key_handler
  <2>2. CASE event.pressed /\ event.code = "ENTER"
    BY <1>2, <2>2 DEF dummy_key_handler
  <2>3. CASE ~ (event.pressed /\ event.code = "A") /\ ~ (event.pressed /\ event.code = "ENTER")
    BY <1>2, <2>3 DEF dummy_key_handler
  <2> QED
    BY <2>1, <2>2, <2>3
<1> QED
  BY <1>2, <1>3, <1>4

LEMMA TypedAllType ==
    ASSUME NEW p \in Papers, NEW text \in Seq(Glyphs)
    PROVE  TypedAll(p, text) \in Papers
<1>1. Len(text) \in 0 .. Len(text)
  OBVIOUS
<1> QED
  BY <1>1, TypingDef DEF TypedAll

LEMMA EmptyPaper == <<<<>>>> \in Papers
<1>1. <<>> \in Seq(Glyphs)
  OBVIOUS
<1>2. <<<<>>>> \in Seq(Seq(Glyphs)) /\ Len(<<<<>>>>) = 1
  BY <1>1
<1>3. <<<<>>>> # <<>>
  BY <1>2
<1> QED
  BY <1>2, <1>3 DEF Papers

LEMMA SetPaper ==
    ASSUME NEW h \in Histories, NEW p \in Papers
    PROVE  LET g == [h EXCEPT !.paper = p]
           IN  g \in Histories /\ g.paper = p /\ g.torn = h.torn /\ g.early = h.early
  BY DEF Histories

-----------------------------------------------------------------------------
(* An end of interrupt after a line below the cascade ends that line, and  *)
(* another one at most the cascade.                                        *)
LEMMA DropOne ==
    ASSUME NEW lines \in SUBSET Nat, NEW set, NEW n \in set \cap lines, \A m \in set \cap lines : n <= m
    PROVE  DropHighest(set, lines) = set \ {n}
<1> DEFINE S == set \cap lines
<1>1. S \in SUBSET Nat /\ S # {}
  BY Zenon
<1>2. Min(S) \in S /\ \A m \in S : Min(S) <= m
  BY <1>1, MinFacts
<1>3. Min(S) = n
  BY <1>1, <1>2
<1> QED
  BY <1>1, <1>3 DEF DropHighest

LEMMA DropNone ==
    ASSUME NEW lines, NEW set, set \cap lines = {}
    PROVE  DropHighest(set, lines) = set
  BY DEF DropHighest

LEMMA EoiLow ==
    ASSUME NEW line \in {0, 1}, NEW s \in SUBSET {2}
    PROVE  pic_send_eoi_vector(s \cup {line}, line) = s
<1>1. DropHighest(s \cup {line}, 0 .. 7) = (s \cup {line}) \ {line}
  <2>1. line \in (s \cup {line}) \cap (0 .. 7) /\ \A m \in (s \cup {line}) \cap (0 .. 7) : line <= m
    OBVIOUS
  <2>2. 0 .. 7 \in SUBSET Nat
    OBVIOUS
  <2> QED
    BY <2>1, <2>2, DropOne
<1> QED
  BY <1>1 DEF pic_send_eoi_vector

LEMMA EoiHigh ==
    ASSUME NEW line \in {14, 15}
    PROVE  /\ pic_send_eoi_vector({line, 2}, line) = {}
           /\ pic_send_eoi_vector({2}, line) = {}
<1>0. 0 .. 7 \in SUBSET Nat /\ 8 .. 15 \in SUBSET Nat
  OBVIOUS
<1>1. DropHighest({line, 2}, 8 .. 15) = {2}
  <2>0. line \in Int /\ 8 <= line /\ line <= 15
    OBVIOUS
  <2>1. line \in Int /\ line \in {line, 2} \cap (8 .. 15)
    <3>1. line \in 8 .. 15
      BY <2>0
    <3>2. line \in {line, 2}
      BY Zenon
    <3> QED
      BY <2>0, <3>1, <3>2, Zenon
  <2>2. \A m \in {line, 2} \cap (8 .. 15) : m = line
    OBVIOUS
  <2>3. \A m \in {line, 2} \cap (8 .. 15) : line <= m
    BY <2>1, <2>2
  <2>4. {line, 2} \ {line} = {2}
    OBVIOUS
  <2> QED
    BY <1>0, <2>1, <2>3, <2>4, DropOne
<1>2. DropHighest({2}, 8 .. 15) = {2}
  BY DropNone
<1>3. DropHighest({2}, 0 .. 7) = {}
  <2>1. 2 \in {2} \cap (0 .. 7) /\ \A m \in {2} \cap (0 .. 7) : 2 <= m
    OBVIOUS
  <2> QED
    BY <1>0, <2>1, DropOne
<1> QED
  BY <1>1, <1>2, <1>3 DEF pic_send_eoi_vector

LEMMA EoiSubset == \A service, line : pic_send_eoi_vector(service, line) \subseteq service
  BY DEF pic_send_eoi_vector, DropHighest

-----------------------------------------------------------------------------
(* The clock: sums in two words with a carry are sums modulo the product.  *)
LEMMA AdvanceType ==
    ASSUME NEW c \in Clocks
    PROVE  AdvanceClock(c) \in Clocks
<1>1. Tick \div WORD \in Int /\ Tick % WORD \in Int
  BY Sizes
<1>2. \A a \in Int : a % WORD \in Words
  BY Sizes DEF Words
<1>3. c.fractions \in Int /\ c.system_timer_ms \in Int /\ c.tick_count \in Int
  BY Sizes DEF Clocks, Words
<1> DEFINE sum == c.fractions + (Tick % WORD)
<1>4. sum \in Int /\ sum \div WORD \in Int
  BY <1>1, <1>3, Sizes
<1>5. c.system_timer_ms + Tick \div WORD + sum \div WORD \in Int /\ c.tick_count + 1 \in Int
  BY <1>1, <1>3, <1>4
<1>6. AdvanceClock(c) = [fractions       |-> sum % WORD,
                         system_timer_ms |-> (c.system_timer_ms + Tick \div WORD + sum \div WORD) % WORD,
                         tick_count      |-> (c.tick_count + 1) % WORD]
  BY DEF AdvanceClock, compute_per_tick_time
<1> HIDE DEF sum
<1> QED
  BY <1>2, <1>4, <1>5, <1>6 DEF Clocks

TimeOf(c) == c.system_timer_ms * WORD + c.fractions

LEMMA Carried ==
    ASSUME NEW c \in Clocks
    PROVE  \E q \in Int : TimeOf(c) + Tick = (WORD * WORD) * q + TimeOf(AdvanceClock(c))
<1> DEFINE W == WORD
           ms == c.system_timer_ms
           f == c.fractions
           th == Tick \div W
           tl == Tick % W
           sum == f + tl
           sh == sum \div W
           sl == sum % W
           whole == ms + th + sh
           q == whole \div W
           low == whole % W
<1>0. W \in Nat \ {0} /\ Tick \in Nat /\ ms \in Int /\ f \in Int
  BY Sizes DEF Clocks, Words
<1>1. TimeOf(c) = ms * W + f /\ TimeOf(AdvanceClock(c)) = low * W + sl
  BY DEF TimeOf, AdvanceClock, compute_per_tick_time
<1> HIDE DEF W, ms, f
<1>2. Tick = W * th + tl /\ th \in Int /\ tl \in Int
  BY <1>0, Division
<1> HIDE DEF th, tl
<1>3. sum \in Int
  BY <1>0, <1>2
<1>4. sum = W * sh + sl /\ sh \in Int /\ sl \in Int
  <2> HIDE DEF sum
  <2> QED
    BY <1>0, <1>3, Division
<1> HIDE DEF sh, sl
<1>5. whole \in Int
  BY <1>0, <1>2, <1>4
<1>6. whole = W * q + low /\ q \in Int /\ low \in Int
  <2> HIDE DEF whole
  <2> QED
    BY <1>0, <1>5, Division
<1> HIDE DEF q, low
<1>7. ms * W + f + Tick = W * whole + sl
  <2>1. ms * W + f + Tick = ms * W + W * th + sum
    BY <1>0, <1>2
  <2>2. ms * W + W * th + W * sh = W * whole
    BY <1>0, <1>2, <1>4
  <2> HIDE DEF sum, whole
  <2>3. ms * W \in Int /\ W * th \in Int /\ W * sh \in Int /\ W * whole \in Int
    BY <1>0, <1>2, <1>4, <1>5
  <2> QED
    BY <1>3, <1>4, <2>1, <2>2, <2>3
<1>8. W * whole = (W * W) * q + low * W
  <2> HIDE DEF whole
  <2> QED
    BY <1>0, <1>5, <1>6
<1>9. ms * W + f + Tick = (W * W) * q + (low * W + sl)
  <2> HIDE DEF whole
  <2>1. (W * W) * q \in Int /\ low * W \in Int
    BY <1>0, <1>6
  <2> QED
    BY <1>4, <1>7, <1>8, <2>1
<1> QED
  BY <1>1, <1>6, <1>9 DEF W

LEMMA TimeBounds ==
    ASSUME NEW c \in Clocks
    PROVE  TimeOf(c) \in 0 .. WORD * WORD - 1
<1> DEFINE ms == c.system_timer_ms
           f == c.fractions
<1>0. WORD \in Nat \ {0} /\ ms \in 0 .. WORD - 1 /\ f \in 0 .. WORD - 1 /\ TimeOf(c) = ms * WORD + f
  BY Sizes DEF Clocks, Words, TimeOf
<1> HIDE DEF ms, f
<1>1. ms * WORD <= (WORD - 1) * WORD /\ 0 <= ms * WORD
  BY <1>0
<1>2. (WORD - 1) * WORD = WORD * WORD - WORD
  BY <1>0
<1>3. ms * WORD \in Int /\ WORD * WORD \in Int
  BY <1>0
<1> QED
  BY <1>0, <1>1, <1>2, <1>3

(* One tick on.                                                            *)
LEMMA TickCounted ==
    ASSUME NEW c \in Clocks, NEW n \in Int,
           c.tick_count = n % WORD, TimeOf(c) = (n * Tick) % (WORD * WORD)
    PROVE  /\ AdvanceClock(c).tick_count = (n + 1) % WORD
           /\ TimeOf(AdvanceClock(c)) = ((n + 1) * Tick) % (WORD * WORD)
<1>0. WORD \in Nat \ {0} /\ Tick \in Nat
  BY Sizes
<1> DEFINE V == WORD * WORD
<1>1. V \in Nat \ {0}
  BY <1>0
<1>2. AdvanceClock(c).tick_count = (n + 1) % WORD
  <2>1. AdvanceClock(c).tick_count = ((n % WORD) + 1) % WORD
    BY DEF AdvanceClock
  <2>2. n = WORD * (n \div WORD) + (n % WORD) /\ n \div WORD \in Int /\ n % WORD \in Int
    BY <1>0, Division
  <2> DEFINE p == n \div WORD
             m == n % WORD
             k == (m + 1) \div WORD
             l == (m + 1) % WORD
  <2>3. m + 1 = WORD * k + l /\ l \in 0 .. WORD - 1 /\ k \in Int
    <3>1. m + 1 \in Int
      BY <2>2
    <3> HIDE DEF m
    <3> QED
      BY <1>0, <3>1, Division, Zenon
  <2>4. n = WORD * p + m /\ p \in Int /\ m \in Int
    BY <2>2
  <2> HIDE DEF p, m, k, l
  <2>5. n + 1 = WORD * (p + k) + l
    <3>1. WORD * (p + k) = WORD * p + WORD * k /\ WORD * p \in Int /\ WORD * k \in Int
      BY <1>0, <2>3, <2>4
    <3> QED
      BY <2>3, <2>4, <3>1
  <2>6. (WORD * (p + k) + l) % WORD = l
    <3> DEFINE z == p + k
    <3>1. z \in Int
      BY <2>3, <2>4
    <3> HIDE DEF z
    <3>2. (WORD * z + l) % WORD = l
      BY <1>0, <2>3, <3>1, DivisionUnique
    <3> QED
      BY <3>2 DEF z
  <2>7. AdvanceClock(c).tick_count = l
    BY <2>1 DEF l, m
  <2> QED
    BY <2>5, <2>6, <2>7
<1>3. TimeOf(AdvanceClock(c)) = ((n + 1) * Tick) % V
  <2> DEFINE t == TimeOf(c)
             u == TimeOf(AdvanceClock(c))
             p == (n * Tick) \div V
  <2>1. PICK q \in Int : t + Tick = V * q + u
    BY Carried
  <2>2. t \in 0 .. V - 1 /\ u \in 0 .. V - 1
    BY AdvanceType, TimeBounds
  <2>3. n * Tick = V * p + t /\ p \in Int
    <3> HIDE DEF V
    <3>1. n * Tick \in Int
      BY <1>0
    <3> QED
      BY <1>1, <3>1, Division, Zenon DEF V
  <2> HIDE DEF V, t, u, p
  <2>4. (n + 1) * Tick = n * Tick + Tick
    BY <1>0
  <2>5. V * (p + q) = V * p + V * q /\ V * p \in Int /\ V * q \in Int
    BY <1>1, <2>3
  <2>6. (n + 1) * Tick = V * (p + q) + u
    BY <1>0, <1>1, <2>1, <2>2, <2>3, <2>4, <2>5
  <2>7. (V * (p + q) + u) % V = u
    BY <1>1, <2>2, <2>3, DivisionUnique
  <2> QED
    BY <2>6, <2>7 DEF u
<1> QED
  BY <1>2, <1>3

(* Rounding the quotient by d and then by three rounds the quotient by     *)
(* three times d: halves are rounded up both times, and a third has none.  *)
LEMMA TwoRoundings ==
    ASSUME NEW d \in Nat \ {0}
    PROVE  LET b == div_round(div_round(PIT_INPUT_CLOCK, d), PIT_DIVISOR)
           IN  /\ b = Nearest(d)
               /\ b \in Int
               /\ (6 * b - 3) * d <= 2 * PIT_INPUT_CLOCK
               /\ 2 * PIT_INPUT_CLOCK < (6 * b + 3) * d
<1> DEFINE P == PIT_INPUT_CLOCK
           q == P \div d
           r == P % d
           a == div_round(P, d)
           b == div_round(a, PIT_DIVISOR)
<1>0. P \in Nat
  BY DEF PIT_INPUT_CLOCK
<1>1. P = d * q + r /\ r \in 0 .. d - 1 /\ q \in Int
  <2> HIDE DEF P
  <2> QED
    BY <1>0, Division
<1>2. a = q + (IF r * 2 >= d THEN 1 ELSE 0)
  BY DEF div_round
<1> HIDE DEF P, q, r, a
<1>3. a \in Int /\ (2 * a - 1) * d <= 2 * P /\ 2 * P < (2 * a + 1) * d
  <2>1. d * q \in Int /\ 2 * P = 2 * (d * q) + 2 * r
    BY <1>1
  <2>2. CASE r * 2 >= d
    <3>1. a = q + 1
      BY <1>1, <1>2, <2>2
    <3>2. (2 * a - 1) * d = 2 * (d * q) + d /\ (2 * a + 1) * d = 2 * (d * q) + 3 * d
      BY <1>1, <3>1
    <3> QED
      BY <1>1, <2>1, <2>2, <3>1, <3>2
  <2>3. CASE ~ (r * 2 >= d)
    <3>1. a = q
      BY <1>1, <1>2, <2>3
    <3>2. (2 * a - 1) * d = 2 * (d * q) - d /\ (2 * a + 1) * d = 2 * (d * q) + d
      BY <1>1, <3>1
    <3> QED
      BY <1>1, <2>1, <2>3, <3>1, <3>2
  <2> QED
    BY <2>2, <2>3
<1>4. b \in Int /\ 3 * b - 1 <= a /\ a <= 3 * b + 1
  BY <1>3 DEF div_round, PIT_DIVISOR
<1> HIDE DEF b
<1>5. (6 * b - 3) * d <= 2 * P
  <2>1. 6 * b - 3 <= 2 * a - 1
    BY <1>3, <1>4
  <2>2. (6 * b - 3) * d <= (2 * a - 1) * d
    BY <1>3, <1>4, <2>1
  <2>3. (6 * b - 3) * d \in Int /\ (2 * a - 1) * d \in Int
    BY <1>3, <1>4
  <2> QED
    BY <1>0, <1>3, <2>2, <2>3
<1>6. 2 * P < (6 * b + 3) * d
  <2>1. 2 * a + 1 <= 6 * b + 3
    BY <1>3, <1>4
  <2>2. (2 * a + 1) * d <= (6 * b + 3) * d
    BY <1>3, <1>4, <2>1
  <2>3. (6 * b + 3) * d \in Int /\ (2 * a + 1) * d \in Int
    BY <1>3, <1>4
  <2> QED
    BY <1>0, <1>3, <2>2, <2>3
<1>7. (2 * P + 3 * d) \div (6 * d) = b
  <2> DEFINE rest == 2 * P + 3 * d - (6 * d) * b
             e == 6 * d
  <2>1. (6 * b - 3) * d = (6 * d) * b - 3 * d /\ (6 * b + 3) * d = (6 * d) * b + 3 * d /\ (6 * d) * b \in Int
    BY <1>4
  <2>2. rest \in 0 .. e - 1
    BY <1>0, <1>5, <1>6, <2>1
  <2>3. e * b + rest = 2 * P + 3 * d
    BY <1>0, <2>1
  <2>4. e \in Nat \ {0}
    OBVIOUS
  <2> HIDE DEF rest, e
  <2>5. (e * b + rest) \div e = b
    BY <1>4, <2>2, <2>4, DivisionUnique
  <2> QED
    BY <2>3, <2>5 DEF e
<1> QED
  BY <1>4, <1>5, <1>6, <1>7 DEF Nearest, a, b, P

RateExact(hz, reload) ==
    /\ 0 < reload /\ reload < 65536
    /\ MIN_PIT_HZ < hz /\ hz < MAX_PIT_HZ => reload = Nearest(hz)
    /\ compute_tick_frequency(reload) = Nearest(reload)

LEMMA RatesExact ==
    ASSUME NEW hz \in Nat
    PROVE  RateExact(hz, pit_reload_value(hz))
<1> DEFINE reload == pit_reload_value(hz)
           b == div_round(div_round(PIT_INPUT_CLOCK, hz), PIT_DIVISOR)
<1>1. CASE hz <= 18 \/ hz >= 1193181
  <2>1. hz <= 18 => reload = 65535
    BY SMT DEF pit_reload_value, MIN_PIT_HZ
  <2>2. hz >= 1193181 => reload = 1
    BY SMT DEF pit_reload_value, MIN_PIT_HZ, MAX_PIT_HZ
  <2> HIDE DEF reload
  <2>3. ~ (MIN_PIT_HZ < hz /\ hz < MAX_PIT_HZ)
    BY <1>1, SMT DEF MIN_PIT_HZ, MAX_PIT_HZ
  <2>4. reload \in Nat \ {0} /\ 0 < reload /\ reload < 65536
    BY <1>1, <2>1, <2>2, SMT
  <2>5. compute_tick_frequency(reload) = Nearest(reload)
    BY <2>4, TwoRoundings DEF compute_tick_frequency
  <2>6. RateExact(hz, reload)
    BY <2>3, <2>4, <2>5, SMT DEF RateExact
  <2> QED
    BY <2>6, SMT DEF reload
<1>2. CASE 18 < hz /\ hz < 1193181
  <2>0. hz \in Nat \ {0}
    BY <1>2, SMT
  <2>1. b = Nearest(hz) /\ b \in Int /\ (6 * b - 3) * hz <= 7159090 /\ 7159090 < (6 * b + 3) * hz
    BY <2>0, TwoRoundings DEF PIT_INPUT_CLOCK
  <2>2. reload = Max({1, b % 65536})
    BY <1>2, SMT DEF pit_reload_value, MIN_PIT_HZ, MAX_PIT_HZ
  <2> HIDE DEF b, reload
  <2>3. b >= 1
    <3>1. SUFFICES ASSUME b <= 0 PROVE FALSE
      BY <2>1, SMT
    <3>2. 6 * b + 3 <= 3 /\ 6 * b + 3 \in Int
      BY <2>1, <3>1, SMT
    <3>3. (6 * b + 3) * hz <= 3 * hz
      BY <2>0, <3>2, SMT
    <3>4. (6 * b + 3) * hz \in Int
      BY <2>0, <2>1, SMT
    <3> QED
      BY <1>2, <2>0, <2>1, <3>3, <3>4, SMT
  <2>4. b <= 65535
    <3>1. SUFFICES ASSUME b >= 65536 PROVE FALSE
      BY <2>1, SMT
    <3>2. 6 * b - 3 >= 393213 /\ 6 * b - 3 \in Int
      BY <2>1, <3>1, SMT
    <3>3. 393213 * hz <= (6 * b - 3) * hz
      BY <2>0, <3>2, SMT
    <3>4. (6 * b - 3) * hz \in Int
      BY <2>0, <2>1, SMT
    <3> QED
      BY <1>2, <2>0, <2>1, <3>3, <3>4, SMT
  <2>5. reload = b
    <3>1. b % 65536 = b
      BY <2>1, <2>3, <2>4, SMT
    <3>2. \A x \in {1, b} : (\A y \in {1, b} : x >= y) <=> x = b
      BY <2>1, <2>3, SMT
    <3>3. Max({1, b}) = b
      BY <3>2 DEF Max
    <3> QED
      BY <2>2, <3>1, <3>3, SMT
  <2>6. reload \in Nat \ {0} /\ 0 < reload /\ reload < 65536
    BY <2>1, <2>3, <2>4, <2>5, SMT
  <2>7. compute_tick_frequency(reload) = Nearest(reload)
    BY <2>6, TwoRoundings DEF compute_tick_frequency
  <2>8. RateExact(hz, reload)
    BY <2>1, <2>5, <2>6, <2>7, SMT DEF RateExact
  <2> QED
    BY <2>8, SMT DEF reload
<1>3. hz <= 18 \/ hz >= 1193181 \/ (18 < hz /\ hz < 1193181)
  BY SMT
<1> QED
  BY <1>1, <1>2, <1>3, SMT

-----------------------------------------------------------------------------
(* The keyboard's events, for any bytes.                                   *)
LEMMA EventType ==
    ASSUME NEW b \in Bytes, NEW x \in BOOLEAN
    PROVE  KeyEvent(b, x) \in Events /\ KeyEvent(b, x).pressed \in BOOLEAN
<1>1. KeyEvent(b, x) \in Events
  BY DEF Events
<1>2. KeyEvent(b, x).pressed = (b < 128)
  BY DEF KeyEvent
<1> QED
  BY <1>1, <1>2

Keys(bytes) == {i \in DOMAIN bytes : bytes[i] # PREFIX}
UpTo(keys, i) == {j \in keys : j <= i}
EndsInPrefix(bytes) == Len(bytes) > 0 /\ bytes[Len(bytes)] = PREFIX
Reported(bytes, events) ==
    /\ Len(events) = Cardinality(Keys(bytes))
    /\ \A i \in Keys(bytes) :
          events[Cardinality(UpTo(Keys(bytes), i))] = KeyEvent(bytes[i], i > 1 /\ bytes[i - 1] = PREFIX)

LEMMA KeysFinite ==
    ASSUME NEW b \in Seq(Bytes)
    PROVE  /\ IsFiniteSet(Keys(b)) /\ Cardinality(Keys(b)) \in Nat
           /\ Keys(b) \subseteq 1 .. Len(b) /\ Len(b) \in Nat
<1>1. Keys(b) \subseteq 1 .. Len(b) /\ Len(b) \in Nat
  BY DEF Keys
<1>2. IsFiniteSet(1 .. Len(b))
  BY <1>1, FS_Interval
<1> QED
  BY <1>1, <1>2, FS_Subset, FS_CardinalityType

IsAppended(a, b, k) ==
    /\ a \in Seq(Bytes) /\ Len(a) = Len(b) + 1 /\ a[Len(b) + 1] = k
    /\ \A i \in 1 .. Len(b) : a[i] = b[i]
    /\ Keys(a) = IF k = PREFIX THEN Keys(b) ELSE Keys(b) \cup {Len(b) + 1}
    /\ EndsInPrefix(a) <=> k = PREFIX

LEMMA Appended ==
    ASSUME NEW b \in Seq(Bytes), NEW k \in Bytes
    PROVE  IsAppended(Append(b, k), b, k)
<1> DEFINE a == Append(b, k)
<1>1. /\ a \in Seq(Bytes) /\ Len(a) = Len(b) + 1 /\ a[Len(b) + 1] = k /\ Len(b) \in Nat
      /\ DOMAIN a = 1 .. Len(b) + 1 /\ DOMAIN b = 1 .. Len(b)
      /\ \A i \in 1 .. Len(b) : a[i] = b[i]
  OBVIOUS
<1> HIDE DEF a
<1>2. Keys(a) = IF k = PREFIX THEN Keys(b) ELSE Keys(b) \cup {Len(b) + 1}
  BY <1>1 DEF Keys
<1>3. EndsInPrefix(a) <=> k = PREFIX
  BY <1>1 DEF EndsInPrefix
<1> QED
  BY <1>1, <1>2, <1>3 DEF a, IsAppended

(* The byte before a key is the same in a longer sequence.                 *)
LEMMA SameBefore ==
    ASSUME NEW b \in Seq(Bytes), NEW k \in Bytes, NEW a, IsAppended(a, b, k), NEW i \in 1 .. Len(b)
    PROVE  KeyEvent(a[i], i > 1 /\ a[i - 1] = PREFIX) = KeyEvent(b[i], i > 1 /\ b[i - 1] = PREFIX)
<1>1. Len(b) \in Nat /\ \A j \in 1 .. Len(b) : a[j] = b[j]
  BY DEF IsAppended
<1>2. i > 1 => i - 1 \in 1 .. Len(b)
  BY <1>1
<1>3. i > 1 => a[i - 1] = b[i - 1]
  BY <1>1, <1>2
<1>4. (i > 1 /\ a[i - 1] = PREFIX) = (i > 1 /\ b[i - 1] = PREFIX)
  BY <1>3, Zenon
<1>5. a[i] = b[i]
  BY <1>1
<1> QED
  BY <1>4, <1>5, Zenon

LEMMA ReportedPrefix ==
    ASSUME NEW b \in Seq(Bytes), NEW e, NEW k \in Bytes, k = PREFIX, Reported(b, e)
    PROVE  Reported(Append(b, k), e)
<1> DEFINE a == Append(b, k)
<1>0. IsAppended(a, b, k)
  BY Appended
<1> HIDE DEF a
<1>1. Keys(a) = Keys(b)
  BY <1>0 DEF IsAppended
<1>2. Keys(b) \subseteq 1 .. Len(b) /\ Len(b) \in Nat
  BY KeysFinite
<1>3. ASSUME NEW i \in Keys(b)
      PROVE  e[Cardinality(UpTo(Keys(b), i))] = KeyEvent(a[i], i > 1 /\ a[i - 1] = PREFIX)
  <2>1. e[Cardinality(UpTo(Keys(b), i))] = KeyEvent(b[i], i > 1 /\ b[i - 1] = PREFIX)
    BY DEF Reported
  <2>2. KeyEvent(a[i], i > 1 /\ a[i - 1] = PREFIX) = KeyEvent(b[i], i > 1 /\ b[i - 1] = PREFIX)
    BY <1>0, <1>2, SameBefore, SMTT(20)
  <2> QED
    BY <2>1, <2>2
<1> QED
  BY <1>1, <1>3, Zenon DEF Reported, a

LEMMA ReportedKey ==
    ASSUME NEW b \in Seq(Bytes), NEW e \in Seq(Events), NEW k \in Bytes, k # PREFIX, Reported(b, e),
           NEW x \in BOOLEAN, x <=> EndsInPrefix(b)
    PROVE  Reported(Append(b, k), Append(e, KeyEvent(k, x)))
<1> DEFINE a == Append(b, k)
           ev == KeyEvent(k, x)
           f == Append(e, ev)
           n == Len(b) + 1
           A == Keys(b)
<1>0. IsAppended(a, b, k)
  BY Appended
<1> HIDE DEF a
<1>1. /\ Len(a) = n /\ a[n] = k /\ (\A i \in 1 .. Len(b) : a[i] = b[i])
      /\ Keys(a) = A \cup {n}
  BY <1>0 DEF IsAppended
<1>2. IsFiniteSet(A) /\ Cardinality(A) \in Nat /\ A \subseteq 1 .. Len(b) /\ Len(b) \in Nat
  BY KeysFinite
<1>3. ev \in Events
  BY EventType
<1>4. Len(e) = Cardinality(A)
  BY DEF Reported
<1> HIDE DEF ev, A
<1>5. Len(f) = Len(e) + 1 /\ f[Len(e) + 1] = ev /\ (\A i \in 1 .. Len(e) : f[i] = e[i]) /\ Len(e) \in Nat
  BY <1>3
<1> HIDE DEF f
<1>6. n \notin A /\ n \in Nat
  BY <1>2
<1>7. Cardinality(A \cup {n}) = Cardinality(A) + 1
  BY <1>2, <1>6, FS_AddElement, Zenon
<1>8. Len(f) = Cardinality(Keys(a))
  BY <1>1, <1>4, <1>5, <1>7
<1>9. ASSUME NEW i \in Keys(a)
      PROVE  f[Cardinality(UpTo(Keys(a), i))] = KeyEvent(a[i], i > 1 /\ a[i - 1] = PREFIX)
  <2>1. CASE i = n
    <3>1. UpTo(Keys(a), i) = Keys(a)
      <4>1. \A j \in Keys(a) : j <= i
        BY <1>1, <1>2, <2>1
      <4> QED
        BY <4>1 DEF UpTo
    <3>2. f[Cardinality(UpTo(Keys(a), i))] = ev
      BY <1>4, <1>5, <1>8, <3>1
    <3>3. a[i] = k
      BY <1>1, <2>1
    <3>4. (i > 1 /\ a[i - 1] = PREFIX) <=> x
      <4>1. n - 1 = Len(b) /\ (n > 1 <=> Len(b) > 0)
        BY <1>2
      <4>2. Len(b) > 0 => a[Len(b)] = b[Len(b)]
        BY <1>1, <1>2
      <4> QED
        BY <2>1, <4>1, <4>2 DEF EndsInPrefix
    <3>5. (i > 1 /\ a[i - 1] = PREFIX) = x
      BY <3>4
    <3> QED
      BY <3>2, <3>3, <3>5 DEF ev
  <2>2. CASE i # n
    <3>1. i \in A /\ i \in 1 .. Len(b)
      BY <1>1, <1>2, <2>2
    <3>2. UpTo(Keys(a), i) = UpTo(A, i)
      <4>1. ~ (n <= i)
        BY <1>2, <3>1
      <4> QED
        BY <1>1, <4>1 DEF UpTo
    <3>3. Cardinality(UpTo(A, i)) \in 1 .. Len(e)
      <4>1. UpTo(A, i) \subseteq A /\ i \in UpTo(A, i)
        BY <1>2, <3>1 DEF UpTo
      <4>2. IsFiniteSet(UpTo(A, i)) /\ Cardinality(UpTo(A, i)) <= Cardinality(A)
        BY <1>2, <4>1, FS_Subset
      <4>3. Cardinality(UpTo(A, i)) \in Nat /\ Cardinality(UpTo(A, i)) # 0
        BY <4>1, <4>2, FS_CardinalityType, FS_EmptySet, SMTT(20)
      <4> QED
        BY <1>2, <1>4, <4>2, <4>3
    <3>4. f[Cardinality(UpTo(A, i))] = e[Cardinality(UpTo(A, i))]
      BY <1>5, <3>3
    <3>5. e[Cardinality(UpTo(A, i))] = KeyEvent(b[i], i > 1 /\ b[i - 1] = PREFIX)
      BY <3>1 DEF Reported, A
    <3>6. KeyEvent(a[i], i > 1 /\ a[i - 1] = PREFIX) = KeyEvent(b[i], i > 1 /\ b[i - 1] = PREFIX)
      BY <1>0, <3>1, SameBefore
    <3> QED
      BY <3>2, <3>4, <3>5, <3>6
  <2> QED
    BY <2>1, <2>2
<1> QED
  BY <1>8, <1>9, Zenon DEF Reported, a, f, ev

=============================================================================
