--------------------------- MODULE TerminalProofs ---------------------------
(***************************************************************************)
(* The console of Terminal is right for every screen, history and input    *)
(* size.  Everything is said of the Document, the lines above, on and      *)
(* below the screen in one sequence: scrolling leaves it alone, and a      *)
(* character that is printed changes one cell of it and may move it up by  *)
(* a line.                                                                 *)
(***************************************************************************)
EXTENDS Terminal, SequenceTheorems, FiniteSetTheorems, TLAPS

Line == [Cols -> Chars]
Area == VGA_START_CURSOR_POSITION .. terminal_bottom - 1
TTY == [vga : [Cells -> Chars], cursor : Area, shown : BOOLEAN, top : Seq(Line), bottom : Seq(Line)]
Control == {"LF", "CR", "HT"}
Empty == {blank, " "}

-----------------------------------------------------------------------------
(* Rows and cells.                                                         *)

LEMMA Sizes ==
  /\ VGA_WIDTH \in Nat \ {0} /\ ROWS \in Nat \ {0} /\ HEADER_ROWS \in Nat
  /\ SCROLL_HISTORY_SIZE \in Nat \ {0} /\ INPUT_BUF_SIZE \in Nat \ {0}
  /\ TAB_SIZE \in Nat \ {0} /\ TAB_STOP \in Nat \ {0}
  BY SizesAssumption

LEMMA Bounds ==
  /\ VGA_START_CURSOR_POSITION \in Nat /\ terminal_bottom \in Nat
  /\ VGA_START_CURSOR_POSITION = HEADER_ROWS * VGA_WIDTH
  /\ terminal_bottom = (HEADER_ROWS + ROWS) * VGA_WIDTH
  /\ terminal_bottom = VGA_START_CURSOR_POSITION + ROWS * VGA_WIDTH
  /\ terminal_bottom - VGA_WIDTH \in Area
  /\ ROWS * VGA_WIDTH >= VGA_WIDTH
<1>1. ROWS * VGA_WIDTH \in Nat /\ ROWS * VGA_WIDTH >= VGA_WIDTH
  BY Sizes
<1>2. HEADER_ROWS * VGA_WIDTH \in Nat /\ VGA_WIDTH * HEADER_ROWS = HEADER_ROWS * VGA_WIDTH
  BY Sizes
<1>3. VGA_WIDTH * (HEADER_ROWS + ROWS) = HEADER_ROWS * VGA_WIDTH + ROWS * VGA_WIDTH
  BY Sizes
<1>4. (HEADER_ROWS + ROWS) * VGA_WIDTH = HEADER_ROWS * VGA_WIDTH + ROWS * VGA_WIDTH
  BY Sizes
<1> QED
  BY <1>1, <1>2, <1>3, <1>4, Sizes DEF VGA_START_CURSOR_POSITION, terminal_bottom, Area

\* A cell is the cell of one row and one column.
LEMMA Split ==
  ASSUME NEW k \in Nat
  PROVE  /\ k \div VGA_WIDTH \in Nat /\ k % VGA_WIDTH \in Cols
         /\ k = (k \div VGA_WIDTH) * VGA_WIDTH + (k % VGA_WIDTH)
  BY Sizes DEF Cols

LEMMA Joined ==
  ASSUME NEW r \in Nat, NEW c \in Cols
  PROVE  /\ r * VGA_WIDTH + c \in Nat
         /\ (r * VGA_WIDTH + c) \div VGA_WIDTH = r
         /\ (r * VGA_WIDTH + c) % VGA_WIDTH = c
<1> DEFINE k == r * VGA_WIDTH + c
           q == k \div VGA_WIDTH
           m == k % VGA_WIDTH
<1>1. c \in Nat /\ c < VGA_WIDTH /\ VGA_WIDTH \in Nat \ {0}
  BY Sizes DEF Cols
<1>2. k \in Nat
  BY <1>1
<1>3. q \in Nat /\ m \in Nat /\ m < VGA_WIDTH /\ k = q * VGA_WIDTH + m
  <2> HIDE DEF k
  <2> QED
  BY <1>1, <1>2, Split DEF Cols
<1>4. k = r * VGA_WIDTH + c
  OBVIOUS
<1> HIDE DEF k, q, m
<1>5. q = r
  <2>1. ASSUME q < r PROVE FALSE
    <3>1. (r - q) * VGA_WIDTH >= VGA_WIDTH
      BY <2>1, <1>1, <1>3
    <3>2. (r - q) * VGA_WIDTH = r * VGA_WIDTH - q * VGA_WIDTH
      BY <1>1, <1>3
    <3>3. r * VGA_WIDTH \in Nat /\ q * VGA_WIDTH \in Nat
      BY <1>1, <1>3
    <3> QED
      BY <3>1, <3>2, <3>3, <1>1, <1>3, <1>4
  <2>2. ASSUME q > r PROVE FALSE
    <3>1. (q - r) * VGA_WIDTH >= VGA_WIDTH
      BY <2>2, <1>1, <1>3
    <3>2. (q - r) * VGA_WIDTH = q * VGA_WIDTH - r * VGA_WIDTH
      BY <1>1, <1>3
    <3>3. r * VGA_WIDTH \in Nat /\ q * VGA_WIDTH \in Nat
      BY <1>1, <1>3
    <3> QED
      BY <3>1, <3>2, <3>3, <1>1, <1>3, <1>4
  <2> QED
    BY <2>1, <2>2, <1>3
<1>6. m = c
  <2>1. r * VGA_WIDTH \in Nat
    BY <1>1
  <2> QED
    BY <2>1, <1>1, <1>3, <1>4, <1>5
<1> QED
  BY <1>2, <1>5, <1>6 DEF k, q, m

\* An earlier row ends before a later one begins.
LEMMA RowsInOrder ==
  ASSUME NEW a \in Int, NEW b \in Int
  PROVE  /\ a < b => a * VGA_WIDTH + VGA_WIDTH <= b * VGA_WIDTH
         /\ a <= b => a * VGA_WIDTH <= b * VGA_WIDTH
         /\ a * VGA_WIDTH < b * VGA_WIDTH => a < b
         /\ a * VGA_WIDTH \in Int
<1>1. a * VGA_WIDTH \in Int /\ b * VGA_WIDTH \in Int /\ VGA_WIDTH \in Nat \ {0}
  BY Sizes
<1>2. (b - a) * VGA_WIDTH = b * VGA_WIDTH - a * VGA_WIDTH
  BY Sizes
<1>3. a < b => (b - a) * VGA_WIDTH >= VGA_WIDTH
  BY Sizes
<1>4. (a >= b => (b - a) * VGA_WIDTH <= 0) /\ (a = b => (b - a) * VGA_WIDTH = 0)
  BY Sizes
<1> DEFINE d == (b - a) * VGA_WIDTH
           x == a * VGA_WIDTH
           y == b * VGA_WIDTH
<1> HIDE DEF d, x, y
<1>5. d \in Int /\ x \in Int /\ y \in Int /\ d = y - x
  BY <1>1, <1>2 DEF d, x, y
<1>6. (a < b => d >= VGA_WIDTH) /\ (a >= b => d <= 0) /\ (a = b => d = 0)
  BY <1>3, <1>4 DEF d
<1>7. /\ a < b => x + VGA_WIDTH <= y
      /\ a <= b => x <= y
      /\ x < y => a < b
  BY <1>1, <1>5, <1>6
<1> QED
  BY <1>1, <1>7 DEF x, y

\* The cells of a row on the screen.
LEMMA CellOnScreen ==
  ASSUME NEW r \in HEADER_ROWS .. HEADER_ROWS + ROWS - 1, NEW c \in Cols
  PROVE  r * VGA_WIDTH + c \in Area /\ r * VGA_WIDTH + c \in Cells /\ r \in Nat
<1>1. r \in Nat /\ HEADER_ROWS <= r /\ r < HEADER_ROWS + ROWS /\ HEADER_ROWS + ROWS \in Nat
  BY Sizes
<1>2. HEADER_ROWS * VGA_WIDTH <= r * VGA_WIDTH
  BY <1>1, Sizes, RowsInOrder
<1>3. r * VGA_WIDTH + VGA_WIDTH <= (HEADER_ROWS + ROWS) * VGA_WIDTH
  BY <1>1, Sizes, RowsInOrder
<1>4. r * VGA_WIDTH \in Nat
  BY <1>1, Sizes
<1>5. c \in Nat /\ c < VGA_WIDTH
  BY Sizes DEF Cols
<1> QED
  BY <1>1, <1>2, <1>3, <1>4, <1>5, Bounds, Sizes DEF Area, Cells

\* And the other way round.
LEMMA RowOnScreen ==
  ASSUME NEW p \in Area
  PROVE  /\ p \in Nat /\ p \in Cells
         /\ p \div VGA_WIDTH \in HEADER_ROWS .. HEADER_ROWS + ROWS - 1
         /\ p % VGA_WIDTH \in Cols
         /\ p = (p \div VGA_WIDTH) * VGA_WIDTH + (p % VGA_WIDTH)
<1>1. p \in Nat /\ p \in Cells
  BY Bounds DEF Area, Cells
<1> DEFINE q == p \div VGA_WIDTH
           m == p % VGA_WIDTH
<1>2. q \in Nat /\ m \in Cols /\ p = q * VGA_WIDTH + m
  BY <1>1, Split
<1>3. m \in Nat /\ m < VGA_WIDTH
  BY <1>2, Sizes DEF Cols
<1> HIDE DEF q, m
<1>4. q * VGA_WIDTH \in Nat
  BY <1>2, Sizes
<1>5. q < HEADER_ROWS + ROWS
  <2>1. q * VGA_WIDTH < (HEADER_ROWS + ROWS) * VGA_WIDTH
    BY <1>2, <1>3, <1>4, Bounds DEF Area
  <2>2. HEADER_ROWS + ROWS \in Int
    BY Sizes
  <2> QED
    BY <2>1, <2>2, <1>2, RowsInOrder
<1>6. HEADER_ROWS <= q
  <2>1. SUFFICES ASSUME q < HEADER_ROWS PROVE FALSE
    BY <1>2, Sizes
  <2>2. q * VGA_WIDTH + VGA_WIDTH <= HEADER_ROWS * VGA_WIDTH
    BY <2>1, <1>2, Sizes, RowsInOrder
  <2> QED
    BY <2>2, <1>2, <1>3, <1>4, Bounds, Sizes DEF Area
<1>7. q \in HEADER_ROWS .. HEADER_ROWS + ROWS - 1
  BY <1>2, <1>5, <1>6, Sizes
<1> QED
  BY <1>1, <1>2, <1>7 DEF q, m

LEMMA RowType ==
  ASSUME NEW v \in [Cells -> Chars], NEW r \in HEADER_ROWS .. HEADER_ROWS + ROWS - 1
  PROVE  /\ Row(v, r) \in Line
         /\ \A c \in Cols : Row(v, r)[c] = v[r * VGA_WIDTH + c]
<1>1. \A c \in Cols : r * VGA_WIDTH + c \in Cells
  BY CellOnScreen
<1> QED
  BY <1>1 DEF Row, Line
-----------------------------------------------------------------------------
(* Moving rows.                                                            *)

\* ShiftUp() gives every row the one below it, and the lowest the new one.
LEMMA RowsUp ==
  ASSUME NEW v \in [Cells -> Chars], NEW last \in Line
  PROVE  /\ ShiftUp(v, last) \in [Cells -> Chars]
         /\ \A p \in Cells : p < VGA_START_CURSOR_POSITION => ShiftUp(v, last)[p] = v[p]
         /\ \A p \in Area : p + VGA_WIDTH < terminal_bottom =>
              ShiftUp(v, last)[p] = v[p + VGA_WIDTH]
         /\ \A p \in Area : p + VGA_WIDTH >= terminal_bottom =>
              ShiftUp(v, last)[p] = last[p % VGA_WIDTH]
         /\ \A r \in HEADER_ROWS .. HEADER_ROWS + ROWS - 2 :
              Row(ShiftUp(v, last), r) = Row(v, r + 1)
         /\ Row(ShiftUp(v, last), HEADER_ROWS + ROWS - 1) = last
<1> DEFINE u == ShiftUp(v, last)
<1>1. \A p \in Cells : p \in Nat /\ p % VGA_WIDTH \in Cols
  BY Split DEF Cells
<1>2. u \in [Cells -> Chars]
  <2>1. \A p \in Cells : p < VGA_START_CURSOR_POSITION \/ p + VGA_WIDTH < terminal_bottom \/ last[p % VGA_WIDTH] \in Chars
    BY <1>1 DEF Line
  <2>2. \A p \in Cells : p + VGA_WIDTH < terminal_bottom => p + VGA_WIDTH \in Cells
    BY Sizes, Bounds DEF Cells
  <2> QED
    BY <2>1, <2>2 DEF ShiftUp
<1>3. \A p \in Cells : p < VGA_START_CURSOR_POSITION => u[p] = v[p]
  BY DEF ShiftUp
<1>4. \A p \in Area : p \in Cells /\ ~(p < VGA_START_CURSOR_POSITION)
  BY Bounds DEF Area, Cells
<1>5. \A p \in Area : p + VGA_WIDTH < terminal_bottom => u[p] = v[p + VGA_WIDTH]
  BY <1>4 DEF ShiftUp
<1>6. \A p \in Area : p + VGA_WIDTH >= terminal_bottom => u[p] = last[p % VGA_WIDTH]
  BY <1>1, <1>4, Sizes, Bounds DEF ShiftUp
<1> HIDE DEF u
<1>7. ASSUME NEW r \in HEADER_ROWS .. HEADER_ROWS + ROWS - 2
      PROVE  Row(u, r) = Row(v, r + 1)
  <2>1. /\ r \in HEADER_ROWS .. HEADER_ROWS + ROWS - 1
        /\ r + 1 \in HEADER_ROWS .. HEADER_ROWS + ROWS - 1
        /\ r \in Nat
    BY Sizes
  <2>2. ASSUME NEW c \in Cols
        PROVE  u[r * VGA_WIDTH + c] = v[(r + 1) * VGA_WIDTH + c]
    <3>1. r * VGA_WIDTH + c \in Area /\ (r + 1) * VGA_WIDTH + c \in Area
      BY <2>1, CellOnScreen
    <3>2. (r + 1) * VGA_WIDTH = r * VGA_WIDTH + VGA_WIDTH /\ r * VGA_WIDTH \in Nat
      BY <2>1, Sizes
    <3>3. c \in Nat
      BY Sizes DEF Cols
    <3>4. (r * VGA_WIDTH + c) + VGA_WIDTH = (r + 1) * VGA_WIDTH + c
      BY <3>2, <3>3, Sizes
    <3> QED
      BY <3>1, <3>4, <1>5, Bounds DEF Area
  <2> QED
    BY <2>2 DEF Row
<1>8. Row(u, HEADER_ROWS + ROWS - 1) = last
  <2> DEFINE r == HEADER_ROWS + ROWS - 1
  <2>1. r \in HEADER_ROWS .. HEADER_ROWS + ROWS - 1 /\ r \in Nat /\ HEADER_ROWS + ROWS = r + 1
    BY Sizes
  <2> HIDE DEF r
  <2>2. ASSUME NEW c \in Cols
        PROVE  u[r * VGA_WIDTH + c] = last[c]
    <3>1. r * VGA_WIDTH + c \in Area
      BY <2>1, CellOnScreen
    <3>2. (r + 1) * VGA_WIDTH = r * VGA_WIDTH + VGA_WIDTH /\ r * VGA_WIDTH \in Nat
      BY <2>1, Sizes
    <3>3. c \in Nat
      BY Sizes DEF Cols
    <3>4. (r * VGA_WIDTH + c) + VGA_WIDTH >= terminal_bottom
      BY <3>2, <3>3, <2>1, Sizes, Bounds
    <3>5. (r * VGA_WIDTH + c) % VGA_WIDTH = c
      BY <2>1, Joined
    <3> QED
      BY <3>1, <3>4, <3>5, <1>6
  <2>3. last = [c \in Cols |-> last[c]]
    BY DEF Line
  <2> QED
    BY <2>2, <2>3 DEF Row, r
<1> QED
  BY <1>2, <1>3, <1>5, <1>6, <1>7, <1>8 DEF u

\* ShiftDown() gives every row the one above it, and the highest the new one.
LEMMA RowsDown ==
  ASSUME NEW v \in [Cells -> Chars], NEW first \in Line
  PROVE  /\ ShiftDown(v, first) \in [Cells -> Chars]
         /\ \A p \in Cells : p < VGA_START_CURSOR_POSITION => ShiftDown(v, first)[p] = v[p]
         /\ Row(ShiftDown(v, first), HEADER_ROWS) = first
         /\ \A r \in HEADER_ROWS + 1 .. HEADER_ROWS + ROWS - 1 :
              Row(ShiftDown(v, first), r) = Row(v, r - 1)
<1> DEFINE u == ShiftDown(v, first)
<1>1. \A p \in Cells : p \in Nat /\ p % VGA_WIDTH \in Cols
  BY Split DEF Cells
<1>2. u \in [Cells -> Chars]
  <2>1. \A p \in Cells : first[p % VGA_WIDTH] \in Chars
    BY <1>1 DEF Line
  <2>2. \A p \in Cells : /\ ~(p < VGA_START_CURSOR_POSITION)
                         /\ ~(p < VGA_START_CURSOR_POSITION + VGA_WIDTH)
                         => p - VGA_WIDTH \in Cells
    BY Sizes, Bounds DEF Cells
  <2> QED
    BY <2>1, <2>2 DEF ShiftDown
<1>3. \A p \in Cells : p < VGA_START_CURSOR_POSITION => u[p] = v[p]
  BY DEF ShiftDown
<1>4. \A p \in Area : p \in Cells /\ ~(p < VGA_START_CURSOR_POSITION)
  BY Bounds DEF Area, Cells
<1>5. \A p \in Area : p < VGA_START_CURSOR_POSITION + VGA_WIDTH => u[p] = first[p % VGA_WIDTH]
  BY <1>4 DEF ShiftDown
<1>6. \A p \in Area : p >= VGA_START_CURSOR_POSITION + VGA_WIDTH => u[p] = v[p - VGA_WIDTH]
  BY <1>1, <1>4, Sizes, Bounds DEF ShiftDown
<1> HIDE DEF u
<1>7. Row(u, HEADER_ROWS) = first
  <2>1. HEADER_ROWS \in HEADER_ROWS .. HEADER_ROWS + ROWS - 1 /\ HEADER_ROWS \in Nat
    BY Sizes
  <2>2. ASSUME NEW c \in Cols
        PROVE  u[HEADER_ROWS * VGA_WIDTH + c] = first[c]
    <3>1. HEADER_ROWS * VGA_WIDTH + c \in Area
      BY <2>1, CellOnScreen
    <3>2. c \in Nat /\ c < VGA_WIDTH
      BY Sizes DEF Cols
    <3>3. HEADER_ROWS * VGA_WIDTH + c < VGA_START_CURSOR_POSITION + VGA_WIDTH
      BY <3>2, Sizes, Bounds
    <3>4. (HEADER_ROWS * VGA_WIDTH + c) % VGA_WIDTH = c
      BY <2>1, Joined
    <3> QED
      BY <3>1, <3>3, <3>4, <1>5
  <2>3. first = [c \in Cols |-> first[c]]
    BY DEF Line
  <2> QED
    BY <2>2, <2>3 DEF Row
<1>8. ASSUME NEW r \in HEADER_ROWS + 1 .. HEADER_ROWS + ROWS - 1
      PROVE  Row(u, r) = Row(v, r - 1)
  <2>1. /\ r \in HEADER_ROWS .. HEADER_ROWS + ROWS - 1
        /\ r - 1 \in HEADER_ROWS .. HEADER_ROWS + ROWS - 1
        /\ r \in Nat /\ r - 1 \in Nat /\ HEADER_ROWS <= r - 1
    BY Sizes
  <2>2. ASSUME NEW c \in Cols
        PROVE  u[r * VGA_WIDTH + c] = v[(r - 1) * VGA_WIDTH + c]
    <3>1. r * VGA_WIDTH + c \in Area /\ (r - 1) * VGA_WIDTH + c \in Area
      BY <2>1, CellOnScreen
    <3>2. (r - 1) * VGA_WIDTH = r * VGA_WIDTH - VGA_WIDTH /\ r * VGA_WIDTH \in Nat
      BY <2>1, Sizes
    <3>3. c \in Nat
      BY Sizes DEF Cols
    <3>4. (r * VGA_WIDTH + c) - VGA_WIDTH = (r - 1) * VGA_WIDTH + c
      BY <3>2, <3>3, Sizes
    <3>5. r * VGA_WIDTH + c >= VGA_START_CURSOR_POSITION + VGA_WIDTH
      BY <3>1, <3>2, <3>3, <3>4, Sizes, Bounds DEF Area
    <3> QED
      BY <3>1, <3>4, <3>5, <1>6
  <2> QED
    BY <2>2 DEF Row
<1> QED
  BY <1>2, <1>3, <1>7, <1>8 DEF u

-----------------------------------------------------------------------------
(* Sequences of lines and the document.                                    *)

LEMMA FrontLast ==
  ASSUME NEW S, NEW s \in Seq(S), s # <<>>
  PROVE  /\ Len(s) \in Nat \ {0}
         /\ Front(s) \in Seq(S) /\ Len(Front(s)) = Len(s) - 1
         /\ \A i \in 1 .. Len(s) - 1 : Front(s)[i] = s[i]
         /\ Last(s) \in S /\ Last(s) = s[Len(s)]
<1>1. Len(s) \in Nat \ {0}
  BY EmptySeq
<1>2. \A i \in 1 .. Len(s) - 1 : s[i] \in S
  BY <1>1
<1> DEFINE n == Len(s) - 1
<1>3. n \in Nat /\ 1 \in Int
  BY <1>1
<1>4. /\ SubSeq(s, 1, n) \in Seq(S)
      /\ Len(SubSeq(s, 1, n)) = IF 1 <= n THEN n - 1 + 1 ELSE 0
      /\ \A i \in 1 .. n - 1 + 1 : SubSeq(s, 1, n)[i] = s[1 + i - 1]
  BY <1>2, <1>3, SubSeqProperties
<1>5. Front(s) = SubSeq(s, 1, n)
  BY DEF Front
<1>6. Len(Front(s)) = Len(s) - 1
  <2>1. n = Len(s) - 1
    OBVIOUS
  <2> HIDE DEF n
  <2>2. (IF 1 <= n THEN n - 1 + 1 ELSE 0) = n
    BY <1>3
  <2> QED
    BY <2>1, <2>2, <1>4, <1>5
<1>7. \A i \in 1 .. Len(s) - 1 : Front(s)[i] = s[i]
  BY <1>3, <1>4, <1>5
<1>8. Last(s) \in S /\ Last(s) = s[Len(s)]
  BY <1>1 DEF Last
<1> QED
  BY <1>1, <1>4, <1>5, <1>6, <1>7, <1>8

LEMMA Appended ==
  ASSUME NEW S, NEW s \in Seq(S), NEW e \in S
  PROVE  /\ Append(s, e) \in Seq(S) /\ Len(Append(s, e)) = Len(s) + 1
         /\ \A i \in 1 .. Len(s) : Append(s, e)[i] = s[i]
         /\ Append(s, e)[Len(s) + 1] = e
         /\ Len(s) \in Nat /\ Append(s, e) # <<>>
  OBVIOUS

\* The lines of the document, one after the other.
LEMMA DocLines ==
  ASSUME NEW t \in TTY
  PROVE  /\ Len(t.top) \in Nat /\ Len(t.bottom) \in Nat
         /\ Document(t) \in Seq(Line)
         /\ Len(Document(t)) = Len(t.top) + ROWS + Len(t.bottom)
         /\ \A i \in 1 .. Len(t.top) : Document(t)[i] = t.top[i]
         /\ \A r \in 1 .. ROWS : Document(t)[Len(t.top) + r] = Row(t.vga, HEADER_ROWS + r - 1)
         /\ \A j \in 1 .. Len(t.bottom) :
              Document(t)[Len(t.top) + ROWS + j] = t.bottom[Len(t.bottom) - j + 1]
<1> DEFINE a == t.top
           b == [r \in 1 .. ROWS |-> Row(t.vga, HEADER_ROWS + r - 1)]
           c == Reverse(t.bottom)
           ab == a \o b
<1>1. t.vga \in [Cells -> Chars] /\ a \in Seq(Line) /\ t.bottom \in Seq(Line)
  BY DEF TTY
<1>2. Len(a) \in Nat /\ Len(t.bottom) \in Nat
  BY <1>1
<1>3. b \in Seq(Line) /\ Len(b) = ROWS
  <2>1. \A r \in 1 .. ROWS : HEADER_ROWS + r - 1 \in HEADER_ROWS .. HEADER_ROWS + ROWS - 1
    BY Sizes
  <2>2. \A r \in 1 .. ROWS : Row(t.vga, HEADER_ROWS + r - 1) \in Line
    BY <2>1, <1>1, RowType
  <2> QED
    BY <2>2, Sizes
<1>4. c \in Seq(Line) /\ Len(c) = Len(t.bottom)
      /\ \A j \in 1 .. Len(t.bottom) : c[j] = t.bottom[Len(t.bottom) - j + 1]
  <2>1. \A j \in 1 .. Len(t.bottom) : (Len(t.bottom) - j) + 1 \in 1 .. Len(t.bottom)
    BY <1>2
  <2>2. \A j \in 1 .. Len(t.bottom) : t.bottom[(Len(t.bottom) - j) + 1] \in Line
    BY <2>1, <1>1
  <2>3. \A j \in 1 .. Len(t.bottom) : (Len(t.bottom) - j) + 1 = Len(t.bottom) - j + 1
    BY <1>2
  <2> QED
    BY <1>2, <2>2, <2>3 DEF Reverse
<1>5. /\ ab \in Seq(Line) /\ Len(ab) = Len(a) + ROWS
      /\ \A i \in 1 .. Len(a) + ROWS : ab[i] = IF i <= Len(a) THEN a[i] ELSE b[i - Len(a)]
  <2> HIDE DEF a, b
  <2> QED
    BY <1>1, <1>3, ConcatProperties
<1>6. \A r \in 1 .. ROWS : b[r] = Row(t.vga, HEADER_ROWS + r - 1)
  OBVIOUS
<1> HIDE DEF a, b, c, ab
<1>7. /\ ab \o c \in Seq(Line) /\ Len(ab \o c) = Len(ab) + Len(c)
      /\ \A i \in 1 .. Len(ab) + Len(c) : (ab \o c)[i] = IF i <= Len(ab) THEN ab[i] ELSE c[i - Len(ab)]
  <2>1. ab \in Seq(Line) /\ c \in Seq(Line)
    BY <1>4, <1>5
  <2> QED
    BY ONLY <2>1, ConcatProperties
<1>8. Document(t) = ab \o c
  BY DEF Document, a, b, c, ab
<1> DEFINE la == Len(a)
           lab == Len(ab)
           lc == Len(c)
<1>0. la \in Nat /\ lc \in Nat /\ lab = la + ROWS /\ ROWS \in Nat \ {0}
  BY <1>2, <1>4, <1>5, Sizes
<1>9. Len(Document(t)) = Len(a) + ROWS + Len(t.bottom)
  BY <1>4, <1>5, <1>7, <1>8
<1>10. ASSUME NEW i \in 1 .. Len(a) PROVE Document(t)[i] = a[i]
  <2>1. i \in 1 .. Len(ab) + Len(c) /\ i <= Len(ab) /\ i \in 1 .. Len(a) + ROWS /\ i <= Len(a)
    <3>1. i \in 1 .. la
      OBVIOUS
    <3> HIDE DEF la, lab, lc
    <3>2. i \in 1 .. lab + lc /\ i <= lab /\ i \in 1 .. la + ROWS /\ i <= la
      BY <3>1, <1>0
    <3> QED
      BY <3>2 DEF la, lab, lc
  <2> QED
    BY <2>1, <1>5, <1>7, <1>8
<1>11. ASSUME NEW r \in 1 .. ROWS PROVE Document(t)[Len(a) + r] = b[r]
  <2> DEFINE i == Len(a) + r
  <2>1. i \in 1 .. Len(ab) + Len(c) /\ i <= Len(ab) /\ i \in 1 .. Len(a) + ROWS /\ ~(i <= Len(a)) /\ i - Len(a) = r
    <3>1. i = la + r
      OBVIOUS
    <3> HIDE DEF la, lab, lc, i
    <3>2. i \in 1 .. lab + lc /\ i <= lab /\ i \in 1 .. la + ROWS /\ ~(i <= la) /\ i - la = r
      BY <3>1, <1>0
    <3> QED
      BY <3>2 DEF la, lab, lc
  <2> HIDE DEF i
  <2>2. Document(t)[i] = b[r]
    BY <2>1, <1>5, <1>7, <1>8
  <2> QED
    BY <2>2 DEF i
<1>12. ASSUME NEW j \in 1 .. Len(t.bottom) PROVE Document(t)[Len(a) + ROWS + j] = c[j]
  <2> DEFINE i == Len(a) + ROWS + j
  <2>1. i \in 1 .. Len(ab) + Len(c) /\ ~(i <= Len(ab)) /\ i - Len(ab) = j
    BY <1>2, <1>4, <1>5, Sizes
  <2> HIDE DEF i
  <2>2. Document(t)[i] = c[j]
    BY <2>1, <1>7, <1>8
  <2> QED
    BY <2>2 DEF i
<1> QED
  BY <1>2, <1>4, <1>6, <1>7, <1>8, <1>9, <1>10, <1>11, <1>12 DEF a

-----------------------------------------------------------------------------
(* Scrolling.                                                              *)

\* What changes between t and u when the text does not: where the screen is.
Moved(t, u) ==
  /\ u \in TTY /\ u.cursor = t.cursor
  /\ Len(u.top) + Len(u.bottom) = Len(t.top) + Len(t.bottom)
  /\ Document(u) = Document(t)
  /\ \A p \in 0 .. VGA_START_CURSOR_POSITION - 1 : u.vga[p] = t.vga[p]

LEMMA HeaderCells == \A p \in 0 .. VGA_START_CURSOR_POSITION - 1 : p \in Cells /\ p < VGA_START_CURSOR_POSITION
<1>1. VGA_START_CURSOR_POSITION \in Nat /\ terminal_bottom \in Nat /\ VGA_START_CURSOR_POSITION <= terminal_bottom
  BY Bounds, Sizes
<1> QED
  BY <1>1 DEF Cells

LEMMA Forward ==
  ASSUME NEW t \in TTY, t.bottom # <<>>, NEW u, u = OneLineForward(t)
  PROVE  /\ Moved(t, u) /\ u.shown = t.shown
         /\ Len(u.top) = Len(t.top) + 1 /\ Len(u.bottom) = Len(t.bottom) - 1
<1> DEFINE m == Len(t.top)
           n == Len(t.bottom)
           last == Last(t.bottom)
<1>1. t.vga \in [Cells -> Chars] /\ t.top \in Seq(Line) /\ t.bottom \in Seq(Line) /\ t.shown \in BOOLEAN /\ t.cursor \in Area
  BY DEF TTY
<1>2. /\ n \in Nat \ {0} /\ Front(t.bottom) \in Seq(Line) /\ Len(Front(t.bottom)) = n - 1
      /\ \A i \in 1 .. n - 1 : Front(t.bottom)[i] = t.bottom[i]
      /\ last \in Line /\ last = t.bottom[n]
  BY <1>1, FrontLast
<1>3. HEADER_ROWS \in HEADER_ROWS .. HEADER_ROWS + ROWS - 1
  BY Sizes
<1>4. TopRow(t) \in Line /\ TopRow(t) = Row(t.vga, HEADER_ROWS)
  BY <1>1, <1>3, RowType DEF TopRow
<1>5. /\ Append(t.top, TopRow(t)) \in Seq(Line) /\ Len(Append(t.top, TopRow(t))) = m + 1
      /\ \A i \in 1 .. m : Append(t.top, TopRow(t))[i] = t.top[i]
      /\ Append(t.top, TopRow(t))[m + 1] = TopRow(t) /\ m \in Nat
  BY <1>1, <1>4, Appended
<1>6. /\ ShiftUp(t.vga, last) \in [Cells -> Chars]
      /\ \A p \in Cells : p < VGA_START_CURSOR_POSITION => ShiftUp(t.vga, last)[p] = t.vga[p]
      /\ \A r \in HEADER_ROWS .. HEADER_ROWS + ROWS - 2 :
           Row(ShiftUp(t.vga, last), r) = Row(t.vga, r + 1)
      /\ Row(ShiftUp(t.vga, last), HEADER_ROWS + ROWS - 1) = last
  <2> HIDE DEF last
  <2> QED
    BY <1>1, <1>2, RowsUp
<1>7. /\ u.top = Append(t.top, TopRow(t)) /\ u.vga = ShiftUp(t.vga, last)
      /\ u.bottom = Front(t.bottom) /\ u.cursor = t.cursor /\ u.shown = t.shown
  BY DEF OneLineForward, TTY
<1>8. u \in TTY
  BY <1>1, <1>2, <1>5, <1>6 DEF OneLineForward, TTY
<1> HIDE DEF m, n, last
<1>9. Len(u.top) = m + 1 /\ Len(u.bottom) = n - 1
  BY <1>2, <1>5, <1>7
<1>10. Document(u) = Document(t)
  <2> DEFINE d == Document(t)
             e == Document(u)
  <2>1. /\ d \in Seq(Line) /\ Len(d) = m + ROWS + n
        /\ \A i \in 1 .. m : d[i] = t.top[i]
        /\ \A r \in 1 .. ROWS : d[m + r] = Row(t.vga, HEADER_ROWS + r - 1)
        /\ \A j \in 1 .. n : d[m + ROWS + j] = t.bottom[n - j + 1]
    BY DocLines DEF m, n
  <2>2. /\ e \in Seq(Line) /\ Len(e) = (m + 1) + ROWS + (n - 1)
        /\ \A i \in 1 .. m + 1 : e[i] = u.top[i]
        /\ \A r \in 1 .. ROWS : e[m + 1 + r] = Row(u.vga, HEADER_ROWS + r - 1)
        /\ \A j \in 1 .. n - 1 : e[m + 1 + ROWS + j] = u.bottom[n - 1 - j + 1]
    BY <1>8, <1>9, DocLines, ZenonT(60)
  <2> HIDE DEF d, e
  <2>3. Len(e) = Len(d)
    BY <2>1, <2>2, <1>2, <1>5, Sizes
  <2>4. ASSUME NEW i \in 1 .. Len(d) PROVE e[i] = d[i]
    <3>0. m \in Nat /\ n \in Nat \ {0} /\ ROWS \in Nat \ {0} /\ HEADER_ROWS \in Nat /\ i \in Nat /\ i <= m + ROWS + n /\ i >= 1
      BY <2>1, <1>2, <1>5, Sizes
    <3>1. CASE i <= m
      <4>1. i \in 1 .. m /\ i \in 1 .. m + 1
        BY <3>0, <3>1
      <4> QED
        BY <4>1, <2>1, <2>2, <1>5, <1>7
    <3>2. CASE i = m + 1
      <4>1. i \in 1 .. m + 1 /\ 1 \in 1 .. ROWS /\ HEADER_ROWS + 1 - 1 = HEADER_ROWS
        BY <3>0, <3>2
      <4>2. d[m + 1] = Row(t.vga, HEADER_ROWS)
        BY <4>1, <2>1
      <4> QED
        BY <4>1, <4>2, <3>2, <2>2, <1>4, <1>5, <1>7
    <3>3. CASE i > m + 1 /\ i < m + 1 + ROWS
      <4> DEFINE r == i - m - 1
      <4>0. r \in 1 .. ROWS - 1 /\ i = m + 1 + r
        BY <3>0, <3>3
      <4> HIDE DEF r
      <4>1. /\ i = m + 1 + r /\ i = m + (r + 1) /\ r \in 1 .. ROWS /\ r + 1 \in 1 .. ROWS
            /\ HEADER_ROWS + r - 1 \in HEADER_ROWS .. HEADER_ROWS + ROWS - 2
            /\ HEADER_ROWS + r - 1 + 1 = HEADER_ROWS + (r + 1) - 1
        BY <4>0, <3>0
      <4>2. e[i] = Row(u.vga, HEADER_ROWS + r - 1)
        BY <4>1, <2>2
      <4>3. d[i] = Row(t.vga, HEADER_ROWS + (r + 1) - 1)
        BY <4>1, <2>1
      <4>4. Row(u.vga, HEADER_ROWS + r - 1) = Row(t.vga, HEADER_ROWS + r - 1 + 1)
        BY <4>1, <1>6, <1>7
      <4> QED
        BY <4>1, <4>2, <4>3, <4>4
    <3>4. CASE i = m + 1 + ROWS
      <4>1. ROWS \in 1 .. ROWS /\ 1 \in 1 .. n /\ i = m + ROWS + 1 /\ n - 1 + 1 = n
        BY <3>0, <3>4
      <4>2. e[i] = Row(u.vga, HEADER_ROWS + ROWS - 1)
        BY <4>1, <3>4, <2>2
      <4>3. d[i] = t.bottom[n]
        BY <4>1, <2>1
      <4> QED
        BY <4>2, <4>3, <1>2, <1>6, <1>7
    <3>5. CASE i > m + 1 + ROWS
      <4> DEFINE j == i - (m + 1 + ROWS)
      <4>1. /\ j \in 1 .. n - 1 /\ i = m + 1 + ROWS + j /\ j + 1 \in 1 .. n /\ i = m + ROWS + (j + 1)
            /\ n - 1 - j + 1 = n - (j + 1) + 1 /\ n - 1 - j + 1 \in 1 .. n - 1
        BY <3>0, <3>5
      <4> HIDE DEF j
      <4>2. e[i] = u.bottom[n - 1 - j + 1]
        BY <4>1, <2>2
      <4>3. d[i] = t.bottom[n - (j + 1) + 1]
        BY <4>1, <2>1
      <4> QED
        BY <4>1, <4>2, <4>3, <1>2, <1>7
    <3> QED
      BY <3>0, <3>1, <3>2, <3>3, <3>4, <3>5
  <2>5. e = d
    BY <2>1, <2>2, <2>3, <2>4, SeqEqual
  <2> QED
    BY <2>5 DEF d, e
<1>11. \A p \in 0 .. VGA_START_CURSOR_POSITION - 1 : u.vga[p] = t.vga[p]
  BY <1>6, <1>7, HeaderCells
<1>12. Len(u.top) + Len(u.bottom) = Len(t.top) + Len(t.bottom)
  <2>1. (m + 1) + (n - 1) = m + n
    BY <1>2, <1>5
  <2> QED
    BY <2>1, <1>9 DEF m, n
<1> QED
  BY <1>7, <1>8, <1>9, <1>10, <1>11, <1>12 DEF Moved, m, n

-----------------------------------------------------------------------------
(* Induction and recursion, with sets for predicates and functions for     *)
(* operators.                                                              *)

\* A set of natural numbers has a least element.
LEMMA LeastElement ==
  ASSUME NEW S \in SUBSET Nat, S # {}
  PROVE  \E n \in S : \A m \in S : n <= m
<1>1. PICK n \in S : TRUE
  OBVIOUS
<1> DEFINE T == {0 .. m : m \in {k \in S : k <= n}}
<1>2. T \subseteq FiniteSubsetsOf(0 .. n) /\ T # {}
  <2>1. IsFiniteSet(0 .. n)
    BY <1>1, FS_Interval
  <2>2. \A m \in S : IsFiniteSet(0 .. m)
    BY FS_Interval
  <2> QED
    BY <2>2, <1>1 DEF FiniteSubsetsOf
<1>3. IsWellFoundedOn(StrictSubsetOrdering(0 .. n), FiniteSubsetsOf(0 .. n))
  BY FS_StrictSubsetOrderingWellFounded
<1>4. PICK x \in T : \A y \in T : ~(<<y, x>> \in StrictSubsetOrdering(0 .. n))
  <2> HIDE DEF T
  <2> QED
    BY <1>2, <1>3, WFMin
<1>5. PICK m \in S : m <= n /\ x = 0 .. m
  BY <1>4
<1>6. \A k \in S : k < m => FALSE
  <2> SUFFICES ASSUME NEW k \in S, k < m PROVE FALSE
    OBVIOUS
  <2>1. 0 .. k \in T
    BY <1>1, <1>5
  <2>2. 0 .. k \subseteq 0 .. m /\ 0 .. k # 0 .. m
    BY <1>5
  <2>3. <<0 .. k, x>> \in StrictSubsetOrdering(0 .. n)
    BY <2>2, <1>5, <1>1 DEF StrictSubsetOrdering
  <2> QED
    BY <1>4, <2>1, <2>3
<1> QED
  BY <1>5, <1>6

\* Induction, with a set for the predicate.
LEMMA SetInduction ==
  ASSUME NEW S \in SUBSET Nat, 0 \in S, \A n \in S : n + 1 \in S
  PROVE  S = Nat
<1> SUFFICES ASSUME S # Nat PROVE FALSE
  OBVIOUS
<1>1. PICK n \in Nat \ S : \A m \in Nat \ S : n <= m
  BY LeastElement
<1>2. n - 1 \in S
  BY <1>1
<1> QED
  BY <1>1, <1>2

Recursive(f, r, N, G) == f = [k \in 0 .. N |-> IF k = 0 THEN r ELSE G[<<f[k - 1], k>>]]
StepsOn(R, N) == [R \X (1 .. N) -> R]

\* A function can be defined by recursion on the numbers up to N.
LEMMA Recursion ==
  ASSUME NEW R, NEW r \in R, NEW N \in Nat, NEW G \in StepsOn(R, N)
  PROVE  \E f \in [0 .. N -> R] : Recursive(f, r, N, G)
<1> USE DEF Recursive, StepsOn
<1> DEFINE P(n, f) == f[0] = r /\ \A k \in 1 .. n : f[k] = G[<<f[k - 1], k>>]
           S == {n \in Nat : n <= N => \E f \in [0 .. n -> R] : P(n, f)}
<1>1. 0 \in S
  <2>1. P(0, [k \in 0 .. 0 |-> r]) /\ [k \in 0 .. 0 |-> r] \in [0 .. 0 -> R]
    OBVIOUS
  <2> QED
    BY <2>1
<1>2. ASSUME NEW n \in S
      PROVE  n + 1 \in S
  <2> SUFFICES ASSUME n + 1 <= N PROVE \E f \in [0 .. (n + 1) -> R] : P(n + 1, f)
    OBVIOUS
  <2>1. PICK f \in [0 .. n -> R] : P(n, f)
    OBVIOUS
  <2> DEFINE g == [k \in 0 .. (n + 1) |-> IF k = n + 1 THEN G[<<f[n], n + 1>>] ELSE f[k]]
  <2>2. n + 1 \in 1 .. N /\ f[n] \in R
    BY <2>1
  <2>3. G[<<f[n], n + 1>>] \in R
    BY <2>2
  <2>4. g \in [0 .. (n + 1) -> R]
    BY <2>1, <2>3
  <2>5. \A k \in 1 .. (n + 1) : g[k] = G[<<g[k - 1], k>>]
    <3> SUFFICES ASSUME NEW k \in 1 .. (n + 1)
                 PROVE  g[k] = G[<<g[k - 1], k>>]
      OBVIOUS
    <3>1. CASE k = n + 1
      <4>1. g[k - 1] = f[n] /\ k - 1 = n
        BY <3>1
      <4>2. g[k] = G[<<f[n], n + 1>>]
        BY <3>1
      <4> QED
        BY <3>1, <4>1, <4>2, Zenon
    <3>2. CASE k \in 1 .. n
      <4>1. g[k] = f[k] /\ g[k - 1] = f[k - 1]
        BY <3>2
      <4> QED
        BY <3>2, <4>1, <2>1
    <3> QED
      BY <3>1, <3>2
  <2>6. g[0] = r
    BY <2>1
  <2> QED
    BY <2>4, <2>5, <2>6
<1>3. S = Nat
  <2> HIDE DEF S
  <2> QED
    <3>1. S \in SUBSET Nat
      BY DEF S
    <3> QED
      BY <1>1, <1>2, <3>1, SetInduction
<1>4. PICK f \in [0 .. N -> R] : P(N, f)
  <2>1. N \in S
    BY <1>3
  <2> QED
    BY <2>1
<1>5. f = [k \in 0 .. N |-> IF k = 0 THEN r ELSE G[<<f[k - 1], k>>]]
  <2>1. \A k \in 0 .. N : f[k] = IF k = 0 THEN r ELSE G[<<f[k - 1], k>>]
    BY <1>4
  <2> QED
    BY <2>1
<1> QED
  BY <1>5

-----------------------------------------------------------------------------
(* return_to_present() and the scroll keys.                                *)

LEMMA Rejoined ==
  ASSUME NEW S, NEW s \in Seq(S), s # <<>>
  PROVE  Append(Front(s), Last(s)) = s
<1> DEFINE f == Front(s)
           n == Len(s)
<1>1. /\ n \in Nat \ {0} /\ f \in Seq(S) /\ Len(f) = n - 1
      /\ \A i \in 1 .. n - 1 : f[i] = s[i]
      /\ Last(s) \in S /\ Last(s) = s[n]
  BY FrontLast
<1> HIDE DEF f
<1> DEFINE g == Append(f, Last(s))
<1>2. /\ g \in Seq(S) /\ Len(g) = Len(f) + 1
      /\ \A i \in 1 .. Len(f) : g[i] = f[i]
      /\ g[Len(f) + 1] = Last(s)
  BY <1>1, Appended
<1> HIDE DEF g, n
<1>3. \A i \in 1 .. n - 1 : g[i] = s[i]
  BY <1>1, <1>2
<1>4. g[n] = s[n] /\ Len(g) = n
  <2>1. Len(f) + 1 = n
    BY <1>1
  <2> QED
    BY <2>1, <1>1, <1>2
<1>5. \A i \in 1 .. n : g[i] = s[i]
  <2>1. \A i \in 1 .. n : i \in 1 .. n - 1 \/ i = n
    BY <1>1
  <2> QED
    BY <2>1, <1>3, <1>4
<1>6. g = s
  BY <1>2, <1>4, <1>5, SeqEqual DEF n
<1> QED
  BY <1>6 DEF g, f

LEMMA Unappended ==
  ASSUME NEW S, NEW s \in Seq(S), NEW e \in S
  PROVE  Front(Append(s, e)) = s /\ Last(Append(s, e)) = e
<1> DEFINE g == Append(s, e)
           n == Len(s)
<1>1. /\ g \in Seq(S) /\ Len(g) = n + 1
      /\ \A i \in 1 .. n : g[i] = s[i]
      /\ g[n + 1] = e /\ n \in Nat /\ g # <<>>
  BY Appended
<1> HIDE DEF g, n
<1>2. /\ Front(g) \in Seq(S) /\ Len(Front(g)) = Len(g) - 1
      /\ \A i \in 1 .. Len(g) - 1 : Front(g)[i] = g[i]
      /\ Last(g) = g[Len(g)]
  BY <1>1, FrontLast
<1>3. Len(g) - 1 = n
  BY <1>1
<1>4. \A i \in 1 .. n : Front(g)[i] = s[i]
  BY <1>1, <1>2, <1>3
<1>5. Front(g) = s
  <2>1. Len(Front(g)) = Len(s) /\ \A i \in 1 .. Len(Front(g)) : Front(g)[i] = s[i]
    BY <1>2, <1>3, <1>4 DEF n
  <2> QED
    BY ONLY <2>1, <1>2, s \in Seq(S), SeqEqual
<1> QED
  BY <1>1, <1>2, <1>5 DEF g

\* One line back and one forward again is where one was.
LEMMA DownUp ==
  ASSUME NEW v \in [Cells -> Chars], NEW first \in Line
  PROVE  ShiftUp(ShiftDown(v, first), Row(v, HEADER_ROWS + ROWS - 1)) = v
<1> DEFINE d == ShiftDown(v, first)
           low == HEADER_ROWS + ROWS - 1
           last == Row(v, low)
           u == ShiftUp(d, last)
<1>1. low \in HEADER_ROWS .. HEADER_ROWS + ROWS - 1 /\ low \in Nat /\ HEADER_ROWS + ROWS = low + 1
  BY Sizes
<1>2. last \in Line /\ \A c \in Cols : last[c] = v[low * VGA_WIDTH + c]
  BY <1>1, RowType
<1>3. d \in [Cells -> Chars] /\ \A p \in Cells : p < VGA_START_CURSOR_POSITION => d[p] = v[p]
  BY RowsDown
<1>4. \A p \in Area : p + VGA_WIDTH < terminal_bottom => d[p + VGA_WIDTH] = v[p]
  <2> SUFFICES ASSUME NEW p \in Area, p + VGA_WIDTH < terminal_bottom
               PROVE  d[p + VGA_WIDTH] = v[p]
    OBVIOUS
  <2>1. /\ p + VGA_WIDTH \in Cells /\ ~(p + VGA_WIDTH < VGA_START_CURSOR_POSITION)
        /\ ~(p + VGA_WIDTH < VGA_START_CURSOR_POSITION + VGA_WIDTH)
        /\ (p + VGA_WIDTH) - VGA_WIDTH = p
    BY Sizes, Bounds DEF Area, Cells
  <2> QED
    BY <2>1 DEF ShiftDown
<1> HIDE DEF d, last, low
<1>5. /\ u \in [Cells -> Chars]
      /\ \A p \in Cells : p < VGA_START_CURSOR_POSITION => u[p] = d[p]
      /\ \A p \in Area : p + VGA_WIDTH < terminal_bottom => u[p] = d[p + VGA_WIDTH]
      /\ \A p \in Area : p + VGA_WIDTH >= terminal_bottom => u[p] = last[p % VGA_WIDTH]
  BY <1>2, <1>3, RowsUp
<1> HIDE DEF u
<1>6. ASSUME NEW p \in Cells PROVE u[p] = v[p]
  <2>1. CASE p < VGA_START_CURSOR_POSITION
    BY <2>1, <1>3, <1>5
  <2>2. CASE p \in Area /\ p + VGA_WIDTH < terminal_bottom
    BY <2>2, <1>4, <1>5
  <2>3. CASE p \in Area /\ p + VGA_WIDTH >= terminal_bottom
    <3>1. /\ p \div VGA_WIDTH \in HEADER_ROWS .. HEADER_ROWS + ROWS - 1
          /\ p % VGA_WIDTH \in Cols
          /\ p = (p \div VGA_WIDTH) * VGA_WIDTH + (p % VGA_WIDTH)
      BY <2>3, RowOnScreen
    <3> DEFINE q == p \div VGA_WIDTH
               m == p % VGA_WIDTH
    <3>2. q \in Int /\ q <= low /\ m \in Nat /\ m < VGA_WIDTH /\ p = q * VGA_WIDTH + m
      BY <3>1, <1>1, Sizes DEF Cols
    <3> HIDE DEF q, m
    <3>3. q = low
      <4>1. SUFFICES ASSUME q < low PROVE FALSE
        BY <3>2, <1>1
      <4>2. q * VGA_WIDTH + VGA_WIDTH <= low * VGA_WIDTH
        BY <4>1, <3>2, <1>1, RowsInOrder
      <4>3. (low + 1) * VGA_WIDTH = low * VGA_WIDTH + VGA_WIDTH /\ low * VGA_WIDTH \in Nat /\ q * VGA_WIDTH \in Int
        BY <3>2, <1>1, Sizes
      <4> QED
        BY <4>2, <4>3, <3>2, <2>3, <1>1, Bounds, Sizes
    <3>4. u[p] = last[m]
      BY <2>3, <1>5 DEF m
    <3> QED
      BY <3>1, <3>2, <3>3, <3>4, <1>2 DEF m
  <2> QED
    BY <2>1, <2>2, <2>3, Bounds, Sizes DEF Cells, Area
<1>7. u = v
  BY <1>5, <1>6
<1> QED
  BY <1>7 DEF u, d, last, low

\* scroll_up() moves the screen over the same text, if there is room below.
LEMMA Back ==
  ASSUME NEW t \in TTY, t.top # <<>>, Len(t.bottom) < SCROLL_HISTORY_SIZE,
         NEW u, u = scroll_up(t)
  PROVE  Moved(t, u) /\ u.shown = FALSE /\ u.bottom # <<>>
<1> DEFINE w == OneLineForward(u)
           b == BottomRow(t)
<1>1. t.vga \in [Cells -> Chars] /\ t.top \in Seq(Line) /\ t.bottom \in Seq(Line) /\ t.cursor \in Area
  BY DEF TTY
<1>2. /\ Front(t.top) \in Seq(Line) /\ Last(t.top) \in Line
      /\ Append(Front(t.top), Last(t.top)) = t.top
  BY <1>1, FrontLast, Rejoined
<1>3. b \in Line /\ b = Row(t.vga, HEADER_ROWS + ROWS - 1)
  <2>1. HEADER_ROWS + ROWS - 1 \in HEADER_ROWS .. HEADER_ROWS + ROWS - 1
    BY Sizes
  <2> QED
    BY <2>1, <1>1, RowType DEF BottomRow
<1> HIDE DEF b
<1>4. /\ Append(t.bottom, b) \in Seq(Line) /\ Append(t.bottom, b) # <<>>
      /\ Front(Append(t.bottom, b)) = t.bottom /\ Last(Append(t.bottom, b)) = b
  BY <1>1, <1>3, Appended, Unappended
<1>5. /\ ShiftDown(t.vga, Last(t.top)) \in [Cells -> Chars]
      /\ Row(ShiftDown(t.vga, Last(t.top)), HEADER_ROWS) = Last(t.top)
      /\ ShiftUp(ShiftDown(t.vga, Last(t.top)), b) = t.vga
  BY <1>1, <1>2, <1>3, RowsDown, DownUp
<1>6. u = [t EXCEPT !.shown = FALSE, !.bottom = Append(t.bottom, b),
                    !.vga = ShiftDown(t.vga, Last(t.top)), !.top = Front(t.top)]
  BY DEF scroll_up, b
<1>7. u \in TTY
  BY <1>1, <1>2, <1>4, <1>5, <1>6 DEF TTY
<1>8. /\ u.bottom = Append(t.bottom, b) /\ u.vga = ShiftDown(t.vga, Last(t.top))
      /\ u.top = Front(t.top) /\ u.shown = FALSE /\ u.cursor = t.cursor
  BY <1>6 DEF TTY
<1>9. Moved(u, w)
  BY <1>4, <1>7, <1>8, Forward
<1>10. w.top = t.top /\ w.vga = t.vga /\ w.bottom = t.bottom /\ w.cursor = t.cursor
  <2>1. /\ w.top = Append(u.top, TopRow(u)) /\ w.vga = ShiftUp(u.vga, Last(u.bottom))
        /\ w.bottom = Front(u.bottom) /\ w.cursor = u.cursor
    BY <1>7 DEF OneLineForward, TTY
  <2>2. TopRow(u) = Last(t.top)
    BY <1>5, <1>8 DEF TopRow
  <2> HIDE DEF w
  <2> QED
    BY <2>1, <2>2, <1>2, <1>4, <1>5, <1>8
<1> HIDE DEF w
<1>11. Document(w) = Document(t)
  BY <1>10 DEF Document
<1> QED
  BY <1>4, <1>7, <1>8, <1>9, <1>10, <1>11 DEF Moved

\* The numbers up to N, one after the other.
LEMMA UpTo ==
  ASSUME NEW N \in Nat, NEW S \in SUBSET Nat, 0 \in S,
         \A n \in S : n + 1 <= N => n + 1 \in S
  PROVE  N \in S
<1> DEFINE T == {n \in Nat : n <= N => n \in S}
<1>1. 0 \in T
  OBVIOUS
<1>2. \A n \in T : n + 1 \in T
  OBVIOUS
<1>3. T \in SUBSET Nat
  OBVIOUS
<1> HIDE DEF T
<1>4. T = Nat
  BY <1>1, <1>2, <1>3, SetInduction
<1> QED
  BY <1>4 DEF T

LEMMA MovedTwice ==
  ASSUME NEW t, NEW u, NEW w, Moved(t, u), Moved(u, w)
  PROVE  Moved(t, w)
  BY DEF Moved

\* return_to_present() shows the end of the same text.
LEMMA Return ==
  ASSUME NEW t \in TTY, NEW u, u = return_to_present(t)
  PROVE  /\ Moved(t, u) /\ u.bottom = <<>>
         /\ u.shown = (t.shown \/ t.bottom # <<>>)
<1> DEFINE n == Len(t.bottom)
           at[k \in 0 .. n] == IF k = 0 THEN t ELSE OneLineForward(at[k - 1])
<1>1. u = IF n = 0 THEN t ELSE ShowCursor(at[n])
  BY DEF return_to_present
<1>2. t.bottom \in Seq(Line) /\ n \in Nat /\ (n = 0 <=> t.bottom = <<>>) /\ t.shown \in BOOLEAN
  BY EmptySeq DEF TTY
<1> DEFINE step(x) == IF x.bottom # <<>> THEN OneLineForward(x) ELSE x
           G == [x \in TTY \X (1 .. n) |-> step(x[1])]
           Q(x, k) == /\ Moved(t, x) /\ x.shown = t.shown
                      /\ Len(x.bottom) = n - k
<1> HIDE DEF n, at
<1>3. ASSUME NEW k \in 0 .. n - 1, NEW x, Q(x, k)
      PROVE  x.bottom # <<>> /\ step(x) = OneLineForward(x) /\ Q(OneLineForward(x), k + 1)
  <2>1. x \in TTY /\ Len(x.bottom) = n - k /\ x.bottom \in Seq(Line)
    BY <1>3 DEF Moved, TTY
  <2>2. x.bottom # <<>>
    BY <2>1, <1>2, EmptySeq
  <2>3. /\ Moved(x, OneLineForward(x)) /\ OneLineForward(x).shown = x.shown
        /\ Len(OneLineForward(x).bottom) = Len(x.bottom) - 1
    BY <2>1, <2>2, Forward
  <2>4. (n - k) - 1 = n - (k + 1)
    BY <1>2
  <2>5. Moved(t, OneLineForward(x))
    BY <2>3, <1>3, MovedTwice
  <2> QED
    BY <2>1, <2>2, <2>3, <2>4, <2>5, <1>3
<1>4. Q(t, 0)
  BY <1>2 DEF Moved, n
<1>5. G \in StepsOn(TTY, n)
  <2>1. \A x \in TTY : step(x) \in TTY
    BY Forward DEF Moved
  <2> HIDE DEF step
  <2> QED
    BY <2>1 DEF StepsOn
<1>6. PICK f \in [0 .. n -> TTY] : Recursive(f, t, n, G)
  <2> HIDE DEF G
  <2> QED
    BY <1>2, <1>5, Recursion, Zenon
<1>7. f[0] = t /\ \A k \in 1 .. n : f[k] = step(f[k - 1])
  <2>0. \A k \in 1 .. n : k - 1 \in 0 .. n /\ k \in 0 .. n /\ k # 0
    BY <1>2
  <2>1. \A k \in 1 .. n : f[k - 1] \in TTY /\ k \in 0 .. n /\ k # 0
    BY <2>0
  <2>2. \A k \in 1 .. n : G[<<f[k - 1], k>>] = step(f[k - 1])
    BY <2>1
  <2>3. 0 \in 0 .. n
    BY <1>2
  <2> HIDE DEF G, step
  <2> QED
    BY <2>1, <2>2, <2>3, <1>6 DEF Recursive
<1> HIDE DEF G, step, Q
<1>8. ASSUME NEW k \in 0 .. n PROVE Q(f[k], k)
  <2> DEFINE S == {j \in Nat : j <= k => Q(f[j], j)}
  <2>1. 0 \in S
    BY <1>4, <1>7
  <2>2. ASSUME NEW j \in S, j + 1 <= k
        PROVE  j + 1 \in S
    <3>1. Q(f[j], j) /\ j \in 0 .. n - 1 /\ j + 1 \in 1 .. n /\ j + 1 - 1 = j
      BY <2>2, <1>2
    <3>2. f[j + 1] = step(f[j])
      BY <3>1, <1>7
    <3>3. Q(f[j + 1], j + 1)
      BY <3>1, <3>2, <1>3
    <3> QED
      BY <3>3
  <2>3. k \in Nat /\ S \in SUBSET Nat
    BY <1>2
  <2> HIDE DEF S
  <2>4. k \in S
    BY <2>1, <2>2, <2>3, UpTo
  <2> QED
    BY <2>4 DEF S
<1>9. f = [k \in 0 .. n |-> IF k = 0 THEN t ELSE OneLineForward(f[k - 1])]
  <2>1. ASSUME NEW k \in 1 .. n PROVE f[k] = OneLineForward(f[k - 1])
    <3>1. k - 1 \in 0 .. n - 1 /\ k - 1 \in 0 .. n
      BY <1>2
    <3>2. Q(f[k - 1], k - 1)
      BY <3>1, <1>8
    <3> QED
      BY <3>1, <3>2, <1>3, <1>7
  <2>2. \A k \in 0 .. n : k = 0 \/ k \in 1 .. n
    BY <1>2
  <2>3. \A k \in 0 .. n : f[k] = IF k = 0 THEN t ELSE OneLineForward(f[k - 1])
    BY <2>1, <2>2, <1>7
  <2> QED
    BY <2>3, <1>6
<1>10. at = [k \in 0 .. n |-> IF k = 0 THEN t ELSE OneLineForward(at[k - 1])]
  BY <1>9 DEF at
<1>14. \A k \in 0 .. n : at[k] = IF k = 0 THEN t ELSE OneLineForward(at[k - 1])
  BY <1>10
<1>11. \A k \in 0 .. n : Q(at[k], k)
  <2> SUFFICES ASSUME NEW k \in 0 .. n PROVE Q(at[k], k)
    OBVIOUS
  <2> DEFINE S == {j \in Nat : j <= k => Q(at[j], j)}
  <2>1. 0 \in S
    BY <1>4, <1>14, <1>2
  <2>2. ASSUME NEW j \in S, j + 1 <= k
        PROVE  j + 1 \in S
    <3>1. Q(at[j], j) /\ j \in 0 .. n - 1 /\ j + 1 \in 0 .. n /\ j + 1 # 0 /\ j + 1 - 1 = j
      BY <2>2, <1>2
    <3>2. at[j + 1] = OneLineForward(at[j])
      BY <3>1, <1>14
    <3>3. Q(at[j + 1], j + 1)
      BY <3>1, <3>2, <1>3
    <3> QED
      BY <3>3
  <2>3. k \in Nat /\ S \in SUBSET Nat
    BY <1>2
  <2> HIDE DEF S
  <2>4. k \in S
    BY <2>1, <2>2, <2>3, UpTo
  <2> QED
    BY <2>4 DEF S
<1>12. CASE n = 0
  <2>1. u = t
    BY <1>1, <1>12
  <2> QED
    BY <2>1, <1>2, <1>4, <1>12 DEF Q
<1>13. CASE n # 0
  <2> DEFINE x == at[n]
  <2>1. u = [x EXCEPT !.shown = TRUE]
    BY <1>1, <1>13 DEF ShowCursor
  <2>2. Moved(t, x) /\ Len(x.bottom) = 0
    BY <1>2, <1>11 DEF Q
  <2> HIDE DEF x
  <2>3. x \in TTY /\ x.bottom \in Seq(Line)
    BY <2>2 DEF Moved, TTY
  <2>4. /\ u \in TTY /\ u.shown = TRUE /\ u.bottom = x.bottom /\ u.top = x.top
        /\ u.cursor = x.cursor /\ u.vga = x.vga
    BY <2>1, <2>3 DEF TTY
  <2>5. Document(u) = Document(x)
    BY <2>4 DEF Document
  <2>6. u.bottom = <<>>
    BY <2>2, <2>3, <2>4, EmptySeq
  <2>7. Moved(t, u)
    BY <2>2, <2>4, <2>5 DEF Moved
  <2> QED
    BY <2>4, <2>6, <2>7, <1>2, <1>13
<1> QED
  BY <1>12, <1>13

-----------------------------------------------------------------------------
(* putchar().                                                              *)

\* The screen with character c on it, the line the screen loses if it
\* scrolls then, and where putchar() goes from there.
Draw(t, c) == IF c \in Control THEN t.vga ELSE [t.vga EXCEPT ![t.cursor] = c]
Scrolls(t, c) == Advanced(t.cursor, c) >= terminal_bottom

\* The next position is not above the row and at most one row below the area.
LEMMA AdvancedBounds ==
  ASSUME NEW t \in TTY, NEW c
  PROVE  /\ Advanced(t.cursor, c) \in Nat
         /\ Advanced(t.cursor, c) <= terminal_bottom
         /\ Advanced(t.cursor, c) >= (t.cursor \div VGA_WIDTH) * VGA_WIDTH
         /\ Advanced(t.cursor, c) >= VGA_START_CURSOR_POSITION
<1> DEFINE p == t.cursor
           q == p \div VGA_WIDTH
           m == p % VGA_WIDTH
           n == Advanced(p, c)
<1>1. /\ p \in Nat /\ p \in Area /\ q \in HEADER_ROWS .. HEADER_ROWS + ROWS - 1
      /\ m \in Cols /\ p = q * VGA_WIDTH + m
  BY RowOnScreen DEF TTY
<1>2. q \in Nat /\ m \in Nat /\ m < VGA_WIDTH /\ q * VGA_WIDTH \in Nat
  <2> HIDE DEF q, m
  <2>1. q \in Nat /\ m \in Nat /\ m < VGA_WIDTH
    BY <1>1, Sizes DEF Cols
  <2> QED
    BY <2>1, Sizes
<1>3. /\ HEADER_ROWS * VGA_WIDTH <= q * VGA_WIDTH
      /\ q * VGA_WIDTH + VGA_WIDTH <= (HEADER_ROWS + ROWS) * VGA_WIDTH
  <2>1. HEADER_ROWS <= q /\ q < HEADER_ROWS + ROWS /\ HEADER_ROWS \in Int /\ HEADER_ROWS + ROWS \in Int /\ q \in Int
    BY <1>1, Sizes
  <2> HIDE DEF q
  <2> QED
    BY <2>1, RowsInOrder
<1>4. /\ q * VGA_WIDTH >= VGA_START_CURSOR_POSITION
      /\ q * VGA_WIDTH + VGA_WIDTH <= terminal_bottom
      /\ p \in Nat /\ p < terminal_bottom /\ terminal_bottom \in Nat
      /\ VGA_START_CURSOR_POSITION \in Nat /\ VGA_WIDTH \in Nat
  BY <1>1, <1>3, Bounds, Sizes DEF Area
<1>5. CASE c = "LF"
  <2>1. n = (q + 1) * VGA_WIDTH
    BY <1>5 DEF Advanced
  <2>2. (q + 1) * VGA_WIDTH = q * VGA_WIDTH + VGA_WIDTH
    BY <1>2, Sizes
  <2> HIDE DEF n, q, p
  <2> QED
    BY <2>1, <2>2, <1>2, <1>4 DEF n, q, p
<1>6. CASE c = "CR"
  <2>1. n = q * VGA_WIDTH
    BY <1>6 DEF Advanced
  <2> HIDE DEF n, q, p
  <2> QED
    BY <2>1, <1>2, <1>4 DEF n, q, p
<1>7. CASE c = "HT"
  <2> DEFINE spaces == TAB_STOP - (m % TAB_STOP)
  <2>1. n = IF p + spaces >= terminal_bottom THEN terminal_bottom - VGA_WIDTH ELSE p + spaces
    BY <1>7 DEF Advanced
  <2>2. spaces \in Nat
    <3> HIDE DEF m
    <3> QED
      BY <1>2, Sizes
  <2> HIDE DEF n, q, p, m, spaces
  <2>3. n \in Nat /\ n <= terminal_bottom /\ n >= q * VGA_WIDTH
    BY <2>1, <2>2, <1>1, <1>2, <1>4
  <2> QED
    BY <2>3, <1>2, <1>4 DEF n, q, p
<1>8. CASE c \notin Control
  <2>1. n = p + 1
    BY <1>8 DEF Advanced, Control
  <2> HIDE DEF n, q, p, m
  <2> QED
    BY <2>1, <1>1, <1>2, <1>4 DEF n, q, p
<1> QED
  BY <1>5, <1>6, <1>7, <1>8 DEF Control

LEMMA DrawType ==
  ASSUME NEW t \in TTY, NEW c \in Chars \cup Control
  PROVE  /\ Draw(t, c) \in [Cells -> Chars]
         /\ \A p \in Cells : p # t.cursor => Draw(t, c)[p] = t.vga[p]
         /\ c \in Control => Draw(t, c) = t.vga
         /\ c \notin Control => Draw(t, c)[t.cursor] = c
<1>1. t.vga \in [Cells -> Chars] /\ t.cursor \in Area /\ t.cursor \in Cells
  BY RowOnScreen DEF TTY
<1> QED
  BY <1>1 DEF Draw

\* putchar() without a scroll.
LEMMA PutStays ==
  ASSUME NEW t \in TTY, NEW c \in Chars \cup Control, ~Scrolls(t, c),
         NEW u, u = putchar(t, c)
  PROVE  /\ u \in TTY /\ u.vga = Draw(t, c) /\ u.cursor = Advanced(t.cursor, c)
         /\ u.shown = t.shown /\ u.top = t.top /\ u.bottom = t.bottom
<1> DEFINE n == Advanced(t.cursor, c)
<1>1. /\ t.vga \in [Cells -> Chars] /\ t.cursor \in Area /\ t.shown \in BOOLEAN
      /\ t.top \in Seq(Line) /\ t.bottom \in Seq(Line)
  BY DEF TTY
<1>2. InBounds(t.cursor) = t.cursor
  BY <1>1 DEF InBounds, Area
<1>3. ~(n >= terminal_bottom)
  BY DEF Scrolls
<1>4. n \in Area
  <2>1. n \in Nat /\ n >= VGA_START_CURSOR_POSITION
    BY AdvancedBounds
  <2> HIDE DEF n
  <2> QED
    BY <2>1, <1>3, Bounds DEF Area
<1>5. Draw(t, c) \in [Cells -> Chars]
  BY DrawType
<1>6. u = [t EXCEPT !.vga = Draw(t, c), !.cursor = n]
  <2>1. (IF c \in {"LF", "CR", "HT"} THEN t ELSE [t EXCEPT !.vga[t.cursor] = c]) = [t EXCEPT !.vga = Draw(t, c)]
    BY DEF Draw, Control, TTY
  <2> QED
    BY <2>1, <1>2, <1>3 DEF putchar
<1> HIDE DEF n
<1>7. u \in TTY
  BY <1>1, <1>4, <1>5, <1>6 DEF TTY
<1> QED
  BY <1>6, <1>7 DEF TTY, n

\* What terminal_auto_scroll() remembers: the old lines, but for the oldest
\* if there is no room, and the row that leaves the screen.
LEMMA RememberedLines ==
  ASSUME NEW t \in TTY, NEW lost, lost = IF Len(t.top) < SCROLL_HISTORY_SIZE THEN 0 ELSE 1
  PROVE  /\ Remembered(t) \in Seq(Line)
         /\ Len(Remembered(t)) = Len(t.top) + 1 - lost
         /\ \A i \in 1 .. Len(t.top) - lost : Remembered(t)[i] = t.top[i + lost]
         /\ Remembered(t)[Len(t.top) + 1 - lost] = TopRow(t)
<1> DEFINE m == Len(t.top)
<1>1. t.vga \in [Cells -> Chars] /\ t.top \in Seq(Line) /\ m \in Nat
  BY DEF TTY
<1>2. TopRow(t) \in Line
  <2>1. HEADER_ROWS \in HEADER_ROWS .. HEADER_ROWS + ROWS - 1
    BY Sizes
  <2> QED
    BY <2>1, <1>1, RowType DEF TopRow
<1>3. CASE m < SCROLL_HISTORY_SIZE
  <2>1. Remembered(t) = Append(t.top, TopRow(t)) /\ lost = 0
    BY <1>3 DEF Remembered
  <2>2. m + 1 - lost = m + 1 /\ m - lost = m /\ \A i \in 1 .. m : i + lost = i
    <3> HIDE DEF m
    <3>1. lost = 0
      BY <2>1
    <3> QED
      BY ONLY <3>1, <1>1
  <2>3. /\ Append(t.top, TopRow(t)) \in Seq(Line) /\ Len(Append(t.top, TopRow(t))) = m + 1
        /\ \A i \in 1 .. m : Append(t.top, TopRow(t))[i] = t.top[i]
        /\ Append(t.top, TopRow(t))[m + 1] = TopRow(t)
    BY <1>1, <1>2, Appended
  <2>4. \A i \in 1 .. m - lost : Append(t.top, TopRow(t))[i] = t.top[i + lost]
    <3> HIDE DEF m
    <3> QED
      BY <2>2, <2>3
  <2> HIDE DEF m
  <2>5. /\ Remembered(t) \in Seq(Line)
        /\ Len(Remembered(t)) = m + 1 - lost
        /\ \A i \in 1 .. m - lost : Remembered(t)[i] = t.top[i + lost]
        /\ Remembered(t)[m + 1 - lost] = TopRow(t)
    BY ONLY <2>1, <2>2, <2>3, <2>4
  <2> QED
    BY <2>5 DEF m
<1>4. CASE ~(m < SCROLL_HISTORY_SIZE)
  <2> DEFINE s == Tail(t.top)
  <2>1. Remembered(t) = Append(s, TopRow(t)) /\ lost = 1
    BY <1>4 DEF Remembered
  <2>2. m >= 1 /\ t.top # <<>>
    BY <1>1, <1>4, Sizes, EmptySeq
  <2>3. s \in Seq(Line) /\ Len(s) = m - 1 /\ \A i \in 1 .. Len(s) : s[i] = t.top[i + 1]
    BY <2>2, <1>1, HeadTailProperties
  <2> HIDE DEF s, m
  <2>4. /\ Append(s, TopRow(t)) \in Seq(Line) /\ Len(Append(s, TopRow(t))) = Len(s) + 1
        /\ \A i \in 1 .. Len(s) : Append(s, TopRow(t))[i] = s[i]
        /\ Append(s, TopRow(t))[Len(s) + 1] = TopRow(t)
    BY <2>3, <1>2, Appended
  <2>5. Len(s) + 1 = m + 1 - lost /\ m - lost = Len(s)
    BY <2>1, <2>2, <2>3, <1>1
  <2> QED
    BY <2>1, <2>3, <2>4, <2>5 DEF m
<1> QED
  BY <1>3, <1>4

\* putchar() with a scroll.
LEMMA PutScrolls ==
  ASSUME NEW t \in TTY, NEW c \in Chars \cup Control, Scrolls(t, c),
         NEW u, u = putchar(t, c), NEW w, w = [t EXCEPT !.vga = Draw(t, c)]
  PROVE  /\ w \in TTY /\ w.vga = Draw(t, c) /\ w.top = t.top /\ w.cursor = t.cursor
         /\ w.bottom = t.bottom /\ w.shown = t.shown
         /\ u \in TTY /\ u.vga = ShiftUp(w.vga, BlankRow)
         /\ u.cursor = terminal_bottom - VGA_WIDTH
         /\ u.shown = t.shown /\ u.top = Remembered(w) /\ u.bottom = <<>>
<1>1. /\ t.vga \in [Cells -> Chars] /\ t.cursor \in Area /\ t.shown \in BOOLEAN
      /\ t.top \in Seq(Line) /\ t.bottom \in Seq(Line)
  BY DEF TTY
<1>2. InBounds(t.cursor) = t.cursor
  BY <1>1 DEF InBounds, Area
<1>3. Draw(t, c) \in [Cells -> Chars]
  BY DrawType
<1>4. /\ w \in TTY /\ w.vga = Draw(t, c) /\ w.top = t.top /\ w.cursor = t.cursor
      /\ w.bottom = t.bottom /\ w.shown = t.shown
  BY <1>1, <1>3 DEF TTY
<1>5. u = [terminal_auto_scroll(w) EXCEPT !.cursor = terminal_bottom - VGA_WIDTH]
  <2>1. (IF c \in {"LF", "CR", "HT"} THEN t ELSE [t EXCEPT !.vga[t.cursor] = c]) = w
    BY DEF Draw, Control, TTY
  <2> QED
    BY <2>1, <1>2 DEF putchar, Scrolls
<1>6. BlankRow \in Line
  BY DEF BlankRow, Line, Chars
<1>7. ShiftUp(w.vga, BlankRow) \in [Cells -> Chars] /\ Remembered(w) \in Seq(Line)
  BY <1>3, <1>4, <1>6, RowsUp, RememberedLines
<1>8. u = [w EXCEPT !.top = Remembered(w), !.bottom = <<>>, !.vga = ShiftUp(w.vga, BlankRow),
                    !.cursor = terminal_bottom - VGA_WIDTH]
  BY <1>4, <1>5 DEF terminal_auto_scroll, TTY
<1>9. <<>> \in Seq(Line) /\ terminal_bottom - VGA_WIDTH \in Area /\ w.shown \in BOOLEAN
  BY <1>1, <1>4, Bounds
<1>10. u \in TTY
  BY <1>4, <1>7, <1>8, <1>9 DEF TTY
<1>11. /\ u.vga = ShiftUp(w.vga, BlankRow) /\ u.cursor = terminal_bottom - VGA_WIDTH
       /\ u.shown = w.shown /\ u.top = Remembered(w) /\ u.bottom = <<>>
  BY <1>4, <1>8 DEF TTY
<1> QED
  BY <1>4, <1>10, <1>11

-----------------------------------------------------------------------------
(* What is kept of the document.                                           *)

\* The cells before f are still there, `lost' lines further up.
Kept(d, e, f, lost) ==
  \A k \in lost * VGA_WIDTH .. f - 1 :
    /\ (k \div VGA_WIDTH) - lost < Len(e)
    /\ DocCell(e, k - lost * VGA_WIDTH) = DocCell(d, k)

\* The cells of a line less or more.
LEMMA DivShift ==
  ASSUME NEW k \in Nat, NEW j \in Nat, j * VGA_WIDTH <= k
  PROVE  /\ k - j * VGA_WIDTH \in Nat
         /\ (k - j * VGA_WIDTH) \div VGA_WIDTH = (k \div VGA_WIDTH) - j
         /\ (k - j * VGA_WIDTH) % VGA_WIDTH = k % VGA_WIDTH
         /\ (k \div VGA_WIDTH) - j \in Nat
<1> DEFINE q == k \div VGA_WIDTH
           m == k % VGA_WIDTH
           r == q - j
<1>1. q \in Nat /\ m \in Cols /\ k = q * VGA_WIDTH + m /\ m \in Nat /\ m < VGA_WIDTH
  BY Split, Sizes DEF Cols
<1> HIDE DEF q, m
<1>2. q * VGA_WIDTH \in Nat /\ j * VGA_WIDTH \in Nat /\ r * VGA_WIDTH = q * VGA_WIDTH - j * VGA_WIDTH
  BY <1>1, Sizes
<1>3. r >= 0
  <2>1. SUFFICES ASSUME q < j PROVE FALSE
    BY <1>1
  <2>2. q * VGA_WIDTH + VGA_WIDTH <= j * VGA_WIDTH
    BY <2>1, <1>1, RowsInOrder
  <2> QED
    BY <2>2, <1>1, <1>2, Sizes
<1>4. r \in Nat
  BY <1>1, <1>3
<1> HIDE DEF r
<1>5. k - j * VGA_WIDTH = r * VGA_WIDTH + m
  BY <1>1, <1>2
<1>6. /\ r * VGA_WIDTH + m \in Nat
      /\ (r * VGA_WIDTH + m) \div VGA_WIDTH = r
      /\ (r * VGA_WIDTH + m) % VGA_WIDTH = m
  BY <1>1, <1>4, Joined
<1> QED
  BY <1>4, <1>5, <1>6 DEF r, q, m

\* A cell is in the first n lines if there are that many before it.
LEMMA DivLess ==
  ASSUME NEW k \in Nat, NEW n \in Nat
  PROVE  k < n * VGA_WIDTH <=> k \div VGA_WIDTH < n
<1> DEFINE q == k \div VGA_WIDTH
           m == k % VGA_WIDTH
<1>1. q \in Nat /\ k = q * VGA_WIDTH + m /\ m \in Nat /\ m < VGA_WIDTH
  BY Split, Sizes DEF Cols
<1> HIDE DEF q, m
<1>2. q * VGA_WIDTH \in Nat /\ n * VGA_WIDTH \in Nat
  BY <1>1, Sizes
<1>3. ASSUME q < n PROVE k < n * VGA_WIDTH
  <2>1. q * VGA_WIDTH + VGA_WIDTH <= n * VGA_WIDTH
    BY <1>1, <1>3, RowsInOrder
  <2> QED
    BY <2>1, <1>1, <1>2, Sizes
<1>4. ASSUME k < n * VGA_WIDTH PROVE q < n
  <2>1. q * VGA_WIDTH < n * VGA_WIDTH
    BY <1>1, <1>2, <1>4
  <2> QED
    BY <2>1, <1>1, RowsInOrder
<1> QED
  BY <1>3, <1>4 DEF q

LEMMA KeptTwice ==
  ASSUME NEW d, NEW e, NEW g, NEW f \in Int, NEW h \in Int, NEW l \in Nat, NEW m \in Nat,
         Kept(d, e, f, l), Kept(e, g, h, m), h >= f - l * VGA_WIDTH
  PROVE  Kept(d, g, f, l + m)
<1> SUFFICES ASSUME NEW k \in (l + m) * VGA_WIDTH .. f - 1
             PROVE  /\ (k \div VGA_WIDTH) - (l + m) < Len(g)
                    /\ DocCell(g, k - (l + m) * VGA_WIDTH) = DocCell(d, k)
  BY DEF Kept
<1>1. l * VGA_WIDTH \in Nat /\ m * VGA_WIDTH \in Nat /\ (l + m) * VGA_WIDTH = l * VGA_WIDTH + m * VGA_WIDTH
  BY Sizes
<1> DEFINE j == k - l * VGA_WIDTH
<1>2. k \in Nat /\ k \in l * VGA_WIDTH .. f - 1 /\ j \in m * VGA_WIDTH .. h - 1 /\ j \in Nat
      /\ j - m * VGA_WIDTH = k - (l + m) * VGA_WIDTH
  BY <1>1
<1>3. DocCell(e, j) = DocCell(d, k)
  BY <1>2 DEF Kept
<1>4. j \div VGA_WIDTH = (k \div VGA_WIDTH) - l
  BY <1>2, DivShift
<1> HIDE DEF j
<1>5. (j \div VGA_WIDTH) - m < Len(g) /\ DocCell(g, j - m * VGA_WIDTH) = DocCell(e, j)
  BY <1>2 DEF Kept
<1>6. (j \div VGA_WIDTH) - m = (k \div VGA_WIDTH) - (l + m)
  <2>1. k \div VGA_WIDTH \in Nat
    BY <1>2, Split
  <2> QED
    BY <2>1, <1>4
<1> QED
  BY <1>2, <1>3, <1>5, <1>6

\* Fewer cells, or the same document.
LEMMA KeptLess ==
  ASSUME NEW d, NEW e, NEW f \in Int, NEW h \in Int, NEW l \in Nat, Kept(d, e, f, l), h <= f
  PROVE  Kept(d, e, h, l)
<1>1. l * VGA_WIDTH \in Nat
  BY Sizes
<1> QED
  BY <1>1 DEF Kept

LEMMA KeptSame ==
  ASSUME NEW t \in TTY, NEW f \in Int, f <= Len(Document(t)) * VGA_WIDTH
  PROVE  Kept(Document(t), Document(t), f, 0)
<1> SUFFICES ASSUME NEW k \in 0 * VGA_WIDTH .. f - 1
             PROVE  /\ (k \div VGA_WIDTH) - 0 < Len(Document(t))
                    /\ k - 0 * VGA_WIDTH = k
  BY DEF Kept
<1>1. 0 * VGA_WIDTH = 0
  BY Sizes
<1>2. Len(Document(t)) \in Nat
  BY DocLines
<1>3. k \in Nat /\ k < Len(Document(t)) * VGA_WIDTH
  <2>1. Len(Document(t)) * VGA_WIDTH \in Nat
    BY <1>2, Sizes
  <2> QED
    BY <2>1, <1>1
<1>4. k \div VGA_WIDTH < Len(Document(t)) /\ k \div VGA_WIDTH \in Nat
  BY <1>2, <1>3, DivLess, Split
<1> QED
  BY <1>1, <1>2, <1>3, <1>4

\* Where a cell of the screen is in the document.
LEMMA CellInDocument ==
  ASSUME NEW t \in TTY, NEW p \in Area, NEW k, k = Len(t.top) * VGA_WIDTH + p - VGA_START_CURSOR_POSITION
  PROVE  /\ k \in Nat /\ k < (Len(t.top) + ROWS) * VGA_WIDTH
         /\ DocCell(Document(t), k) = t.vga[p]
<1> DEFINE q == p \div VGA_WIDTH
           c == p % VGA_WIDTH
           m == Len(t.top)
           r == q - HEADER_ROWS + 1
           i == m + r - 1
<1>1. /\ p \in Nat /\ q \in HEADER_ROWS .. HEADER_ROWS + ROWS - 1
      /\ c \in Cols /\ p = q * VGA_WIDTH + c
  BY RowOnScreen
<1>2. m \in Nat /\ t.vga \in [Cells -> Chars]
  BY DocLines DEF TTY
<1> HIDE DEF q, c, m
<1>3. q \in Nat /\ r \in 1 .. ROWS /\ HEADER_ROWS + r - 1 = q /\ c \in Nat /\ c < VGA_WIDTH
  BY <1>1, Sizes DEF Cols
<1>4. Document(t)[m + r] = Row(t.vga, q)
  BY <1>3, DocLines DEF m
<1>5. Row(t.vga, q)[c] = t.vga[p]
  BY <1>1, <1>2, RowType
<1>6. i \in Nat /\ i + 1 = m + r /\ i = m + q - HEADER_ROWS /\ i < m + ROWS
  BY <1>2, <1>3, Sizes
<1> HIDE DEF r, i
<1>7. i * VGA_WIDTH = m * VGA_WIDTH + q * VGA_WIDTH - HEADER_ROWS * VGA_WIDTH
  BY <1>2, <1>3, <1>6, Sizes
<1>8. k = i * VGA_WIDTH + c
  <2>1. m * VGA_WIDTH \in Nat /\ q * VGA_WIDTH \in Nat /\ HEADER_ROWS * VGA_WIDTH \in Nat
    BY <1>2, <1>3, Sizes
  <2>2. k = m * VGA_WIDTH + p - VGA_START_CURSOR_POSITION
    BY DEF m
  <2> DEFINE mw == m * VGA_WIDTH
             qw == q * VGA_WIDTH
             hw == HEADER_ROWS * VGA_WIDTH
             iw == i * VGA_WIDTH
  <2>3. /\ mw \in Nat /\ qw \in Nat /\ hw \in Nat /\ iw = mw + qw - hw
        /\ p = qw + c /\ VGA_START_CURSOR_POSITION = hw /\ c \in Nat
        /\ k = mw + p - VGA_START_CURSOR_POSITION
    BY <2>1, <2>2, <1>1, <1>3, <1>7, Bounds
  <2> HIDE DEF mw, qw, hw, iw
  <2>4. k = iw + c
    BY ONLY <2>3
  <2> QED
    BY <2>4 DEF iw
<1>9. k \in Nat /\ k \div VGA_WIDTH = i /\ k % VGA_WIDTH = c
  BY <1>1, <1>6, <1>8, Joined
<1>10. k < (m + ROWS) * VGA_WIDTH
  <2>1. m + ROWS \in Nat
    BY <1>2, Sizes
  <2> QED
    BY <2>1, <1>6, <1>9, DivLess
<1>11. DocCell(Document(t), k) = Document(t)[i + 1][c]
  BY <1>9 DEF DocCell
<1> QED
  BY <1>4, <1>5, <1>6, <1>9, <1>10, <1>11 DEF m

\* Drawing at the cursor changes no cell before it.
LEMMA DrawKept ==
  ASSUME NEW t \in TTY, NEW w \in TTY, t.bottom = <<>>, w.top = t.top, w.bottom = t.bottom,
         \A p \in Cells : p # t.cursor => w.vga[p] = t.vga[p],
         NEW f \in Int, f <= DocCursor(t)
  PROVE  Kept(Document(t), Document(w), f, 0)
<1> DEFINE m == Len(t.top)
           d == Document(t)
           e == Document(w)
<1>1. t.cursor \in Area /\ m \in Nat /\ Len(t.bottom) = 0
  BY DocLines DEF TTY
<1>2. /\ d \in Seq(Line) /\ Len(d) = m + ROWS /\ \A i \in 1 .. m : d[i] = t.top[i]
      /\ e \in Seq(Line) /\ Len(e) = m + ROWS /\ \A i \in 1 .. m : e[i] = t.top[i]
  <2>1. /\ d \in Seq(Line) /\ Len(d) = m + ROWS + 0 /\ \A i \in 1 .. m : d[i] = t.top[i]
        /\ e \in Seq(Line) /\ Len(e) = m + ROWS + 0 /\ \A i \in 1 .. m : e[i] = t.top[i]
    BY <1>1, DocLines
  <2>2. m + ROWS + 0 = m + ROWS
    BY <1>1, Sizes
  <2> QED
    BY <2>1, <2>2
<1>3. DocCursor(t) = m * VGA_WIDTH + t.cursor - VGA_START_CURSOR_POSITION
  <2>1. Len(t.top) + Len(t.bottom) = m
    BY <1>1
  <2> QED
    BY <2>1 DEF DocCursor
<1> SUFFICES ASSUME NEW k \in 0 * VGA_WIDTH .. f - 1
             PROVE  /\ (k \div VGA_WIDTH) - 0 < Len(e)
                    /\ DocCell(e, k - 0 * VGA_WIDTH) = DocCell(d, k)
  BY DEF Kept
<1> HIDE DEF m, d, e
<1>4. m * VGA_WIDTH \in Nat /\ 0 * VGA_WIDTH = 0 /\ ROWS * VGA_WIDTH \in Nat
      /\ (m + ROWS) * VGA_WIDTH = m * VGA_WIDTH + ROWS * VGA_WIDTH
  BY <1>1, Sizes
<1>5. k \in Nat /\ k - 0 * VGA_WIDTH = k /\ k < m * VGA_WIDTH + t.cursor - VGA_START_CURSOR_POSITION
  BY <1>1, <1>3, <1>4, Bounds, SMTT(30) DEF Area
<1>6. k < (m + ROWS) * VGA_WIDTH
  BY <1>1, <1>4, <1>5, Bounds, SMTT(30) DEF Area
<1>7. k \div VGA_WIDTH < m + ROWS /\ k \div VGA_WIDTH \in Nat
  <2>1. m + ROWS \in Nat
    BY <1>1, Sizes
  <2> QED
    BY <2>1, <1>5, <1>6, DivLess, Split
<1>8. DocCell(e, k) = DocCell(d, k)
  <2>1. CASE k < m * VGA_WIDTH
    <3>1. k \div VGA_WIDTH < m
      BY <2>1, <1>1, <1>5, DivLess
    <3>2. (k \div VGA_WIDTH) + 1 \in 1 .. m
      BY <3>1, <1>1, <1>7
    <3> QED
      BY <3>2, <1>2 DEF DocCell
  <2>2. CASE k >= m * VGA_WIDTH
    <3> DEFINE p == k - m * VGA_WIDTH + VGA_START_CURSOR_POSITION
    <3>1. p \in Area /\ p # t.cursor /\ k = m * VGA_WIDTH + p - VGA_START_CURSOR_POSITION
      <4> DEFINE mw == m * VGA_WIDTH
      <4>1. mw \in Nat /\ k >= mw /\ k < mw + t.cursor - VGA_START_CURSOR_POSITION
            /\ p = k - mw + VGA_START_CURSOR_POSITION
        BY <2>2, <1>4, <1>5
      <4> HIDE DEF mw, p
      <4>2. p \in Area /\ p # t.cursor /\ k = mw + p - VGA_START_CURSOR_POSITION
        <5>1. /\ VGA_START_CURSOR_POSITION \in Nat /\ terminal_bottom \in Nat /\ k \in Nat
              /\ t.cursor \in VGA_START_CURSOR_POSITION .. terminal_bottom - 1
          BY <1>1, <1>5, Bounds DEF Area
        <5> QED
          BY ONLY <4>1, <5>1 DEF Area
      <4> QED
        BY <4>2 DEF mw
    <3> HIDE DEF p
    <3>2. p \in Cells
      BY <3>1, RowOnScreen
    <3>3. DocCell(d, k) = t.vga[p] /\ DocCell(e, k) = w.vga[p]
      BY <3>1, CellInDocument DEF m, d, e
    <3> QED
      BY <3>1, <3>2, <3>3
  <2> QED
    BY <2>1, <2>2, <1>4, <1>5
<1> QED
  BY <1>2, <1>5, <1>7, <1>8

\* A scroll moves the document up, and drops its first line if the history
\* is full.
LEMMA ScrollKept ==
  ASSUME NEW w \in TTY, w.bottom = <<>>, NEW u \in TTY, u.bottom = <<>>,
         u.vga = ShiftUp(w.vga, BlankRow), u.top = Remembered(w),
         NEW lost, lost = IF Len(w.top) < SCROLL_HISTORY_SIZE THEN 0 ELSE 1,
         NEW f \in Int, f <= Len(Document(w)) * VGA_WIDTH
  PROVE  Kept(Document(w), Document(u), f, lost)
<1> DEFINE m == Len(w.top)
           d == Document(w)
           e == Document(u)
<1>1. m \in Nat /\ Len(w.bottom) = 0 /\ Len(u.bottom) = 0 /\ lost \in {0, 1} /\ (lost = 1 => m >= 1)
  BY DocLines, Sizes
<1>2. /\ Len(u.top) = m + 1 - lost
      /\ \A i \in 1 .. m - lost : u.top[i] = w.top[i + lost]
      /\ u.top[m + 1 - lost] = Row(w.vga, HEADER_ROWS)
  <2>1. /\ Len(Remembered(w)) = m + 1 - lost
        /\ \A i \in 1 .. m - lost : Remembered(w)[i] = w.top[i + lost]
        /\ Remembered(w)[m + 1 - lost] = TopRow(w)
    BY RememberedLines
  <2> QED
    BY <2>1 DEF TopRow
<1>3. /\ Len(d) = m + ROWS + 0 /\ \A i \in 1 .. m : d[i] = w.top[i]
      /\ \A r \in 1 .. ROWS : d[m + r] = Row(w.vga, HEADER_ROWS + r - 1)
  BY <1>1, DocLines
<1> DEFINE n == m + 1 - lost
<1>4. /\ Len(e) = n + ROWS + 0 /\ \A i \in 1 .. n : e[i] = u.top[i]
      /\ \A r \in 1 .. ROWS : e[n + r] = Row(u.vga, HEADER_ROWS + r - 1)
  <2>1. /\ Len(e) = Len(u.top) + ROWS + 0 /\ \A i \in 1 .. Len(u.top) : e[i] = u.top[i]
        /\ \A r \in 1 .. ROWS : e[Len(u.top) + r] = Row(u.vga, HEADER_ROWS + r - 1)
    BY <1>1, DocLines
  <2> QED
    BY <2>1, <1>2
<1>5. \A r \in HEADER_ROWS .. HEADER_ROWS + ROWS - 2 : Row(u.vga, r) = Row(w.vga, r + 1)
  <2>1. BlankRow \in Line /\ w.vga \in [Cells -> Chars]
    BY DEF BlankRow, Line, Chars, TTY
  <2> QED
    BY <2>1, RowsUp
<1> HIDE DEF m, d, e
<1>6. ASSUME NEW i \in lost + 1 .. m + ROWS
      PROVE  e[i - lost] = d[i] /\ i - lost <= n + ROWS
  <2>1. i \in Nat /\ i >= 1 /\ n \in Nat /\ i - lost >= 1 /\ i - lost <= n + ROWS
    BY <1>1, Sizes
  <2>2. CASE i <= m
    <3>1. i - lost \in 1 .. n /\ i - lost \in 1 .. m - lost /\ (i - lost) + lost = i /\ i \in 1 .. m
      BY <2>1, <2>2, <1>1
    <3>2. e[i - lost] = u.top[i - lost] /\ u.top[i - lost] = w.top[(i - lost) + lost]
      BY <3>1, <1>2, <1>4
    <3> QED
      BY <3>1, <3>2, <2>1, <1>3
  <2>3. CASE i = m + 1
    <3>1. i - lost = n /\ n \in 1 .. n /\ 1 \in 1 .. ROWS /\ HEADER_ROWS + 1 - 1 = HEADER_ROWS
      BY <2>1, <2>3, <1>1, Sizes
    <3>2. e[n] = u.top[n] /\ u.top[n] = Row(w.vga, HEADER_ROWS)
      BY <3>1, <1>2, <1>4
    <3>3. d[m + 1] = Row(w.vga, HEADER_ROWS + 1 - 1)
      BY <3>1, <1>3
    <3> QED
      BY <3>1, <3>2, <3>3, <2>1, <2>3
  <2>4. CASE i > m + 1
    <3> DEFINE r == i - m - 1
    <3>1. r \in 1 .. ROWS - 1 /\ i - lost = n + r /\ i = m + (r + 1)
      BY <2>1, <2>4, <1>1, Sizes
    <3> HIDE DEF r, n
    <3>2. /\ r \in 1 .. ROWS /\ r + 1 \in 1 .. ROWS
          /\ HEADER_ROWS + r - 1 \in HEADER_ROWS .. HEADER_ROWS + ROWS - 2
          /\ HEADER_ROWS + r - 1 + 1 = HEADER_ROWS + (r + 1) - 1
      BY <3>1, Sizes
    <3>3. e[n + r] = Row(u.vga, HEADER_ROWS + r - 1)
      BY <3>2, <1>4
    <3>4. d[m + (r + 1)] = Row(w.vga, HEADER_ROWS + (r + 1) - 1)
      BY <3>2, <1>3
    <3>5. Row(u.vga, HEADER_ROWS + r - 1) = Row(w.vga, HEADER_ROWS + r - 1 + 1)
      BY <3>2, <1>5
    <3> QED
      BY <3>1, <3>2, <3>3, <3>4, <3>5, <2>1
  <2> QED
    BY <2>1, <2>2, <2>3, <2>4, <1>1
<1> SUFFICES ASSUME NEW k \in lost * VGA_WIDTH .. f - 1
             PROVE  /\ (k \div VGA_WIDTH) - lost < Len(e)
                    /\ DocCell(e, k - lost * VGA_WIDTH) = DocCell(d, k)
  BY DEF Kept, d, e
<1>7. lost \in Nat /\ lost * VGA_WIDTH \in Nat /\ m + ROWS \in Nat /\ (m + ROWS) * VGA_WIDTH \in Nat
  BY <1>1, Sizes
<1>8. k \in Nat /\ k < (m + ROWS) * VGA_WIDTH /\ lost * VGA_WIDTH <= k
  <2>1. Len(d) = m + ROWS
    BY <1>1, <1>3, Sizes
  <2>2. f <= (m + ROWS) * VGA_WIDTH
    BY <2>1 DEF d
  <2> QED
    BY <2>2, <1>7
<1> DEFINE q == k \div VGA_WIDTH
<1>9. q < m + ROWS /\ q \in Nat
  BY <1>7, <1>8, DivLess, Split
<1>10. /\ (k - lost * VGA_WIDTH) \div VGA_WIDTH = q - lost
       /\ (k - lost * VGA_WIDTH) % VGA_WIDTH = k % VGA_WIDTH /\ q - lost \in Nat
  BY <1>7, <1>8, DivShift
<1> HIDE DEF q
<1>11. q + 1 \in lost + 1 .. m + ROWS /\ (q + 1) - lost = (q - lost) + 1
  BY <1>7, <1>9, <1>10
<1>12. e[(q - lost) + 1] = d[q + 1] /\ (q + 1) - lost <= n + ROWS
  BY <1>6, <1>11
<1>13. q - lost < Len(e)
  BY <1>1, <1>4, <1>9, <1>11, <1>12, Sizes
<1>14. DocCell(e, k - lost * VGA_WIDTH) = DocCell(d, k)
  BY <1>10, <1>12 DEF DocCell, q
<1> QED
  BY <1>13, <1>14 DEF q

-----------------------------------------------------------------------------
(* Printing.                                                               *)

Header(t) == \A p \in 0 .. VGA_START_CURSOR_POSITION - 1 : t.vga[p] = "header"

\* The screen shows the end of the text, and nothing is lost of the rest.
Fine(t) ==
  t \in TTY /\ t.bottom = <<>> /\ t.shown = TRUE /\ Len(t.top) <= SCROLL_HISTORY_SIZE /\ Header(t)

\* While a command prints: nothing below the cursor's row.
BelowEmpty(t) ==
  \A p \in Area : p >= (t.cursor \div VGA_WIDTH + 1) * VGA_WIDTH => t.vga[p] \in Empty

\* While a line is typed: it begins a row and ends at the cursor, and there
\* is nothing behind it.
Typed(t, l) ==
  \E q \in Nat :
    /\ q >= HEADER_ROWS /\ t.cursor = q * VGA_WIDTH + Len(l)
    /\ \A i \in 1 .. Len(l) : t.vga[q * VGA_WIDTH + i - 1] = l[i]
    /\ \A p \in Area : p >= t.cursor => t.vga[p] \in Empty

LEMMA FinePut ==
  ASSUME NEW t, Fine(t), NEW c \in Chars \cup Control, NEW u, u = putchar(t, c),
         NEW lost, lost = IF Scrolls(t, c) /\ ~(Len(t.top) < SCROLL_HISTORY_SIZE) THEN 1 ELSE 0
  PROVE  /\ Fine(u)
         /\ Len(u.top) = Len(t.top) + (IF Scrolls(t, c) THEN 1 ELSE 0) - lost
         /\ \A f \in Int : f <= DocCursor(t) => Kept(Document(t), Document(u), f, lost)
<1>1. /\ t \in TTY /\ t.bottom = <<>> /\ t.shown = TRUE /\ Len(t.top) <= SCROLL_HISTORY_SIZE
      /\ Header(t) /\ Len(t.top) \in Nat
  BY DocLines DEF Fine
<1>2. /\ Draw(t, c) \in [Cells -> Chars]
      /\ \A p \in Cells : p # t.cursor => Draw(t, c)[p] = t.vga[p]
  BY <1>1, DrawType
<1>3. \A p \in 0 .. VGA_START_CURSOR_POSITION - 1 : p \in Cells /\ Draw(t, c)[p] = "header"
  <2>1. t.cursor \in Area
    BY <1>1 DEF TTY
  <2>2. \A p \in 0 .. VGA_START_CURSOR_POSITION - 1 : p \in Cells /\ p # t.cursor
    BY <2>1, HeaderCells, Bounds DEF Area
  <2> QED
    BY <2>2, <1>1, <1>2 DEF Header
<1>4. CASE ~Scrolls(t, c)
  <2>1. /\ u \in TTY /\ u.vga = Draw(t, c) /\ u.cursor = Advanced(t.cursor, c)
        /\ u.shown = t.shown /\ u.top = t.top /\ u.bottom = t.bottom
    BY <1>1, <1>4, PutStays
  <2>2. lost = 0
    BY <1>4
  <2>3. Fine(u)
    BY <2>1, <1>1, <1>3 DEF Fine, Header
  <2>4. ASSUME NEW f \in Int, f <= DocCursor(t)
        PROVE  Kept(Document(t), Document(u), f, 0)
    BY <2>1, <2>4, <1>1, <1>2, DrawKept
  <2>5. Len(u.top) = Len(t.top) + 0 - 0
    BY <2>1, <1>1
  <2> QED
    BY <2>2, <2>3, <2>4, <2>5, <1>4
<1>5. CASE Scrolls(t, c)
  <2> DEFINE w == [t EXCEPT !.vga = Draw(t, c)]
  <2>1. /\ w \in TTY /\ w.vga = Draw(t, c) /\ w.top = t.top /\ w.cursor = t.cursor
        /\ w.bottom = t.bottom /\ w.shown = t.shown
        /\ u \in TTY /\ u.vga = ShiftUp(w.vga, BlankRow)
        /\ u.cursor = terminal_bottom - VGA_WIDTH
        /\ u.shown = t.shown /\ u.top = Remembered(w) /\ u.bottom = <<>>
    BY <1>1, <1>5, PutScrolls
  <2> HIDE DEF w
  <2>2. /\ lost = (IF Len(w.top) < SCROLL_HISTORY_SIZE THEN 0 ELSE 1)
        /\ lost \in {0, 1}
    BY <2>1, <1>5
  <2>3. Len(u.top) = Len(t.top) + 1 - lost /\ Len(u.top) <= SCROLL_HISTORY_SIZE
    <3>1. Len(u.top) = Len(t.top) + 1 - lost
      BY <2>1, <2>2, RememberedLines
    <3>2. Len(t.top) + 1 - lost <= SCROLL_HISTORY_SIZE
      <4>1. CASE Len(t.top) < SCROLL_HISTORY_SIZE
        BY <4>1, <2>1, <2>2, <1>1, Sizes
      <4>2. CASE ~(Len(t.top) < SCROLL_HISTORY_SIZE)
        BY <4>2, <2>1, <2>2, <1>1, Sizes
      <4> QED
        BY <4>1, <4>2
    <3> QED
      BY <3>1, <3>2
  <2>4. Header(u)
    <3>1. BlankRow \in Line
      BY DEF BlankRow, Line, Chars
    <3>2. \A p \in Cells : p < VGA_START_CURSOR_POSITION => u.vga[p] = w.vga[p]
      BY <3>1, <2>1, <1>2, RowsUp
    <3> QED
      BY <3>2, <2>1, <1>3, HeaderCells DEF Header
  <2>5. Fine(u)
    BY <2>1, <2>3, <2>4, <1>1 DEF Fine
  <2>6. ASSUME NEW f \in Int, f <= DocCursor(t)
        PROVE  Kept(Document(t), Document(u), f, lost)
    <3>1. Kept(Document(t), Document(w), f, 0)
      BY <2>1, <2>6, <1>1, <1>2, DrawKept
    <3> DEFINE h == Len(Document(w)) * VGA_WIDTH
    <3>2. h \in Int /\ h >= DocCursor(t)
      <4> DEFINE m == Len(t.top)
      <4>1. Len(Document(w)) = m + ROWS + Len(w.bottom) /\ Len(w.bottom) = 0
        BY <2>1, <1>1, DocLines
      <4>2. DocCursor(t) = (m + 0) * VGA_WIDTH + t.cursor - VGA_START_CURSOR_POSITION
        BY <2>1, <1>1, <4>1 DEF DocCursor
      <4>3. t.cursor \in Area /\ m \in Nat
        BY <1>1 DEF TTY
      <4> HIDE DEF m
      <4>4. m + ROWS + 0 = m + ROWS /\ m + 0 = m /\ m * VGA_WIDTH \in Nat /\ ROWS * VGA_WIDTH \in Nat
            /\ (m + ROWS) * VGA_WIDTH = m * VGA_WIDTH + ROWS * VGA_WIDTH
        BY <4>3, Sizes
      <4>5. h = m * VGA_WIDTH + ROWS * VGA_WIDTH
        BY <4>1, <4>4
      <4> HIDE DEF h
      <4> QED
        BY <4>2, <4>3, <4>4, <4>5, Bounds, SMTT(30) DEF Area
    <3>3. Kept(Document(w), Document(u), h, lost)
      <4>1. h \in Int /\ h <= Len(Document(w)) * VGA_WIDTH
        BY <3>2
      <4> HIDE DEF h
      <4> QED
        BY <4>1, <2>1, <2>2, <1>1, ScrollKept
    <3>4. h >= f - 0 * VGA_WIDTH
      <4>1. 0 * VGA_WIDTH = 0
        BY Sizes
      <4>2. DocCursor(t) \in Int
        BY <1>1, Bounds, Sizes DEF DocCursor, TTY, Area
      <4> HIDE DEF h
      <4> QED
        BY <4>1, <4>2, <3>2, <2>6
    <3> HIDE DEF h
    <3>5. Kept(Document(t), Document(u), f, 0 + lost)
      <4>1. 0 \in Nat /\ lost \in Nat
        BY <2>2
      <4> QED
        BY <4>1, <3>1, <3>2, <3>3, <3>4, <2>6, KeptTwice
    <3>6. 0 + lost = lost
      BY <2>2
    <3> QED
      BY <3>5, <3>6
  <2> QED
    BY <2>3, <2>5, <2>6, <1>5
<1> QED
  BY <1>4, <1>5

\* After a scroll the lowest row is empty, and begins at the cursor.
LEMMA ScrolledPut ==
  ASSUME NEW t, Fine(t), NEW c \in Chars \cup Control, Scrolls(t, c), NEW u, u = putchar(t, c)
  PROVE  /\ u.cursor = terminal_bottom - VGA_WIDTH
         /\ \A p \in Area : p + VGA_WIDTH < terminal_bottom => u.vga[p] = Draw(t, c)[p + VGA_WIDTH]
         /\ \A p \in Area : p + VGA_WIDTH >= terminal_bottom => u.vga[p] \in Empty
<1> DEFINE w == [t EXCEPT !.vga = Draw(t, c)]
<1>1. t \in TTY
  BY DEF Fine
<1>2. /\ w \in TTY /\ w.vga = Draw(t, c) /\ w.top = t.top /\ w.cursor = t.cursor
      /\ w.bottom = t.bottom /\ w.shown = t.shown
      /\ u \in TTY /\ u.vga = ShiftUp(w.vga, BlankRow)
      /\ u.cursor = terminal_bottom - VGA_WIDTH
      /\ u.shown = t.shown /\ u.top = Remembered(w) /\ u.bottom = <<>>
  BY <1>1, PutScrolls
<1>3. Draw(t, c) \in [Cells -> Chars]
  BY <1>1, DrawType
<1> HIDE DEF w
<1>4. BlankRow \in Line /\ \A x \in Cols : BlankRow[x] \in Empty
  BY DEF BlankRow, Line, Chars, Empty
<1>5. /\ \A p \in Area : p + VGA_WIDTH < terminal_bottom => u.vga[p] = Draw(t, c)[p + VGA_WIDTH]
      /\ \A p \in Area : p + VGA_WIDTH >= terminal_bottom => u.vga[p] = BlankRow[p % VGA_WIDTH]
  BY <1>2, <1>3, <1>4, RowsUp
<1>6. \A p \in Area : p % VGA_WIDTH \in Cols
  BY RowOnScreen
<1> QED
  BY <1>2, <1>4, <1>5, <1>6

\* A row that is not above the row of the cursor ends behind the cursor.
LEMMA CursorRow ==
  ASSUME NEW t \in TTY
  PROVE  /\ t.cursor \in Area /\ t.cursor \in Nat /\ t.cursor \in Cells
         /\ t.cursor \div VGA_WIDTH \in Nat
         /\ t.cursor \div VGA_WIDTH < HEADER_ROWS + ROWS
         /\ t.cursor \div VGA_WIDTH >= HEADER_ROWS
         /\ (t.cursor \div VGA_WIDTH) * VGA_WIDTH \in Nat
         /\ (t.cursor \div VGA_WIDTH) * VGA_WIDTH <= t.cursor
         /\ (t.cursor \div VGA_WIDTH + 1) * VGA_WIDTH = (t.cursor \div VGA_WIDTH) * VGA_WIDTH + VGA_WIDTH
         /\ t.cursor < (t.cursor \div VGA_WIDTH + 1) * VGA_WIDTH
<1> DEFINE p == t.cursor
           q == p \div VGA_WIDTH
           m == p % VGA_WIDTH
<1>1. /\ p \in Area /\ p \in Nat /\ p \in Cells
      /\ q \in HEADER_ROWS .. HEADER_ROWS + ROWS - 1 /\ m \in Cols /\ p = q * VGA_WIDTH + m
  BY RowOnScreen DEF TTY
<1> HIDE DEF p, q, m
<1>2. q \in Nat /\ q < HEADER_ROWS + ROWS /\ q >= HEADER_ROWS /\ m \in Nat /\ m < VGA_WIDTH
  BY <1>1, Sizes DEF Cols
<1>3. q * VGA_WIDTH \in Nat /\ (q + 1) * VGA_WIDTH = q * VGA_WIDTH + VGA_WIDTH
  BY <1>2, Sizes
<1>4. q * VGA_WIDTH <= p /\ p < (q + 1) * VGA_WIDTH
  BY <1>1, <1>2, <1>3, Sizes
<1> QED
  BY <1>1, <1>2, <1>3, <1>4 DEF p, q

LEMMA BelowPut ==
  ASSUME NEW t, Fine(t), BelowEmpty(t), NEW c \in Chars \cup Control, NEW u, u = putchar(t, c)
  PROVE  BelowEmpty(u)
<1>1. t \in TTY /\ u \in TTY
  BY FinePut DEF Fine
<1> SUFFICES ASSUME NEW p \in Area, p >= (u.cursor \div VGA_WIDTH + 1) * VGA_WIDTH
             PROVE  u.vga[p] \in Empty
  BY DEF BelowEmpty
<1> DEFINE q == t.cursor \div VGA_WIDTH
           r == u.cursor \div VGA_WIDTH
<1>2. /\ q \in Nat /\ t.cursor \in Nat /\ t.cursor < (q + 1) * VGA_WIDTH
      /\ r \in Nat /\ u.cursor \in Nat /\ u.cursor < (r + 1) * VGA_WIDTH
      /\ (r + 1) * VGA_WIDTH = r * VGA_WIDTH + VGA_WIDTH
  BY <1>1, CursorRow
<1>3. p \in Nat /\ p \in Cells /\ p < terminal_bottom
  BY RowOnScreen, Bounds DEF Area
<1>4. CASE ~Scrolls(t, c)
  <2>1. u.vga = Draw(t, c) /\ u.cursor = Advanced(t.cursor, c)
    BY <1>1, <1>4, PutStays
  <2>2. u.cursor >= q * VGA_WIDTH
    BY <2>1, <1>1, AdvancedBounds
  <2> HIDE DEF q, r
  <2>3. (q + 1) * VGA_WIDTH <= (r + 1) * VGA_WIDTH
    <3>1. q * VGA_WIDTH \in Int /\ (r + 1) * VGA_WIDTH \in Int
      BY <1>2, Sizes
    <3>2. q * VGA_WIDTH < (r + 1) * VGA_WIDTH
      BY <3>1, <2>2, <1>2
    <3>3. q < r + 1
      BY <3>2, <1>2, RowsInOrder
    <3>4. q + 1 <= r + 1
      BY <3>3, <1>2
    <3> QED
      BY <3>4, <1>2, RowsInOrder
  <2>4. p >= (q + 1) * VGA_WIDTH /\ p # t.cursor
    <3>1. (q + 1) * VGA_WIDTH \in Int /\ (r + 1) * VGA_WIDTH \in Int
      BY <1>2, Sizes
    <3>2. p >= (r + 1) * VGA_WIDTH
      BY DEF r
    <3> QED
      BY <3>1, <3>2, <2>3, <1>2, <1>3
  <2>5. Draw(t, c)[p] = t.vga[p]
    BY <2>4, <1>1, <1>3, DrawType
  <2> QED
    BY <2>1, <2>4, <2>5 DEF BelowEmpty, q
<1>5. CASE Scrolls(t, c)
  <2>1. u.cursor = terminal_bottom - VGA_WIDTH
    BY <1>5, ScrolledPut
  <2> HIDE DEF q, r
  <2>2. p >= (r + 1) * VGA_WIDTH /\ (r + 1) * VGA_WIDTH \in Int
    BY <1>2, Sizes DEF r
  <2>3. p + VGA_WIDTH >= terminal_bottom
    BY <2>1, <2>2, <1>2, <1>3, Bounds, Sizes
  <2> QED
    BY <2>3, <1>5, ScrolledPut
<1> QED
  BY <1>4, <1>5

\* A new line: nothing is typed yet.
LEMMA LineFeed ==
  ASSUME NEW t, Fine(t), BelowEmpty(t), NEW u, u = putchar(t, "LF")
  PROVE  Typed(u, <<>>)
<1>1. t \in TTY /\ u \in TTY /\ "LF" \in Chars \cup Control /\ "LF" \in Control
  BY FinePut DEF Fine, Control
<1> DEFINE q == t.cursor \div VGA_WIDTH
<1>2. q \in Nat /\ q >= HEADER_ROWS
  BY <1>1, CursorRow
<1>3. Len(<<>>) = 0 /\ \A i \in 1 .. Len(<<>>) : FALSE
  OBVIOUS
<1>4. CASE ~Scrolls(t, "LF")
  <2>1. u.vga = Draw(t, "LF") /\ u.cursor = Advanced(t.cursor, "LF")
    BY <1>1, <1>4, PutStays
  <2>2. u.cursor = (q + 1) * VGA_WIDTH
    BY <2>1 DEF Advanced
  <2>3. \A p \in Area : p >= u.cursor => u.vga[p] \in Empty
    BY <2>1, <2>2, <1>1, DrawType DEF BelowEmpty
  <2>4. q + 1 \in Nat /\ q + 1 >= HEADER_ROWS /\ u.cursor = (q + 1) * VGA_WIDTH + 0
    <3> HIDE DEF q
    <3>1. (q + 1) * VGA_WIDTH \in Nat
      BY <1>2, Sizes
    <3> QED
      BY <3>1, <2>2, <1>2, Sizes
  <2> HIDE DEF q
  <2> QED
    BY <2>3, <2>4, <1>3 DEF Typed
<1>5. CASE Scrolls(t, "LF")
  <2> DEFINE r == HEADER_ROWS + ROWS - 1
  <2>1. u.cursor = terminal_bottom - VGA_WIDTH
    BY <1>1, <1>5, ScrolledPut
  <2>2. r \in Nat /\ r >= HEADER_ROWS /\ HEADER_ROWS + ROWS = r + 1
    BY Sizes
  <2>3. u.cursor = r * VGA_WIDTH + 0
    <3> HIDE DEF r
    <3>1. (r + 1) * VGA_WIDTH = r * VGA_WIDTH + VGA_WIDTH /\ r * VGA_WIDTH \in Nat
      BY <2>2, Sizes
    <3>2. terminal_bottom = r * VGA_WIDTH + VGA_WIDTH
      BY <3>1, <2>2, Bounds
    <3> QED
      BY <3>1, <3>2, <2>1, Sizes
  <2>4. \A p \in Area : p >= u.cursor => u.vga[p] \in Empty
    <3>1. \A p \in Area : p >= terminal_bottom - VGA_WIDTH => p + VGA_WIDTH >= terminal_bottom
      BY Bounds, Sizes DEF Area
    <3> QED
      BY <3>1, <2>1, <1>1, <1>5, ScrolledPut
  <2> HIDE DEF r
  <2> QED
    BY <2>2, <2>3, <2>4, <1>3 DEF Typed
<1> QED
  BY <1>4, <1>5

LEMMA TypedBelow ==
  ASSUME NEW t \in TTY, NEW l, Typed(t, l)
  PROVE  BelowEmpty(t)
<1>1. \A p \in Area : p >= t.cursor => t.vga[p] \in Empty
  BY DEF Typed
<1>2. /\ t.cursor \in Nat /\ t.cursor < (t.cursor \div VGA_WIDTH + 1) * VGA_WIDTH
      /\ (t.cursor \div VGA_WIDTH + 1) * VGA_WIDTH \in Int
  BY CursorRow, Sizes
<1>3. \A p \in Area : p \in Nat
  BY RowOnScreen
<1> DEFINE e == (t.cursor \div VGA_WIDTH + 1) * VGA_WIDTH
<1> HIDE DEF e
<1>4. \A p \in Area : p >= e => p >= t.cursor
  BY <1>2, <1>3 DEF e
<1> QED
  BY <1>1, <1>4 DEF BelowEmpty, e

\* A character typed at the end of the line.
LEMMA TypedPut ==
  ASSUME NEW t, Fine(t), NEW S, NEW l \in Seq(S), Typed(t, l), NEW c \in Chars \ Control, c \in S,
         Len(l) + 1 <= INPUT_BUF_SIZE + 1, NEW u, u = putchar(t, c)
  PROVE  Typed(u, Append(l, c))
<1> DEFINE g == Append(l, c)
           n == Len(l)
<1>1. /\ t \in TTY /\ u \in TTY /\ c \in Chars \cup Control /\ c \notin Control
  BY FinePut DEF Fine
<1>2. PICK q \in Nat :
        /\ q >= HEADER_ROWS /\ t.cursor = q * VGA_WIDTH + n
        /\ \A i \in 1 .. n : t.vga[q * VGA_WIDTH + i - 1] = l[i]
        /\ \A p \in Area : p >= t.cursor => t.vga[p] \in Empty
  BY DEF Typed
<1>3. /\ n \in Nat /\ Len(g) = n + 1
      /\ \A i \in 1 .. n : g[i] = l[i]
      /\ g[n + 1] = c
  BY Appended
<1>4. Advanced(t.cursor, c) = t.cursor + 1
  BY <1>1 DEF Advanced, Control
<1>5. t.cursor \in Area /\ t.cursor \in Nat /\ t.cursor \in Cells /\ t.cursor < terminal_bottom /\ t.cursor >= VGA_START_CURSOR_POSITION
  BY <1>1, CursorRow, Bounds DEF Area
<1>6. /\ \A p \in Cells : p # t.cursor => Draw(t, c)[p] = t.vga[p]
      /\ Draw(t, c)[t.cursor] = c
  BY <1>1, DrawType
<1>7. q * VGA_WIDTH \in Nat /\ q * VGA_WIDTH >= VGA_START_CURSOR_POSITION
  BY <1>2, Sizes, Bounds, RowsInOrder
<1> DEFINE b == q * VGA_WIDTH
<1> HIDE DEF g, n, b
<1>8. /\ b \in Nat /\ t.cursor = b + n /\ b >= VGA_START_CURSOR_POSITION
      /\ \A i \in 1 .. n : t.vga[b + i - 1] = l[i]
  BY <1>2, <1>7 DEF b
<1>9. VGA_START_CURSOR_POSITION \in Nat /\ terminal_bottom \in Nat /\ VGA_WIDTH \in Nat \ {0}
  BY Bounds, Sizes
<1>10. ASSUME NEW i \in 1 .. n + 1
       PROVE  b + i - 1 \in Area /\ Draw(t, c)[b + i - 1] = g[i]
  <2>1. b + i - 1 \in Area /\ b + i - 1 \in Cells
    <3>1. b + i - 1 \in Area
      BY <1>3, <1>5, <1>8, <1>9 DEF Area
    <3> QED
      BY <3>1, RowOnScreen
  <2>2. CASE i = n + 1
    <3>1. b + i - 1 = t.cursor
      BY <2>2, <1>3, <1>8
    <3> QED
      BY <3>1, <2>1, <2>2, <1>3, <1>6
  <2>3. CASE i \in 1 .. n
    <3>1. b + i - 1 # t.cursor
      BY <2>3, <1>3, <1>8
    <3> QED
      BY <3>1, <2>1, <2>3, <1>3, <1>6, <1>8
  <2> QED
    BY <2>2, <2>3, <1>3
<1>11. CASE ~Scrolls(t, c)
  <2>1. u.vga = Draw(t, c) /\ u.cursor = t.cursor + 1
    BY <1>1, <1>4, <1>11, PutStays
  <2>2. u.cursor = b + (n + 1)
    BY <2>1, <1>3, <1>8
  <2>3. ASSUME NEW p \in Area, p >= u.cursor PROVE u.vga[p] \in Empty
    <3>1. p \in Cells /\ p \in Nat
      BY RowOnScreen
    <3>2. p # t.cursor /\ p >= t.cursor
      BY <3>1, <2>1, <2>3, <1>5
    <3> QED
      BY <3>1, <3>2, <2>1, <1>2, <1>6
  <2>4. \A i \in 1 .. n + 1 : u.vga[b + i - 1] = g[i]
    BY <2>1, <1>10
  <2> QED
    BY <2>2, <2>3, <2>4, <1>2, <1>3 DEF Typed, g, b
<1>12. CASE Scrolls(t, c)
  <2>1. /\ u.cursor = terminal_bottom - VGA_WIDTH
        /\ \A p \in Area : p + VGA_WIDTH < terminal_bottom => u.vga[p] = Draw(t, c)[p + VGA_WIDTH]
        /\ \A p \in Area : p + VGA_WIDTH >= terminal_bottom => u.vga[p] \in Empty
    BY <1>1, <1>12, ScrolledPut
  <2>2. t.cursor + 1 = terminal_bottom
    BY <1>4, <1>5, <1>9, <1>12 DEF Scrolls
  <2>3. q > HEADER_ROWS
    <3>1. b + (n + 1) = terminal_bottom
      BY <2>2, <1>3, <1>8
    <3>2. n + 1 < ROWS * VGA_WIDTH /\ ROWS * VGA_WIDTH \in Nat
      BY InputFitsScreen, Sizes, <1>3 DEF n
    <3>3. b > VGA_START_CURSOR_POSITION
      BY <3>1, <3>2, <1>3, <1>8, <1>9, Bounds
    <3>4. HEADER_ROWS * VGA_WIDTH < q * VGA_WIDTH
      BY <3>3, Bounds DEF b
    <3> QED
      BY <3>4, <1>2, Sizes, RowsInOrder
  <2> DEFINE r == q - 1
             a == r * VGA_WIDTH
  <2>4. r \in Nat /\ r >= HEADER_ROWS
    BY <2>3, <1>2, Sizes
  <2>5. a = b - VGA_WIDTH /\ a \in Nat /\ a >= VGA_START_CURSOR_POSITION
    <3>1. a = b - VGA_WIDTH
      BY <1>2, Sizes DEF b
    <3>2. HEADER_ROWS * VGA_WIDTH <= r * VGA_WIDTH
      <4> HIDE DEF r
      <4> QED
        BY <2>4, Sizes, RowsInOrder
    <3> HIDE DEF r
    <3> QED
      BY <3>1, <3>2, <2>4, Sizes, Bounds
  <2> HIDE DEF r, a
  <2>6. u.cursor = a + (n + 1)
    BY <2>1, <2>2, <2>5, <1>3, <1>8, <1>9
  <2>7. ASSUME NEW i \in 1 .. n + 1 PROVE u.vga[a + i - 1] = g[i]
    <3>1. /\ a + i - 1 \in Area /\ (a + i - 1) + VGA_WIDTH = b + i - 1
          /\ (a + i - 1) + VGA_WIDTH < terminal_bottom
      BY <2>2, <2>5, <1>3, <1>8, <1>9 DEF Area
    <3> QED
      BY <3>1, <2>1, <1>10
  <2>8. ASSUME NEW p \in Area, p >= u.cursor PROVE u.vga[p] \in Empty
    <3>1. p + VGA_WIDTH >= terminal_bottom
      BY <2>1, <2>8, <1>9 DEF Area
    <3> QED
      BY <3>1, <2>1
  <2> QED
    BY <2>4, <2>6, <2>7, <2>8, <1>3 DEF Typed, g, a
<1> QED
  BY <1>11, <1>12

\* k characters further: u is what was t, scrolled at most once.
Progress(t, u, k, f) ==
  \E scrolled \in {0, 1}, lost \in {0, 1} :
    /\ lost <= scrolled /\ Len(u.top) = Len(t.top) + scrolled - lost
    /\ u.cursor + scrolled * VGA_WIDTH = t.cursor + k
    /\ Kept(Document(t), Document(u), f, lost)
    /\ lost = 1 => Len(t.top) = SCROLL_HISTORY_SIZE
    /\ scrolled = 1 => t.cursor + k >= terminal_bottom

LEMMA PutType ==
  ASSUME NEW t \in TTY, NEW c \in Chars \cup Control
  PROVE  putchar(t, c) \in TTY
<1>1. CASE ~Scrolls(t, c)
  BY <1>1, PutStays
<1>2. CASE Scrolls(t, c)
  <2> DEFINE w == [t EXCEPT !.vga = Draw(t, c)]
             u == putchar(t, c)
  <2>1. /\ w \in TTY /\ w.vga = Draw(t, c) /\ w.top = t.top /\ w.cursor = t.cursor
        /\ w.bottom = t.bottom /\ w.shown = t.shown
        /\ u \in TTY /\ u.vga = ShiftUp(w.vga, BlankRow)
        /\ u.cursor = terminal_bottom - VGA_WIDTH
        /\ u.shown = t.shown /\ u.top = Remembered(w) /\ u.bottom = <<>>
    BY <1>2, PutScrolls
  <2> QED
    BY <2>1
<1> QED
  BY <1>1, <1>2

\* The cursor of a screen at the end of the text, in the document.
LEMMA CursorInDocument ==
  ASSUME NEW t, Fine(t)
  PROVE  /\ DocCursor(t) = Len(t.top) * VGA_WIDTH + t.cursor - VGA_START_CURSOR_POSITION
         /\ DocCursor(t) \in Nat /\ Len(t.top) \in Nat /\ t.cursor \in Nat
         /\ DocCursor(t) < Len(Document(t)) * VGA_WIDTH
         /\ Len(Document(t)) = Len(t.top) + ROWS
<1>1. t \in TTY /\ t.bottom = <<>>
  BY DEF Fine
<1>2. Len(t.top) \in Nat /\ Len(t.bottom) = 0 /\ Len(Document(t)) = Len(t.top) + ROWS + Len(t.bottom)
  BY <1>1, DocLines
<1>3. Len(Document(t)) = Len(t.top) + ROWS /\ Len(t.top) + Len(t.bottom) = Len(t.top)
  BY <1>2, Sizes
<1>4. t.cursor \in Area /\ t.cursor \in Nat
  BY <1>1, CursorRow
<1>5. DocCursor(t) = Len(t.top) * VGA_WIDTH + t.cursor - VGA_START_CURSOR_POSITION
  BY <1>3 DEF DocCursor
<1>6. DocCursor(t) \in Nat /\ DocCursor(t) < (Len(t.top) + ROWS) * VGA_WIDTH
  BY <1>1, <1>4, <1>5, CellInDocument
<1> QED
  BY <1>2, <1>3, <1>4, <1>5, <1>6

\* The arithmetic of a screen that has scrolled s lines and lost l of them.
LEMMA Lines ==
  ASSUME NEW w \in Nat, NEW a \in Nat, NEW s \in {0, 1}, NEW l \in {0, 1}
  PROVE  /\ (a + (s - l)) * w = a * w + (s * w - l * w)
         /\ a * w \in Nat /\ s * w \in {0, w} /\ l * w \in {0, w}
         /\ s = 1 => s * w = w
         /\ s = 0 => s * w = 0
<1>1. a * w \in Nat
  OBVIOUS
<1>2. (a + 1) * w = a * w + w /\ (a - 1) * w = a * w - w
  OBVIOUS
<1>3. 0 * w = 0 /\ 1 * w = w
  OBVIOUS
<1>4. CASE s = 0 /\ l = 0
  BY <1>1, <1>3, <1>4
<1>5. CASE s = 0 /\ l = 1
  <2>1. a + (s - l) = a - 1
    BY <1>5
  <2> QED
    BY <2>1, <1>1, <1>2, <1>3, <1>5
<1>6. CASE s = 1 /\ l = 0
  <2>1. a + (s - l) = a + 1
    BY <1>6
  <2> QED
    BY <2>1, <1>1, <1>2, <1>3, <1>6
<1>7. CASE s = 1 /\ l = 1
  <2>1. a + (s - l) = a
    BY <1>7
  <2> QED
    BY <2>1, <1>1, <1>3, <1>7
<1> QED
  BY <1>4, <1>5, <1>6, <1>7

LEMMA ProgressPut ==
  ASSUME NEW t, Fine(t), NEW x, Fine(x), NEW k \in Nat, k + 1 <= VGA_WIDTH, NEW f \in Int,
         f <= DocCursor(t), Progress(t, x, k, f),
         NEW c \in Chars \ Control, NEW y, y = putchar(x, c)
  PROVE  Progress(t, y, k + 1, f)
<1> DEFINE W == VGA_WIDTH
<1>1. PICK s \in {0, 1}, l \in {0, 1} :
        /\ l <= s /\ Len(x.top) = Len(t.top) + s - l
        /\ x.cursor + s * W = t.cursor + k
        /\ Kept(Document(t), Document(x), f, l)
        /\ l = 1 => Len(t.top) = SCROLL_HISTORY_SIZE
        /\ s = 1 => t.cursor + k >= terminal_bottom
  BY DEF Progress
<1>2. /\ DocCursor(t) = Len(t.top) * W + t.cursor - VGA_START_CURSOR_POSITION
      /\ DocCursor(x) = Len(x.top) * W + x.cursor - VGA_START_CURSOR_POSITION
      /\ Len(t.top) \in Nat /\ t.cursor \in Nat /\ Len(x.top) \in Nat /\ x.cursor \in Nat
      /\ DocCursor(t) \in Nat /\ DocCursor(x) \in Nat
  BY CursorInDocument
<1>3. x \in TTY /\ t \in TTY /\ c \in Chars \cup Control /\ c \notin Control /\ t.cursor \in Area /\ x.cursor \in Area
  BY CursorRow DEF Fine
<1>4. /\ VGA_START_CURSOR_POSITION \in Nat /\ terminal_bottom \in Nat /\ W \in Nat \ {0}
      /\ t.cursor < terminal_bottom /\ x.cursor < terminal_bottom
  BY <1>3, Bounds, Sizes DEF Area
<1> HIDE DEF W
<1>5. DocCursor(x) >= f - l * VGA_WIDTH
  <2> DEFINE a == Len(t.top)
             aw == a * W
             sw == s * W
             lw == l * W
             xw == Len(x.top) * W
  <2>1. xw = aw + (sw - lw) /\ sw \in Nat /\ lw \in Nat /\ aw \in Nat
    <3>1. a \in Nat /\ W \in Nat /\ Len(x.top) = a + (s - l)
      BY <1>1, <1>2, <1>4
    <3> HIDE DEF a
    <3>2. (a + (s - l)) * W = a * W + (s * W - l * W) /\ a * W \in Nat /\ s * W \in {0, W} /\ l * W \in {0, W}
      BY <3>1, Lines
    <3> QED
      BY <3>1, <3>2
  <2>0. x.cursor + sw = t.cursor + k /\ DocCursor(t) = aw + t.cursor - VGA_START_CURSOR_POSITION
        /\ DocCursor(x) = xw + x.cursor - VGA_START_CURSOR_POSITION
    BY <1>1, <1>2
  <2> HIDE DEF a, aw, sw, lw, xw
  <2>4. /\ x.cursor \in Int /\ t.cursor \in Int /\ VGA_START_CURSOR_POSITION \in Int
        /\ k \in Int /\ sw \in Int /\ lw \in Int /\ aw \in Int /\ xw \in Int
    BY <2>1, <1>2, <1>4
  <2> DEFINE cx == x.cursor
             ct == t.cursor
             V == VGA_START_CURSOR_POSITION
  <2>5. cx + sw = ct + k /\ cx \in Int /\ ct \in Int /\ V \in Int
    BY <2>0, <2>4
  <2> HIDE DEF cx, ct, V
  <2>6. xw + (cx - V) = (aw + (ct - V)) + (k - lw)
    BY ONLY <2>1, <2>4, <2>5
  <2>2. DocCursor(x) = DocCursor(t) + k - lw
    BY <2>0, <2>6 DEF cx, ct, V
  <2>3. DocCursor(x) >= f - lw
    BY <2>1, <2>2, <1>2, <1>4
  <2> QED
    BY <2>3 DEF W, lw
<1>6. Advanced(x.cursor, c) = x.cursor + 1
  BY <1>3 DEF Advanced, Control
<1> DEFINE z == IF Scrolls(x, c) THEN 1 ELSE 0
           m == IF Scrolls(x, c) /\ ~(Len(x.top) < SCROLL_HISTORY_SIZE) THEN 1 ELSE 0
<1>7. /\ Len(y.top) = Len(x.top) + z - m
      /\ \A h \in Int : h <= DocCursor(x) => Kept(Document(x), Document(y), h, m)
  BY <1>3, FinePut
<1>8. z \in {0, 1} /\ m \in {0, 1} /\ m <= z
  OBVIOUS
<1>9. y.cursor + z * W = x.cursor + 1
  <2>1. CASE ~Scrolls(x, c)
    <3>1. y.cursor = x.cursor + 1
      BY <2>1, <1>3, <1>6, PutStays
    <3> QED
      BY <3>1, <2>1, <1>2, <1>4
  <2>2. CASE Scrolls(x, c)
    <3>1. y.cursor = terminal_bottom - W
      BY <2>2, <1>3, ScrolledPut DEF W
    <3>2. x.cursor + 1 = terminal_bottom
      BY <2>2, <1>2, <1>4, <1>6 DEF Scrolls
    <3> QED
      BY <3>1, <3>2, <2>2, <1>4
  <2> QED
    BY <2>1, <2>2
<1>10. z = 1 => x.cursor + 1 >= terminal_bottom
  BY <1>6 DEF Scrolls
<1>11. m = 1 => Len(x.top) = SCROLL_HISTORY_SIZE
  BY <1>2, Sizes DEF Fine
<1> HIDE DEF z, m
<1>12. s + z \in {0, 1}
  <2>1. SUFFICES ASSUME s = 1, z = 1 PROVE FALSE
    BY <1>1, <1>8
  <2>2. x.cursor + W = t.cursor + k
    BY <2>1, <1>1, <1>2, <1>4
  <2>3. k < W
    BY Sizes DEF W
  <2> QED
    BY <2>1, <2>2, <2>3, <1>2, <1>4, <1>10, SMTT(30)
<1>13. Kept(Document(t), Document(y), f, l + m)
  <2>1. Kept(Document(x), Document(y), DocCursor(x), m) /\ DocCursor(x) \in Int /\ l \in Nat /\ m \in Nat
    BY <1>2, <1>7, <1>8
  <2> QED
    BY <2>1, <1>1, <1>5, KeptTwice
<1>14. l + m \in {0, 1} /\ l + m <= s + z
  BY <1>1, <1>8, <1>12
<1>15. Len(y.top) = Len(t.top) + (s + z) - (l + m)
  <2> DEFINE a == Len(t.top)
             b == Len(x.top)
             e == Len(y.top)
  <2>1. a \in Nat /\ b \in Nat /\ b = a + (s - l) /\ e = b + (z - m)
    BY <1>1, <1>2, <1>7
  <2>2. s \in Int /\ l \in Int /\ z \in Int /\ m \in Int
    BY <1>1, <1>8
  <2> HIDE DEF a, b, e
  <2>3. e = a + (s + z) - (l + m)
    BY ONLY <2>1, <2>2
  <2> QED
    BY <2>3 DEF a, e
<1>16. y.cursor + (s + z) * VGA_WIDTH = t.cursor + (k + 1)
  <2> DEFINE sw == s * W
             zw == z * W
             bw == (s + z) * W
  <2>1. bw = sw + zw /\ sw \in Nat /\ zw \in Nat
    <3>1. s * W \in {0, W} /\ z * W \in {0, W} /\ s \in Nat /\ z \in Nat /\ W \in Nat
      BY <1>1, <1>4, <1>8, Lines
    <3>2. (s + z) * W = s * W + z * W
      BY ONLY <3>1
    <3> QED
      BY <3>1, <3>2
  <2>2. y.cursor \in Nat
    <3>1. y \in TTY
      BY <1>3, PutType
    <3> QED
      BY <3>1, CursorRow
  <2>4. x.cursor + sw = t.cursor + k /\ y.cursor + zw = x.cursor + 1
    BY <1>1, <1>9
  <2> HIDE DEF sw, zw, bw
  <2>5. x.cursor \in Int /\ t.cursor \in Int /\ y.cursor \in Int /\ k \in Int
    BY <2>2, <1>2
  <2>3. y.cursor + bw = t.cursor + (k + 1)
    BY ONLY <2>1, <2>4, <2>5
  <2> QED
    BY <2>3 DEF W, bw
<1>17. l + m = 1 => Len(t.top) = SCROLL_HISTORY_SIZE
  <2>1. CASE l = 1
    BY <2>1, <1>1
  <2>2. CASE l = 0 /\ m = 1
    <3>1. z = 1 /\ s = 0
      BY <2>2, <1>1, <1>8, <1>12
    <3>2. Len(x.top) = Len(t.top)
      BY <3>1, <2>2, <1>1, <1>2
    <3> QED
      BY <3>2, <2>2, <1>11
  <2> QED
    BY <2>1, <2>2, <1>1, <1>8
<1>18. s + z = 1 => t.cursor + (k + 1) >= terminal_bottom
  <2>1. CASE s = 1
    BY <2>1, <1>1, <1>2, <1>4, SMTT(30)
  <2>2. CASE s = 0 /\ z = 1
    <3>1. x.cursor = t.cursor + k
      BY <2>2, <1>1, <1>2, <1>4
    <3> QED
      BY <3>1, <2>2, <1>2, <1>10, <1>4, SMTT(30)
  <2> QED
    BY <2>1, <2>2, <1>1, <1>8
<1> DEFINE s2 == s + z
           l2 == l + m
<1> HIDE DEF s2, l2
<1>19. /\ s2 \in {0, 1} /\ l2 \in {0, 1} /\ l2 <= s2 /\ Len(y.top) = Len(t.top) + s2 - l2
       /\ y.cursor + s2 * VGA_WIDTH = t.cursor + (k + 1)
       /\ Kept(Document(t), Document(y), f, l2)
       /\ l2 = 1 => Len(t.top) = SCROLL_HISTORY_SIZE
       /\ s2 = 1 => t.cursor + (k + 1) >= terminal_bottom
  BY <1>12, <1>13, <1>14, <1>15, <1>16, <1>17, <1>18 DEF s2, l2
<1> QED
  BY ONLY <1>19 DEF Progress

-----------------------------------------------------------------------------
(* Printed().                                                              *)

\* The screens between one character and the next.
LEMMA PrintedSteps ==
  ASSUME NEW t \in TTY, NEW s \in Seq(Chars \ Control)
  PROVE  \E f \in [0 .. Len(s) -> TTY] :
           /\ f[0] = t /\ Printed(t, s) = f[Len(s)]
           /\ \A k \in 1 .. Len(s) : f[k] = putchar(f[k - 1], s[k])
<1> DEFINE n == Len(s)
           at[k \in 0 .. n] == IF k = 0 THEN t ELSE putchar(at[k - 1], s[k])
           G == [x \in TTY \X (1 .. n) |-> putchar(x[1], s[x[2]])]
<1>1. Printed(t, s) = at[n]
  BY DEF Printed
<1>2. n \in Nat /\ \A k \in 1 .. n : s[k] \in Chars \cup Control
  BY ElementOfSeq
<1> HIDE DEF n, at
<1>3. G \in StepsOn(TTY, n)
  <2>1. \A x \in TTY \X (1 .. n) : x[1] \in TTY /\ x[2] \in 1 .. n
    OBVIOUS
  <2>2. \A x \in TTY \X (1 .. n) : putchar(x[1], s[x[2]]) \in TTY
    BY <2>1, <1>2, PutType
  <2> QED
    BY <2>2 DEF StepsOn
<1>4. PICK f \in [0 .. n -> TTY] : Recursive(f, t, n, G)
  <2> HIDE DEF G
  <2> QED
    BY <1>2, <1>3, Recursion, Zenon
<1>5. f[0] = t /\ \A k \in 1 .. n : f[k] = putchar(f[k - 1], s[k])
  <2>0. \A k \in 1 .. n : k - 1 \in 0 .. n /\ k \in 0 .. n /\ k # 0
    BY <1>2
  <2>1. \A k \in 1 .. n : f[k - 1] \in TTY /\ k \in 0 .. n /\ k # 0
    BY <2>0
  <2>2. \A k \in 1 .. n : G[<<f[k - 1], k>>] = putchar(f[k - 1], s[k])
    BY <2>1
  <2>3. 0 \in 0 .. n
    BY <1>2
  <2> HIDE DEF G
  <2> QED
    BY <2>1, <2>2, <2>3, <1>4 DEF Recursive
<1>6. f = [k \in 0 .. n |-> IF k = 0 THEN t ELSE putchar(f[k - 1], s[k])]
  <2>1. \A k \in 0 .. n : k = 0 \/ k \in 1 .. n
    BY <1>2
  <2>2. \A k \in 0 .. n : f[k] = IF k = 0 THEN t ELSE putchar(f[k - 1], s[k])
    BY <2>1, <1>5
  <2> QED
    BY <2>2, <1>4
<1>7. at = [k \in 0 .. n |-> IF k = 0 THEN t ELSE putchar(at[k - 1], s[k])]
  BY <1>6 DEF at
<1>8. \A k \in 0 .. n : at[k] = IF k = 0 THEN t ELSE putchar(at[k - 1], s[k])
  BY <1>7
<1>9. ASSUME NEW k \in 0 .. n PROVE at[k] = f[k]
  <2> DEFINE S == {j \in Nat : j <= k => at[j] = f[j]}
  <2>1. 0 \in S
    BY <1>2, <1>5, <1>8
  <2>2. ASSUME NEW j \in S, j + 1 <= k PROVE j + 1 \in S
    <3>1. at[j] = f[j] /\ j + 1 \in 1 .. n /\ j + 1 \in 0 .. n /\ j + 1 # 0 /\ j + 1 - 1 = j
      BY <2>2, <1>2
    <3>2. at[j + 1] = putchar(at[j], s[j + 1])
      BY <3>1, <1>8
    <3>3. f[j + 1] = putchar(f[j], s[j + 1])
      BY <3>1, <1>5
    <3> QED
      BY <3>1, <3>2, <3>3
  <2>3. k \in Nat /\ S \in SUBSET Nat
    BY <1>2
  <2> HIDE DEF S
  <2>4. k \in S
    BY <2>1, <2>2, <2>3, UpTo
  <2> QED
    BY <2>4 DEF S
<1>10. n \in 0 .. n
  BY <1>2
<1> QED
  BY <1>1, <1>5, <1>9, <1>10 DEF n

\* The first k elements of s after those of l.
LEMMA Longer ==
  ASSUME NEW S, NEW l \in Seq(S), NEW s \in Seq(S), NEW k \in 0 .. Len(s) - 1
  PROVE  /\ l \o SubSeq(s, 1, k) \in Seq(S) /\ Len(l \o SubSeq(s, 1, k)) = Len(l) + k
         /\ Append(l \o SubSeq(s, 1, k), s[k + 1]) = l \o SubSeq(s, 1, k + 1)
<1> DEFINE a == SubSeq(s, 1, k)
           b == SubSeq(s, 1, k + 1)
           c == Append(l \o a, s[k + 1])
           d == l \o b
<1>1. Len(s) \in Nat /\ Len(l) \in Nat /\ k \in Nat /\ k + 1 <= Len(s)
  OBVIOUS
<1>2. /\ a \in Seq(S) /\ Len(a) = k /\ \A i \in 1 .. k : a[i] = s[i]
  BY <1>1
<1>3. /\ b \in Seq(S) /\ Len(b) = k + 1 /\ \A i \in 1 .. k + 1 : b[i] = s[i]
  BY <1>1
<1> HIDE DEF a, b
<1>4. s[k + 1] \in S
  BY <1>1, ElementOfSeq
<1>5. l \o a \in Seq(S) /\ Len(l \o a) = Len(l) + k
  BY <1>1, <1>2
<1>6. c \in Seq(S) /\ d \in Seq(S) /\ Len(c) = Len(l) + (k + 1) /\ Len(d) = Len(l) + (k + 1)
  <2>1. d \in Seq(S) /\ Len(d) = Len(l) + Len(b)
    BY <1>3
  <2>2. c \in Seq(S) /\ Len(c) = Len(l \o a) + 1
    BY <1>4, <1>5
  <2>3. Len(l) + k + 1 = Len(l) + (k + 1)
    BY <1>1
  <2> QED
    BY <2>1, <2>2, <2>3, <1>1, <1>3, <1>5
<1>7. ASSUME NEW i \in 1 .. Len(l) + (k + 1) PROVE c[i] = d[i]
  <2>1. CASE i <= Len(l)
    BY <2>1, <1>1, <1>2, <1>3, <1>5
  <2>2. CASE i > Len(l) /\ i <= Len(l) + k
    <3>1. i - Len(l) \in 1 .. k
      BY <2>2, <1>1
    <3>2. c[i] = a[i - Len(l)]
      BY <3>1, <2>2, <1>1, <1>2, <1>5
    <3>3. d[i] = b[i - Len(l)]
      BY <3>1, <2>2, <1>1, <1>3
    <3> QED
      BY <3>1, <3>2, <3>3, <1>2, <1>3, SMTT(30)
  <2>3. CASE i = Len(l) + (k + 1)
    <3>1. c[i] = s[k + 1]
      BY <2>3, <1>1, <1>5
    <3>2. d[i] = b[k + 1]
      BY <2>3, <1>1, <1>3
    <3> QED
      BY <3>1, <3>2, <1>1, <1>3
  <2>4. i <= Len(l) \/ (i > Len(l) /\ i <= Len(l) + k) \/ i = Len(l) + (k + 1)
    BY ONLY <1>1, i \in 1 .. Len(l) + (k + 1)
  <2> QED
    BY <2>1, <2>2, <2>3, <2>4
<1> HIDE DEF c, d
<1>8. c = d
  BY <1>6, <1>7, SeqEqual
<1> QED
  BY <1>5, <1>8 DEF a, b, c, d

\* Before anything is printed.
LEMMA ProgressStart ==
  ASSUME NEW t, Fine(t), NEW f \in Int, f <= DocCursor(t)
  PROVE  Progress(t, t, 0, f)
<1>1. /\ DocCursor(t) \in Nat /\ DocCursor(t) < Len(Document(t)) * VGA_WIDTH
      /\ Len(Document(t)) = Len(t.top) + ROWS /\ Len(t.top) \in Nat /\ t.cursor \in Nat
  BY CursorInDocument
<1>2. t \in TTY
  BY DEF Fine
<1>3. Len(Document(t)) * VGA_WIDTH \in Nat
  BY <1>1, Sizes
<1>4. f <= Len(Document(t)) * VGA_WIDTH
  BY <1>1, <1>3
<1>5. Kept(Document(t), Document(t), f, 0)
  BY <1>2, <1>4, KeptSame
<1>6. t.cursor + 0 * VGA_WIDTH = t.cursor + 0
  BY <1>1, Sizes
<1> DEFINE z == 0
<1>7. z \in {0, 1} /\ z <= z /\ Len(t.top) = Len(t.top) + z - z /\ z # 1
  BY <1>1
<1>8. t.cursor + z * VGA_WIDTH = t.cursor + 0 /\ Kept(Document(t), Document(t), f, z)
  BY <1>5, <1>6
<1> HIDE DEF z
<1> QED
  BY <1>7, <1>8 DEF Progress

\* Printable characters behind a typed line are typed too.
LEMMA PrintedLine ==
  ASSUME NEW t, Fine(t), NEW l \in Seq(Chars \ Control), Typed(t, l),
         NEW s \in Seq(Chars \ Control),
         Len(l) + Len(s) <= INPUT_BUF_SIZE + 1, Len(s) <= VGA_WIDTH,
         NEW f \in Int, f <= DocCursor(t), NEW u, u = Printed(t, s)
  PROVE  Fine(u) /\ Typed(u, l \o s) /\ Progress(t, u, Len(s), f)
<1> DEFINE n == Len(s)
           pre(k) == l \o SubSeq(s, 1, k)
           Q(x, k) == Fine(x) /\ Typed(x, pre(k)) /\ Progress(t, x, k, f)
<1>1. n \in Nat /\ Len(l) \in Nat /\ t \in TTY
  BY DEF Fine
<1>2. PICK g \in [0 .. n -> TTY] :
        /\ g[0] = t /\ u = g[n]
        /\ \A k \in 1 .. n : g[k] = putchar(g[k - 1], s[k])
  BY <1>1, PrintedSteps
<1> HIDE DEF n
<1>3. ASSUME NEW k \in 0 .. n - 1, NEW x, Q(x, k), NEW y, y = putchar(x, s[k + 1])
      PROVE  Q(y, k + 1)
  <2>1. s[k + 1] \in Chars \ Control /\ k \in Nat /\ k + 1 <= n /\ n <= VGA_WIDTH /\ k + 1 <= VGA_WIDTH
    BY <1>1, Sizes, ElementOfSeq DEF n
  <2>2. /\ pre(k) \in Seq(Chars \ Control) /\ Len(pre(k)) = Len(l) + k
        /\ Append(pre(k), s[k + 1]) = pre(k + 1)
    BY Longer, ZenonT(60) DEF n
  <2>3. Fine(x) /\ Typed(x, pre(k)) /\ Progress(t, x, k, f)
    BY <1>3
  <2>4. Len(pre(k)) + 1 <= INPUT_BUF_SIZE + 1
    <3>1. Len(l) + n <= INPUT_BUF_SIZE + 1
      BY DEF n
    <3> HIDE DEF pre
    <3> QED
      BY <3>1, <2>1, <2>2, <1>1, Sizes
  <2> HIDE DEF pre
  <2>5. Fine(y)
    <3>1. s[k + 1] \in Chars \cup Control
      BY <2>1
    <3> QED
      BY <3>1, <2>3, <1>3, FinePut
  <2>6. Typed(y, pre(k + 1))
    <3>1. Typed(y, Append(pre(k), s[k + 1]))
      BY <2>1, <2>2, <2>3, <2>4, <1>3, TypedPut
    <3> QED
      BY <3>1, <2>2
  <2>7. Progress(t, y, k + 1, f)
    BY <2>1, <2>3, <1>3, ProgressPut
  <2> QED
    BY <2>5, <2>6, <2>7
<1>4. Q(t, 0)
  <2>1. pre(0) = l
    BY EmptySeq
  <2>2. Progress(t, t, 0, f)
    BY ProgressStart
  <2> QED
    BY <2>1, <2>2
<1>5. pre(n) = l \o s
  BY DEF n
<1> HIDE DEF pre, Q
<1> DEFINE S == {j \in Nat : j <= n => Q(g[j], j)}
<1>6. 0 \in S
  BY <1>2, <1>4
<1>7. ASSUME NEW j \in S, j + 1 <= n PROVE j + 1 \in S
  <2>1. Q(g[j], j) /\ j \in 0 .. n - 1 /\ j + 1 \in 1 .. n /\ j + 1 - 1 = j
    BY <1>7, <1>1
  <2>2. g[j + 1] = putchar(g[j], s[j + 1])
    BY <2>1, <1>2
  <2>3. Q(g[j + 1], j + 1)
    BY <2>1, <2>2, <1>3
  <2> QED
    BY <2>3
<1>8. S \in SUBSET Nat
  OBVIOUS
<1> HIDE DEF S
<1>9. n \in S
  BY <1>1, <1>6, <1>7, <1>8, UpTo
<1>10. Q(g[n], n)
  BY <1>1, <1>9 DEF S
<1> QED
  BY <1>2, <1>5, <1>10 DEF Q, n

\* The prompt is printed at the beginning of a row, so it fits that row.
LEMMA Prompt ==
  ASSUME NEW t, Fine(t), Typed(t, <<>>), NEW u, u = print_prompt(t)
  PROVE  /\ Fine(u) /\ Typed(u, PROMPT_STR) /\ Len(u.top) = Len(t.top)
         /\ u.cursor = t.cursor + 2
         /\ \A f \in Int : f <= DocCursor(t) => Kept(Document(t), Document(u), f, 0)
<1>1. /\ PROMPT_STR \in Seq(Chars \ Control) /\ Len(PROMPT_STR) = 2
      /\ << >> \in Seq(Chars \ Control) /\ << >> \o PROMPT_STR = PROMPT_STR /\ Len(<< >>) = 0
  BY DEF PROMPT_STR, Chars, Control
<1>2. 0 + 2 <= INPUT_BUF_SIZE + 1 /\ 2 < VGA_WIDTH
  BY Sizes, TabFitsLine
<1>3. ASSUME NEW f \in Int, f <= DocCursor(t)
      PROVE  /\ Fine(u) /\ Typed(u, PROMPT_STR) /\ Progress(t, u, 2, f)
  <2>1. Len(<< >>) + Len(PROMPT_STR) <= INPUT_BUF_SIZE + 1 /\ Len(PROMPT_STR) <= VGA_WIDTH
    BY <1>1, <1>2, Sizes
  <2>2. u = Printed(t, PROMPT_STR)
    BY DEF print_prompt
  <2>3. Fine(u) /\ Typed(u, << >> \o PROMPT_STR) /\ Progress(t, u, Len(PROMPT_STR), f)
    BY <2>1, <2>2, <1>1, <1>3, PrintedLine
  <2> QED
    BY <2>3, <1>1
<1>4. t \in TTY /\ t.cursor \in Nat /\ Len(t.top) \in Nat /\ DocCursor(t) \in Nat /\ t.cursor < terminal_bottom
  <2>1. t \in TTY
    BY DEF Fine
  <2>2. t.cursor \in Area /\ t.cursor \in Nat
    BY <2>1, CursorRow
  <2> QED
    BY <2>1, <2>2, CursorInDocument, Bounds DEF Area
<1>5. t.cursor + 2 < terminal_bottom
  <2>1. PICK q \in Nat : q >= HEADER_ROWS /\ t.cursor = q * VGA_WIDTH + Len(<< >>)
    BY DEF Typed
  <2> DEFINE b == q * VGA_WIDTH
  <2>2. t.cursor = b /\ b \in Nat
    BY <2>1, <1>1, Sizes
  <2>3. b < (HEADER_ROWS + ROWS) * VGA_WIDTH
    BY <2>2, <1>4, Bounds
  <2>4. q + 1 <= HEADER_ROWS + ROWS
    <3>1. HEADER_ROWS + ROWS \in Nat
      BY Sizes
    <3>2. q < HEADER_ROWS + ROWS
      BY <3>1, <2>3, Sizes, RowsInOrder
    <3> QED
      BY <3>1, <3>2
  <2>5. (q + 1) * VGA_WIDTH <= (HEADER_ROWS + ROWS) * VGA_WIDTH
    BY <2>4, Sizes, RowsInOrder
  <2>6. (q + 1) * VGA_WIDTH = b + VGA_WIDTH
    BY Sizes
  <2> HIDE DEF b
  <2> QED
    BY <2>2, <2>5, <2>6, <1>2, Bounds, Sizes
<1>6. ASSUME NEW f \in Int, f <= DocCursor(t)
      PROVE  /\ Len(u.top) = Len(t.top) /\ u.cursor = t.cursor + 2
             /\ Kept(Document(t), Document(u), f, 0)
  <2>1. PICK s \in {0, 1}, l \in {0, 1} :
          /\ l <= s /\ Len(u.top) = Len(t.top) + s - l
          /\ u.cursor + s * VGA_WIDTH = t.cursor + 2
          /\ Kept(Document(t), Document(u), f, l)
          /\ s = 1 => t.cursor + 2 >= terminal_bottom
    BY <1>3, <1>6 DEF Progress
  <2>2. s = 0 /\ l = 0
    BY <2>1, <1>4, <1>5, Bounds
  <2>3. s * VGA_WIDTH = 0
    BY <2>2, Sizes
  <2>4. u.cursor \in Nat
    BY <1>3, <1>6, CursorRow DEF Fine
  <2> QED
    BY <2>1, <2>2, <2>3, <2>4, <1>4
<1> QED
  BY <1>3, <1>4, <1>6

-----------------------------------------------------------------------------
(* The console between two keys.                                           *)

\* What is always true of the screen while the console reads keys.
Held(t) ==
  /\ t \in TTY /\ Header(t) /\ Len(t.top) + Len(t.bottom) <= SCROLL_HISTORY_SIZE
  /\ t.shown <=> t.bottom = <<>>

\* Typed(t, l), said of the document: true also while history is shown.
Echo(t, l) ==
  \E q \in Nat :
    /\ q >= Len(t.top) + Len(t.bottom) /\ DocCursor(t) = q * VGA_WIDTH + Len(l)
    /\ \A i \in 1 .. Len(l) : DocCell(Document(t), q * VGA_WIDTH + i - 1) = l[i]
    /\ \A k \in DocCursor(t) .. Len(Document(t)) * VGA_WIDTH - 1 :
         DocCell(Document(t), k) \in Empty

LEMMA EchoMoved ==
  ASSUME NEW t, NEW u, Moved(t, u), NEW l, Echo(t, l)
  PROVE  Echo(u, l)
<1>1. /\ Len(u.top) + Len(u.bottom) = Len(t.top) + Len(t.bottom) /\ u.cursor = t.cursor
      /\ Document(u) = Document(t)
  BY DEF Moved
<1>2. DocCursor(u) = DocCursor(t)
  BY <1>1 DEF DocCursor
<1> QED
  BY <1>1, <1>2 DEF Echo

LEMMA HeldMoved ==
  ASSUME NEW t, Held(t), NEW u, Moved(t, u), u.shown <=> u.bottom = <<>>
  PROVE  Held(u)
  BY DEF Moved, Held, Header

\* The rows of the screen that shows the end of the text, in the document.
LEMMA RowInDocument ==
  ASSUME NEW t, Fine(t), NEW q \in Nat, q >= HEADER_ROWS,
         NEW r, r = q - HEADER_ROWS + Len(t.top)
  PROVE  /\ r \in Nat /\ r >= Len(t.top) /\ r * VGA_WIDTH \in Nat /\ q * VGA_WIDTH \in Nat
         /\ r * VGA_WIDTH = Len(t.top) * VGA_WIDTH + q * VGA_WIDTH - VGA_START_CURSOR_POSITION
<1> DEFINE m == Len(t.top)
           mw == m * VGA_WIDTH
           qw == q * VGA_WIDTH
           hw == HEADER_ROWS * VGA_WIDTH
           rw == r * VGA_WIDTH
<1>1. m \in Nat
  BY CursorInDocument
<1> HIDE DEF m
<1>2. r \in Nat /\ r >= m /\ r = (q - HEADER_ROWS) + m
  BY <1>1, Sizes DEF m
<1>3. mw \in Nat /\ qw \in Nat /\ hw \in Nat /\ rw \in Nat
  BY <1>1, <1>2, Sizes
<1>4. (q - HEADER_ROWS) * VGA_WIDTH = qw - hw
  BY Sizes
<1>5. rw = (q - HEADER_ROWS) * VGA_WIDTH + mw
  <2> DEFINE d == q - HEADER_ROWS
  <2>1. d \in Int /\ r = d + m
    BY <1>2, Sizes
  <2> HIDE DEF d
  <2>2. (d + m) * VGA_WIDTH = d * VGA_WIDTH + m * VGA_WIDTH
    BY <2>1, <1>1, Sizes
  <2> QED
    BY <2>1, <2>2 DEF d
<1> HIDE DEF mw, qw, hw, rw
<1>6. rw = mw + qw - hw
  BY <1>3, <1>4, <1>5
<1>7. hw = VGA_START_CURSOR_POSITION
  BY Bounds DEF hw
<1> QED
  BY <1>2, <1>3, <1>6, <1>7 DEF m, mw, qw, rw

LEMMA TypedEcho ==
  ASSUME NEW t, Fine(t), NEW S, NEW l \in Seq(S), Typed(t, l)
  PROVE  Echo(t, l)
<1>1. PICK q \in Nat :
        /\ q >= HEADER_ROWS /\ t.cursor = q * VGA_WIDTH + Len(l)
        /\ \A i \in 1 .. Len(l) : t.vga[q * VGA_WIDTH + i - 1] = l[i]
        /\ \A p \in Area : p >= t.cursor => t.vga[p] \in Empty
  BY DEF Typed
<1> DEFINE r == q - HEADER_ROWS + Len(t.top)
           mw == Len(t.top) * VGA_WIDTH
           qw == q * VGA_WIDTH
           rw == r * VGA_WIDTH
           V == VGA_START_CURSOR_POSITION
<1>2. r \in Nat /\ r >= Len(t.top) /\ rw \in Nat /\ qw \in Nat /\ rw = mw + qw - V
  BY <1>1, RowInDocument
<1>3. /\ t \in TTY /\ t.cursor \in Area /\ t.cursor \in Nat /\ Len(t.top) \in Nat /\ mw \in Nat
      /\ DocCursor(t) = mw + t.cursor - V
      /\ DocCursor(t) \in Nat /\ Len(Document(t)) = Len(t.top) + ROWS
      /\ V \in Nat /\ terminal_bottom \in Nat /\ Len(l) \in Nat
  <2>1. t \in TTY
    BY DEF Fine
  <2>2. t.cursor \in Area /\ t.cursor \in Nat
    BY <2>1, CursorRow
  <2>3. /\ DocCursor(t) = Len(t.top) * VGA_WIDTH + t.cursor - VGA_START_CURSOR_POSITION
        /\ DocCursor(t) \in Nat /\ Len(t.top) \in Nat /\ Len(Document(t)) = Len(t.top) + ROWS
    BY CursorInDocument
  <2>4. V \in Nat /\ terminal_bottom \in Nat /\ Len(l) \in Nat
    BY Bounds
  <2>5. mw \in Nat
    BY <2>3, Sizes
  <2> QED
    BY <2>1, <2>2, <2>3, <2>4, <2>5
<1>4. Len(t.top) + Len(t.bottom) = Len(t.top)
  BY <1>3 DEF Fine
<1>5. (Len(t.top) + ROWS) * VGA_WIDTH = mw + terminal_bottom - V
  <2> DEFINE m == Len(t.top)
  <2>1. m \in Nat
    BY <1>3
  <2> HIDE DEF m
  <2>2. (m + ROWS) * VGA_WIDTH = m * VGA_WIDTH + ROWS * VGA_WIDTH
    BY <2>1, Sizes
  <2>3. terminal_bottom = V + ROWS * VGA_WIDTH /\ ROWS * VGA_WIDTH \in Nat /\ m * VGA_WIDTH \in Nat
    BY <2>1, Sizes, Bounds
  <2>4. m * VGA_WIDTH + ROWS * VGA_WIDTH = m * VGA_WIDTH + terminal_bottom - V
    BY <2>3, <1>3
  <2> QED
    BY <2>2, <2>4 DEF m
<1>6. /\ t.cursor = qw + Len(l) /\ \A i \in 1 .. Len(l) : t.vga[qw + i - 1] = l[i]
      /\ qw >= V
  <2>1. HEADER_ROWS * VGA_WIDTH <= qw
    BY <1>1, Sizes, RowsInOrder
  <2> QED
    BY <2>1, <1>1, Bounds
<1>7. \A p \in Area : DocCell(Document(t), mw + p - V) = t.vga[p]
  BY <1>3, CellInDocument
<1>11. V = VGA_START_CURSOR_POSITION
  OBVIOUS
<1> HIDE DEF r, mw, qw, rw, V
<1>8. DocCursor(t) = rw + Len(l)
  BY <1>2, <1>3, <1>6, SMTT(30)
<1>9. ASSUME NEW i \in 1 .. Len(l) PROVE DocCell(Document(t), rw + i - 1) = l[i]
  <2>1. qw + i - 1 \in Area /\ mw + (qw + i - 1) - V = rw + i - 1
    <3>1. /\ mw \in Nat /\ qw \in Nat /\ rw \in Nat /\ Len(l) \in Nat /\ qw + Len(l) \in Area
          /\ qw >= V /\ rw = mw + qw - V
      BY <1>2, <1>3, <1>6, <1>11
    <3> DEFINE n == Len(l)
    <3>2. /\ n \in Nat /\ i \in 1 .. n /\ V \in Nat /\ terminal_bottom \in Nat
          /\ qw + n < terminal_bottom
      BY <3>1, <1>3 DEF Area
    <3> HIDE DEF n
    <3>3. mw \in Nat /\ qw \in Nat /\ rw \in Nat /\ qw >= V /\ rw = mw + qw - V
      BY <3>1
    <3>4. qw + i - 1 >= V /\ qw + i - 1 <= terminal_bottom - 1 /\ qw + i - 1 \in Int
      BY ONLY <3>2, <3>3
    <3>5. mw + (qw + i - 1) - V = rw + i - 1
      BY ONLY <3>2, <3>3
    <3> QED
      BY <3>4, <3>5, <1>11 DEF Area
  <2> QED
    BY <2>1, <1>6, <1>7
<1>10. ASSUME NEW k \in DocCursor(t) .. Len(Document(t)) * VGA_WIDTH - 1
       PROVE  DocCell(Document(t), k) \in Empty
  <2> DEFINE p == k - mw + V
  <2>1. k < mw + terminal_bottom - V /\ k >= mw + t.cursor - V /\ k \in Int
    BY <1>3, <1>5
  <2>2. p \in Area /\ p >= t.cursor /\ mw + p - V = k
    BY <2>1, <1>3 DEF Area, V
  <2> HIDE DEF p
  <2> QED
    BY <2>2, <1>1, <1>7
<1> QED
  BY <1>2, <1>4, <1>8, <1>9, <1>10 DEF Echo, rw

LEMMA EchoTyped ==
  ASSUME NEW t, Fine(t), NEW S, NEW l \in Seq(S), Echo(t, l)
  PROVE  Typed(t, l)
<1>1. PICK r \in Nat :
        /\ r >= Len(t.top) + Len(t.bottom) /\ DocCursor(t) = r * VGA_WIDTH + Len(l)
        /\ \A i \in 1 .. Len(l) : DocCell(Document(t), r * VGA_WIDTH + i - 1) = l[i]
        /\ \A k \in DocCursor(t) .. Len(Document(t)) * VGA_WIDTH - 1 :
             DocCell(Document(t), k) \in Empty
  BY DEF Echo
<1> DEFINE q == r - Len(t.top) + HEADER_ROWS
           mw == Len(t.top) * VGA_WIDTH
           qw == q * VGA_WIDTH
           rw == r * VGA_WIDTH
           V == VGA_START_CURSOR_POSITION
<1>3. /\ t \in TTY /\ t.cursor \in Area /\ t.cursor \in Nat /\ Len(t.top) \in Nat /\ mw \in Nat
      /\ DocCursor(t) = mw + t.cursor - V
      /\ DocCursor(t) \in Nat /\ Len(Document(t)) = Len(t.top) + ROWS
      /\ V \in Nat /\ terminal_bottom \in Nat /\ Len(l) \in Nat
  <2>1. t \in TTY
    BY DEF Fine
  <2>2. t.cursor \in Area /\ t.cursor \in Nat
    BY <2>1, CursorRow
  <2>3. /\ DocCursor(t) = Len(t.top) * VGA_WIDTH + t.cursor - VGA_START_CURSOR_POSITION
        /\ DocCursor(t) \in Nat /\ Len(t.top) \in Nat /\ Len(Document(t)) = Len(t.top) + ROWS
    BY CursorInDocument
  <2>4. V \in Nat /\ terminal_bottom \in Nat /\ Len(l) \in Nat
    BY Bounds
  <2>5. mw \in Nat
    BY <2>3, Sizes
  <2> QED
    BY <2>1, <2>2, <2>3, <2>4, <2>5
<1>4. Len(t.top) + Len(t.bottom) = Len(t.top)
  BY <1>3 DEF Fine
<1>14. q \in Nat /\ q >= HEADER_ROWS /\ r = q - HEADER_ROWS + Len(t.top)
  <2> DEFINE m == Len(t.top)
  <2>1. m \in Nat /\ r >= m /\ r \in Nat
    BY <1>1, <1>3, <1>4
  <2> HIDE DEF m
  <2>2. (r - m + HEADER_ROWS) \in Nat /\ r - m + HEADER_ROWS >= HEADER_ROWS
        /\ r = (r - m + HEADER_ROWS) - HEADER_ROWS + m
    BY <2>1, Sizes
  <2> QED
    BY <2>2 DEF m
<1> HIDE DEF q
<1>2. rw \in Nat /\ qw \in Nat /\ rw = mw + qw - V
  BY <1>14, RowInDocument
<1>5. (Len(t.top) + ROWS) * VGA_WIDTH = mw + terminal_bottom - V
  <2> DEFINE m == Len(t.top)
  <2>1. m \in Nat
    BY <1>3
  <2> HIDE DEF m
  <2>2. (m + ROWS) * VGA_WIDTH = m * VGA_WIDTH + ROWS * VGA_WIDTH
    BY <2>1, Sizes
  <2>3. terminal_bottom = V + ROWS * VGA_WIDTH /\ ROWS * VGA_WIDTH \in Nat /\ m * VGA_WIDTH \in Nat
    BY <2>1, Sizes, Bounds
  <2>4. m * VGA_WIDTH + ROWS * VGA_WIDTH = m * VGA_WIDTH + terminal_bottom - V
    BY <2>3, <1>3
  <2> QED
    BY <2>2, <2>4 DEF m
<1>6. /\ DocCursor(t) = rw + Len(l) /\ \A i \in 1 .. Len(l) : DocCell(Document(t), rw + i - 1) = l[i]
      /\ qw >= V
  <2>1. HEADER_ROWS * VGA_WIDTH <= qw
    BY <1>14, Sizes, RowsInOrder
  <2> QED
    BY <2>1, <1>1, Bounds
<1>7. \A p \in Area : DocCell(Document(t), mw + p - V) = t.vga[p]
  BY <1>3, CellInDocument
<1>11. V = VGA_START_CURSOR_POSITION
  OBVIOUS
<1> HIDE DEF mw, qw, rw, V
<1>8. t.cursor = qw + Len(l)
  <2>1. t.cursor \in Int /\ qw \in Int /\ mw \in Int /\ rw \in Int /\ V \in Int /\ Len(l) \in Int
    BY <1>2, <1>3
  <2>2. rw = mw + qw - V /\ mw + t.cursor - V = rw + Len(l)
    BY <1>2, <1>3, <1>6
  <2> QED
    BY ONLY <2>1, <2>2
<1>9. ASSUME NEW i \in 1 .. Len(l) PROVE t.vga[qw + i - 1] = l[i]
  <2>1. qw + i - 1 \in Area /\ mw + (qw + i - 1) - V = rw + i - 1
    <3>1. /\ mw \in Nat /\ qw \in Nat /\ rw \in Nat /\ Len(l) \in Nat /\ qw + Len(l) \in Area
          /\ qw >= V /\ rw = mw + qw - V
      BY <1>2, <1>3, <1>6, <1>8, <1>11
    <3> DEFINE n == Len(l)
    <3>2. /\ n \in Nat /\ i \in 1 .. n /\ V \in Nat /\ terminal_bottom \in Nat
          /\ qw + n < terminal_bottom
      BY <3>1, <1>3 DEF Area
    <3> HIDE DEF n
    <3>3. mw \in Nat /\ qw \in Nat /\ rw \in Nat /\ qw >= V /\ rw = mw + qw - V
      BY <3>1
    <3>4. qw + i - 1 >= V /\ qw + i - 1 <= terminal_bottom - 1 /\ qw + i - 1 \in Int
      BY ONLY <3>2, <3>3
    <3>5. mw + (qw + i - 1) - V = rw + i - 1
      BY ONLY <3>2, <3>3
    <3> QED
      BY <3>4, <3>5, <1>11 DEF Area
  <2> QED
    BY <2>1, <1>6, <1>7
<1>10. ASSUME NEW p \in Area, p >= t.cursor
       PROVE  t.vga[p] \in Empty
  <2> DEFINE k == mw + p - V
  <2>2. k \in DocCursor(t) .. Len(Document(t)) * VGA_WIDTH - 1
    BY <1>10, <1>3, <1>5, SMTT(30) DEF Area, V
  <2>3. DocCell(Document(t), k) = t.vga[p]
    BY <1>7
  <2> HIDE DEF k
  <2> QED
    BY <2>2, <2>3, <1>1
<1> QED
  BY <1>14, <1>8, <1>9, <1>10 DEF Typed, qw

-----------------------------------------------------------------------------
(* The inductive invariant: TypeOK and BuffersFit with, for each of the    *)
(* console's three situations, what the screen shows in it.                *)

\* A key is awaited behind the prompt and the line typed so far.
Ready(t, l) == Held(t) /\ Echo(t, PROMPT_STR \o l)
\* A key is awaited, the prompt not yet printed.
Fresh(t) == Fine(t) /\ Typed(t, <<>>)
\* A command, or autorun_init(), prints.
Busy(t) == Fine(t) /\ BelowEmpty(t)

IInv ==
  /\ input_buf \in Seq(Letters \cup {" "}) /\ Len(input_buf) <= INPUT_BUF_SIZE - 1
  /\ prompt_shown \in BOOLEAN /\ running \in BOOLEAN
  /\ ~prompt_shown => input_buf = <<>>
  /\ running => Busy(tty)
  /\ ~running /\ prompt_shown => Ready(tty, input_buf)
  /\ ~running /\ ~prompt_shown => Fresh(tty)

-----------------------------------------------------------------------------
(* What a key or an output does to the screen.                             *)

InputChars == Letters \cup {" "}

LEMMA InputLine ==
  ASSUME NEW l \in Seq(InputChars)
  PROVE  /\ l \in Seq(Chars \ Control) /\ PROMPT_STR \in Seq(Chars \ Control)
         /\ PROMPT_STR \o l \in Seq(Chars \ Control) /\ Len(PROMPT_STR \o l) = 2 + Len(l)
         /\ PROMPT_STR \o << >> = PROMPT_STR
         /\ Len(PROMPT_STR) = 2 /\ Len(l) \in Nat
<1>1. InputChars \subseteq Chars \ Control
  BY CharsAssumption DEF InputChars, Chars, Control
<1>2. l \in Seq(Chars \ Control)
  BY <1>1
<1>3. PROMPT_STR \in Seq(Chars \ Control) /\ Len(PROMPT_STR) = 2
  BY DEF PROMPT_STR, Chars, Control
<1> DEFINE S == Chars \ Control
           P == PROMPT_STR
<1>4. l \in Seq(S) /\ P \in Seq(S) /\ Len(P) = 2
  BY <1>2, <1>3
<1> HIDE DEF S, P
<1>5. P \o l \in Seq(S) /\ Len(P \o l) = 2 + Len(l) /\ Len(l) \in Nat
  <2>1. P \o l \in Seq(S) /\ Len(P \o l) = Len(P) + Len(l)
    BY ONLY <1>4, ConcatProperties
  <2>2. Len(l) \in Nat
    BY ONLY <1>4, LenProperties
  <2> QED
    BY <2>1, <2>2, <1>4
<1>6. P \o << >> = P
  BY <1>4
<1> QED
  BY <1>4, <1>5, <1>6 DEF S, P

\* The text before cell f of t is kept; a full history gives up one line.
Keeps(t, u, f) ==
  \E lost \in 0 .. 1 :
    /\ lost = 1 => Len(Document(t)) = SCROLL_HISTORY_SIZE + ROWS
    /\ Kept(Document(t), Document(u), f, lost)

\* The same, with no line given up.
Same(t, u, f) ==
  Len(Document(u)) = Len(Document(t)) /\ Kept(Document(t), Document(u), f, 0)

LEMMA SameKeeps ==
  ASSUME NEW t, NEW w, NEW u, NEW f \in Int, Same(t, w, f), Keeps(w, u, f)
  PROVE  Keeps(t, u, f)
<1>1. PICK lost \in 0 .. 1 :
        /\ lost = 1 => Len(Document(w)) = SCROLL_HISTORY_SIZE + ROWS
        /\ Kept(Document(w), Document(u), f, lost)
  BY DEF Keeps
<1>2. f >= f - 0 * VGA_WIDTH /\ lost \in Nat /\ 0 + lost = lost
  BY <1>1, Sizes
<1>3. Kept(Document(t), Document(u), f, 0 + lost)
  BY <1>1, <1>2, KeptTwice DEF Same
<1> QED
  BY <1>1, <1>2, <1>3 DEF Keeps, Same

LEMMA SameIsKept ==
  ASSUME NEW t, NEW w, NEW f \in Int, Same(t, w, f)
  PROVE  Keeps(t, w, f)
<1>1. 0 \in 0 .. 1 /\ 0 # 1
  OBVIOUS
<1> QED
  BY <1>1 DEF Same, Keeps

LEMMA SameDocument ==
  ASSUME NEW t \in TTY, NEW w, Document(w) = Document(t), NEW f \in Int, f <= DocCursor(t)
  PROVE  Same(t, w, f)
<1> DEFINE a == Len(t.top)
           b == Len(t.bottom)
           V == VGA_START_CURSOR_POSITION
           D == Len(Document(t)) * VGA_WIDTH
<1>1. a \in Nat /\ b \in Nat /\ Len(Document(t)) = a + ROWS + b
  BY DocLines
<1>2. DocCursor(t) = (a + b) * VGA_WIDTH + t.cursor - V
  BY DEF DocCursor
<1>3. t.cursor \in Nat /\ t.cursor < terminal_bottom /\ V \in Nat /\ terminal_bottom = V + ROWS * VGA_WIDTH
  BY CursorRow, Bounds DEF Area
<1>4. (a + ROWS + b) * VGA_WIDTH = (a + b) * VGA_WIDTH + ROWS * VGA_WIDTH /\ ROWS * VGA_WIDTH \in Nat
      /\ (a + b) * VGA_WIDTH \in Nat
  <2> HIDE DEF a, b
  <2>1. a + b \in Nat /\ a + ROWS + b = (a + b) + ROWS
    BY <1>1, Sizes
  <2> DEFINE c == a + b
  <2>2. c \in Nat
    BY <2>1
  <2> HIDE DEF c
  <2>3. (c + ROWS) * VGA_WIDTH = c * VGA_WIDTH + ROWS * VGA_WIDTH
    BY <2>2, Sizes
  <2>4. ROWS * VGA_WIDTH \in Nat /\ c * VGA_WIDTH \in Nat
    BY <2>2, Sizes
  <2> QED
    BY <2>1, <2>3, <2>4 DEF c
<1> DEFINE ab == (a + b) * VGA_WIDTH
           rw == ROWS * VGA_WIDTH
<1>5. D = ab + rw /\ DocCursor(t) = ab + t.cursor - V /\ terminal_bottom = V + rw /\ ab \in Nat /\ rw \in Nat
  BY <1>1, <1>2, <1>3, <1>4
<1> HIDE DEF D, ab, rw, V
<1>6. f <= D
  BY <1>3, <1>5
<1> QED
  BY <1>6, KeptSame DEF Same, D

\* putchar() keeps what is in front of the cursor.
LEMMA PutKeeps ==
  ASSUME NEW t, Fine(t), NEW c \in Chars \cup Control, NEW u, u = putchar(t, c),
         NEW f \in Int, f <= DocCursor(t)
  PROVE  Keeps(t, u, f)
<1> DEFINE lost == IF Scrolls(t, c) /\ ~(Len(t.top) < SCROLL_HISTORY_SIZE) THEN 1 ELSE 0
<1>1. Kept(Document(t), Document(u), f, lost)
  BY FinePut
<1>2. lost \in 0 .. 1 /\ (lost = 1 => ~(Len(t.top) < SCROLL_HISTORY_SIZE))
  OBVIOUS
<1> HIDE DEF lost
<1>3. Len(t.top) \in Nat /\ Len(Document(t)) = Len(t.top) + ROWS
  BY CursorInDocument
<1>4. lost = 1 => Len(Document(t)) = SCROLL_HISTORY_SIZE + ROWS
  <2>1. lost = 1 => Len(t.top) = SCROLL_HISTORY_SIZE
    BY <1>2, <1>3, Sizes DEF Fine
  <2> QED
    BY <2>1, <1>3
<1> QED
  BY <1>1, <1>2, <1>4 DEF Keeps

\* So does a printed line.
LEMMA ProgressKeeps ==
  ASSUME NEW t, Fine(t), NEW u, NEW k \in Nat, NEW f \in Int, Progress(t, u, k, f)
  PROVE  Keeps(t, u, f)
<1>1. PICK s \in {0, 1}, l \in {0, 1} :
        Kept(Document(t), Document(u), f, l) /\ (l = 1 => Len(t.top) = SCROLL_HISTORY_SIZE)
  BY DEF Progress
<1>2. Len(Document(t)) = Len(t.top) + ROWS
  BY CursorInDocument
<1>3. l \in 0 .. 1 /\ (l = 1 => Len(Document(t)) = SCROLL_HISTORY_SIZE + ROWS)
  BY <1>1, <1>2
<1> QED
  BY <1>1, <1>3 DEF Keeps

\* Printed at the end of the text, a line is the one Enter would execute.
LEMMA ReadyTyped ==
  ASSUME NEW u, Fine(u), NEW l \in Seq(InputChars), Typed(u, PROMPT_STR \o l)
  PROVE  Ready(u, l)
<1>1. u \in TTY /\ Header(u) /\ u.bottom = <<>> /\ u.shown = TRUE /\ Len(u.top) <= SCROLL_HISTORY_SIZE
  BY DEF Fine
<1>2. Len(u.top) + Len(u.bottom) = Len(u.top)
  <2>1. Len(u.top) \in Nat /\ Len(u.bottom) = 0
    BY <1>1, DocLines
  <2> QED
    BY <2>1
<1>3. Held(u)
  BY <1>1, <1>2 DEF Held
<1>4. Echo(u, PROMPT_STR \o l)
  BY InputLine, TypedEcho
<1> QED
  BY <1>3, <1>4 DEF Ready

LEMMA CursorType ==
  ASSUME NEW t \in TTY
  PROVE  DocCursor(t) \in Int
<1> DEFINE m == Len(t.top)
           n == Len(t.bottom)
           a == m + n
<1>0. m \in Nat /\ n \in Nat
  BY DocLines
<1> HIDE DEF m, n
<1>1. a \in Nat
  BY ONLY <1>0
<1> HIDE DEF a
<1>2. a * VGA_WIDTH \in Int
  BY <1>1, Sizes
<1>3. t.cursor \in Int /\ VGA_START_CURSOR_POSITION \in Int
  BY CursorRow, Bounds
<1>4. a * VGA_WIDTH + t.cursor - VGA_START_CURSOR_POSITION \in Int
  BY ONLY <1>2, <1>3
<1> QED
  BY <1>4 DEF DocCursor, a, m, n

\* terminal_console() with its prompt, before it looks at the key.
LEMMA ReadyPrompted ==
  ASSUME NEW t, NEW l \in Seq(InputChars), NEW shown,
         shown => Ready(t, l), ~shown => Fresh(t) /\ l = <<>>,
         NEW w, w = IF shown THEN t ELSE print_prompt(t)
  PROVE  /\ Ready(w, l)
         /\ \A f \in Int : f <= DocCursor(t) - Len(l) => Same(t, w, f) /\ f <= DocCursor(w) - Len(l)
<1>1. CASE shown
  <2>1. w = t /\ t \in TTY /\ Ready(w, l)
    BY <1>1 DEF Ready, Held
  <2>2. DocCursor(t) \in Int /\ Len(l) \in Nat
    BY <2>1, InputLine, CursorType
  <2>3. \A f \in Int : f <= DocCursor(t) - Len(l) => f <= DocCursor(t)
    BY <2>2
  <2> QED
    BY <2>1, <2>3, SameDocument
<1>2. CASE ~shown
  <2>1. w = print_prompt(t) /\ Fine(t) /\ Typed(t, <<>>) /\ l = <<>>
    BY <1>2 DEF Fresh
  <2>2. /\ Fine(w) /\ Typed(w, PROMPT_STR) /\ Len(w.top) = Len(t.top)
        /\ w.cursor = t.cursor + 2
        /\ \A f \in Int : f <= DocCursor(t) => Kept(Document(t), Document(w), f, 0)
    BY <2>1, Prompt
  <2>3. PROMPT_STR \o l = PROMPT_STR /\ Len(l) = 0
    BY <2>1, InputLine
  <2>4. Ready(w, l)
    BY <2>2, <2>3, ReadyTyped
  <2>5. /\ DocCursor(t) = Len(t.top) * VGA_WIDTH + t.cursor - VGA_START_CURSOR_POSITION
        /\ DocCursor(t) \in Nat /\ Len(t.top) \in Nat /\ t.cursor \in Nat
        /\ Len(Document(t)) = Len(t.top) + ROWS
    BY <2>1, CursorInDocument
  <2>6. /\ DocCursor(w) = Len(t.top) * VGA_WIDTH + w.cursor - VGA_START_CURSOR_POSITION
        /\ DocCursor(w) \in Nat /\ Len(Document(w)) = Len(t.top) + ROWS
    BY <2>2, CursorInDocument
  <2>7. DocCursor(w) = DocCursor(t) + 2
    <3>1. Len(t.top) * VGA_WIDTH \in Int /\ VGA_START_CURSOR_POSITION \in Int
      BY <2>5, Sizes, Bounds
    <3> QED
      BY <3>1, <2>2, <2>5, <2>6
  <2>8. ASSUME NEW f \in Int, f <= DocCursor(t) - Len(l)
        PROVE  f <= DocCursor(t) /\ f <= DocCursor(w) - Len(l)
    BY <2>3, <2>5, <2>7, <2>8
  <2> QED
    BY <2>2, <2>4, <2>5, <2>6, <2>8 DEF Same
<1> QED
  BY <1>1, <1>2

\* The screen at the end of the text, where every key but the scroll keys
\* goes first.
LEMMA Presented ==
  ASSUME NEW w, NEW l \in Seq(InputChars), Ready(w, l), NEW p, p = return_to_present(w)
  PROVE  /\ Fine(p) /\ Typed(p, PROMPT_STR \o l) /\ Ready(p, l)
         /\ Document(p) = Document(w) /\ DocCursor(p) = DocCursor(w)
<1>1. /\ w \in TTY /\ Header(w) /\ Len(w.top) + Len(w.bottom) <= SCROLL_HISTORY_SIZE
      /\ (w.shown <=> w.bottom = <<>>) /\ Echo(w, PROMPT_STR \o l)
  BY DEF Ready, Held
<1>2. Moved(w, p) /\ p.bottom = <<>> /\ p.shown = (w.shown \/ w.bottom # <<>>)
  BY <1>1, Return
<1>3. p.shown = TRUE
  BY <1>1, <1>2
<1>4. /\ p \in TTY /\ p.cursor = w.cursor /\ Document(p) = Document(w) /\ Header(p)
      /\ Len(p.top) + Len(p.bottom) = Len(w.top) + Len(w.bottom)
  BY <1>1, <1>2 DEF Moved, Header
<1>5. Len(p.top) <= SCROLL_HISTORY_SIZE
  <2>1. Len(p.top) \in Nat /\ Len(p.bottom) = 0
    BY <1>2, <1>4, DocLines
  <2>2. Len(p.top) + Len(p.bottom) <= SCROLL_HISTORY_SIZE
    BY <1>1, <1>4
  <2> QED
    BY <2>1, <2>2
<1>6. Fine(p)
  BY <1>2, <1>3, <1>4, <1>5 DEF Fine
<1>7. Echo(p, PROMPT_STR \o l)
  BY <1>1, <1>2, EchoMoved
<1>8. Typed(p, PROMPT_STR \o l)
  BY <1>6, <1>7, InputLine, EchoTyped
<1>9. DocCursor(p) = DocCursor(w)
  BY <1>4 DEF DocCursor
<1> QED
  BY <1>4, <1>6, <1>8, <1>9, ReadyTyped

\* The scroll keys move the screen over the same text.
LEMMA Scrolled ==
  ASSUME NEW w, NEW l, Ready(w, l), NEW u, u = scroll_down(w) \/ u = scroll_up(w)
  PROVE  Ready(u, l) /\ Document(u) = Document(w)
<1>1. /\ w \in TTY /\ Held(w) /\ Len(w.top) + Len(w.bottom) <= SCROLL_HISTORY_SIZE
      /\ (w.shown <=> w.bottom = <<>>) /\ Echo(w, PROMPT_STR \o l)
  BY DEF Ready, Held
<1>2. Len(w.top) \in Nat /\ Len(w.bottom) \in Nat /\ w.top \in Seq(Line) /\ w.bottom \in Seq(Line)
  BY <1>1, DocLines DEF TTY
<1>3. CASE u = w
  BY <1>3
<1>4. CASE u = scroll_down(w) /\ w.bottom # <<>>
  <2> DEFINE x == OneLineForward(w)
  <2>1. Moved(w, x) /\ x.shown = w.shown
    BY <1>1, <1>4, Forward
  <2>2. u = IF x.bottom = <<>> THEN [x EXCEPT !.shown = TRUE] ELSE x
    BY <1>4 DEF scroll_down, ShowCursor
  <2> HIDE DEF x
  <2>3. x \in TTY
    BY <2>1 DEF Moved
  <2>4. CASE x.bottom = <<>>
    <3>1. u = [x EXCEPT !.shown = TRUE]
      BY <2>2, <2>4
    <3>2. /\ u \in TTY /\ u.shown = TRUE /\ u.bottom = x.bottom /\ u.top = x.top
          /\ u.cursor = x.cursor /\ u.vga = x.vga
      BY <3>1, <2>3 DEF TTY
    <3>3. Document(u) = Document(x)
      BY <3>2 DEF Document
    <3>4. Moved(w, u)
      BY <3>2, <3>3, <2>1 DEF Moved
    <3>5. Held(u)
      BY <3>2, <3>4, <2>4, <1>1, HeldMoved
    <3>6. Echo(u, PROMPT_STR \o l)
      BY <3>4, <1>1, EchoMoved
    <3> QED
      BY <3>4, <3>5, <3>6 DEF Ready, Moved
  <2>5. CASE x.bottom # <<>>
    <3>1. u = x
      BY <2>2, <2>5
    <3>2. u.shown <=> u.bottom = <<>>
      BY <3>1, <2>1, <2>5, <1>1, <1>4
    <3>3. Held(u) /\ Echo(u, PROMPT_STR \o l)
      BY <3>1, <3>2, <2>1, <1>1, HeldMoved, EchoMoved
    <3> QED
      BY <3>1, <3>3, <2>1 DEF Ready, Moved
  <2> QED
    BY <2>4, <2>5
<1>5. CASE u = scroll_up(w) /\ w.top # <<>>
  <2>1. Len(w.bottom) < SCROLL_HISTORY_SIZE
    <3>1. Len(w.top) # 0
      BY <1>2, <1>5, EmptySeq
    <3> DEFINE a == Len(w.top)
               b == Len(w.bottom)
    <3>2. a \in Nat /\ b \in Nat /\ a # 0 /\ a + b <= SCROLL_HISTORY_SIZE /\ SCROLL_HISTORY_SIZE \in Nat
      BY <3>1, <1>1, <1>2, Sizes
    <3> HIDE DEF a, b
    <3>3. b < SCROLL_HISTORY_SIZE
      BY ONLY <3>2
    <3> QED
      BY <3>3 DEF b
  <2>2. Moved(w, u) /\ u.shown = FALSE /\ u.bottom # <<>>
    BY <2>1, <1>1, <1>5, Back
  <2>3. Held(u) /\ Echo(u, PROMPT_STR \o l)
    BY <2>2, <1>1, HeldMoved, EchoMoved
  <2> QED
    BY <2>2, <2>3 DEF Ready, Moved
<1>6. u = w \/ (u = scroll_down(w) /\ w.bottom # <<>>) \/ (u = scroll_up(w) /\ w.top # <<>>)
  BY DEF scroll_down, scroll_up
<1> QED
  BY <1>3, <1>4, <1>5, <1>6

\* A newline and the next prompt.
LEMMA NextPrompt ==
  ASSUME NEW t, Fine(t), BelowEmpty(t), NEW x, x = putchar(t, "LF"),
         NEW u, u = print_prompt(x), NEW f \in Int, f <= DocCursor(t)
  PROVE  Ready(u, << >>) /\ Keeps(t, u, f)
<1>0. "LF" \in Chars \cup Control /\ "LF" \in Control
  BY DEF Control
<1>1. Fine(x) /\ Typed(x, <<>>)
  BY <1>0, FinePut, LineFeed
<1>2. /\ Fine(u) /\ Typed(u, PROMPT_STR)
      /\ \A g \in Int : g <= DocCursor(x) => Kept(Document(x), Document(u), g, 0)
  BY <1>1, Prompt
<1>3. Ready(u, << >>)
  <2>1. << >> \in Seq(InputChars) /\ PROMPT_STR \o << >> = PROMPT_STR
    BY InputLine
  <2> QED
    BY <2>1, <1>2, ReadyTyped
<1> DEFINE s == IF Scrolls(t, "LF") THEN 1 ELSE 0
           lost == IF Scrolls(t, "LF") /\ ~(Len(t.top) < SCROLL_HISTORY_SIZE) THEN 1 ELSE 0
<1>4. /\ Len(x.top) = Len(t.top) + s - lost
      /\ Kept(Document(t), Document(x), f, lost)
  BY <1>0, FinePut
<1>5. s \in {0, 1} /\ lost \in {0, 1} /\ lost \in Nat /\ lost \in 0 .. 1
  OBVIOUS
<1>6. /\ DocCursor(t) = Len(t.top) * VGA_WIDTH + t.cursor - VGA_START_CURSOR_POSITION
      /\ DocCursor(t) \in Nat /\ Len(t.top) \in Nat /\ t.cursor \in Nat
      /\ Len(Document(t)) = Len(t.top) + ROWS
  BY CursorInDocument
<1>7. /\ DocCursor(x) = Len(x.top) * VGA_WIDTH + x.cursor - VGA_START_CURSOR_POSITION
      /\ DocCursor(x) \in Nat /\ x.cursor \in Nat
  BY <1>1, CursorInDocument
<1>8. x.cursor + s * VGA_WIDTH >= t.cursor
  <2>1. t \in TTY /\ t.cursor \in Area /\ t.cursor < terminal_bottom /\ terminal_bottom \in Nat
    BY CursorRow, Bounds DEF Fine, Area
  <2>2. CASE Scrolls(t, "LF")
    <3>1. x.cursor = terminal_bottom - VGA_WIDTH
      BY <2>2, <1>0, ScrolledPut
    <3>2. s * VGA_WIDTH = VGA_WIDTH
      BY <2>2, Sizes
    <3> QED
      BY <3>1, <3>2, <2>1, <1>6, Sizes
  <2>3. CASE ~Scrolls(t, "LF")
    <3>1. x.cursor = Advanced(t.cursor, "LF")
      BY <2>1, <2>3, <1>0, PutStays
    <3>2. Advanced(t.cursor, "LF") = (t.cursor \div VGA_WIDTH + 1) * VGA_WIDTH
      BY DEF Advanced
    <3>3. t.cursor < (t.cursor \div VGA_WIDTH + 1) * VGA_WIDTH
      BY <2>1, CursorRow, Sizes
    <3>4. s * VGA_WIDTH = 0
      BY <2>3, Sizes
    <3> QED
      BY <3>1, <3>2, <3>3, <3>4, <1>6, <1>7
  <2> QED
    BY <2>2, <2>3
<1> HIDE DEF s, lost
<1>9. DocCursor(x) >= DocCursor(t) - lost * VGA_WIDTH
  <2> DEFINE a == Len(t.top)
             aw == a * VGA_WIDTH
             sw == s * VGA_WIDTH
             lw == lost * VGA_WIDTH
             xw == Len(x.top) * VGA_WIDTH
             V == VGA_START_CURSOR_POSITION
  <2>1. xw = aw + (sw - lw) /\ sw \in Int /\ lw \in Int /\ aw \in Int
    <3>1. a \in Nat /\ Len(x.top) = a + (s - lost) /\ VGA_WIDTH \in Nat
      BY <1>4, <1>6, Sizes
    <3> HIDE DEF a
    <3>2. (a + (s - lost)) * VGA_WIDTH = a * VGA_WIDTH + (s * VGA_WIDTH - lost * VGA_WIDTH) /\ a * VGA_WIDTH \in Nat
          /\ s * VGA_WIDTH \in {0, VGA_WIDTH} /\ lost * VGA_WIDTH \in {0, VGA_WIDTH}
      BY <3>1, <1>5, Lines
    <3> QED
      BY <3>1, <3>2
  <2>2. /\ DocCursor(t) = aw + (t.cursor - V) /\ DocCursor(x) = xw + (x.cursor - V)
        /\ t.cursor \in Int /\ x.cursor \in Int /\ V \in Int /\ x.cursor + sw >= t.cursor
    BY <1>6, <1>7, <1>8, Bounds
  <2> HIDE DEF a, aw, sw, lw, xw, V
  <2> DEFINE cx == x.cursor
             ct == t.cursor
             dx == DocCursor(x)
             dt == DocCursor(t)
  <2>3. /\ dt = aw + (ct - V) /\ dx = xw + (cx - V)
        /\ ct \in Int /\ cx \in Int /\ V \in Int /\ cx + sw >= ct
    BY <2>2
  <2> HIDE DEF cx, ct, dx, dt
  <2>4. dx >= dt - lw
    BY ONLY <2>1, <2>3
  <2> QED
    BY <2>4 DEF dx, dt, lw
<1> DEFINE h == f - lost * VGA_WIDTH
<1>10. h \in Int /\ h <= DocCursor(x)
  <2>1. lost * VGA_WIDTH \in Int
    BY <1>5, Sizes
  <2> QED
    BY <2>1, <1>6, <1>7, <1>9
<1>11. Kept(Document(x), Document(u), h, 0) /\ h >= f - lost * VGA_WIDTH
  BY <1>2, <1>10
<1> HIDE DEF h
<1>12. Kept(Document(t), Document(u), f, lost)
  <2>1. Kept(Document(t), Document(u), f, lost + 0)
    BY <1>4, <1>5, <1>10, <1>11, KeptTwice
  <2>2. lost + 0 = lost
    BY <1>5
  <2> QED
    BY <2>1, <2>2
<1>13. lost = 1 => Len(Document(t)) = SCROLL_HISTORY_SIZE + ROWS
  <2>1. lost = 1 => ~(Len(t.top) < SCROLL_HISTORY_SIZE)
    BY DEF lost
  <2>2. lost = 1 => Len(t.top) = SCROLL_HISTORY_SIZE
    BY <2>1, <1>6, Sizes DEF Fine
  <2> QED
    BY <2>2, <1>6
<1> QED
  BY <1>3, <1>5, <1>12, <1>13 DEF Keeps

\* The backspace key takes the last character away, and only that.
LEMMA Erase ==
  ASSUME NEW p, Fine(p), NEW l \in Seq(InputChars), l # <<>>, Typed(p, PROMPT_STR \o l),
         NEW u, u = Erased(p), NEW f \in Int, f <= DocCursor(p) - Len(l)
  PROVE  Ready(u, Front(l)) /\ Keeps(p, u, f)
<1> DEFINE g == PROMPT_STR \o l
           h == PROMPT_STR \o Front(l)
           n == Len(g)
           e == p.cursor - 1
           y == [p EXCEPT !.cursor = e]
           x == putchar(y, " ")
<1>1. /\ p \in TTY /\ p.bottom = <<>> /\ p.shown = TRUE /\ Len(p.top) <= SCROLL_HISTORY_SIZE /\ Header(p)
      /\ p.vga \in [Cells -> Chars] /\ p.top \in Seq(Line) /\ p.bottom \in Seq(Line)
  BY DEF Fine, TTY
<1>2. /\ Front(l) \in Seq(InputChars) /\ Len(Front(l)) = Len(l) - 1
      /\ \A i \in 1 .. Len(l) - 1 : Front(l)[i] = l[i]
      /\ Len(l) \in Nat \ {0}
  BY FrontLast
<1>3. /\ g \in Seq(Chars \ Control) /\ n = 2 + Len(l) /\ PROMPT_STR \in Seq(Chars \ Control)
      /\ h \in Seq(Chars \ Control) /\ Len(h) = 2 + Len(Front(l)) /\ Len(PROMPT_STR) = 2
      /\ l \in Seq(Chars \ Control) /\ Front(l) \in Seq(Chars \ Control)
  BY <1>2, InputLine
<1>4. n \in Nat /\ n >= 3 /\ Len(h) = n - 1
  BY <1>2, <1>3
<1>5. ASSUME NEW i \in 1 .. n - 1 PROVE h[i] = g[i]
  <2>1. /\ g[i] = IF i <= 2 THEN PROMPT_STR[i] ELSE l[i - 2]
        /\ h[i] = IF i <= 2 THEN PROMPT_STR[i] ELSE Front(l)[i - 2]
    <3>1. i \in 1 .. Len(PROMPT_STR) + Len(l) /\ i \in 1 .. Len(PROMPT_STR) + Len(Front(l))
      BY <1>2, <1>3, <1>4
    <3> QED
      BY <3>1, <1>3, ConcatProperties
  <2>2. i > 2 => i - 2 \in 1 .. Len(l) - 1
    BY <1>2, <1>3, <1>4
  <2>3. i <= 2 \/ i > 2
    BY <1>4
  <2> QED
    BY <2>1, <2>2, <2>3, <1>2
<1>6. PICK q \in Nat :
        /\ q >= HEADER_ROWS /\ p.cursor = q * VGA_WIDTH + n
        /\ \A i \in 1 .. n : p.vga[q * VGA_WIDTH + i - 1] = g[i]
        /\ \A k \in Area : k >= p.cursor => p.vga[k] \in Empty
  BY DEF Typed
<1> DEFINE b == q * VGA_WIDTH
<1>7. b \in Nat /\ b >= VGA_START_CURSOR_POSITION
  <2>1. HEADER_ROWS * VGA_WIDTH <= q * VGA_WIDTH
    BY <1>6, Sizes, RowsInOrder
  <2> QED
    BY <2>1, Bounds, Sizes
<1> HIDE DEF g, h, n
<1>8. p.cursor = b + n /\ \A i \in 1 .. n : p.vga[b + i - 1] = g[i]
  BY <1>6
<1> HIDE DEF b
<1>9. /\ p.cursor \in Nat /\ p.cursor < terminal_bottom /\ terminal_bottom \in Nat
      /\ VGA_START_CURSOR_POSITION \in Nat /\ p.cursor \in Area
  <2>1. p.cursor \in Nat /\ p.cursor \in Area
    BY <1>1, CursorRow
  <2> QED
    BY <2>1, Bounds DEF Area
<1>10. e \in Nat /\ e \in Area /\ e = b + n - 1 /\ e + 1 = p.cursor /\ e \in Cells
  <2>1. e \in Nat /\ e = b + n - 1 /\ e + 1 = p.cursor
    BY <1>4, <1>7, <1>8, <1>9
  <2>2. e \in Area
    BY <2>1, <1>4, <1>7, <1>9 DEF Area
  <2> QED
    BY <2>1, <2>2, RowOnScreen
<1> HIDE DEF e
<1>11. /\ y \in TTY /\ y.vga = p.vga /\ y.cursor = e /\ y.top = p.top /\ y.bottom = p.bottom /\ y.shown = p.shown
  BY <1>1, <1>10 DEF TTY
<1> HIDE DEF y
<1>12. Fine(y) /\ Document(y) = Document(p)
  BY <1>1, <1>11 DEF Fine, Header, Document
<1>13. " " \in Chars \cup Control /\ " " \notin Control /\ " " \in Empty
  BY DEF Chars, Control, Empty
<1>14. Advanced(e, " ") = e + 1
  BY DEF Advanced
<1>15. ~Scrolls(y, " ")
  <2>1. Advanced(y.cursor, " ") = p.cursor
    BY <1>10, <1>11, <1>14
  <2>2. ~(p.cursor >= terminal_bottom)
    BY <1>9
  <2> QED
    BY <2>1, <2>2 DEF Scrolls
<1>16. /\ x \in TTY /\ x.vga = Draw(y, " ")
       /\ x.shown = y.shown /\ x.top = y.top /\ x.bottom = y.bottom
  BY <1>11, <1>13, <1>15, PutStays
<1>17. /\ Fine(x) /\ \A m \in Int : m <= DocCursor(y) => Kept(Document(y), Document(x), m, 0)
  <2> DEFINE lost == IF Scrolls(y, " ") /\ ~(Len(y.top) < SCROLL_HISTORY_SIZE) THEN 1 ELSE 0
  <2>1. lost = 0
    BY <1>15
  <2>2. Fine(x) /\ \A m \in Int : m <= DocCursor(y) => Kept(Document(y), Document(x), m, lost)
    BY <1>12, <1>13, FinePut
  <2> QED
    BY <2>1, <2>2
<1>18. /\ Draw(y, " ")[e] = " "
       /\ \A k \in Cells : k # e => Draw(y, " ")[k] = p.vga[k]
  <2> DEFINE c == " "
  <2>1. c \in Chars \cup Control /\ c \notin Control
    BY <1>13
  <2> HIDE DEF c
  <2>2. /\ \A k \in Cells : k # y.cursor => Draw(y, c)[k] = y.vga[k]
        /\ Draw(y, c)[y.cursor] = c
    BY <2>1, <1>11, DrawType
  <2> QED
    BY <2>2, <1>11 DEF c
<1>19. u = [x EXCEPT !.cursor = e]
  <2>1. p.cursor > 0
    BY <1>10, <1>9
  <2> QED
    BY <2>1 DEF Erased, x, y, e
<1> HIDE DEF x
<1>20. /\ u \in TTY /\ u.vga = x.vga /\ u.cursor = e /\ u.top = x.top /\ u.bottom = x.bottom /\ u.shown = x.shown
  BY <1>10, <1>16, <1>19 DEF TTY
<1>21. Fine(u) /\ Document(u) = Document(x)
  BY <1>17, <1>20 DEF Fine, Header, Document
<1>22. Typed(u, h)
  <2>1. u.cursor = b + Len(h)
    BY <1>4, <1>7, <1>10, <1>20
  <2>2. ASSUME NEW i \in 1 .. Len(h) PROVE u.vga[b + i - 1] = h[i]
    <3>1. i \in 1 .. n - 1 /\ i \in 1 .. n /\ b + i - 1 # e /\ b + i - 1 \in Area
      BY <1>4, <1>7, <1>8, <1>9, <1>10 DEF Area
    <3>2. b + i - 1 \in Cells
      BY <3>1, RowOnScreen
    <3> QED
      BY <3>1, <3>2, <1>5, <1>8, <1>16, <1>18, <1>20
  <2>3. ASSUME NEW k \in Area, k >= u.cursor PROVE u.vga[k] \in Empty
    <3>1. k \in Cells /\ k \in Nat
      BY RowOnScreen
    <3>2. CASE k = e
      BY <3>2, <1>13, <1>16, <1>18, <1>20
    <3>3. CASE k # e
      <4>1. k >= p.cursor
        BY <3>1, <3>3, <2>3, <1>9, <1>10, <1>20
      <4> QED
        BY <4>1, <3>1, <3>3, <1>6, <1>16, <1>18, <1>20
    <3> QED
      BY <3>2, <3>3
  <2> QED
    BY <2>1, <2>2, <2>3, <1>6 DEF Typed, b
<1>23. Ready(u, Front(l))
  BY <1>2, <1>21, <1>22, ReadyTyped DEF h
<1>24. f <= DocCursor(y)
  <2>1. /\ DocCursor(p) = Len(p.top) * VGA_WIDTH + p.cursor - VGA_START_CURSOR_POSITION
        /\ DocCursor(p) \in Nat /\ Len(p.top) \in Nat
    BY CursorInDocument
  <2>2. DocCursor(y) = Len(p.top) * VGA_WIDTH + e - VGA_START_CURSOR_POSITION
    BY <1>11, <1>12, CursorInDocument
  <2>3. Len(p.top) * VGA_WIDTH \in Nat
    BY <2>1, Sizes
  <2> DEFINE aw == Len(p.top) * VGA_WIDTH
             V == VGA_START_CURSOR_POSITION
             c == p.cursor
             dp == DocCursor(p)
             dy == DocCursor(y)
  <2>5. dp = aw + (c - V) /\ dy = aw + (e - V) /\ e + 1 = c /\ aw \in Int /\ c \in Int /\ V \in Int /\ e \in Int
    BY <2>1, <2>2, <2>3, <1>9, <1>10
  <2> HIDE DEF aw, V, c, dp, dy
  <2>6. dy = dp - 1
    BY ONLY <2>5
  <2>4. DocCursor(y) = DocCursor(p) - 1
    BY <2>6 DEF dy, dp
  <2> QED
    BY <2>1, <2>4, <1>2
<1>25. Kept(Document(p), Document(u), f, 0)
  BY <1>12, <1>17, <1>21, <1>24
<1> QED
  BY <1>23, <1>25 DEF Keeps

\* A typed character.
LEMMA TypeKey ==
  ASSUME NEW p, Fine(p), NEW l \in Seq(InputChars), Typed(p, PROMPT_STR \o l),
         Len(l) < INPUT_BUF_SIZE - 1, NEW c \in InputChars,
         NEW u, u = putchar(p, c)
  PROVE  Ready(u, Append(l, c))
<1> DEFINE S == Chars \ Control
           P == PROMPT_STR
<1>1. l \in Seq(S) /\ P \in Seq(S) /\ P \o l \in Seq(S) /\ Len(P \o l) = 2 + Len(l) /\ Len(l) \in Nat
  BY InputLine
<1>2. c \in S
  BY CharsAssumption DEF InputChars, Chars, Control
<1>3. Append(l, c) \in Seq(InputChars)
  BY AppendProperties
<1>4. Append(P \o l, c) = P \o Append(l, c)
  <2> HIDE DEF S, P
  <2>1. Append(P \o l, c) = (P \o l) \o << c >> /\ Append(l, c) = l \o << c >>
    BY <1>1, <1>2, AppendIsConcat
  <2>2. << c >> \in Seq(S)
    BY <1>2
  <2>3. (P \o l) \o << c >> = P \o (l \o << c >>)
    BY <2>2, <1>1, ConcatAssociative
  <2> QED
    BY <2>1, <2>3
<1>5. Len(P \o l) + 1 <= INPUT_BUF_SIZE + 1
  <2>1. Len(l) < INPUT_BUF_SIZE - 1 /\ INPUT_BUF_SIZE \in Nat
    BY Sizes
  <2> QED
    BY <2>1, <1>1
<1>6. Typed(u, Append(P \o l, c))
  BY <1>1, <1>2, <1>5, TypedPut
<1>7. Fine(u)
  <2>1. c \in Chars \cup Control
    BY <1>2
  <2> QED
    BY <2>1, FinePut
<1> QED
  BY <1>3, <1>4, <1>6, <1>7, ReadyTyped

\* A typed tab: no more spaces than the input has room for.
LEMMA TabFits ==
  ASSUME NEW p \in TTY, input_buf \in Seq(InputChars), Len(input_buf) <= INPUT_BUF_SIZE - 1
  PROVE  /\ TabSpaces(p) \in Nat /\ TabSpaces(p) <= TAB_SIZE
         /\ Len(input_buf) + TabSpaces(p) <= INPUT_BUF_SIZE - 1
<1> DEFINE c == p.cursor % VGA_WIDTH
           m == c % TAB_SIZE
           n == Len(input_buf)
           spaces == TAB_SIZE - m
           free == INPUT_BUF_SIZE - 1 - n
<1>1. c \in Nat
  <2>1. p.cursor \in Nat
    BY CursorRow
  <2>2. c \in Cols
    BY <2>1, Split
  <2> HIDE DEF c
  <2> QED
    BY <2>2, Sizes DEF Cols
<1> HIDE DEF c
<1>2. m \in 0 .. TAB_SIZE - 1
  BY <1>1, Sizes
<1>3. n \in Nat /\ INPUT_BUF_SIZE \in Nat /\ n <= INPUT_BUF_SIZE - 1
  BY Sizes
<1> HIDE DEF m, n
<1>4. /\ spaces \in Nat /\ spaces <= TAB_SIZE /\ free \in Nat
      /\ n + free = INPUT_BUF_SIZE - 1
  BY <1>2, <1>3, Sizes
<1>5. TabSpaces(p) = IF spaces > free THEN free ELSE spaces
  BY DEF TabSpaces, m, n, c
<1> HIDE DEF spaces, free
<1>6. /\ TabSpaces(p) \in Nat /\ TabSpaces(p) <= TAB_SIZE
      /\ n + TabSpaces(p) <= INPUT_BUF_SIZE - 1
  <2>1. CASE spaces > free
    BY <2>1, <1>3, <1>4, <1>5, Sizes
  <2>2. CASE ~(spaces > free)
    BY <2>2, <1>3, <1>4, <1>5, Sizes
  <2> QED
    BY <2>1, <2>2
<1> QED
  BY <1>6 DEF n

LEMMA Repeated ==
  ASSUME NEW S, NEW c \in S, NEW n \in Nat, NEW s, s = [i \in 1 .. n |-> c]
  PROVE  s \in Seq(S) /\ Len(s) = n
<1>1. s \in [1 .. n -> S]
  OBVIOUS
<1>2. s \in Seq(S)
  BY <1>1, SeqDef
<1>3. DOMAIN s = 1 .. Len(s) /\ Len(s) \in Nat /\ DOMAIN s = 1 .. n
  BY <1>1, <1>2, LenProperties
<1>4. Len(s) = n
  <2> DEFINE m == Len(s)
  <2>1. m \in Nat /\ 1 .. m = 1 .. n
    BY <1>3
  <2> HIDE DEF m
  <2>2. m = n
    BY ONLY <2>1, n \in Nat
  <2> QED
    BY <2>2 DEF m
<1> QED
  BY <1>2, <1>4

LEMMA TabKey ==
  ASSUME NEW p, Fine(p), NEW l \in Seq(InputChars), Typed(p, PROMPT_STR \o l),
         NEW n \in Nat, n <= TAB_SIZE, Len(l) + n <= INPUT_BUF_SIZE - 1,
         NEW s, s = [i \in 1 .. n |-> " "], NEW u, u = Printed(p, s),
         NEW f \in Int, f <= DocCursor(p)
  PROVE  /\ Ready(u, l \o s) /\ Keeps(p, u, f)
         /\ l \o s \in Seq(InputChars) /\ Len(l \o s) <= INPUT_BUF_SIZE - 1
<1> DEFINE S == Chars \ Control
           P == PROMPT_STR
<1>1. l \in Seq(S) /\ P \in Seq(S) /\ P \o l \in Seq(S) /\ Len(P \o l) = 2 + Len(l) /\ Len(l) \in Nat
  BY InputLine
<1>2. s \in Seq(InputChars) /\ Len(s) = n
  <2>1. " " \in InputChars
    BY DEF InputChars
  <2> QED
    BY <2>1, Repeated
<1>3. s \in Seq(S)
  BY <1>2, InputLine
<1>4. l \o s \in Seq(InputChars) /\ Len(l \o s) = Len(l) + n
  BY <1>2, ConcatProperties
<1>5. Len(P \o l) + Len(s) <= INPUT_BUF_SIZE + 1 /\ Len(s) <= VGA_WIDTH
  <2> DEFINE a == Len(P \o l)
             k == Len(l)
  <2>1. a = 2 + k /\ k \in Nat /\ k + n <= INPUT_BUF_SIZE - 1 /\ n <= TAB_SIZE
    BY <1>1
  <2> HIDE DEF a, k
  <2>3. INPUT_BUF_SIZE \in Nat /\ TAB_SIZE \in Nat /\ VGA_WIDTH \in Nat /\ 2 + TAB_SIZE <= VGA_WIDTH /\ n \in Nat
    BY Sizes, TabFitsLine
  <2>2. a + n <= INPUT_BUF_SIZE + 1 /\ n <= VGA_WIDTH
    BY ONLY <2>1, <2>3
  <2> QED
    BY <2>2, <1>2 DEF a
<1>6. Fine(u) /\ Typed(u, (P \o l) \o s) /\ Progress(p, u, Len(s), f)
  BY <1>1, <1>3, <1>5, PrintedLine
<1>7. (P \o l) \o s = P \o (l \o s)
  <2>1. l \in Seq(S) /\ P \in Seq(S) /\ s \in Seq(S)
    BY <1>1, <1>3
  <2> HIDE DEF S, P
  <2> QED
    BY ONLY <2>1, ConcatAssociative
<1>8. Ready(u, l \o s)
  BY <1>4, <1>6, <1>7, ReadyTyped
<1>9. Keeps(p, u, f)
  BY <1>2, <1>6, ProgressKeeps
<1> QED
  BY <1>4, <1>8, <1>9

\* A program prints: the screen moves on, the kernel's history does not.
LEMMA ProgramPut ==
  ASSUME NEW t, Busy(t), NEW c \in Chars \cup Control, NEW u, u = program_putchar(t, c)
  PROVE  Busy(u)
<1> DEFINE x == putchar(t, c)
<1>1. Fine(t) /\ BelowEmpty(t)
  BY DEF Busy
<1>2. Fine(x) /\ BelowEmpty(x)
  BY <1>1, FinePut, BelowPut
<1>3. u = [x EXCEPT !.top = t.top, !.bottom = t.bottom]
  BY DEF program_putchar
<1> HIDE DEF x
<1>4. /\ x \in TTY /\ t.top \in Seq(Line) /\ t.bottom \in Seq(Line)
      /\ t.bottom = <<>> /\ Len(t.top) <= SCROLL_HISTORY_SIZE /\ x.shown = TRUE /\ Header(x)
  BY <1>1, <1>2 DEF Fine, TTY
<1>5. /\ u \in TTY /\ u.vga = x.vga /\ u.cursor = x.cursor /\ u.shown = x.shown
      /\ u.top = t.top /\ u.bottom = t.bottom
  BY <1>3, <1>4 DEF TTY
<1>6. Fine(u)
  BY <1>4, <1>5 DEF Fine, Header
<1>7. BelowEmpty(u)
  BY <1>2, <1>5 DEF BelowEmpty
<1> QED
  BY <1>6, <1>7 DEF Busy

LEMMA OutputChars == Outputs \subseteq Chars \cup Control
  BY CharsAssumption DEF Chars, Control

-----------------------------------------------------------------------------
(* The steps.  Each keeps the invariant, and the text before Fixed.        *)

Fixed == IF running THEN DocCursor(tty) - (tty.cursor % VGA_WIDTH)
         ELSE DocCursor(tty) - Len(input_buf)

LEMMA Initial == Init => IInv
<1> SUFFICES ASSUME Init PROVE IInv
  OBVIOUS
<1> DEFINE V == [p \in Cells |-> IF p < VGA_START_CURSOR_POSITION THEN "header" ELSE blank]
<1>1. /\ tty = [vga |-> V, cursor |-> VGA_START_CURSOR_POSITION, shown |-> TRUE,
                top |-> << >>, bottom |-> << >>]
      /\ input_buf = << >> /\ prompt_shown = FALSE /\ running = TRUE
  BY DEF Init
<1>2. VGA_START_CURSOR_POSITION \in Area
  <2>1. VGA_START_CURSOR_POSITION < terminal_bottom
    BY Bounds, Sizes
  <2> QED
    BY <2>1, Bounds DEF Area
<1>3. V \in [Cells -> Chars]
  BY DEF Chars
<1>4. \A p \in 0 .. VGA_START_CURSOR_POSITION - 1 : V[p] = "header"
  BY HeaderCells
<1>5. \A p \in Area : V[p] \in Empty
  <2> SUFFICES ASSUME NEW p \in Area PROVE V[p] \in Empty
    OBVIOUS
  <2>1. p \in Cells /\ ~(p < VGA_START_CURSOR_POSITION)
    BY RowOnScreen, Bounds DEF Area
  <2> QED
    BY <2>1 DEF Empty
<1> HIDE DEF V
<1>6. << >> \in Seq(Line) /\ Len(<< >>) = 0 /\ << >> \in Seq(Letters \cup {" "})
  BY EmptySeq
<1>7. /\ tty \in TTY /\ tty.vga = V /\ tty.shown = TRUE /\ tty.top = << >> /\ tty.bottom = << >>
  BY <1>1, <1>2, <1>3, <1>6 DEF TTY
<1>8. Fine(tty)
  <2>1. Len(tty.top) <= SCROLL_HISTORY_SIZE
    BY <1>6, <1>7, Sizes
  <2> QED
    BY <2>1, <1>4, <1>7 DEF Fine, Header
<1>9. BelowEmpty(tty)
  BY <1>5, <1>7 DEF BelowEmpty
<1>10. Len(input_buf) <= INPUT_BUF_SIZE - 1
  BY <1>1, <1>6, Sizes
<1>11. input_buf \in Seq(Letters \cup {" "}) /\ prompt_shown \in BOOLEAN /\ running \in BOOLEAN /\ input_buf = << >>
  BY <1>1, <1>6
<1> QED
  BY <1>1, <1>8, <1>9, <1>10, <1>11 DEF IInv, Busy

\* Where terminal_console() is when it looks at the key.
LEMMA AtTheKey ==
  ASSUME IInv, Console
  PROVE  /\ running = FALSE /\ prompt_shown' = TRUE
         /\ input_buf \in Seq(InputChars) /\ Len(input_buf) <= INPUT_BUF_SIZE - 1
         /\ Fixed = DocCursor(tty) - Len(input_buf) /\ Fixed \in Int
         /\ Ready(Prompted, input_buf) /\ Same(tty, Prompted, Fixed)
         /\ Fine(Present) /\ Typed(Present, PROMPT_STR \o input_buf) /\ Ready(Present, input_buf)
         /\ Same(tty, Present, Fixed)
         /\ Fixed <= DocCursor(Present) - Len(input_buf) /\ Fixed <= DocCursor(Present)
<1>1. /\ input_buf \in Seq(InputChars) /\ Len(input_buf) <= INPUT_BUF_SIZE - 1
      /\ (~prompt_shown => input_buf = <<>>)
      /\ running \in BOOLEAN /\ ~running /\ prompt_shown' = TRUE
  BY DEF IInv, Console, InputChars
<1>2. /\ prompt_shown => Ready(tty, input_buf)
      /\ ~prompt_shown => Fresh(tty) /\ input_buf = <<>>
  BY <1>1 DEF IInv
<1>3. tty \in TTY
  BY <1>2 DEF Ready, Held, Fresh, Fine
<1>4. Fixed = DocCursor(tty) - Len(input_buf)
  BY <1>1 DEF Fixed
<1>5. Fixed \in Int /\ Len(input_buf) \in Nat
  <2>1. DocCursor(tty) \in Int /\ Len(input_buf) \in Nat
    BY <1>1, <1>3, CursorType, LenProperties
  <2> QED
    BY <2>1, <1>4
<1> DEFINE w == Prompted
           p == Present
           f == Fixed
<1>6. w = IF prompt_shown THEN tty ELSE print_prompt(tty)
  BY DEF Prompted
<1>7. p = return_to_present(w)
  BY DEF Present
<1>8. f \in Int /\ f <= DocCursor(tty) - Len(input_buf)
  BY <1>4, <1>5
<1> HIDE DEF w, p, f
<1>9. /\ Ready(w, input_buf)
      /\ \A g \in Int : g <= DocCursor(tty) - Len(input_buf) =>
           Same(tty, w, g) /\ g <= DocCursor(w) - Len(input_buf)
  BY <1>1, <1>2, <1>6, ReadyPrompted
<1>10. /\ Fine(p) /\ Typed(p, PROMPT_STR \o input_buf) /\ Ready(p, input_buf)
       /\ Document(p) = Document(w) /\ DocCursor(p) = DocCursor(w)
  BY <1>1, <1>7, <1>9, Presented
<1>11. Same(tty, w, f) /\ Same(tty, p, f) /\ f <= DocCursor(p) - Len(input_buf)
  BY <1>8, <1>9, <1>10 DEF Same
<1>12. f <= DocCursor(p)
  <2>1. DocCursor(p) \in Int
    BY <1>10, CursorType DEF Fine
  <2> QED
    BY <2>1, <1>5, <1>8, <1>11
<1> QED
  BY <1>1, <1>4, <1>5, <1>9, <1>10, <1>11, <1>12 DEF w, p, f

\* A key after which the console waits for the next one.
LEMMA NextKey ==
  ASSUME running' = FALSE, prompt_shown' = TRUE, input_buf' \in Seq(InputChars),
         Len(input_buf') <= INPUT_BUF_SIZE - 1, Ready(tty', input_buf')
  PROVE  IInv'
  BY DEF IInv, InputChars

LEMMA MoveStep ==
  ASSUME IInv, Poll \/ ScrollDown \/ ScrollUp \/ OtherKey
  PROVE  IInv' /\ Keeps(tty, tty', Fixed)
<1>1. Console /\ input_buf' = input_buf /\ running' = running
  BY DEF Poll, ScrollDown, ScrollUp, OtherKey
<1>2. /\ running = FALSE /\ prompt_shown' = TRUE
      /\ input_buf \in Seq(InputChars) /\ Len(input_buf) <= INPUT_BUF_SIZE - 1
      /\ Fixed \in Int
      /\ Ready(Prompted, input_buf) /\ Same(tty, Prompted, Fixed)
      /\ Ready(Present, input_buf) /\ Same(tty, Present, Fixed)
  BY <1>1, AtTheKey
<1> DEFINE w == Prompted
           p == Present
<1>3. tty' = w \/ tty' = scroll_down(w) \/ tty' = scroll_up(w) \/ tty' = p
  BY DEF Poll, ScrollDown, ScrollUp, OtherKey
<1>4. Ready(w, input_buf) /\ Same(tty, w, Fixed) /\ Ready(p, input_buf) /\ Same(tty, p, Fixed)
  BY <1>2
<1> HIDE DEF w, p
<1>5. Ready(tty', input_buf) /\ Same(tty, tty', Fixed)
  <2>1. CASE tty' = w
    BY <2>1, <1>4
  <2>2. CASE tty' = p
    BY <2>2, <1>4
  <2>3. CASE tty' = scroll_down(w) \/ tty' = scroll_up(w)
    <3>1. Ready(tty', input_buf) /\ Document(tty') = Document(w)
      BY <2>3, <1>4, Scrolled
    <3> QED
      BY <3>1, <1>4 DEF Same
  <2> QED
    BY <2>1, <2>2, <2>3, <1>3
<1>6. IInv'
  BY <1>1, <1>2, <1>5, NextKey
<1>7. Keeps(tty, tty', Fixed)
  BY <1>2, <1>5, SameIsKept
<1> QED
  BY <1>6, <1>7

LEMMA EnterStep ==
  ASSUME IInv, Enter
  PROVE  IInv' /\ Keeps(tty, tty', Fixed)
<1> DEFINE p == Present
           x == putchar(p, "LF")
<1>1. /\ Console /\ input_buf' = input_buf /\ running' = (input_buf # <<>>)
      /\ tty' = IF input_buf = <<>> THEN print_prompt(x) ELSE x
  BY DEF Enter
<1>2. /\ running = FALSE /\ prompt_shown' = TRUE
      /\ input_buf \in Seq(InputChars) /\ Len(input_buf) <= INPUT_BUF_SIZE - 1
      /\ Fixed \in Int /\ Fine(p) /\ Typed(p, PROMPT_STR \o input_buf)
      /\ Same(tty, p, Fixed) /\ Fixed <= DocCursor(p)
  BY <1>1, AtTheKey
<1>3. "LF" \in Chars \cup Control
  BY DEF Control
<1> HIDE DEF p
<1>4. BelowEmpty(p)
  BY <1>2, TypedBelow DEF Fine
<1>5. CASE input_buf = <<>>
  <2>1. tty' = print_prompt(x) /\ running' = FALSE
    BY <1>1, <1>5
  <2>2. Ready(tty', << >>) /\ Keeps(p, tty', Fixed)
    BY <2>1, <1>2, <1>4, NextPrompt
  <2>3. IInv'
    BY <2>1, <2>2, <1>1, <1>2, <1>5, NextKey
  <2> QED
    BY <2>2, <2>3, <1>2, SameKeeps
<1>6. CASE input_buf # <<>>
  <2>1. tty' = x /\ running' = TRUE
    BY <1>1, <1>6
  <2>2. Fine(x) /\ BelowEmpty(x) /\ Keeps(p, x, Fixed)
    BY <1>2, <1>3, <1>4, FinePut, BelowPut, PutKeeps
  <2>3. Busy(tty')
    BY <2>1, <2>2 DEF Busy
  <2>4. IInv'
    BY <2>1, <2>3, <1>1, <1>2 DEF IInv, InputChars
  <2> QED
    BY <2>1, <2>2, <2>4, <1>2, SameKeeps
<1> QED
  BY <1>5, <1>6

LEMMA BackspaceStep ==
  ASSUME IInv, Backspace
  PROVE  IInv' /\ Keeps(tty, tty', Fixed)
<1> DEFINE p == Present
<1>1. /\ Console /\ running' = running
      /\ tty' = IF input_buf # <<>> THEN Erased(p) ELSE p
      /\ input_buf' = IF input_buf # <<>> THEN Front(input_buf) ELSE input_buf
  BY DEF Backspace
<1>2. /\ running = FALSE /\ prompt_shown' = TRUE
      /\ input_buf \in Seq(InputChars) /\ Len(input_buf) <= INPUT_BUF_SIZE - 1
      /\ Fixed \in Int /\ Fine(p) /\ Typed(p, PROMPT_STR \o input_buf) /\ Ready(p, input_buf)
      /\ Same(tty, p, Fixed) /\ Fixed <= DocCursor(p) - Len(input_buf)
  BY <1>1, AtTheKey
<1> HIDE DEF p
<1>3. CASE input_buf = <<>>
  <2>1. tty' = p /\ input_buf' = input_buf /\ running' = FALSE
    BY <1>1, <1>2, <1>3
  <2>2. IInv'
    BY <2>1, <1>2, NextKey
  <2> QED
    BY <2>1, <2>2, <1>2, SameIsKept
<1>4. CASE input_buf # <<>>
  <2>1. tty' = Erased(p) /\ input_buf' = Front(input_buf) /\ running' = FALSE
    BY <1>1, <1>2, <1>4
  <2>2. Ready(tty', input_buf') /\ Keeps(p, tty', Fixed)
    BY <2>1, <1>2, <1>4, Erase
  <2>3. input_buf' \in Seq(InputChars) /\ Len(input_buf') <= INPUT_BUF_SIZE - 1
    <3>1. Front(input_buf) \in Seq(InputChars) /\ Len(Front(input_buf)) = Len(input_buf) - 1 /\ Len(input_buf) \in Nat
      BY <1>2, <1>4, FrontLast
    <3> QED
      BY <3>1, <2>1, <1>2, Sizes
  <2>4. IInv'
    BY <2>1, <2>2, <2>3, <1>2, NextKey
  <2> QED
    BY <2>2, <2>4, <1>2, SameKeeps
<1> QED
  BY <1>3, <1>4

LEMMA TabStep ==
  ASSUME IInv, Tab
  PROVE  IInv' /\ Keeps(tty, tty', Fixed)
<1> DEFINE p == Present
           n == TabSpaces(p)
           s == [i \in 1 .. n |-> " "]
<1>1. /\ Console /\ running' = running
      /\ tty' = Printed(p, s) /\ input_buf' = input_buf \o s
  BY DEF Tab
<1>2. /\ running = FALSE /\ prompt_shown' = TRUE
      /\ input_buf \in Seq(InputChars) /\ Len(input_buf) <= INPUT_BUF_SIZE - 1
      /\ Fixed \in Int /\ Fine(p) /\ Typed(p, PROMPT_STR \o input_buf)
      /\ Same(tty, p, Fixed) /\ Fixed <= DocCursor(p)
  BY <1>1, AtTheKey
<1> HIDE DEF p
<1>3. n \in Nat /\ n <= TAB_SIZE /\ Len(input_buf) + n <= INPUT_BUF_SIZE - 1
  BY <1>2, TabFits DEF Fine
<1> HIDE DEF n
<1> DEFINE l == input_buf
           u == tty'
           f == Fixed
<1>4. /\ l \in Seq(InputChars) /\ Fine(p) /\ Typed(p, PROMPT_STR \o l) /\ Len(l) + n <= INPUT_BUF_SIZE - 1
      /\ u = Printed(p, s) /\ f \in Int /\ f <= DocCursor(p)
  BY <1>1, <1>2, <1>3
<1> HIDE DEF l, u, f
<1>5. /\ Ready(u, l \o s) /\ Keeps(p, u, f)
      /\ l \o s \in Seq(InputChars) /\ Len(l \o s) <= INPUT_BUF_SIZE - 1
  BY <1>3, <1>4, TabKey
<1>6. Ready(tty', input_buf') /\ Keeps(p, tty', Fixed)
      /\ input_buf' \in Seq(InputChars) /\ Len(input_buf') <= INPUT_BUF_SIZE - 1
  BY <1>1, <1>5 DEF l, u, f
<1>7. IInv'
  BY <1>1, <1>2, <1>6, NextKey
<1> QED
  BY <1>2, <1>6, <1>7, SameKeeps

LEMMA TypeStep ==
  ASSUME IInv, NEW c \in Letters, Type(c)
  PROVE  IInv' /\ Keeps(tty, tty', Fixed)
<1> DEFINE p == Present
<1>1. /\ Console /\ running' = running
      /\ IF Len(input_buf) < INPUT_BUF_SIZE - 1
         THEN tty' = putchar(p, c) /\ input_buf' = Append(input_buf, c)
         ELSE tty' = p /\ input_buf' = input_buf
  BY DEF Type
<1>2. /\ running = FALSE /\ prompt_shown' = TRUE
      /\ input_buf \in Seq(InputChars) /\ Len(input_buf) <= INPUT_BUF_SIZE - 1
      /\ Fixed \in Int /\ Fine(p) /\ Typed(p, PROMPT_STR \o input_buf) /\ Ready(p, input_buf)
      /\ Same(tty, p, Fixed) /\ Fixed <= DocCursor(p)
  BY <1>1, AtTheKey
<1> HIDE DEF p
<1>3. c \in InputChars /\ c \in Chars \cup Control
  BY DEF InputChars, Chars
<1>4. CASE Len(input_buf) < INPUT_BUF_SIZE - 1
  <2>1. tty' = putchar(p, c) /\ input_buf' = Append(input_buf, c) /\ running' = FALSE
    BY <1>1, <1>2, <1>4
  <2>2. Ready(tty', input_buf')
    BY <2>1, <1>2, <1>3, <1>4, TypeKey
  <2>3. Keeps(p, tty', Fixed)
    BY <2>1, <1>2, <1>3, PutKeeps
  <2>4. input_buf' \in Seq(InputChars) /\ Len(input_buf') <= INPUT_BUF_SIZE - 1
    <3>1. Append(input_buf, c) \in Seq(InputChars) /\ Len(Append(input_buf, c)) = Len(input_buf) + 1 /\ Len(input_buf) \in Nat
      BY <1>2, <1>3, AppendProperties, LenProperties
    <3> QED
      BY <3>1, <2>1, <1>4, Sizes
  <2>5. IInv'
    BY <2>1, <2>2, <2>4, <1>2, NextKey
  <2> QED
    BY <2>3, <2>5, <1>2, SameKeeps
<1>5. CASE ~(Len(input_buf) < INPUT_BUF_SIZE - 1)
  <2>1. tty' = p /\ input_buf' = input_buf /\ running' = FALSE
    BY <1>1, <1>2, <1>5
  <2>2. IInv'
    BY <2>1, <1>2, NextKey
  <2> QED
    BY <2>1, <2>2, <1>2, SameIsKept
<1> QED
  BY <1>4, <1>5

\* While something runs.
LEMMA Running ==
  ASSUME IInv, running
  PROVE  Fine(tty) /\ BelowEmpty(tty) /\ Fixed \in Int /\ Fixed <= DocCursor(tty)
<1>1. Fine(tty) /\ BelowEmpty(tty)
  BY DEF IInv, Busy
<1>2. DocCursor(tty) \in Int /\ tty.cursor \in Nat
  BY <1>1, CursorInDocument
<1>3. tty.cursor % VGA_WIDTH \in Nat
  <2> DEFINE c == tty.cursor % VGA_WIDTH
  <2>1. c \in Cols
    BY <1>2, Split
  <2> HIDE DEF c
  <2>2. c \in Nat
    BY <2>1, Sizes DEF Cols
  <2> QED
    BY <2>2 DEF c
<1>4. Fixed = DocCursor(tty) - (tty.cursor % VGA_WIDTH)
  BY DEF Fixed
<1> DEFINE d == DocCursor(tty)
           c == tty.cursor % VGA_WIDTH
<1>5. d \in Int /\ c \in Nat /\ Fixed = d - c
  BY <1>2, <1>3, <1>4
<1> HIDE DEF d, c
<1>6. Fixed \in Int /\ Fixed <= d
  BY <1>5
<1> QED
  BY <1>1, <1>6 DEF d

LEMMA OutputStep ==
  ASSUME IInv, NEW c \in Outputs, Output(c)
  PROVE  IInv' /\ Keeps(tty, tty', Fixed)
<1>1. /\ running /\ tty' = putchar(tty, c)
      /\ input_buf' = input_buf /\ prompt_shown' = prompt_shown /\ running' = running
  BY DEF Output
<1>2. Fine(tty) /\ BelowEmpty(tty) /\ Fixed \in Int /\ Fixed <= DocCursor(tty) /\ c \in Chars \cup Control
  BY <1>1, Running, OutputChars
<1>3. Fine(tty') /\ BelowEmpty(tty') /\ Keeps(tty, tty', Fixed)
  BY <1>1, <1>2, FinePut, BelowPut, PutKeeps
<1>4. Busy(tty')
  BY <1>3 DEF Busy
<1> QED
  BY <1>1, <1>3, <1>4 DEF IInv

LEMMA ProgramStep ==
  ASSUME IInv, NEW c \in Outputs, ProgramOutput(c)
  PROVE  IInv'
<1>1. /\ running /\ tty' = program_putchar(tty, c)
      /\ input_buf' = input_buf /\ prompt_shown' = prompt_shown /\ running' = running
  BY DEF ProgramOutput
<1>2. Busy(tty) /\ c \in Chars \cup Control
  BY <1>1, OutputChars DEF IInv
<1>3. Busy(tty')
  BY <1>1, <1>2, ProgramPut
<1> QED
  BY <1>1, <1>3 DEF IInv

LEMMA AutorunStep ==
  ASSUME IInv, AutorunDone
  PROVE  IInv' /\ Keeps(tty, tty', Fixed)
<1>1. /\ running /\ ~prompt_shown /\ tty' = putchar(tty, "LF") /\ running' = FALSE
      /\ input_buf' = input_buf /\ prompt_shown' = prompt_shown
  BY DEF AutorunDone
<1>2. "LF" \in Chars \cup Control
  BY DEF Control
<1>3. Fine(tty) /\ BelowEmpty(tty) /\ Fixed \in Int /\ Fixed <= DocCursor(tty)
  BY <1>1, Running
<1>4. Fine(tty') /\ Typed(tty', <<>>) /\ Keeps(tty, tty', Fixed)
  BY <1>1, <1>2, <1>3, FinePut, LineFeed, PutKeeps
<1>5. Fresh(tty')
  BY <1>4 DEF Fresh
<1> QED
  BY <1>1, <1>4, <1>5 DEF IInv

LEMMA CommandStep ==
  ASSUME IInv, CommandDone
  PROVE  IInv' /\ Keeps(tty, tty', Fixed)
<1>1. /\ running /\ prompt_shown /\ tty' = print_prompt(putchar(tty, "LF")) /\ running' = FALSE
      /\ input_buf' = << >> /\ prompt_shown' = prompt_shown
  BY DEF CommandDone
<1>2. Fine(tty) /\ BelowEmpty(tty) /\ Fixed \in Int /\ Fixed <= DocCursor(tty)
  BY <1>1, Running
<1>3. Ready(tty', << >>) /\ Keeps(tty, tty', Fixed)
  BY <1>1, <1>2, NextPrompt
<1>4. << >> \in Seq(InputChars) /\ Len(<< >>) <= INPUT_BUF_SIZE - 1
  <2>1. << >> \in Seq(InputChars) /\ Len(<< >>) = 0
    BY EmptySeq
  <2> QED
    BY <2>1, Sizes
<1>5. prompt_shown' = TRUE
  BY <1>1 DEF IInv
<1>6. IInv'
  BY <1>1, <1>3, <1>4, <1>5, NextKey
<1> QED
  BY <1>3, <1>6

-----------------------------------------------------------------------------
(* The theorems.                                                           *)

\* Every step keeps the invariant, and every key and everything the kernel
\* prints keeps the text before the input.
LEMMA Step ==
  ASSUME IInv, Next
  PROVE  IInv' /\ (Key \/ KernelPrints => Keeps(tty, tty', Fixed))
<1>1. ASSUME Key PROVE IInv' /\ Keeps(tty, tty', Fixed)
  <2>1. CASE Poll \/ ScrollDown \/ ScrollUp \/ OtherKey
    BY <2>1, MoveStep
  <2>2. CASE Enter
    BY <2>2, EnterStep
  <2>3. CASE Backspace
    BY <2>3, BackspaceStep
  <2>4. CASE Tab
    BY <2>4, TabStep
  <2>5. CASE \E c \in Letters : Type(c)
    BY <2>5, TypeStep
  <2> QED
    BY <1>1, <2>1, <2>2, <2>3, <2>4, <2>5 DEF Key
<1>2. ASSUME KernelPrints PROVE IInv' /\ Keeps(tty, tty', Fixed)
  <2>1. CASE \E c \in Outputs : Output(c)
    BY <2>1, OutputStep
  <2>2. CASE AutorunDone
    BY <2>2, AutorunStep
  <2>3. CASE CommandDone
    BY <2>3, CommandStep
  <2> QED
    BY <1>2, <2>1, <2>2, <2>3 DEF KernelPrints
<1>3. ASSUME \E c \in Outputs : ProgramOutput(c) PROVE IInv'
  BY <1>3, ProgramStep
<1> QED
  BY <1>1, <1>2, <1>3 DEF Next

\* In every state the screen shows what the console's situation asks for:
\* the prompt and the input, an empty line for the next prompt, or the
\* output of a command with nothing below it.
THEOREM Inductive == Spec => []IInv
<1>1. Init => IInv
  BY Initial
<1>2. IInv /\ [Next]_vars => IInv'
  <2> SUFFICES ASSUME IInv, [Next]_vars PROVE IInv'
    OBVIOUS
  <2>1. CASE Next
    BY <2>1, Step
  <2>2. CASE UNCHANGED vars
    BY <2>2 DEF vars, IInv
  <2> QED
    BY <2>1, <2>2
<1> QED
  BY <1>1, <1>2, PTL DEF Spec

\* What the three situations have in common.
LEMMA AnySituation ==
  ASSUME IInv
  PROVE  tty \in TTY /\ Header(tty) /\ Len(tty.top) + Len(tty.bottom) <= SCROLL_HISTORY_SIZE
<1>1. CASE Fine(tty)
  <2>1. Len(tty.top) \in Nat /\ Len(tty.bottom) = 0
    BY <1>1, DocLines DEF Fine
  <2>2. tty \in TTY /\ Header(tty) /\ Len(tty.top) <= SCROLL_HISTORY_SIZE
    BY <1>1 DEF Fine
  <2> QED
    BY <2>1, <2>2
<1>2. CASE Held(tty)
  BY <1>2 DEF Held
<1>3. Fine(tty) \/ Held(tty)
  BY DEF IInv, Ready, Fresh, Busy
<1> QED
  BY <1>1, <1>2, <1>3

\* For every screen, history and input size the cursor stays inside the area
\* below the header, putchar() and the scroll functions write no header
\* cell, and the typed line with its terminator fits input_buf.
THEOREM TypesHold == Spec => []TypeOK
<1>1. IInv => TypeOK
  <2> SUFFICES ASSUME IInv PROVE TypeOK
    OBVIOUS
  <2>1. tty \in TTY /\ Header(tty)
    BY AnySituation
  <2>2. /\ input_buf \in Seq(Letters \cup {" "}) /\ Len(input_buf) <= INPUT_BUF_SIZE - 1
        /\ prompt_shown \in BOOLEAN /\ running \in BOOLEAN
    BY DEF IInv
  <2> QED
    BY <2>1, <2>2 DEF TypeOK, TTY, Area, Line, Header
<1> QED
  BY <1>1, Inductive, PTL

\* The rows that return_to_present() and scroll_down() store without a test
\* for room always fit, and scroll_up() never meets its full buffer.
THEOREM BuffersHold == Spec => []BuffersFit
<1>1. IInv => BuffersFit
  BY AnySituation DEF BuffersFit
<1> QED
  BY <1>1, Inductive, PTL

\* Whenever a key is awaited, what stands between the prompt and the cursor
\* is the line that Enter would execute, also while history is shown.
THEOREM EchoHolds == Spec => []EchoIsInput
<1>1. IInv => EchoIsInput
  <2> SUFFICES ASSUME IInv, prompt_shown, ~running
               PROVE  LET line == PROMPT_STR \o input_buf
                          start == DocCursor(tty) - Len(line)
                      IN /\ tty.shown <=> tty.bottom = <<>>
                         /\ start >= 0
                         /\ \A i \in 1 .. Len(line) :
                              DocCell(Document(tty), start + i - 1) = line[i]
                         /\ \A k \in DocCursor(tty) .. Len(Document(tty)) * VGA_WIDTH - 1 :
                              DocCell(Document(tty), k) \in {blank, " "}
    BY DEF EchoIsInput
  <2> DEFINE line == PROMPT_STR \o input_buf
             start == DocCursor(tty) - Len(line)
  <2>1. Held(tty) /\ Echo(tty, line)
    BY DEF IInv, Ready
  <2>2. Len(line) \in Nat
    <3>1. input_buf \in Seq(InputChars)
      BY DEF IInv, InputChars
    <3>2. Len(line) = 2 + Len(input_buf) /\ Len(input_buf) \in Nat
      BY <3>1, InputLine
    <3> QED
      BY <3>2
  <2> HIDE DEF line
  <2>3. PICK q \in Nat :
          /\ DocCursor(tty) = q * VGA_WIDTH + Len(line)
          /\ \A i \in 1 .. Len(line) : DocCell(Document(tty), q * VGA_WIDTH + i - 1) = line[i]
          /\ \A k \in DocCursor(tty) .. Len(Document(tty)) * VGA_WIDTH - 1 :
               DocCell(Document(tty), k) \in Empty
    BY <2>1 DEF Echo
  <2>4. start = q * VGA_WIDTH /\ start >= 0
    <3> DEFINE b == q * VGA_WIDTH
               n == Len(line)
    <3>1. b \in Nat /\ n \in Nat /\ DocCursor(tty) = b + n
      BY <2>2, <2>3, Sizes
    <3> HIDE DEF b, n
    <3>2. DocCursor(tty) - n = b /\ b >= 0
      BY <3>1
    <3> QED
      BY <3>2 DEF b, n
  <2>5. tty.shown <=> tty.bottom = <<>>
    BY <2>1 DEF Held
  <2> HIDE DEF start
  <2>6. \A i \in 1 .. Len(line) : DocCell(Document(tty), start + i - 1) = line[i]
    BY <2>3, <2>4
  <2> QED
    BY <2>3, <2>4, <2>5, <2>6 DEF Empty, line, start
<1> QED
  BY <1>1, Inductive, PTL

\* Neither a key nor what the kernel prints changes a character before the
\* input, or before the running command's current line, wherever the lines
\* move to; a full history gives up its oldest line only; and scroll_up()
\* and scroll_down() change no line at all.
THEOREM TextStays == Spec => EarlierTextStays
<1> DEFINE A == /\ Key \/ KernelPrints => KeepsText
                /\ (ScrollUp \/ ScrollDown) /\ prompt_shown => Document(tty') = Document(tty)
<1>1. IInv /\ [Next]_vars => [A]_vars
  <2> SUFFICES ASSUME IInv, Next PROVE A
    OBVIOUS
  <2>1. Key \/ KernelPrints => KeepsText
    <3> SUFFICES ASSUME Key \/ KernelPrints PROVE KeepsText
      OBVIOUS
    <3>1. Keeps(tty, tty', Fixed)
      BY Step
    <3> QED
      BY <3>1 DEF Keeps, Kept, KeepsText, Fixed
  <2>2. ASSUME ScrollUp \/ ScrollDown, prompt_shown
        PROVE  Document(tty') = Document(tty)
    <3>1. /\ tty' = scroll_down(tty) \/ tty' = scroll_up(tty)
          /\ ~running
      BY <2>2 DEF ScrollUp, ScrollDown, Prompted, Console
    <3>2. Ready(tty, input_buf)
      BY <3>1, <2>2 DEF IInv
    <3> QED
      BY <3>1, <3>2, Scrolled
  <2> QED
    BY <2>1, <2>2
<1> QED
  BY <1>1, Inductive, PTL DEF Spec, EarlierTextStays

=============================================================================
