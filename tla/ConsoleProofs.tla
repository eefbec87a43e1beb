---------------------------- MODULE ConsoleProofs ----------------------------
(* Proofs about Console for any number of CPUs, any strings, any exceptions *)
(* and any size of the screen.                                              *)
EXTENDS Console, SequenceTheorems, TLAPS

(* The lock is held where a string is printed; only its holder is inside a  *)
(* string, also when it has crashed there.                                  *)
LockInv ==
  \A c \in Cpus :
    /\ pc[c] \in {"print", "reporting"} => print_lock = c
    /\ char[c] # 0 => print_lock = c
    /\ pc[c] \in {"run", "reporting", "panic", "halted"} => char[c] = 0

(* The last character of output o that is not of a panic. *)
Last(o, i) == o[i].piece # PANIC /\ \A k \in i + 1 .. Len(o) : o[k].piece = PANIC

(* It is the one that the CPU inside a string has printed last; if there is *)
(* no such CPU, it ends a string.                                           *)
Strings(o, chars, pieces) ==
  \A i \in 1 .. Len(o) :
    Last(o, i) =>
      /\ \A c \in Cpus :
           chars[c] # 0 => o[i].cpu = c /\ o[i].piece = pieces[c] /\ o[i].at = chars[c]
      /\ (\A c \in Cpus : chars[c] = 0) => o[i].at = Length(o[i].piece)

Before(p, q) == p.row < q.row \/ (p.row = q.row /\ p.col < q.col)

Device == [output : Seq(Character), place : Seq(Places), screen : Screen \union {Unknown}]

(* The device between two characters: the places are in the order of        *)
(* reading, and the screen shows the sheet.                                 *)
Shown(d) ==
  /\ d \in Device /\ Len(d.place) = Len(d.output) + 1
  /\ d.place[1] = [row |-> 0, col |-> 0]
  /\ \A i \in 1 .. Len(d.output) :
       /\ d.place[i + 1] = NextPlace(d.place[i], d.output[i])
       /\ Before(d.place[i], d.place[Len(d.place)])
  /\ d.screen # Unknown => Window(d)

-----------------------------------------------------------------------------
(* Type correctness of what is not the device.                              *)

ControlType ==
  /\ print_lock \in Cpus \union {None}
  /\ pc \in [Cpus -> Labels]
  /\ piece \in [Cpus -> 1 .. Pieces]
  /\ char \in [Cpus -> 0 .. Chars]
  /\ lines \in [Cpus -> 0 .. MaxLines]
  /\ \A c \in Cpus : At(c, "print") => lines[c] < MaxLines

LEMMA Constants ==
  /\ Pieces \in Nat \ {0} /\ Chars \in Nat \ {0} /\ MaxLines \in Nat \ {0}
  /\ SCREEN_WIDTH \in Nat \ {0} /\ SCREEN_HEIGHT \in Nat \ {0}
  /\ None \notin Cpus /\ REPORT = Pieces + 1 /\ PANIC = Pieces + 2
BY ConsoleAssumption DEF REPORT, PANIC

LEMMA ControlTypeInit == Init => ControlType
BY Constants DEF Init, ControlType, Labels, At

LEMMA ControlTypeStep == ControlType /\ [Next]_vars => ControlType'
<1> SUFFICES ASSUME ControlType, [Next]_vars PROVE ControlType'
  OBVIOUS
<1>1. CASE UNCHANGED vars
  BY <1>1 DEF vars, ControlType, At
<1>2. ASSUME NEW c \in Cpus, Step(c) \/ Exception(c) PROVE ControlType'
  <2> USE Constants DEF ControlType, Goto, At, Labels
  <2>1. CASE Acquire(c) \/ AcquireReport(c) \/ Exception(c) \/ Report(c) \/ Panic(c)
    BY <2>1 DEF Acquire, AcquireReport, Exception, Report, Panic
  <2>2. CASE PutChar(c)
    BY <2>2 DEF PutChar
  <2>3. CASE Release(c)
    <3>1. piece[c] \in 1 .. Pieces /\ lines[c] \in 0 .. MaxLines /\ lines[c] < MaxLines
      BY <2>3 DEF Release
    <3>2. /\ (IF piece[c] = Pieces THEN 1 ELSE piece[c] + 1) \in 1 .. Pieces
          /\ (IF piece[c] = Pieces THEN lines[c] + 1 ELSE lines[c]) \in 0 .. MaxLines
      BY <3>1
    <3>3. /\ piece' \in [Cpus -> 1 .. Pieces] /\ lines' \in [Cpus -> 0 .. MaxLines]
          /\ char' \in [Cpus -> 0 .. Chars] /\ pc' \in [Cpus -> Labels]
          /\ print_lock' = None
      BY <2>3, <3>2 DEF Release
    <3>4. \A o \in Cpus : pc'[o] = "print" => o # c /\ pc[o] = "print" /\ lines'[o] = lines[o]
      BY <2>3 DEF Release
    <3> QED
      BY <3>3, <3>4
  <2> QED
    BY <1>2, <2>1, <2>2, <2>3 DEF Step
<1> QED
  BY <1>1, <1>2 DEF Next

-----------------------------------------------------------------------------
(* The screen.                                                              *)

LEMMA NextPlaceAfter ==
  ASSUME NEW p \in Places, NEW ch \in Character
  PROVE  /\ NextPlace(p, ch) \in Places /\ Before(p, NextPlace(p, ch))
         /\ \A q \in Places : Before(q, p) => Before(q, NextPlace(p, ch))
<1>1. /\ p.row \in Nat /\ p.col \in Int /\ 0 <= p.col /\ p.col <= SCREEN_WIDTH - 1
      /\ SCREEN_WIDTH \in Nat \ {0}
  BY Constants DEF Places, Columns
<1>2. \A q \in Places : q.row \in Nat /\ q.col \in Int
  BY DEF Places, Columns
<1>3. CASE ch.newline \/ p.col = SCREEN_WIDTH - 1
  <2>1. NextPlace(p, ch) = [row |-> p.row + 1, col |-> 0]
    BY <1>3 DEF NextPlace
  <2> QED
    BY <1>1, <1>2, <2>1 DEF Places, Columns, Before
<1>4. CASE ~(ch.newline \/ p.col = SCREEN_WIDTH - 1)
  <2>1. NextPlace(p, ch) = [row |-> p.row, col |-> p.col + 1]
    BY <1>4 DEF NextPlace
  <2> QED
    BY <1>1, <1>2, <1>4, <2>1 DEF Places, Columns, Before
<1> QED
  BY <1>3, <1>4

(* The cursor moves as the place does.                                      *)
Top(row) == IF row < SCREEN_HEIGHT THEN 0 ELSE row - SCREEN_HEIGHT + 1

LEMMA NextIsPlace == ASSUME NEW d, Shown(d) PROVE d.place[Len(d.place)] \in Places
BY DEF Shown, Device

(* What a character adds to the sheet.                                      *)
LEMMA SheetAfter ==
  ASSUME NEW d, Shown(d), NEW ch \in Character, NEW row \in Int, NEW col \in Int
  PROVE  LET next == d.place[Len(d.place)] IN
         /\ next \in Places
         /\ Sheet(kputc(d, ch), row, col) =
              IF ~ch.newline /\ next = [row |-> row, col |-> col] THEN ch
              ELSE Sheet(d, row, col)
         /\ ~Before([row |-> row, col |-> col], next) => Sheet(d, row, col) = Blank
<1> DEFINE n == Len(d.output)
           next == d.place[Len(d.place)]
           here == [row |-> row, col |-> col]
           e == kputc(d, ch)
           S == {i \in 1 .. Len(d.output) : ~d.output[i].newline /\ d.place[i] = here}
           T == {i \in 1 .. Len(e.output) : ~e.output[i].newline /\ e.place[i] = here}
<1>1. /\ d.output \in Seq(Character) /\ d.place \in Seq(Places) /\ n \in Nat
      /\ Len(d.place) = n + 1
  BY DEF Shown, Device
<1>2. next \in Places /\ next = d.place[n + 1]
  BY <1>1
<1>3. e.output = Append(d.output, ch) /\ e.place = Append(d.place, NextPlace(next, ch))
  BY DEF kputc
<1>4. /\ Len(e.output) = n + 1 /\ e.output[n + 1] = ch
      /\ \A i \in 1 .. n : e.output[i] = d.output[i] /\ e.place[i] = d.place[i]
      /\ e.place[n + 1] = next
  BY <1>1, <1>2, <1>3
<1>5. \A i \in 1 .. n : Before(d.place[i], next)
  BY <1>2 DEF Shown
<1>6. ~Before(next, next)
  BY <1>2 DEF Before, Places, Columns
<1>7. ~Before(here, next) => S = {}
  BY <1>5
<1>8. Sheet(d, row, col) = IF S = {} THEN Blank ELSE d.output[CHOOSE i \in S : TRUE]
  BY DEF Sheet
<1>9. Sheet(e, row, col) = IF T = {} THEN Blank ELSE e.output[CHOOSE i \in T : TRUE]
  BY DEF Sheet
<1>10. CASE ~ch.newline /\ next = here
  <2>1. S = {}
    BY <1>6, <1>7, <1>10
  <2>2. T = {n + 1}
    <3>1. \A i \in 1 .. n : d.place[i] # here
      BY <1>5, <1>6, <1>10
    <3>2. \A i \in 1 .. n + 1 : i # n + 1 => i \in 1 .. n
      BY <1>1
    <3>3. n + 1 \in 1 .. n + 1
      BY <1>1
    <3> QED
      BY <1>4, <1>10, <3>1, <3>2, <3>3
  <2> HIDE DEF T
  <2>3. (CHOOSE i \in T : TRUE) = n + 1
    BY <2>2
  <2> QED
    BY <1>2, <1>4, <1>7, <1>8, <1>9, <1>10, <2>2, <2>3
<1>11. CASE ch.newline \/ next # here
  <2>1. T = S
    <3>1. \A i \in 1 .. n + 1 : i # n + 1 => i \in 1 .. n
      BY <1>1
    <3>2. \A i \in 1 .. n : i \in 1 .. n + 1
      BY <1>1
    <3> QED
      BY <1>4, <1>11, <3>1, <3>2
  <2>2. S # {} => (CHOOSE i \in S : TRUE) \in 1 .. n
    <3> SUFFICES ASSUME S # {} PROVE (CHOOSE i \in S : TRUE) \in S
      OBVIOUS
    <3> HIDE DEF S
    <3> QED
      OBVIOUS
  <2> HIDE DEF S, T
  <2>3. S # {} => e.output[CHOOSE i \in T : TRUE] = d.output[CHOOSE i \in S : TRUE]
    BY <1>4, <2>1, <2>2
  <2> QED
    BY <1>2, <1>7, <1>8, <1>9, <1>11, <2>1, <2>3
<1> QED
  BY <1>10, <1>11

(* A new row of the screen: the window moves down the sheet by one row when *)
(* it is full.                                                              *)
LEMMA NewRowShows ==
  ASSUME NEW s \in Screen, NEW row \in Nat, NEW f,
         s.y = row - Top(row),
         \A y \in Rows, x \in Columns : s.cells[y][x] = f[Top(row) + y][x],
         \A x \in Columns : f[row + 1][x] = Blank
  PROVE  /\ NewRow(s) \in Screen /\ NewRow(s).x = 0
         /\ NewRow(s).y = (row + 1) - Top(row + 1)
         /\ \A y \in Rows, x \in Columns :
              NewRow(s).cells[y][x] = f[Top(row + 1) + y][x]
<1>1. /\ SCREEN_HEIGHT \in Nat \ {0} /\ SCREEN_WIDTH \in Nat \ {0}
      /\ s.cells \in [Rows -> [Columns -> Character \union {Blank}]]
      /\ s.x \in Columns /\ s.y \in Rows /\ 0 \in Columns
  BY Constants DEF Screen, Columns
<1>2. CASE s.y + 1 >= SCREEN_HEIGHT
  <2>1. s.y = SCREEN_HEIGHT - 1 /\ Top(row + 1) = Top(row) + 1
        /\ row + 1 = Top(row) + SCREEN_HEIGHT
    BY <1>1, <1>2 DEF Top, Rows
  <2>2. NewRow(s) = [cells |-> vga_scroll(s.cells), x |-> 0, y |-> SCREEN_HEIGHT - 1]
    BY <1>2 DEF NewRow
  <2>3. ASSUME NEW y \in Rows
        PROVE  /\ vga_scroll(s.cells)[y] \in [Columns -> Character \union {Blank}]
               /\ \A x \in Columns : vga_scroll(s.cells)[y][x] = f[Top(row + 1) + y][x]
    <3>1. CASE y = SCREEN_HEIGHT - 1
      <4>1. vga_scroll(s.cells)[y] = BlankRow
        BY <3>1 DEF vga_scroll
      <4>2. Top(row + 1) + y = row + 1
        BY <1>1, <2>1, <3>1 DEF Top
      <4> QED
        BY <4>1, <4>2 DEF BlankRow
    <3>2. CASE y # SCREEN_HEIGHT - 1
      <4>1. vga_scroll(s.cells)[y] = s.cells[y + 1]
        BY <3>2 DEF vga_scroll
      <4>3. y + 1 \in Rows
        BY <1>1, <3>2 DEF Rows
      <4>2. Top(row + 1) + y = Top(row) + (y + 1)
        BY <1>1, <2>1 DEF Top, Rows
      <4> QED
        BY <1>1, <4>1, <4>2, <4>3
    <3> QED
      BY <3>1, <3>2
  <2>4. vga_scroll(s.cells) \in [Rows -> [Columns -> Character \union {Blank}]]
    BY <2>3 DEF vga_scroll
  <2>5. SCREEN_HEIGHT - 1 \in Rows /\ (row + 1) - Top(row + 1) = SCREEN_HEIGHT - 1
    BY <1>1, <2>1 DEF Rows, Top
  <2> QED
    BY <1>1, <2>2, <2>3, <2>4, <2>5 DEF Screen
<1>3. CASE ~(s.y + 1 >= SCREEN_HEIGHT)
  <2>1. /\ Top(row + 1) = Top(row) /\ s.y + 1 \in Rows
        /\ s.y + 1 = (row + 1) - Top(row + 1)
    BY <1>1, <1>3 DEF Top, Rows
  <2>2. NewRow(s) = [s EXCEPT !.x = 0, !.y = s.y + 1]
    BY <1>3 DEF NewRow
  <2>3. /\ NewRow(s) \in Screen /\ NewRow(s).x = 0 /\ NewRow(s).y = s.y + 1
        /\ NewRow(s).cells = s.cells
    BY <1>1, <2>1, <2>2 DEF Screen
  <2> QED
    BY <2>1, <2>3
<1> QED
  BY <1>2, <1>3

(* Writing a cell, with the cursor staying where it is. *)
LEMMA WrittenCells ==
  ASSUME NEW s \in Screen, NEW ch \in Character
  PROVE  LET w == [s EXCEPT !.cells[s.y][s.x] = ch] IN
         /\ w \in Screen /\ w.x = s.x /\ w.y = s.y
         /\ \A y \in Rows, x \in Columns :
              w.cells[y][x] = IF y = s.y /\ x = s.x THEN ch ELSE s.cells[y][x]
<1> DEFINE w == [s EXCEPT !.cells[s.y][s.x] = ch]
           m == [s.cells EXCEPT ![s.y][s.x] = ch]
<1>1. /\ s.cells \in [Rows -> [Columns -> Character \union {Blank}]]
      /\ s.x \in Columns /\ s.y \in Rows
  BY DEF Screen
<1>2. /\ m \in [Rows -> [Columns -> Character \union {Blank}]]
      /\ \A y \in Rows, x \in Columns :
           m[y][x] = IF y = s.y /\ x = s.x THEN ch ELSE s.cells[y][x]
  BY <1>1
<1>3. w = [s EXCEPT !.cells = m]
  OBVIOUS
<1> HIDE DEF m
<1>4. w = [cells |-> m, x |-> s.x, y |-> s.y]
  BY <1>3 DEF Screen
<1> QED
  BY <1>1, <1>2, <1>4 DEF Screen

LEMMA WindowTop ==
  ASSUME NEW d
  PROVE  Window(d) <=>
           LET next == d.place[Len(d.place)] IN
           /\ d.screen.y = next.row - Top(next.row) /\ d.screen.x = next.col
           /\ \A y \in Rows, x \in Columns :
                d.screen.cells[y][x] = Sheet(d, Top(next.row) + y, x)
BY DEF Window, Top

LEMMA ScreenAfter ==
  ASSUME NEW d, Shown(d), NEW ch \in Character, d.screen # Unknown, d.screen \in Screen
  PROVE  LET e == kputc(d, ch)
             p == NextPlace(d.place[Len(d.place)], ch)
             s == vga_putc(d.screen, ch)
         IN /\ s \in Screen /\ s.y = p.row - Top(p.row) /\ s.x = p.col
            /\ \A y \in Rows, x \in Columns : s.cells[y][x] = Sheet(e, Top(p.row) + y, x)
<1> DEFINE next == d.place[Len(d.place)]
           row == next.row
           col == next.col
           e == kputc(d, ch)
           p == NextPlace(next, ch)
           s == d.screen
           w == [s EXCEPT !.cells[s.y][s.x] = ch]
           f == [r \in Int |-> [x \in Columns |-> Sheet(e, r, x)]]
<1>1. /\ row \in Nat /\ col \in Columns /\ next = [row |-> row, col |-> col]
      /\ Columns \subseteq Int /\ Rows \subseteq Int /\ 0 \in Columns
      /\ SCREEN_WIDTH \in Nat \ {0}
  <2>1. next \in Places
    BY NextIsPlace
  <2> QED
    BY <2>1, Constants DEF Places, Columns, Rows
<1>2. /\ s.y = row - Top(row) /\ s.x = col /\ s.y \in Rows /\ s.x \in Columns
      /\ \A y \in Rows, x \in Columns : s.cells[y][x] = Sheet(d, Top(row) + y, x)
  BY WindowTop DEF Shown, Screen
<1>3. Top(row) \in Int
  BY <1>1, Constants DEF Top
<1>4. \A r \in Int, x \in Columns :
        Sheet(e, r, x) = IF ~ch.newline /\ r = row /\ x = col THEN ch ELSE Sheet(d, r, x)
  <2> SUFFICES ASSUME NEW r \in Int, NEW x \in Columns
               PROVE  Sheet(e, r, x) = IF ~ch.newline /\ r = row /\ x = col THEN ch
                                       ELSE Sheet(d, r, x)
    OBVIOUS
  <2>1. Sheet(e, r, x) = IF ~ch.newline /\ next = [row |-> r, col |-> x] THEN ch
                         ELSE Sheet(d, r, x)
    BY <1>1, SheetAfter
  <2>2. next = [row |-> r, col |-> x] <=> r = row /\ x = col
    BY <1>1
  <2> HIDE DEF next, e
  <2> QED
    BY <2>1, <2>2
<1>5. \A x \in Columns : Sheet(e, row + 1, x) = Blank
  <2> SUFFICES ASSUME NEW x \in Columns PROVE Sheet(e, row + 1, x) = Blank
    OBVIOUS
  <2>1. ~Before([row |-> row + 1, col |-> x], next)
    BY <1>1 DEF Before
  <2>2. Sheet(d, row + 1, x) = Blank
    <3>1. row + 1 \in Int /\ x \in Int
      BY <1>1
    <3> QED
      BY <2>1, <3>1, SheetAfter
  <2>3. row + 1 \in Int /\ row + 1 # row
    BY <1>1
  <2> HIDE DEF next, e
  <2> QED
    BY <1>4, <2>2, <2>3
<1>6. /\ w \in Screen /\ w.x = s.x /\ w.y = s.y
      /\ \A y \in Rows, x \in Columns :
           w.cells[y][x] = IF y = s.y /\ x = s.x THEN ch ELSE s.cells[y][x]
  BY WrittenCells
<1>7. s \in Screen
  OBVIOUS
<1> HIDE DEF next, row, col, e, s, w
<1>8. \A r \in Int, x \in Columns : f[r][x] = Sheet(e, r, x)
  OBVIOUS
<1>9. \A x \in Columns : f[row + 1][x] = Blank
  BY <1>1, <1>5, <1>8
<1>10. \A y \in Rows : Top(row) + y \in Int
  BY <1>1, <1>3
<1> HIDE DEF f
<1>11. CASE ch.newline
  <2>1. p = [row |-> row + 1, col |-> 0] /\ vga_putc(s, ch) = NewRow(s)
    BY <1>11 DEF NextPlace, vga_putc, row
  <2>2. \A y \in Rows, x \in Columns : s.cells[y][x] = f[Top(row) + y][x]
    BY <1>2, <1>4, <1>8, <1>10, <1>11
  <2>3. /\ NewRow(s) \in Screen /\ NewRow(s).x = 0
        /\ NewRow(s).y = (row + 1) - Top(row + 1)
        /\ \A y \in Rows, x \in Columns : NewRow(s).cells[y][x] = f[Top(row + 1) + y][x]
    BY <1>1, <1>2, <1>7, <1>9, <2>2, NewRowShows
  <2>4. \A y \in Rows : Top(row + 1) + y \in Int
    BY <1>1, Constants DEF Top
  <2>5. \A y \in Rows, x \in Columns : NewRow(s).cells[y][x] = Sheet(e, Top(row + 1) + y, x)
    BY <1>8, <2>3, <2>4
  <2>6. p.row = row + 1 /\ p.col = 0
    BY <2>1
  <2> HIDE DEF p
  <2>7. /\ vga_putc(s, ch) \in Screen /\ vga_putc(s, ch).y = p.row - Top(p.row)
        /\ vga_putc(s, ch).x = p.col
        /\ \A y \in Rows, x \in Columns :
             vga_putc(s, ch).cells[y][x] = Sheet(e, Top(p.row) + y, x)
    <3> DEFINE t == NewRow(s)
               r == row + 1
    <3>1. vga_putc(s, ch) = t /\ p.row = r /\ p.col = 0
      BY <2>1, <2>6
    <3>2. /\ t \in Screen /\ t.y = r - Top(r) /\ t.x = 0
          /\ \A y \in Rows, x \in Columns : t.cells[y][x] = Sheet(e, Top(r) + y, x)
      BY <2>3, <2>5
    <3> HIDE DEF t, r
    <3> QED
      BY <3>1, <3>2
  <2> QED
    BY <2>7 DEF next, e, s, p
<1>12. CASE ~ch.newline
  <2>1. \A y \in Rows, x \in Columns : w.cells[y][x] = f[Top(row) + y][x]
    <3>1. ASSUME NEW y \in Rows PROVE y = s.y <=> Top(row) + y = row
      <4>1. y \in Int /\ row \in Int /\ Top(row) \in Int /\ s.y = row - Top(row)
        BY <1>1, <1>2, <1>3
      <4> QED
        BY <4>1
    <3> QED
      BY <1>2, <1>4, <1>6, <1>8, <1>10, <1>12, <3>1
  <2>2. CASE s.x + 1 >= SCREEN_WIDTH
    <3>1. vga_putc(s, ch) = NewRow(w)
      BY <1>12, <2>2 DEF vga_putc, w
    <3>2. col = SCREEN_WIDTH - 1
      BY <1>1, <1>2, <2>2 DEF Columns
    <3>3. p = [row |-> row + 1, col |-> 0]
      BY <3>2 DEF NextPlace, row, col
    <3>4. /\ NewRow(w) \in Screen /\ NewRow(w).x = 0
          /\ NewRow(w).y = (row + 1) - Top(row + 1)
          /\ \A y \in Rows, x \in Columns : NewRow(w).cells[y][x] = f[Top(row + 1) + y][x]
      BY <1>1, <1>2, <1>6, <1>9, <2>1, NewRowShows
    <3>5. \A y \in Rows : Top(row + 1) + y \in Int
      BY <1>1, Constants DEF Top
    <3>6. \A y \in Rows, x \in Columns :
            NewRow(w).cells[y][x] = Sheet(e, Top(row + 1) + y, x)
      BY <1>8, <3>4, <3>5
    <3>7. p.row = row + 1 /\ p.col = 0
      BY <3>3
    <3> HIDE DEF p
    <3>8. /\ vga_putc(s, ch) \in Screen /\ vga_putc(s, ch).y = p.row - Top(p.row)
          /\ vga_putc(s, ch).x = p.col
          /\ \A y \in Rows, x \in Columns :
               vga_putc(s, ch).cells[y][x] = Sheet(e, Top(p.row) + y, x)
      <4> DEFINE t == NewRow(w)
                 r == row + 1
      <4>1. vga_putc(s, ch) = t /\ p.row = r /\ p.col = 0
        BY <3>1, <3>7
      <4>2. /\ t \in Screen /\ t.y = r - Top(r) /\ t.x = 0
            /\ \A y \in Rows, x \in Columns : t.cells[y][x] = Sheet(e, Top(r) + y, x)
        BY <3>4, <3>6
      <4> HIDE DEF t, r
      <4> QED
        BY <4>1, <4>2
    <3> QED
      BY <3>8 DEF next, e, s, p
  <2>3. CASE ~(s.x + 1 >= SCREEN_WIDTH)
    <3> DEFINE v == [w EXCEPT !.x = @ + 1]
    <3>1. vga_putc(s, ch) = v
      BY <1>12, <2>3 DEF vga_putc, w
    <3>2. col # SCREEN_WIDTH - 1 /\ col + 1 \in Columns
      BY <1>1, <1>2, <2>3 DEF Columns
    <3>3. p = [row |-> row, col |-> col + 1]
      BY <1>12, <3>2 DEF NextPlace, row, col
    <3>4. v \in Screen /\ v.x = col + 1 /\ v.y = w.y /\ v.cells = w.cells
      BY <1>2, <1>6, <3>2 DEF Screen
    <3> HIDE DEF v
    <3>5. \A y \in Rows, x \in Columns : v.cells[y][x] = Sheet(e, Top(row) + y, x)
      BY <1>8, <1>10, <2>1, <3>4
    <3> QED
      BY <1>2, <1>6, <3>1, <3>3, <3>4, <3>5 DEF next, e, s
  <2> QED
    BY <2>2, <2>3
<1> QED
  BY <1>11, <1>12

LEMMA KputcShows == ASSUME NEW d, Shown(d), NEW ch \in Character PROVE Shown(kputc(d, ch))
<1> DEFINE n == Len(d.output)
           next == d.place[Len(d.place)]
           e == kputc(d, ch)
           p == NextPlace(next, ch)
<1>1. /\ d.output \in Seq(Character) /\ d.place \in Seq(Places) /\ n \in Nat
      /\ Len(d.place) = n + 1 /\ d.screen \in Screen \union {Unknown}
      /\ d.place[1] = [row |-> 0, col |-> 0]
      /\ \A i \in 1 .. n : d.place[i + 1] = NextPlace(d.place[i], d.output[i])
      /\ \A i \in 1 .. n : Before(d.place[i], next)
  BY DEF Shown, Device
<1>2. next = d.place[n + 1] /\ next \in Places
  BY <1>1
<1>3. /\ p \in Places /\ Before(next, p)
      /\ \A q \in Places : Before(q, next) => Before(q, p)
  BY <1>2, NextPlaceAfter
<1>4. /\ e.output = Append(d.output, ch) /\ e.place = Append(d.place, p)
      /\ e.screen = IF d.screen = Unknown THEN Unknown ELSE vga_putc(d.screen, ch)
      /\ e = [output |-> e.output, place |-> e.place, screen |-> e.screen]
  BY DEF kputc
<1> HIDE DEF e, p, next
<1>5. /\ Len(e.output) = n + 1 /\ Len(e.place) = n + 2 /\ e.place[n + 2] = p
      /\ e.output \in Seq(Character) /\ e.place \in Seq(Places)
      /\ e.output[n + 1] = ch /\ e.place[n + 1] = next
      /\ \A i \in 1 .. n : e.output[i] = d.output[i] /\ e.place[i] = d.place[i]
  BY <1>1, <1>2, <1>3, <1>4
<1>6. e.place[1] = [row |-> 0, col |-> 0]
  BY <1>1, <1>4
<1>7. ASSUME NEW i \in 1 .. n + 1
      PROVE  e.place[i + 1] = NextPlace(e.place[i], e.output[i]) /\ Before(e.place[i], p)
  <2>1. CASE i = n + 1
    BY <1>1, <1>3, <1>5, <2>1 DEF p
  <2>2. CASE i # n + 1
    <3>1. i \in 1 .. n /\ i + 1 \in 1 .. n + 1
      BY <1>1, <2>2
    <3>2. e.place[i + 1] = d.place[i + 1]
      BY <1>1, <1>2, <1>4, <3>1
    <3>3. d.place[i] \in Places
      BY <1>1, <3>1
    <3> QED
      BY <1>1, <1>3, <1>5, <3>1, <3>2, <3>3
  <2> QED
    BY <2>1, <2>2
<1>8. /\ e.screen \in Screen \union {Unknown}
      /\ e.screen # Unknown => Window(e)
  <2>1. CASE d.screen = Unknown
    BY <1>4, <2>1
  <2>2. CASE d.screen # Unknown
    <3>1. /\ e.screen \in Screen /\ e.screen.y = p.row - Top(p.row) /\ e.screen.x = p.col
          /\ \A y \in Rows, x \in Columns :
               e.screen.cells[y][x] = Sheet(e, Top(p.row) + y, x)
      BY <1>1, <1>4, <2>2, ScreenAfter DEF e, p, next
    <3>2. Window(e)
      BY <1>5, <3>1, WindowTop
    <3> QED
      BY <3>1, <3>2
  <2> QED
    BY <2>1, <2>2
<1>9. e \in Device
  BY <1>4, <1>5, <1>8 DEF Device
<1>10. Len(e.place) = Len(e.output) + 1 /\ e.place[Len(e.place)] = p
  BY <1>1, <1>5
<1>11. \A i \in 1 .. Len(e.output) :
         /\ e.place[i + 1] = NextPlace(e.place[i], e.output[i])
         /\ Before(e.place[i], e.place[Len(e.place)])
  BY <1>5, <1>7, <1>10
<1>12. Shown(e)
  BY <1>6, <1>8, <1>9, <1>10, <1>11 DEF Shown
<1> QED
  BY <1>12 DEF e

(* The words of a failing CPU. *)
LEMMA WordsShow ==
  ASSUME NEW d, Shown(d), NEW c \in Cpus, NEW k \in {REPORT, PANIC}
  PROVE  Shown(Words(d, c, k))
<1> DEFINE a == Char(c, k, 1, TRUE)
           b == Char(c, k, 2, FALSE)
           e == Char(c, k, 3, TRUE)
<1>1. k \in 1 .. PANIC
  BY Constants
<1>2. a \in Character /\ b \in Character /\ e \in Character
  BY <1>1 DEF Char, Character
<1> HIDE DEF a, b, e
<1>3. Shown(kputc(d, a))
  BY <1>2, KputcShows
<1>4. Shown(kputc(kputc(d, a), b))
  BY <1>2, <1>3, KputcShows
<1>5. Shown(kputc(kputc(kputc(d, a), b), e))
  BY <1>2, <1>4, KputcShows
<1> QED
  BY <1>5 DEF Words, a, b, e

LEMMA ShownInit == Init => Shown(device)
<1> SUFFICES ASSUME Init PROVE Shown(InitDevice)
  BY DEF Init
<1> DEFINE d == InitDevice
           s == d.screen
<1>1. /\ d.output = <<>> /\ d.place = <<[row |-> 0, col |-> 0]>>
      /\ s = [cells |-> [y \in Rows |-> BlankRow], x |-> 0, y |-> 0]
      /\ d = [output |-> d.output, place |-> d.place, screen |-> s]
  BY DEF InitDevice
<1> HIDE DEF d
<1>2. 0 \in Columns /\ 0 \in Rows
  BY Constants DEF Columns, Rows
<1>3. /\ d.output \in Seq(Character) /\ Len(d.output) = 0 /\ d.place \in Seq(Places)
      /\ Len(d.place) = 1 /\ d.place[1] = [row |-> 0, col |-> 0]
  BY <1>1, <1>2 DEF Places
<1>4. s \in Screen
  BY <1>1, <1>2 DEF Screen, BlankRow
<1>5. \A r, x : Sheet(d, r, x) = Blank
  BY <1>3 DEF Sheet
<1>6. Window(d)
  <2>1. Top(0) = 0
    BY Constants DEF Top
  <2>2. \A y \in Rows, x \in Columns : s.cells[y][x] = Blank
    BY <1>1 DEF BlankRow
  <2>3. d.place[Len(d.place)].row = 0 /\ d.place[Len(d.place)].col = 0
    BY <1>3
  <2>4. s.x = 0 /\ s.y = 0
    BY <1>1
  <2> QED
    BY <1>5, <2>1, <2>2, <2>3, <2>4, WindowTop
<1>7. d \in Device
  BY <1>1, <1>3, <1>4 DEF Device
<1>8. Shown(d)
  BY <1>3, <1>6, <1>7 DEF Shown
<1> QED
  BY <1>8 DEF d

LEMMA ShownStep == ControlType /\ Shown(device) /\ [Next]_vars => Shown(device)'
<1> SUFFICES ASSUME ControlType, Shown(device), [Next]_vars PROVE Shown(device')
  OBVIOUS
<1>1. CASE UNCHANGED vars
  BY <1>1 DEF vars
<1>2. ASSUME NEW c \in Cpus, Step(c) \/ Exception(c) PROVE Shown(device')
  <2>1. CASE Acquire(c) \/ AcquireReport(c) \/ Exception(c) \/ Release(c)
    BY <2>1 DEF Acquire, AcquireReport, Exception, Release
  <2>2. CASE PutChar(c)
    <3> DEFINE ch == Char(c, piece[c], char[c] + 1, piece[c] = Pieces /\ char[c] = Chars - 1)
    <3>1. piece[c] \in 1 .. PANIC /\ char[c] + 1 \in Nat \ {0}
      BY Constants DEF ControlType
    <3>2. (piece[c] = Pieces /\ char[c] = Chars - 1) \in BOOLEAN
      OBVIOUS
    <3>3. ch \in Character
      BY <3>1, <3>2 DEF Char, Character
    <3>4. device' = kputc(device, ch)
      BY <2>2 DEF PutChar
    <3> HIDE DEF ch
    <3> QED
      BY <3>3, <3>4, KputcShows
  <2>3. CASE Report(c)
    BY <2>3, WordsShow DEF Report
  <2>4. CASE Panic(c)
    <3> DEFINE d == Words(device, c, PANIC)
    <3>1. Shown(d)
      BY WordsShow
    <3>2. device' = d \/ device' = [d EXCEPT !.screen = Unknown]
      <4>1. device' = [d EXCEPT !.screen =
                         IF \E o \in Cpus \ {c} : ~At(o, "halted") THEN Unknown ELSE @]
        BY <2>4 DEF Panic
      <4>2. d = [d EXCEPT !.screen = d.screen]
        BY <3>1 DEF Shown, Device
      <4> HIDE DEF d
      <4> QED
        BY <4>1, <4>2
    <3> HIDE DEF d
    <3>3. Shown([d EXCEPT !.screen = Unknown])
      <4> DEFINE e == [d EXCEPT !.screen = Unknown]
      <4>1. e.screen = Unknown /\ e.output = d.output /\ e.place = d.place /\ e \in Device
        BY <3>1 DEF Shown, Device
      <4> HIDE DEF e
      <4>2. Shown(e)
        BY <3>1, <4>1 DEF Shown
      <4> QED
        BY <4>2 DEF e
    <3> QED
      BY <3>1, <3>2, <3>3
  <2> QED
    BY <1>2, <2>1, <2>2, <2>3, <2>4 DEF Step
<1> QED
  BY <1>1, <1>2 DEF Next

-----------------------------------------------------------------------------
(* The strings.                                                             *)

(* A character that goes on where the output is, or is of a panic. *)
LEMMA WholeAfter ==
  ASSUME NEW o \in Seq(Character), NEW b \in Character, Whole(o),
         b.piece = PANIC \/ \A i \in 1 .. Len(o) : Last(o, i) => Follows(o[i], b)
  PROVE  LET q == Append(o, b) IN
         /\ q \in Seq(Character) /\ Len(q) = Len(o) + 1 /\ q[Len(o) + 1] = b
         /\ \A i \in 1 .. Len(o) : q[i] = o[i]
         /\ Whole(q)
         /\ \A i \in 1 .. Len(q) :
              Last(q, i) => IF b.piece = PANIC THEN i \in 1 .. Len(o) /\ Last(o, i)
                            ELSE i = Len(q)
<1> DEFINE n == Len(o)
           q == Append(o, b)
<1>1. /\ n \in Nat /\ q \in Seq(Character) /\ Len(q) = n + 1 /\ q[n + 1] = b
      /\ \A i \in 1 .. n : q[i] = o[i]
  OBVIOUS
<1> HIDE DEF q, n
<1>2. \A i \in 1 .. n + 1 : i = n + 1 \/ i \in 1 .. n
  BY <1>1
<1>3. ASSUME NEW i \in 1 .. n, q[i].piece # PANIC,
             \A k \in i + 1 .. n : q[k].piece = PANIC
      PROVE  Last(o, i)
  <2>1. \A k \in i + 1 .. n : k \in 1 .. n
    BY <1>1
  <2>2. o[i].piece # PANIC /\ \A k \in i + 1 .. n : o[k].piece = PANIC
    BY <1>1, <1>3, <2>1
  <2> QED
    BY <2>2 DEF Last, n
<1>4. Whole(q)
  <2> SUFFICES ASSUME NEW i \in 1 .. n + 1, NEW j \in 1 .. n + 1,
                      i < j, q[i].piece # PANIC, q[j].piece # PANIC,
                      \A k \in i + 1 .. j - 1 : q[k].piece = PANIC
               PROVE  Follows(q[i], q[j])
    BY <1>1 DEF Whole
  <2>1. i \in 1 .. n
    BY <1>1
  <2>2. CASE j = n + 1
    <3>1. Last(o, i)
      <4>1. j - 1 = n
        BY <1>1, <2>2
      <4> QED
        BY <1>3, <2>1, <4>1
    <3>2. Follows(o[i], b)
      BY <1>1, <2>1, <2>2, <3>1 DEF n
    <3> QED
      BY <1>1, <2>1, <2>2, <3>2
  <2>3. CASE j # n + 1
    <3>1. j \in 1 .. n
      BY <1>2, <2>3
    <3>2. \A k \in i + 1 .. j - 1 : k \in 1 .. n
      BY <1>1, <2>1, <3>1
    <3>3. /\ o[i].piece # PANIC /\ o[j].piece # PANIC
          /\ \A k \in i + 1 .. j - 1 : o[k].piece = PANIC
      BY <1>1, <2>1, <3>1, <3>2
    <3>4. Follows(o[i], o[j])
      BY <2>1, <3>1, <3>3 DEF Whole, n
    <3> QED
      BY <1>1, <2>1, <3>1, <3>4
  <2> QED
    BY <2>2, <2>3
<1>5. ASSUME NEW i \in 1 .. n + 1, Last(q, i)
      PROVE  IF b.piece = PANIC THEN i \in 1 .. n /\ Last(o, i) ELSE i = n + 1
  <2>1. q[i].piece # PANIC /\ \A k \in i + 1 .. n + 1 : q[k].piece = PANIC
    BY <1>1, <1>5 DEF Last
  <2>2. CASE i = n + 1
    BY <1>1, <2>1, <2>2
  <2>3. CASE i # n + 1
    <3>1. i \in 1 .. n /\ n + 1 \in i + 1 .. n + 1
      BY <1>1, <1>2, <2>3
    <3>2. b.piece = PANIC
      BY <1>1, <2>1, <3>1
    <3>3. \A k \in i + 1 .. n : k \in i + 1 .. n + 1
      BY <1>1, <3>1
    <3> QED
      BY <1>3, <2>1, <3>1, <3>2, <3>3
  <2> QED
    BY <2>2, <2>3
<1> QED
  BY <1>1, <1>4, <1>5 DEF q, n

LEMMA LockStep == ControlType /\ LockInv /\ [Next]_vars => LockInv'
<1> SUFFICES ASSUME ControlType, LockInv, [Next]_vars PROVE LockInv'
  OBVIOUS
<1>1. CASE UNCHANGED vars
  BY <1>1 DEF vars, LockInv
<1>2. ASSUME NEW c \in Cpus, Step(c) \/ Exception(c) PROVE LockInv'
  <2> USE Constants DEF ControlType, LockInv, Goto, At
  <2>1. CASE Acquire(c)
    BY <2>1 DEF Acquire
  <2>2. CASE PutChar(c)
    BY <2>2 DEF PutChar
  <2>3. CASE Release(c)
    BY <2>3 DEF Release
  <2>4. CASE Exception(c)
    BY <2>4 DEF Exception
  <2>5. CASE AcquireReport(c)
    BY <2>5 DEF AcquireReport
  <2>6. CASE Report(c)
    BY <2>6 DEF Report
  <2>7. CASE Panic(c)
    BY <2>7 DEF Panic
  <2> QED
    BY <1>2, <2>1, <2>2, <2>3, <2>4, <2>5, <2>6, <2>7 DEF Step
<1> QED
  BY <1>1, <1>2 DEF Next

StringsInv(o, chars, pieces) == o \in Seq(Character) /\ Whole(o) /\ Strings(o, chars, pieces)

(* A CPU that holds the lock is the only one inside a string. *)
LEMMA OneInside ==
  ASSUME LockInv, NEW c \in Cpus, pc[c] \in {"print", "reporting"} \/ char[c] # 0
  PROVE  \A o \in Cpus : char[o] # 0 => o = c
BY DEF LockInv

LEMMA PutCharStrings ==
  ASSUME ControlType, LockInv, StringsInv(device.output, char, piece), NEW c \in Cpus, PutChar(c)
  PROVE  StringsInv(device'.output, char', piece')
<1> DEFINE o == device.output
           b == Char(c, piece[c], char[c] + 1, piece[c] = Pieces /\ char[c] = Chars - 1)
           q == Append(o, b)
<1>1. /\ device'.output = q /\ char' = [char EXCEPT ![c] = char[c] + 1] /\ piece' = piece
      /\ pc[c] = "print"
  BY DEF PutChar, kputc, At
<1>2. /\ b.cpu = c /\ b.piece = piece[c] /\ b.at = char[c] + 1 /\ b \in Character
      /\ b.piece # PANIC /\ piece[c] # REPORT /\ char[c] \in Nat
  <2>1. piece[c] \in 1 .. PANIC /\ char[c] + 1 \in Nat \ {0} /\ char[c] \in Nat
        /\ piece[c] # PANIC /\ piece[c] # REPORT
    BY Constants DEF ControlType
  <2>2. (piece[c] = Pieces /\ char[c] = Chars - 1) \in BOOLEAN
    OBVIOUS
  <2> QED
    BY <2>1, <2>2 DEF Char, Character
<1>3. \A p \in Cpus : char[p] # 0 => p = c
  BY <1>1, OneInside
<1>4. o \in Seq(Character) /\ Whole(o) /\ Strings(o, char, piece)
  BY DEF StringsInv
<1> HIDE DEF b, o
<1>5. ASSUME NEW i \in 1 .. Len(o), Last(o, i) PROVE Follows(o[i], b)
  <2>1. CASE char[c] # 0
    <3>1. o[i].cpu = c /\ o[i].piece = piece[c] /\ o[i].at = char[c]
      BY <1>4, <1>5, <2>1 DEF Strings
    <3> QED
      BY <1>2, <3>1 DEF Follows
  <2>2. CASE char[c] = 0
    <3>1. \A p \in Cpus : char[p] = 0
      BY <1>3, <2>2
    <3>2. o[i].at = Length(o[i].piece)
      BY <1>4, <1>5, <3>1 DEF Strings
    <3> QED
      BY <1>2, <2>2, <3>2 DEF Follows
  <2> QED
    BY <2>1, <2>2
<1>6. /\ q \in Seq(Character) /\ Len(q) = Len(o) + 1 /\ q[Len(o) + 1] = b /\ Whole(q)
      /\ \A i \in 1 .. Len(q) : Last(q, i) => i = Len(q)
  BY <1>2, <1>4, <1>5, WholeAfter
<1> HIDE DEF q
<1>7. Strings(q, char', piece')
  <2> SUFFICES ASSUME NEW i \in 1 .. Len(q), Last(q, i)
               PROVE  /\ \A p \in Cpus :
                           char'[p] # 0 => /\ q[i].cpu = p /\ q[i].piece = piece'[p]
                                           /\ q[i].at = char'[p]
                      /\ ~(\A p \in Cpus : char'[p] = 0)
    BY DEF Strings
  <2>1. q[i] = b
    BY <1>6
  <2>2. char'[c] = char[c] + 1 /\ \A p \in Cpus : p # c => char'[p] = char[p]
    BY <1>1 DEF ControlType
  <2>3. char'[c] # 0
    BY <1>2, <2>2
  <2> QED
    BY <1>1, <1>2, <1>3, <2>1, <2>2, <2>3
<1> QED
  BY <1>1, <1>6, <1>7 DEF StringsInv

LEMMA ReleaseStrings ==
  ASSUME ControlType, LockInv, StringsInv(device.output, char, piece), NEW c \in Cpus, Release(c)
  PROVE  StringsInv(device'.output, char', piece')
<1>1. /\ device' = device /\ pc[c] = "print" /\ char[c] = Chars
      /\ char' = [char EXCEPT ![c] = 0]
  BY DEF Release, At
<1>2. \A p \in Cpus : char[p] # 0 => p = c
  BY <1>1, OneInside
<1>3. \A p \in Cpus : char'[p] = 0
  BY <1>1, <1>2 DEF ControlType
<1>4. char[c] # 0 /\ piece[c] # REPORT
  BY <1>1, Constants DEF ControlType
<1>5. ASSUME NEW i \in 1 .. Len(device.output), Last(device.output, i)
      PROVE  device.output[i].at = Length(device.output[i].piece)
  BY <1>1, <1>4, <1>5 DEF StringsInv, Strings, Length
<1> QED
  BY <1>1, <1>3, <1>5 DEF StringsInv, Strings

(* A report is a string of its own. *)
LEMMA ReportStrings ==
  ASSUME ControlType, LockInv, StringsInv(device.output, char, piece), NEW c \in Cpus, Report(c)
  PROVE  StringsInv(device'.output, char', piece')
<1> DEFINE o == device.output
           a == Char(c, REPORT, 1, TRUE)
           b == Char(c, REPORT, 2, FALSE)
           e == Char(c, REPORT, 3, TRUE)
           oa == Append(o, a)
           ob == Append(oa, b)
           oe == Append(ob, e)
<1>1. /\ device'.output = oe /\ char' = char /\ piece' = piece /\ pc[c] = "reporting"
  BY DEF Report, Words, kputc, At
<1>2. /\ REPORT \in 1 .. PANIC /\ REPORT # PANIC
      /\ a \in Character /\ a.cpu = c /\ a.piece = REPORT /\ a.at = 1
      /\ b \in Character /\ b.cpu = c /\ b.piece = REPORT /\ b.at = 2
      /\ e \in Character /\ e.cpu = c /\ e.piece = REPORT /\ e.at = 3
  <2>1. REPORT \in 1 .. PANIC /\ REPORT # PANIC
    BY Constants
  <2> QED
    BY <2>1 DEF Char, Character
<1>3. \A p \in Cpus : char[p] = 0
  BY <1>1, OneInside DEF LockInv
<1>4. o \in Seq(Character) /\ Whole(o) /\ Strings(o, char, piece)
  BY DEF StringsInv
<1> HIDE DEF o, a, b, e
<1>5. \A i \in 1 .. Len(o) : Last(o, i) => Follows(o[i], a)
  BY <1>2, <1>3, <1>4 DEF Strings, Follows
<1>6. /\ oa \in Seq(Character) /\ Whole(oa) /\ Len(oa) = Len(o) + 1 /\ oa[Len(o) + 1] = a
      /\ \A i \in 1 .. Len(oa) : Last(oa, i) => i = Len(oa)
  BY <1>2, <1>4, <1>5, WholeAfter
<1> HIDE DEF oa
<1>7. \A i \in 1 .. Len(oa) : Last(oa, i) => Follows(oa[i], b)
  BY <1>2, <1>6 DEF Follows
<1>8. /\ ob \in Seq(Character) /\ Whole(ob) /\ Len(ob) = Len(oa) + 1 /\ ob[Len(oa) + 1] = b
      /\ \A i \in 1 .. Len(ob) : Last(ob, i) => i = Len(ob)
  BY <1>2, <1>6, <1>7, WholeAfter
<1> HIDE DEF ob
<1>9. \A i \in 1 .. Len(ob) : Last(ob, i) => Follows(ob[i], e)
  BY <1>2, <1>8 DEF Follows
<1>10. /\ oe \in Seq(Character) /\ Whole(oe) /\ Len(oe) = Len(ob) + 1 /\ oe[Len(ob) + 1] = e
       /\ \A i \in 1 .. Len(oe) : Last(oe, i) => i = Len(oe)
  BY <1>2, <1>8, <1>9, WholeAfter
<1> HIDE DEF oe
<1>11. Strings(oe, char, piece)
  <2>1. Length(REPORT) = 3
    BY DEF Length
  <2> QED
    BY <1>2, <1>3, <1>10, <2>1 DEF Strings
<1> QED
  BY <1>1, <1>10, <1>11 DEF StringsInv

(* The last words of a panic change nothing for the strings. *)
LEMMA PanicCharacter ==
  ASSUME NEW o, NEW chars, NEW pieces, StringsInv(o, chars, pieces),
         NEW b \in Character, b.piece = PANIC
  PROVE  StringsInv(Append(o, b), chars, pieces)
<1> DEFINE q == Append(o, b)
<1>1. o \in Seq(Character) /\ Whole(o) /\ Strings(o, chars, pieces)
  BY DEF StringsInv
<1>2. /\ q \in Seq(Character) /\ Whole(q) /\ \A i \in 1 .. Len(o) : q[i] = o[i]
      /\ \A i \in 1 .. Len(q) : Last(q, i) => i \in 1 .. Len(o) /\ Last(o, i)
  BY <1>1, WholeAfter
<1> HIDE DEF q
<1>3. Strings(q, chars, pieces)
  BY <1>1, <1>2 DEF Strings
<1>4. StringsInv(q, chars, pieces)
  BY <1>2, <1>3 DEF StringsInv
<1> QED
  BY <1>4 DEF q

LEMMA PanicStrings ==
  ASSUME StringsInv(device.output, char, piece), NEW c \in Cpus, Panic(c)
  PROVE  StringsInv(device'.output, char', piece')
<1> DEFINE o == device.output
           a == Char(c, PANIC, 1, TRUE)
           b == Char(c, PANIC, 2, FALSE)
           e == Char(c, PANIC, 3, TRUE)
<1>1. device'.output = Append(Append(Append(o, a), b), e) /\ char' = char /\ piece' = piece
  BY DEF Panic, Words, kputc
<1>2. /\ a \in Character /\ a.piece = PANIC /\ b \in Character /\ b.piece = PANIC
      /\ e \in Character /\ e.piece = PANIC
  <2>1. PANIC \in 1 .. PANIC
    BY Constants
  <2> QED
    BY <2>1 DEF Char, Character
<1> HIDE DEF a, b, e
<1>3. StringsInv(Append(o, a), char, piece)
  BY <1>2, PanicCharacter
<1>4. StringsInv(Append(Append(o, a), b), char, piece)
  BY <1>2, <1>3, PanicCharacter
<1>5. StringsInv(Append(Append(Append(o, a), b), e), char, piece)
  BY <1>2, <1>4, PanicCharacter
<1> QED
  BY <1>1, <1>5

ConsoleInv ==
  ControlType /\ LockInv /\ Shown(device) /\ StringsInv(device.output, char, piece)

LEMMA ConsoleInit == Init => ConsoleInv
<1> SUFFICES ASSUME Init PROVE ConsoleInv
  OBVIOUS
<1>1. ControlType /\ Shown(device)
  BY ControlTypeInit, ShownInit
<1>2. LockInv
  BY DEF Init, LockInv
<1>3. device.output = <<>>
  BY DEF Init, InitDevice
<1>4. StringsInv(device.output, char, piece)
  BY <1>3 DEF StringsInv, Whole, Strings
<1> QED
  BY <1>1, <1>2, <1>4 DEF ConsoleInv

LEMMA ConsoleStep == ConsoleInv /\ [Next]_vars => ConsoleInv'
<1> SUFFICES ASSUME ConsoleInv, [Next]_vars PROVE ConsoleInv'
  OBVIOUS
<1>1. ControlType' /\ LockInv' /\ Shown(device)'
  BY ControlTypeStep, LockStep, ShownStep DEF ConsoleInv
<1>2. StringsInv(device'.output, char', piece')
  <2>1. CASE UNCHANGED vars
    BY <2>1 DEF vars, ConsoleInv
  <2>2. ASSUME NEW c \in Cpus, Step(c) \/ Exception(c)
        PROVE  StringsInv(device'.output, char', piece')
    <3>1. CASE Acquire(c) \/ AcquireReport(c) \/ Exception(c)
      BY <3>1 DEF Acquire, AcquireReport, Exception, ConsoleInv
    <3> QED
      BY <2>2, <3>1, PutCharStrings, ReleaseStrings, ReportStrings, PanicStrings
         DEF Step, ConsoleInv
  <2> QED
    BY <2>1, <2>2 DEF Next
<1> QED
  BY <1>1, <1>2 DEF ConsoleInv

-----------------------------------------------------------------------------

LEMMA ConsoleInvariance == Spec => []ConsoleInv
BY ConsoleInit, ConsoleStep, PTL DEF Spec

(* The state has its type: among others no string runs over its end, and    *)
(* the cursor stays on the screen.                                          *)
THEOREM TypeCorrect == Spec => []TypeOK
<1>1. ConsoleInv => TypeOK
  BY DEF ConsoleInv, ControlType, Shown, Device, TypeOK
<1> QED
  BY <1>1, ConsoleInvariance, PTL

(* However many CPUs print and whichever crash where, the strings of kprint *)
(* come out whole (kernel/kernel_utils.c:47).                               *)
THEOREM StringsStayWhole == Spec => []StringsWhole
<1>1. ConsoleInv => StringsWhole
  BY DEF ConsoleInv, StringsInv, StringsWhole
<1> QED
  BY <1>1, ConsoleInvariance, PTL

(* On a screen of any size wrapping and scrolling lose nothing: it shows    *)
(* the end of what went to the serial port (kernel/kernel_utils.c:50-69).   *)
THEOREM ScreenShowsOutput == Spec => []ScreenIsWindow
<1>1. ConsoleInv => ScreenIsWindow
  BY DEF ConsoleInv, Shown, ScreenIsWindow
<1> QED
  BY <1>1, ConsoleInvariance, PTL
=============================================================================
