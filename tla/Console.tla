------------------------------- MODULE Console -------------------------------
(***************************************************************************)
(* Printing from several CPUs (kernel/kernel_utils.c): kprint holds        *)
(* print_lock for the whole string, character by character; a line made of *)
(* a text, a number and a text is three kprint calls (print_num of         *)
(* kernel/central_core.c).  Each character goes to the serial port and to  *)
(* the text screen, whose cursor wraps at the right edge and which scrolls *)
(* when the cursor leaves the last row.                                    *)
(*                                                                         *)
(* A CPU exception may strike at any instruction: isr_dispatch             *)
(* (kernel/arch/arch.c:100-112) prints a report with kprint and then calls *)
(* panic, which prints without the lock.  The report is seven kprint calls *)
(* in the code and one piece here, under one hold of the lock: what other  *)
(* CPUs print between its parts is left out.  Panic is one step too.       *)
(* Exceptions do not nest here: the handler itself is not interrupted by a *)
(* second one.                                                             *)
(***************************************************************************)
EXTENDS Integers, Sequences

CONSTANTS
  Cpus, None,
  Pieces,        \* the kprint calls that make one line
  Chars,         \* the characters of a piece
  MaxLines,      \* bound: the lines a CPU prints
  Faults,        \* the CPUs an exception may strike
  SCREEN_WIDTH, SCREEN_HEIGHT,
  Blank,         \* a cell of the cleared screen
  Unknown        \* a screen that may hold anything

ASSUME ConsoleAssumption ==
  /\ None \notin Cpus
  /\ {Pieces, Chars, MaxLines, SCREEN_WIDTH, SCREEN_HEIGHT} \subseteq Nat \ {0}
  /\ Faults \subseteq Cpus

VARIABLES
  print_lock,
  pc,          \* where each CPU is
  piece,       \* the piece of its line it prints next
  char,        \* the characters of the piece already printed
  lines,       \* how many lines it has finished
  device       \* what the characters go to: see InitDevice

vars == <<print_lock, pc, piece, char, lines, device>>

Rows == 0 .. SCREEN_HEIGHT - 1
Columns == 0 .. SCREEN_WIDTH - 1
BlankRow == [x \in Columns |-> Blank]

(* output is what reached the serial port, screen is video_memory and the  *)
(* cursor.  place is a history of where the characters of the output, and  *)
(* the next one, belong on an endless sheet as wide as the screen.         *)
InitDevice ==
  [output |-> <<>>,
   place  |-> <<[row |-> 0, col |-> 0]>>,
   screen |-> [cells |-> [y \in Rows |-> BlankRow], x |-> 0, y |-> 0]]

(* After kclear_screen. *)
Init ==
  /\ print_lock = None
  /\ pc = [c \in Cpus |-> "run"]
  /\ piece = [c \in Cpus |-> 1]
  /\ char = [c \in Cpus |-> 0]
  /\ lines = [c \in Cpus |-> 0]
  /\ device = InitDevice

At(c, label) == pc[c] = label
Goto(c, label) == pc' = [pc EXCEPT ![c] = label]

REPORT == Pieces + 1
PANIC == Pieces + 2

(* A character says who printed it, as which one of which kprint string. *)
Char(c, k, i, newline) == [cpu |-> c, piece |-> k, at |-> i, newline |-> newline]

-----------------------------------------------------------------------------
(* The text screen. *)

(* Mutant: the last row is not blanked. *)
Mutant_vga_scroll(m) ==
  [y \in Rows |-> IF y = SCREEN_HEIGHT - 1 THEN m[y] ELSE m[y + 1]]

vga_scroll(m) ==
  [y \in Rows |-> IF y = SCREEN_HEIGHT - 1 THEN BlankRow ELSE m[y + 1]]

(* The cursor goes to the start of the next row. *)
NewRow(s) ==
  IF s.y + 1 >= SCREEN_HEIGHT
    THEN [cells |-> vga_scroll(s.cells), x |-> 0, y |-> SCREEN_HEIGHT - 1]
    ELSE [s EXCEPT !.x = 0, !.y = @ + 1]

vga_putc(s, ch) ==
  LET written == [s EXCEPT !.cells[s.y][s.x] = ch] IN
  IF ch.newline THEN NewRow(s)
  ELSE IF s.x + 1 >= SCREEN_WIDTH THEN NewRow(written)
  ELSE [written EXCEPT !.x = @ + 1]

NextPlace(p, ch) ==
  IF ch.newline \/ p.col = SCREEN_WIDTH - 1
    THEN [row |-> p.row + 1, col |-> 0]
    ELSE [row |-> p.row, col |-> p.col + 1]

(* A character of print_unlocked; the screen stays unknown once it is. *)
kputc(d, ch) ==
  [output |-> Append(d.output, ch),
   place  |-> Append(d.place, NextPlace(d.place[Len(d.place)], ch)),
   screen |-> IF d.screen = Unknown THEN Unknown ELSE vga_putc(d.screen, ch)]

(* The words of a CPU that fails, on a line of their own. *)
Words(d, c, k) ==
  kputc(kputc(kputc(d, Char(c, k, 1, TRUE)), Char(c, k, 2, FALSE)), Char(c, k, 3, TRUE))

-----------------------------------------------------------------------------
(* kprint: take the lock, *)
Acquire(c) ==
  /\ At(c, "run") /\ lines[c] < MaxLines
  /\ print_lock = None
  /\ print_lock' = c
  /\ Goto(c, "print")
  /\ UNCHANGED <<piece, char, lines, device>>

(* Mutant: one character too many. *)
MutantPutChar(c) ==
  /\ At(c, "print") /\ char[c] <= Chars
  /\ char' = [char EXCEPT ![c] = @ + 1]
  /\ device' = kputc(device, Char(c, piece[c], char[c] + 1, FALSE))
  /\ UNCHANGED <<print_lock, pc, piece, lines>>

(* print the string, whose last character in a line is the newline, *)
PutChar(c) ==
  /\ At(c, "print") /\ char[c] < Chars
  /\ char' = [char EXCEPT ![c] = @ + 1]
  /\ device' = kputc(device, Char(c, piece[c], char[c] + 1,
                                  piece[c] = Pieces /\ char[c] = Chars - 1))
  /\ UNCHANGED <<print_lock, pc, piece, lines>>

(* Mutant: the lock is kept. *)
MutantRelease(c) ==
  /\ At(c, "print") /\ char[c] = Chars
  /\ char' = [char EXCEPT ![c] = 0]
  /\ piece' = [piece EXCEPT ![c] = IF @ = Pieces THEN 1 ELSE @ + 1]
  /\ lines' = [lines EXCEPT ![c] = IF piece[c] = Pieces THEN @ + 1 ELSE @]
  /\ Goto(c, "run")
  /\ UNCHANGED <<print_lock, device>>

(* release the lock; the caller goes on with the rest of its line. *)
Release(c) ==
  /\ At(c, "print") /\ char[c] = Chars
  /\ print_lock' = None
  /\ char' = [char EXCEPT ![c] = 0]
  /\ piece' = [piece EXCEPT ![c] = IF @ = Pieces THEN 1 ELSE @ + 1]
  /\ lines' = [lines EXCEPT ![c] = IF piece[c] = Pieces THEN @ + 1 ELSE @]
  /\ Goto(c, "run")
  /\ UNCHANGED device

-----------------------------------------------------------------------------
(* An exception takes the CPU out of whatever it was doing. *)
Exception(c) ==
  /\ c \in Faults
  /\ pc[c] \in {"run", "print"}
  /\ Goto(c, "report")
  /\ UNCHANGED <<print_lock, piece, char, lines, device>>

(* Mutant: the report is printed without the lock. *)
MutantAcquireReport(c) ==
  /\ At(c, "report")
  /\ Goto(c, "reporting")
  /\ UNCHANGED <<print_lock, piece, char, lines, device>>

(* isr_dispatch prints the report with kprint, as one piece here. *)
AcquireReport(c) ==
  /\ At(c, "report")
  /\ print_lock = None
  /\ print_lock' = c
  /\ Goto(c, "reporting")
  /\ UNCHANGED <<piece, char, lines, device>>

Report(c) ==
  /\ At(c, "reporting")
  /\ device' = Words(device, c, REPORT)
  /\ print_lock' = None
  /\ Goto(c, "panic")
  /\ UNCHANGED <<piece, char, lines>>

(* panic prints its message without the lock and stops the CPU.  A CPU     *)
(* that is still running may move the same cursor at the same time.        *)
Panic(c) ==
  /\ At(c, "panic")
  /\ device' = [Words(device, c, PANIC) EXCEPT
                  !.screen = IF \E o \in Cpus \ {c} : ~At(o, "halted") THEN Unknown ELSE @]
  /\ Goto(c, "halted")
  /\ UNCHANGED <<print_lock, piece, char, lines>>

Step(c) ==
  \/ Acquire(c) \/ PutChar(c) \/ Release(c)
  \/ AcquireReport(c) \/ Report(c) \/ Panic(c)

Next == \E c \in Cpus : Step(c) \/ Exception(c)

Spec == Init /\ [][Next]_vars

FairSpec == Spec /\ \A c \in Cpus : WF_vars(Step(c))

-----------------------------------------------------------------------------
(* Properties *)

Labels == {"run", "print", "report", "reporting", "panic", "halted"}

Character == [cpu : Cpus, piece : 1 .. PANIC, at : Nat \ {0}, newline : BOOLEAN]
Screen == [cells : [Rows -> [Columns -> Character \union {Blank}]], x : Columns, y : Rows]
Places == [row : Nat, col : Columns]

(* The type of the state. *)
TypeOK ==
  /\ print_lock \in Cpus \union {None}
  /\ pc \in [Cpus -> Labels]
  /\ piece \in [Cpus -> 1 .. Pieces]
  /\ char \in [Cpus -> 0 .. Chars]
  /\ lines \in [Cpus -> 0 .. MaxLines]
  /\ device.output \in Seq(Character)
  /\ device.place \in Seq(Places) /\ Len(device.place) = Len(device.output) + 1
  /\ device.screen = Unknown \/ device.screen \in Screen

Length(k) == IF k = REPORT THEN 3 ELSE Chars

(* Character b goes on with the string of a, or a ended one and b starts one. *)
Follows(a, b) ==
  \/ b.cpu = a.cpu /\ b.piece = a.piece /\ b.at = a.at + 1
  \/ a.at = Length(a.piece) /\ b.at = 1

(* The last words of CPUs that panic aside, the output is a sequence of    *)
(* whole strings of kprint, whoever crashes and wherever: no other CPU     *)
(* comes between two characters of one, nor prints after one that was      *)
(* broken off (kernel/kernel_utils.c:47, 104).                             *)
Whole(output) ==
  \A i, j \in 1 .. Len(output) :
    (/\ i < j /\ output[i].piece # PANIC /\ output[j].piece # PANIC
     /\ \A k \in i + 1 .. j - 1 : output[k].piece = PANIC)
      => Follows(output[i], output[j])

StringsWhole == Whole(device.output)

(* What the endless sheet has at a place. *)
Sheet(d, row, col) ==
  LET here == {i \in 1 .. Len(d.output) :
                 ~d.output[i].newline /\ d.place[i] = [row |-> row, col |-> col]}
  IN IF here = {} THEN Blank ELSE d.output[CHOOSE i \in here : TRUE]

(* The window on the sheet that ends at the row of the cursor. *)
Window(d) ==
  LET next == d.place[Len(d.place)]
      top == IF next.row < SCREEN_HEIGHT THEN 0 ELSE next.row - SCREEN_HEIGHT + 1
  IN
  /\ d.screen.y = next.row - top /\ d.screen.x = next.col
  /\ \A y \in Rows, x \in Columns : d.screen.cells[y][x] = Sheet(d, top + y, x)

(* Until a CPU panics beside running ones the screen is a window on the    *)
(* sheet: nothing printed is overwritten, skipped or left behind by        *)
(* wrapping and scrolling, and what is on the screen is what went to the   *)
(* serial port.                                                            *)
ScreenIsWindow ==
  /\ device.place[1] = [row |-> 0, col |-> 0]
  /\ \A i \in 1 .. Len(device.output) :
       device.place[i + 1] = NextPlace(device.place[i], device.output[i])
  /\ device.screen # Unknown => Window(device)

(* A CPU struck by an exception always gets its panic message out: the     *)
(* lock may be held by the one that crashed (kernel/kernel_utils.c:104).   *)
PanicIsPrinted == \A c \in Cpus : At(c, "report") ~> At(c, "halted")

(* If no exception ever strikes, every CPU prints all its lines.           *)
EverythingPrinted ==
  [](\A c \in Cpus : pc[c] \in {"run", "print"}) =>
    <>(\A c \in Cpus : lines[c] = MaxLines)
=============================================================================
