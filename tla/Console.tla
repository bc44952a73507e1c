------------------------------ MODULE Console ------------------------------
(***************************************************************************)
(* The text console, kernel/lib/stdio.c, and the string functions it and   *)
(* the rest of the kernel use.  A character is its ASCII code; the colour, *)
(* the same for every cell of ASCII text, is left out.                     *)
(*                                                                         *)
(* kprintf is modelled as the characters it passes to vga_putchar, one     *)
(* step for each.  mem is the memory its strings are in: any bytes.        *)
(*                                                                         *)
(* paper is history: what a printer would have made of the same            *)
(* characters, on paper of which the last MaxLines lines are kept.         *)
(***************************************************************************)
EXTENDS Strings

CONSTANTS
    VGA_WIDTH, VGA_HEIGHT,
    TAB,        \* 8, a power of 2
    WORD,       \* 2^32: the range of uint32_t
    Addr, Byte, \* of mem
    Screens,    \* what the boot loader may leave on the screen
    Calls,      \* of kprintf: a format, and its arguments as words
    MaxLines

Cells == 0 .. VGA_WIDTH * VGA_HEIGHT - 1

ASSUME ConsoleAssumption ==
    /\ {VGA_WIDTH, VGA_HEIGHT, TAB, MaxLines} \subseteq Nat \ {0}
    /\ MaxLines > VGA_HEIGHT
    /\ Screens \subseteq [Cells -> Nat]

(***************************************************************************)
(* mem is a block of bytes: no address between two of it is left out.      *)
(***************************************************************************)
ASSUME MemoryAssumption ==
    /\ Addr \subseteq Nat /\ IsFiniteSet(Addr)
    /\ \A a, b \in Addr : a .. b \subseteq Addr
    /\ Byte \subseteq Nat

VARIABLES
    mem,
    vga_buffer,
    cursor_x,
    cursor_y,
    out,       \* the characters kprintf has not printed yet
    printed,   \* history: the last call of kprintf and what it prints
    paper      \* history: lines, and the row and column of the pen

vars == <<mem, vga_buffer, cursor_x, cursor_y, out, printed, paper>>

-----------------------------------------------------------------------------
\* Characters
BS == 8
HT == 9
LF == 10
CR == 13
SPACE == 32
PERCENT == 37
MINUS == 45
ZERO == 48

(***************************************************************************)
(* The loops of print_int, print_uint and print_hex: digits are stored     *)
(* from the last to the first, and printed in the other order.             *)
(***************************************************************************)
Digit(k) == IF k < 10 THEN ZERO + k ELSE 87 + k

Digits(value, base) ==
    LET digits[v \in 0 .. value] ==
            IF v = 0 THEN <<>>
            ELSE Append(digits[v \div base], Digit(v % base))
    IN  digits[value]

Signed(word) == IF word >= WORD \div 2 THEN word - WORD ELSE word

(***************************************************************************)
(* Mutant of print_int: the sign is tested after the value was negated.    *)
(***************************************************************************)
print_int_unsigned(word, wraps) ==
    IF word = 0 THEN <<ZERO>>
    ELSE Digits(IF Signed(word) < 0 THEN -Signed(word) ELSE word, 10)

(***************************************************************************)
(* The negation of the smallest int32_t is undefined.  Either the compiler *)
(* keeps the magnitude, as gcc -O2 does, or the value wraps and stays      *)
(* negative, and the loop makes no digits.                                 *)
(***************************************************************************)
print_int(word, wraps) ==
    IF word = 0 THEN <<ZERO>>
    ELSE IF Signed(word) > 0 THEN Digits(word, 10)
    ELSE <<MINUS>> \o IF wraps /\ word = WORD \div 2 THEN <<>>
                      ELSE Digits(-Signed(word), 10)

print_uint(word) == IF word = 0 THEN <<ZERO>> ELSE Digits(word, 10)

print_hex(word) ==
    <<ZERO, 120>> \o IF word = 0 THEN <<ZERO>> ELSE Digits(word, 16)

print_str(s) == Text(mem, s)

(***************************************************************************)
(* The switch in kprintf: d i, u, x X p, s, c.                             *)
(***************************************************************************)
Decimal == {100, 105}
Hex == {120, 88, 112}
Converts == Decimal \cup Hex \cup {117, 115, 99}

(***************************************************************************)
(* A call has an argument for the first conversion of its format.  No      *)
(* format of the kernel ends in a single %.                                *)
(***************************************************************************)
ASSUME CallsAssumption ==
    /\ WORD \in Nat /\ WORD > 1
    /\ Calls \subseteq Seq(Nat) \X Seq(0 .. WORD - 1)
    /\ \A call \in Calls : \A i \in 1 .. Len(call[1]) - 1 :
          /\ call[1][i] = PERCENT /\ call[1][i + 1] \in Converts
          /\ \A j \in 1 .. i - 1 : call[1][j] # PERCENT
          => call[2] # <<>>

Converted(conv, arg, wraps) ==
    CASE conv \in Decimal -> print_int(arg, wraps)
      [] conv = 117       -> print_uint(arg)
      [] conv \in Hex     -> print_hex(arg)
      [] conv = 115       -> print_str(arg)
      [] conv = 99        -> <<arg % 256>>

(***************************************************************************)
(* One round of the loop of kprintf: what is left of the format and of the *)
(* arguments, and the text so far.                                         *)
(***************************************************************************)
Directive(at, wraps) ==
    LET conv == at.fmt[2]
        rest == SubSeq(at.fmt, 3, Len(at.fmt))
    IN  IF at.fmt = <<>> THEN at
        ELSE IF Head(at.fmt) # PERCENT
        THEN [at EXCEPT !.fmt = Tail(@), !.text = Append(@, Head(at.fmt))]
        ELSE IF conv \in Converts
        THEN [fmt |-> rest, args |-> Tail(at.args),
              text |-> at.text \o Converted(conv, Head(at.args), wraps)]
        ELSE [at EXCEPT !.fmt = rest,
                        !.text = @ \o IF conv = PERCENT THEN <<PERCENT>>
                                      ELSE <<PERCENT, conv>>]

(***************************************************************************)
(* What kprintf prints: a round takes at least a character of the format.  *)
(***************************************************************************)
Output(fmt, args, wraps) ==
    LET after[k \in 0 .. Len(fmt)] ==
            IF k = 0 THEN [fmt |-> fmt, args |-> args, text |-> <<>>]
            ELSE Directive(after[k - 1], wraps)
    IN  after[Len(fmt)].text

-----------------------------------------------------------------------------
(***************************************************************************)
(* Mutant of vga_scroll: the last row is not cleared.                      *)
(***************************************************************************)
vga_scroll_dirty(screen) ==
    IF screen.y < VGA_HEIGHT THEN screen
    ELSE [screen EXCEPT
            !.buffer = memmove(@, 0, VGA_WIDTH, VGA_WIDTH * (VGA_HEIGHT - 1)),
            !.y = VGA_HEIGHT - 1]

vga_scroll(screen) ==
    IF screen.y < VGA_HEIGHT THEN screen
    ELSE [screen EXCEPT
            !.buffer = memset(memmove(@, 0, VGA_WIDTH, VGA_WIDTH * (VGA_HEIGHT - 1)),
                              (VGA_HEIGHT - 1) * VGA_WIDTH, SPACE, VGA_WIDTH),
            !.y = VGA_HEIGHT - 1]

(***************************************************************************)
(* Mutant of WrapLine: only a full line wraps, not one a tab has passed.   *)
(***************************************************************************)
WrapLineExact(screen) ==
    IF screen.x = VGA_WIDTH THEN [screen EXCEPT !.x = 0, !.y = @ + 1] ELSE screen

WrapLine(screen) ==
    IF screen.x >= VGA_WIDTH THEN [screen EXCEPT !.x = 0, !.y = @ + 1] ELSE screen

(***************************************************************************)
(* The first part of vga_putchar, by the kind of character.                *)
(***************************************************************************)
Placed(screen, c) ==
    IF c = LF THEN [screen EXCEPT !.x = 0, !.y = @ + 1]
    ELSE IF c = CR THEN [screen EXCEPT !.x = 0]
    ELSE IF c = HT THEN [screen EXCEPT !.x = ((@ + TAB) \div TAB) * TAB]
    ELSE IF c = BS THEN [screen EXCEPT !.x = IF @ > 0 THEN @ - 1 ELSE @]
    ELSE [screen EXCEPT !.buffer[screen.y * VGA_WIDTH + screen.x] = c, !.x = @ + 1]

(***************************************************************************)
(* The printer.  Characters are printed in place; the pen moves down a     *)
(* line, onto new paper after the last one, for a newline and when it      *)
(* passes the right edge; a tab moves it to the next tab stop.             *)
(***************************************************************************)
BlankLine == [x \in 0 .. VGA_WIDTH - 1 |-> SPACE]

Down(p) ==
    LET fed == IF p.row < Len(p.lines) THEN p.lines ELSE Append(p.lines, BlankLine)
        cut == IF Len(fed) > MaxLines THEN 1 ELSE 0
    IN  [lines |-> SubSeq(fed, 1 + cut, Len(fed)), row |-> p.row + 1 - cut, col |-> 0]

Moved(p, col) == IF col < VGA_WIDTH THEN [p EXCEPT !.col = col] ELSE Down(p)

Typed(p, c) ==
    IF c = LF THEN Down(p)
    ELSE IF c = CR THEN Moved(p, 0)
    ELSE IF c = HT THEN Moved(p, CHOOSE t \in p.col + 1 .. p.col + TAB : t % TAB = 0)
    ELSE IF c = BS THEN Moved(p, Max({0, p.col - 1}))
    ELSE Moved([p EXCEPT !.lines[p.row][p.col] = c], p.col + 1)

Line(buffer, r) == [x \in 0 .. VGA_WIDTH - 1 |-> buffer[(r - 1) * VGA_WIDTH + x]]

-----------------------------------------------------------------------------
Init ==
    /\ mem \in [Addr -> Byte]
    /\ vga_buffer \in Screens
    /\ cursor_x = 0 /\ cursor_y = 0
    /\ out = <<>> /\ printed = <<>>
    /\ paper = [lines |-> [r \in 1 .. VGA_HEIGHT |-> Line(vga_buffer, r)],
                row |-> 1, col |-> 0]

kprintf(fmt, args) ==
    /\ out = <<>>
    /\ \E wraps \in BOOLEAN : out' = Output(fmt, args, wraps)
    /\ printed' = <<fmt, args, out'>>
    /\ UNCHANGED <<mem, vga_buffer, cursor_x, cursor_y, paper>>

vga_putchar ==
    /\ out # <<>>
    /\ LET c      == Head(out)
           screen == [buffer |-> vga_buffer, x |-> cursor_x, y |-> cursor_y]
           next   == vga_scroll(WrapLine(Placed(screen, c)))
       IN  /\ vga_buffer' = next.buffer
           /\ cursor_x' = next.x
           /\ cursor_y' = next.y
           /\ paper' = Typed(paper, c)
    /\ out' = Tail(out)
    /\ printed' = <<>>
    /\ UNCHANGED mem

Next ==
    \/ \E call \in Calls : kprintf(call[1], call[2])
    \/ vga_putchar

Spec == Init /\ [][Next]_vars

-----------------------------------------------------------------------------
(***************************************************************************)
(* Type invariant: after every character the cursor is on the screen, so   *)
(* that vga_putchar never writes outside of the VGA buffer.                *)
(***************************************************************************)
TypeOK ==
    /\ mem \in [Addr -> Byte]
    /\ DOMAIN vga_buffer = Cells
    /\ cursor_x \in 0 .. VGA_WIDTH - 1
    /\ cursor_y \in 0 .. VGA_HEIGHT - 1

(***************************************************************************)
(* The screen shows the last VGA_HEIGHT lines of what was printed, and the *)
(* cursor is where the next character belongs, whatever the mixture of     *)
(* text, newlines, tabs, returns and backspaces: vga_scroll moves the      *)
(* overlapping rows intact and leaves an empty line.                       *)
(***************************************************************************)
ShowsLastLines ==
    LET above == Len(paper.lines) - VGA_HEIGHT
    IN  /\ \A r \in 1 .. VGA_HEIGHT : Line(vga_buffer, r) = paper.lines[above + r]
        /\ cursor_y = paper.row - above - 1
        /\ cursor_x = paper.col

(***************************************************************************)
(* A number, read back from digits in a base.                              *)
(***************************************************************************)
ValueOf(c) == IF c < 87 THEN c - ZERO ELSE c - 87
Read(digits, base) ==
    LET value[k \in 0 .. Len(digits)] ==
            IF k = 0 THEN 0 ELSE value[k - 1] * base + ValueOf(digits[k])
    IN  value[Len(digits)]

(***************************************************************************)
(* What kprintf prints for a number is that number: no digit is lost, none *)
(* is added in front, and the sign is right, up to the limits of the       *)
(* types; except that the smallest int32_t may come out as a lone minus.   *)
(***************************************************************************)
NumbersReadBack ==
    printed # <<>> /\ Len(printed[1]) = 2 /\ Head(printed[1]) = PERCENT =>
        LET conv == printed[1][2]
            text == printed[3]
            Numeral(digits, base, value) ==
                /\ Read(digits, base) = value
                /\ Head(digits) = ZERO => Len(digits) = 1
        IN  /\ conv \in Decimal =>
                  LET word == Head(printed[2])
                  IN  \/ Signed(word) >= 0 /\ Numeral(text, 10, word)
                      \/ /\ Signed(word) < 0 /\ Head(text) = MINUS
                         /\ \/ Numeral(Tail(text), 10, -Signed(word))
                            \/ word = WORD \div 2 /\ Len(text) = 1
            /\ conv = 117 => Numeral(text, 10, Head(printed[2]))
            /\ conv \in Hex =>
                  SubSeq(text, 1, 2) = <<ZERO, 120>>
                      /\ Numeral(SubSeq(text, 3, Len(text)), 16, Head(printed[2]))

-----------------------------------------------------------------------------
(***************************************************************************)
(* Properties of the string functions, on whatever is in memory.           *)
(***************************************************************************)
StringsAt == {s \in Addr : IsString(mem, s)}
Fits(a, n) == Area(a, n) \subseteq Addr
Apart(a, n, b, k) == Area(a, n) \cap Area(b, k) = {}
First(n, text) == SubSeq(text, 1, Min({n, Len(text)}))

(***************************************************************************)
(* memmove puts the bytes that were at src to dest and changes nothing     *)
(* else, however the areas overlap.                                        *)
(***************************************************************************)
MovesOverlap ==
    \A dest, src \in Addr, count \in 0 .. Cardinality(Addr) :
        Fits(dest, count) /\ Fits(src, count) =>
            memmove(mem, dest, src, count) =
                [a \in Addr |-> IF a \in Area(dest, count) THEN mem[a - dest + src]
                                ELSE mem[a]]

(***************************************************************************)
(* strncpy(dest, src, n) writes at most n + 1 bytes, so that the callers,  *)
(* all of which pass the size of an array less one, stay inside of it; and *)
(* where the last byte of the array was NUL the result is the string, cut  *)
(* to n characters, as FileSystem has it.                                  *)
(***************************************************************************)
StoresName ==
    \A dest \in Addr, src \in StringsAt, n \in 0 .. Cardinality(Addr) :
        Fits(dest, n + 1) /\ Apart(dest, n + 1, src, strlen(mem, src) + 1) =>
            LET after == strncpy(mem, dest, src, n)
            IN  /\ \A a \in Addr \ Area(dest, n + 1) : after[a] = mem[a]
                /\ mem[dest + n] = NUL => Text(after, dest) = First(n, Text(mem, src))

(***************************************************************************)
(* Lexicographic order.                                                    *)
(***************************************************************************)
Before(s, t) ==
    \E k \in 1 .. Len(t) : /\ k <= Len(s) + 1
                           /\ SubSeq(s, 1, k - 1) = SubSeq(t, 1, k - 1)
                           /\ k <= Len(s) => s[k] < t[k]

(***************************************************************************)
(* strcmp and strncmp order strings, and their first n characters,         *)
(* lexicographically, and memcmp bytes; the result is 0 exactly for equal  *)
(* ones.  Names of files, drivers and mounts are compared this way.        *)
(***************************************************************************)
ComparesText ==
    \A s1, s2 \in StringsAt :
        LET a == Text(mem, s1)
            b == Text(mem, s2)
            Agrees(result, s, t) == (result < 0 <=> Before(s, t)) /\ (result = 0 <=> s = t)
        IN  /\ Agrees(strcmp(mem, s1, s2), a, b)
            /\ \A n \in 0 .. Cardinality(Addr) :
                  /\ Agrees(strncmp(mem, s1, s2, n), First(n, a), First(n, b))
                  /\ n <= Min({Len(a), Len(b)}) =>
                        Agrees(memcmp(mem, s1, s2, n), First(n, a), First(n, b))

(***************************************************************************)
(* strcpy copies the string with its NUL and writes nothing else; after    *)
(* strcat dest is the text it was, followed by that of src.                *)
(***************************************************************************)
CopiesText ==
    \A dest \in Addr, src \in StringsAt :
        LET n == strlen(mem, src) + 1
        IN  /\ Fits(dest, n) /\ Apart(dest, n, src, n) =>
                  LET after == strcpy(mem, dest, src)
                  IN  /\ IsString(after, dest)
                      /\ Text(after, dest) = Text(mem, src)
                      /\ \A a \in Addr \ Area(dest, n) : after[a] = mem[a]
            /\ dest \in StringsAt =>
                  LET end == dest + strlen(mem, dest)
                  IN  Fits(end, n) /\ Apart(dest, end + n - dest, src, n) =>
                          Text(strcat(mem, dest, src), dest)
                              = Text(mem, dest) \o Text(mem, src)

(***************************************************************************)
(* The functions that copy write what they are given: memmove also between *)
(* overlapping areas, strncpy also names that are cut and names that are   *)
(* shorter than their array.  Outside of the area that it may write (n + 1 *)
(* bytes for strncpy) none of memmove, strncpy and strcpy changes a byte.  *)
(***************************************************************************)
CopiesExactly == MovesOverlap /\ StoresName /\ CopiesText

(***************************************************************************)
(* The components of a path: its maximal runs without a slash.             *)
(***************************************************************************)
Components(path) ==
    LET starts == {i \in DOMAIN path : /\ path[i] # SLASH
                                       /\ i = 1 \/ path[i - 1] = SLASH}
        Run(i) == LET ends == {j \in i + 1 .. Len(path) : path[j] = SLASH}
                  IN  SubSeq(path, i, IF ends = {} THEN Len(path) ELSE Min(ends) - 1)
        Nth(n) == CHOOSE i \in starts : Cardinality({j \in starts : j <= i}) = n
    IN  [n \in 1 .. Cardinality(starts) |-> Run(Nth(n))]

(***************************************************************************)
(* vfs_resolve_path, which overwrites the separators of its copy of the    *)
(* path one by one, looks up the components of the path in order: leading, *)
(* repeated and trailing slashes make no difference.                       *)
(***************************************************************************)
SplitsPath ==
    \A path \in StringsAt : PathNames(mem, path) = Components(Text(mem, path))
=============================================================================
