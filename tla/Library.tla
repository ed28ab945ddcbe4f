------------------------------- MODULE Library -------------------------------
(***************************************************************************)
(* One call of the library at a time, on inputs from small sets, and what  *)
(* each function promises, stated without its loops.                       *)
(***************************************************************************)
EXTENDS CStdio, Bitmap

CONSTANTS MaxText,                    \* longest string of StringCall
          MaxLine,                    \* longest command line
          StackPage,                  \* size of the page of setup_stack
          Values,                     \* numbers that are printed
          Loops,                      \* speeds of the machine for timer_calibrate
          MapBits                     \* size of the bitmap of BitmapCall

VARIABLES call, answer
libvars == <<call, answer>>

Idle == [fn |-> "idle", arg |-> <<>>]
LibInit == call = Idle /\ answer = <<>>

Calls(fn, arg, value) == call' = [fn |-> fn, arg |-> arg] /\ answer' = value
Return == call # Idle /\ call' = Idle /\ answer' = <<>>

Text(alphabet, n) == {Append(s, 0) : s \in UNION {[1..k -> alphabet] : k \in 0..n}}

StringCall == \E a \in Text({1, 2}, MaxText), b \in Text({1, 2}, 2), c \in 0..2 :
  Calls("string", [a |-> a, b |-> b, c |-> c],
       [strlen |-> strlen(a), strnlen |-> strnlen(a, c), strcmp |-> strcmp(a, b),
        memcmp |-> memcmp(a, b, Min({c, Len(a), Len(b)})), memchr |-> memchr(a, c, Len(a) - 1),
        strchr |-> strchr(a, c), strrchr |-> strrchr(a, c), strcspn |-> strcspn(a, b),
        strspn |-> strspn(a, b), strpbrk |-> strpbrk(a, b), strstr |-> strstr(a, b)])

Cells == [a \in 0..5 |-> a + 1]
MoveCall == \E dst \in 0..5, src \in 0..5, size \in 0..6 :
  /\ dst + size <= 6 /\ src + size <= 6
  /\ Calls("move", [dst |-> dst, src |-> src, size |-> size],
          [memmove |-> memmove(Cells, dst, src, size), memcpy |-> memcpy(Cells, dst, src, size),
           memset |-> memset(Cells, dst, 9, size)])

\* A string is stored at 1 in front of a byte that is not the buffer's.
Stored(s) == [a \in 0..8 |-> IF a \in 1..Len(s) THEN at(s, a - 1) ELSE 7]
ConcatCall == \E a \in Text({1, 2}, 2), b \in Text({1, 2}, 3), size \in 0..7 :
  Calls("concat", [a |-> a, b |-> b, size |-> size],
       [copy |-> strlcpy(Stored(a), 1, b, size), cat |-> strlcat(Stored(a), 1, b, size)])

\* start_process of process.c from the command line to the stack of the program,
\* whose one page is the only one mapped up there, unless a segment ends below it.
\* A line without words has a null argv[0], which strlcpy refuses to copy with an
\* ASSERT; a write to an unmapped page is a fault in the kernel.  Both panic.
PHYS_BASE == 128
KernelVariable == PHYS_BASE + 32      \* the address of if_.esp
Started(r, mapped) ==
  [r EXCEPT !.outcome = IF ~mapped /\ r.esp < PHYS_BASE - StackPage THEN "fault"
                        ELSE IF r.success THEN "started" ELSE "refused"]
start_process(line, mapped) ==
  LET argv == get_argv_from_list(line)
      r == load_arguments_to_stack([a \in 0..PHYS_BASE - 1 |-> 0], argv, PHYS_BASE, KernelVariable)
  IN  IF argv = <<>> THEN [outcome |-> "panic"]
      ELSE Started([outcome |-> "", success |-> r.success, esp |-> r.esp, m |-> r.m], mapped)
ArgumentCall == \E line \in Text({32, 97, 98}, MaxLine), mapped \in BOOLEAN :
  Calls("arguments", [line |-> line, mapped |-> mapped], start_process(line, mapped))

AtaCall == \E s \in [1..4 -> {0, 32, 65, 66}] : Calls("ata", s, descramble_ata_string(s))

SortCall == \E n \in 0..5 : \E array \in [1..n -> 0..2], key \in 0..3 :
  Calls("sort", [array |-> array, key |-> key],
       [array |-> sort(array), found |-> binary_search(key, sort(array))])

DivideCall == \E d \in 1..Full - 1 :
  Calls("divide", d, [n \in 0..Full - 1 |-> [div |-> udiv64(n, d), mod |-> umod64(n, d)]])

SignedFull == -(Full \div 2)..(Full \div 2 - 1)
SignedDivideCall == \E d \in SignedFull \ {0} :
  Calls("sdivide", d, [n \in SignedFull |-> [div |-> sdiv64(n, d), mod |-> smod64(n, d)]])

RandomCall == \E seed \in [1..2 -> 0..RcSize - 1], size \in {0, RcSize + 1} :
  Calls("random", seed, random_bytes(random_init(seed), size))

CalibrateCall == \E loops \in Loops : Calls("calibrate", loops, timer_calibrate(loops))

\* One conversion: flags, a width, given in the format or as an argument, a
\* precision, a type, and the letter.
FlagSets == {<<>>, <<45>>, <<43>>, <<32>>, <<35>>, <<48>>, <<39>>, <<48, 45>>, <<32, 43>>, <<35, 48>>,
             <<39, 35>>}
IntegerFormats == {[flags |-> f, width |-> w, prec |-> p, type |-> t, letter |-> l] :
                     f \in FlagSets, w \in {0, 6, -6}, p \in {-1, 0, 3, 9},
                     t \in {<<>>, <<104, 104>>, <<108, 108>>}, l \in {100, 111, 88}}
Star(w) == IF w = 0 THEN <<>> ELSE <<42>>
FormatString(f) ==
  <<37>> \o f.flags \o Star(f.width) \o (IF f.prec < 0 THEN <<>> ELSE <<46, 48 + f.prec>>)
    \o f.type \o <<f.letter, 33, 0>>
PrintCall == \E f \in IntegerFormats, v \in Values :
  Calls("print", [f |-> f, v |-> v],
       __vprintf(FormatString(f), IF f.width = 0 THEN <<v>> ELSE <<f.width, v>>))

\* "%%", %s, %c and a letter without conversion, in one format.
TextFormat == <<37, 37, 37, 52, 46, 50, 115, 37, 99, 37, 102, 37, 100, 0>>
PrintTextCall == \E s \in Text({65}, 3) \cup {<<>>}, v \in Values, size \in 0..8 :
  \E out \in {__vprintf(TextFormat, <<s, 66, v>>)} :
    Calls("printtext", [s |-> s, v |-> v, size |-> size],
         [out |-> out, mem |-> vsnprintf([a \in 0..8 |-> 7], 0, size, out)])

\* A number printed in a field and read back.
AtoiCall == \E v \in -(2 ^ (Bits["INT"] - 1))..(2 ^ (Bits["INT"] - 1) - 1), f \in {<<>>, <<43>>, <<48>>} :
  Calls("atoi", v, atoi(__vprintf(<<37>> \o f \o <<53, 100, 0>>, <<v>>) \o <<0>>))

HeaderCall == \E name \in Text({46, 47, 97}, NameSize), type \in {USTAR_REGULAR, USTAR_DIRECTORY},
                 size \in {0, 7, 64, IntMax} :
  \E h \in {ustar_make_header(name, type, size)} :
    Calls("header", [name |-> name, type |-> type, size |-> size],
         IF h = <<>> THEN <<>> ELSE ustar_parse_header(h))

\* A header with one byte replaced.
Altered(h, field, i, byte) ==
  CASE field = "name" -> [h EXCEPT !.name[i] = byte]
    [] field = "size" -> [h EXCEPT !.size[i] = byte]
    [] field = "chksum" -> [h EXCEPT !.chksum[i] = byte]
    [] field = "version" -> [h EXCEPT !.version[i] = byte]
    [] field = "typeflag" -> [h EXCEPT !.typeflag = byte]
FieldSize == [name |-> NameSize, size |-> SizeSize, chksum |-> ChksumSize, version |-> 2, typeflag |-> 1]
\* The header of a file named "a", or the end of an archive, all zeros.
Intact(type) ==
  IF type # USTAR_EOF THEN ustar_make_header(<<97, 0>>, type, 9)
  ELSE [name |-> Times(0, NameSize), mode |-> Times(0, 8), size |-> Times(0, SizeSize), typeflag |-> 0,
        magic |-> Times(0, 6), version |-> <<0, 0>>, prefix |-> 0, chksum |-> Times(0, ChksumSize)]
AlteredCall == \E type \in {USTAR_REGULAR, USTAR_DIRECTORY, USTAR_EOF}, field \in DOMAIN FieldSize,
                  i \in 1..ChksumSize, byte \in {0, 32, 46, 48, 49, 53, 55, 97} :
  \E h \in {Intact(type)} :
    /\ i <= FieldSize[field]
    /\ Altered(h, field, i, byte) # h
    /\ Calls("altered", [type |-> type, field |-> field, i |-> i, byte |-> byte],
            ustar_parse_header(Altered(h, field, i, byte)))

OctalCall == \E s \in [1..SizeSize -> {48, 55, 32}] : Calls("octal", s, parse_octal_field(s, SizeSize))

\* A bitmap whose file also has bits set beyond its end, read, changed in the
\* range of cnt bits from start on, and searched.
BitmapCall == \E set \in SUBSET (0..MapBits - 1), start \in 0..MapBits, cnt \in 0..MapBits, value \in BOOLEAN :
  LET b == bitmap_read(bitmap_create(MapBits),
                       bitmap_write([bit_cnt |-> MapBits, bits |-> {BitAt(i) : i \in set \cup {MapBits}}]))
  IN  /\ start + cnt <= MapBits
      /\ Calls("bitmap", [set |-> set, start |-> start, cnt |-> cnt, value |-> value],
              [set |-> {bitmap_set(b, i, value) : i \in {start} \ {MapBits}},
               flip |-> {bitmap_flip(b, i) : i \in {start} \ {MapBits}},
               all_set |-> bitmap_set_all(b, value), set_multiple |-> bitmap_set_multiple(b, start, cnt, value),
               count |-> bitmap_count(b, start, cnt, value),
               any |-> bitmap_any(b, start, cnt), none |-> bitmap_none(b, start, cnt),
               all |-> bitmap_all(b, start, cnt), scan |-> bitmap_scan(b, start, cnt, value),
               flipped |-> bitmap_scan_and_flip(b, start, cnt, value)])

AnyCall == \/ StringCall \/ MoveCall \/ ConcatCall \/ ArgumentCall \/ AtaCall \/ SortCall
           \/ DivideCall \/ SignedDivideCall \/ RandomCall \/ CalibrateCall
           \/ PrintCall \/ PrintTextCall \/ AtoiCall \/ HeaderCall \/ AlteredCall \/ OctalCall
           \/ BitmapCall

LibNext == (call = Idle /\ AnyCall) \/ Return

LibSpec == LibInit /\ [][LibNext]_libvars
-----------------------------------------------------------------------------
(* What the functions promise                                              *)

First(S) == IF S = {} THEN NotFound ELSE Min(S)
Latest(S) == IF S = {} THEN NotFound ELSE Max(S)
Chars(s) == {at(s, i) : i \in 0..Len(s) - 2}
Where(s, c) == {i \in 0..Len(s) - 1 : at(s, i) = c}
Order(s, t) == IF s = t THEN 0
               ELSE LET i == Min({j \in 1..Len(s) : j > Len(t) \/ s[j] # t[j]})
                    IN  IF s[i] < t[i] THEN -1 ELSE 1

StringRight(a, b, c) ==
  LET n == Len(a) - 1
      prefix(P(_)) == Max({k \in 0..n : \A i \in 0..k - 1 : P(at(a, i))})
      m == Min({c, Len(a), Len(b)})
  IN  [strlen |-> n, strnlen |-> Min({n, c}), strcmp |-> Order(a, b),
       memcmp |-> Order(SubSeq(a, 1, m), SubSeq(b, 1, m)), memchr |-> First(Where(a, c) \ {n}),
       strchr |-> First(Where(a, c)), strrchr |-> Latest(Where(a, c) \ {n}),
       strcspn |-> prefix(LAMBDA x : x \notin Chars(b)), strspn |-> prefix(LAMBDA x : x \in Chars(b)),
       strpbrk |-> First({i \in 0..n - 1 : at(a, i) \in Chars(b)}),
       strstr |-> First({i \in 0..n : i + Len(b) - 1 <= n
                                        /\ \A j \in 0..Len(b) - 2 : at(a, i + j) = at(b, j)})]

\* Memory whose buffer, from 1, has size bytes and held was, after want was to be
\* stored in it: at most size - 1 characters, a null byte, nothing outside.
BufferRight(m, was, want, size) ==
  LET n == Min({size - 1, Len(want) - 1})
  IN  \A a \in DOMAIN m :
        m[a] = IF size = 0 \/ a \notin 1..n + 1 THEN was[a]
               ELSE IF a = n + 1 THEN 0 ELSE want[a]

MoveRight(x, r) ==
  LET moved == [a \in DOMAIN Cells |-> IF a \in x.dst..x.dst + x.size - 1
                                       THEN Cells[a - x.dst + x.src] ELSE Cells[a]]
      apart == x.dst + x.size <= x.src \/ x.src + x.size <= x.dst
  IN  /\ r.memmove.m = moved /\ (x.dst >= x.src \/ x.size = 0 => r.memmove.dst = x.dst)
      /\ apart => r.memcpy = moved

ConcatRight(x, r) ==
  /\ BufferRight(r.copy.m, Stored(x.a), x.b, x.size) /\ r.copy.len = Len(x.b) - 1
  /\ r.cat.len = Len(x.a) + Len(x.b) - 2
  /\ IF Len(x.a) - 1 >= x.size THEN r.cat.m = Stored(x.a)
     ELSE BufferRight(r.cat.m, Stored(x.a), SubSeq(x.a, 1, Len(x.a) - 1) \o x.b, x.size)

\* The pairs of s swapped, but for the last byte, without trailing blanks.
AtaRight(s, r) ==
  LET text == SubSeq(<<s[2], s[1], s[4], s[3]>>, 1, 3)
      end == Max({0} \cup {i \in 1..3 : text[i] \notin {0, 32}})
  IN  SubSeq(r, 1, end + 1) = SubSeq(text, 1, end) \o <<0>>

\* The name an archive gives back: a suffix of the name, or ".", that names
\* nothing outside the current directory's subtree by its start.
HarmlessName(name, r) ==
  /\ r = <<46, 0>> \/ \E i \in 1..Len(name) : r = SubSeq(name, i, Len(name))
  /\ r[1] \notin {0, 47} /\ r # <<46, 46, 0>>
  /\ ~(Len(r) > 2 /\ r[1] = 46 /\ (r[2] = 47 \/ (r[2] = 46 /\ r[3] = 47)))

\* The promises of string.c, vsnprintf, ustar's names and ide.c's strings, on
\* every input tried: searches and comparisons answer as their definitions say,
\* memmove copies what was there (and returns DST, but not when it copies
\* forwards: string.c:45), copying and printing into a buffer of a given size
\* store as much of the text as fits, a null byte and nothing else, and a
\* stripped name has no leading "/", "./" or "../".
TextAgrees ==
  LET x == call.arg
  IN  CASE call.fn = "string" -> answer = StringRight(x.a, x.b, x.c)
        [] call.fn = "move" -> MoveRight(x, answer)
        [] call.fn = "concat" -> ConcatRight(x, answer)
        [] call.fn = "ata" -> AtaRight(x, answer)
        [] call.fn = "printtext" ->
             /\ answer.mem.length = Len(answer.out)
             /\ BufferRight([a \in 1..9 |-> answer.mem.m[a - 1]], [a \in 1..9 |-> 7],
                            Append(answer.out, 0), x.size)
        [] call.fn = "header" /\ answer # <<>> -> HarmlessName(x.name, answer.name)
        [] OTHER -> TRUE

\* The number a sequence of characters shows, its digits read in a base.
ValueOf(s, base) ==
  LET value(c) == IF c \in 48..57 THEN c - 48 ELSE IF c \in 65..70 THEN c - 55 ELSE 0
  IN  FoldLeft(LAMBDA v, c : v * base + value(c), 0,
               SelectSeq(s, LAMBDA c : c \in 48..57 \cup 65..70))

\* What %d, %o and %X print: the value, in the smallest field that holds the
\* sign, the prefix, the precision and the width; blanks only on the side the
\* flags say; a comma only before a group of digits.  Digits never outgrow their
\* buffer.  A negative width argument with the 0 flag is left out: format_integer
\* then pads on both sides.
PrintRight(f, v, s) ==
  LET flags == Range(f.flags)
      bits == Bits[IF f.type = <<>> THEN "INT" ELSE IF f.type = <<108, 108>> THEN "LONGLONG" ELSE "CHAR"]
      n == IF f.letter = 100 THEN Signed(v, 2 ^ bits) ELSE v % 2 ^ bits
      base == CASE f.letter = 100 -> 10 [] f.letter = 111 -> 8 [] OTHER -> 16
      body == SelectSeq(SubSeq(s, 1, Len(s) - 1), LAMBDA c : c # 32)
      prefixed == f.letter = 88 /\ 35 \in flags /\ n # 0
      unsigned == IF prefixed THEN SubSeq(body, 3, Len(body)) ELSE body
      left == f.width < 0 \/ 45 \in flags
  IN  /\ Last(s) = 33
      /\ ValueOf(unsigned, base) = IF n < 0 THEN -n ELSE n
      /\ (45 \in Range(body)) = (n < 0)
      /\ (43 \in Range(body)) = (n >= 0 /\ f.letter = 100 /\ 43 \in flags)
      /\ Len(unsigned) - (IF Head(s) \in {43, 45} THEN 1 ELSE 0) <= Max({6, BufSize})
      /\ prefixed => SubSeq(body, 1, 2) = <<48, 88>>
      /\ f.letter = 111 /\ 35 \in flags => 48 = Head(body)
      /\ (n = 0 /\ f.prec = 0 /\ 48 \notin flags /\ 35 \notin flags) => 48 \notin Range(body)
      /\ ~(48 \in flags /\ f.width < 0) =>
           /\ Len(s) - 1 >= 6 \/ f.width = 0
           /\ Len(s) - 1 > 6 => Len(s) - 1 - Len(body) <= (IF 32 \in flags THEN 1 ELSE 0)
           /\ left /\ n < 0 => Head(s) = 45
           /\ (f.width > 0 /\ ~left) => s[Len(s) - 1] # 32 \/ body = <<>>
      /\ \A i \in 1..Len(body) :
           body[i] = 44 =>
             /\ i > 1
             /\ (Len(body) - i) % (IF base = 16 THEN 5 ELSE 4) = (IF base = 16 THEN 4 ELSE 3)

\* A bitmap is a set of bit numbers: every operation of bitmap.c does to the set
\* what its name says, and a scan finds the first run, or fails when there is none.
BitmapRight(x, r) ==
  LET range == x.start..x.start + x.cnt - 1
      as(set) == [bit_cnt |-> MapBits, bits |-> {BitAt(i) : i \in set}]
      put(set, S) == IF x.value THEN set \cup S ELSE set \ S
      of(set) == IF x.value THEN set ELSE (0..MapBits - 1) \ set
      runs == {i \in x.start..MapBits - x.cnt : i..i + x.cnt - 1 \subseteq of(x.set)}
      run == Min(runs)..Min(runs) + x.cnt - 1
  IN  /\ x.start < MapBits =>
           /\ r.set = {as(put(x.set, {x.start}))}
           /\ r.flip = {as((x.set \ {x.start}) \cup ({x.start} \ x.set))}
      /\ r.all_set = as(put({}, 0..MapBits - 1)) /\ r.set_multiple = as(put(x.set, range))
      /\ r.count = Cardinality(range \cap of(x.set))
      /\ r.any = (range \cap x.set # {}) /\ r.none = ~r.any /\ r.all = (range \subseteq x.set)
      /\ r.scan = IF runs = {} THEN BITMAP_ERROR ELSE Min(runs)
      /\ r.flipped = IF runs = {} THEN as(x.set)
                     ELSE as(IF x.value THEN x.set \ run ELSE x.set \cup run)

\* The quotient and remainder of integers, truncated towards 0.
Abs(x) == IF x < 0 THEN -x ELSE x
Quotient(n, d) == IF (n < 0) = (d < 0) THEN Abs(n) \div Abs(d) ELSE -(Abs(n) \div Abs(d))

\* stdlib.c, arithmetic.c, random.c, stdio.c, ustar.c and timer.c, on every input
\* tried: the sort sorts, the search finds what is there, division from half-width
\* division never traps and gives the quotient (and the remainder where it fits its
\* half-width type), the generator's table stays a permutation, a printed number
\* is the number, also when atoi reads it, an archive header gives back the size it
\* was made with, a damaged one is refused or means the same, an octal field is
\* refused exactly when it is malformed or too large, loops_per_tick is within 1/512
\* of the machine's speed, from below, and a bitmap is a set (BitmapRight).
NumbersAgree ==
  LET x == call.arg
  IN  CASE call.fn = "sort" ->
             LET s == answer.array
             IN  /\ \A i \in 1..Len(s) - 1 : s[i] <= s[i + 1]
                 /\ \A v \in 0..2 : Cardinality({i \in 1..Len(s) : s[i] = v})
                                      = Cardinality({i \in 1..Len(s) : x.array[i] = v})
                 /\ IF x.key \in Range(s) THEN at(s, answer.found) = x.key ELSE answer.found = NotFound
        [] call.fn = "divide" ->
             \A n \in DOMAIN answer : /\ answer[n].div = n \div x
                                      /\ n % x < Half => answer[n].mod = n % x
        [] call.fn = "sdivide" ->
             \A n \in DOMAIN answer :
               (n # -(Full \div 2) \/ x # -1) =>
                 LET r == n - x * Quotient(n, x)
                 IN  /\ answer[n].div = Quotient(n, x)
                     /\ 2 * r \in -Half..Half - 1 => answer[n].mod = r
        [] call.fn = "random" -> Range(answer.s) = 0..RcSize - 1
        [] call.fn = "calibrate" ->
             LET high == Max({2 ^ k : k \in {k \in 10..20 : 2 ^ k <= x}})
             IN  answer <= x /\ x - answer < Max({high \div 512, 1})
        [] call.fn = "print" -> PrintRight(x.f, x.v, answer)
        [] call.fn = "atoi" -> answer = x
        [] call.fn = "header" ->
             IF answer = <<>> THEN Len(x.name) > NameSize
             ELSE /\ answer.error = "none" /\ answer.type = x.type
                  /\ answer.size = IF x.type = USTAR_REGULAR THEN x.size ELSE 0
        [] call.fn = "altered" ->
             answer.error # "none" \/ answer = ustar_parse_header(Intact(x.type))
        [] call.fn = "octal" ->
             LET end == First({i \in 0..SizeSize - 1 : at(x, i) = 32})
                 value == ValueOf(SubSeq(x, 1, end), 8)
             IN  answer = IF end <= 0 \/ value > UlongMax THEN NotFound ELSE value
        [] call.fn = "bitmap" -> BitmapRight(x, answer)
        [] OTHER -> TRUE

\* Every function of lib/ that is modelled keeps its promise on every input tried,
\* those about text (string.c, vsnprintf) and those about numbers (stdlib.c,
\* arithmetic.c, stdio.c, random.c, ustar.c, timer.c, bitmap.c).
LibraryAgrees == TextAgrees /\ NumbersAgree

WordAt(m, a) == m[a] + 256 * m[a + 1]
Starts(line) == {i \in 1..Len(line) - 1 : line[i] # 32 /\ (i = 1 \/ line[i - 1] = 32)}
\* Where the stack of a line must end: room for its words, argv with its null
\* pointer, and three words more, then down to 12 modulo 16.
Bottom(line) ==
  LET words == {i \in 1..Len(line) - 1 : line[i] # 32}
      need == Cardinality(words) + Cardinality(Starts(line)) + 4 * (Cardinality(Starts(line)) + 4)
  IN  Max({a \in 0..PHYS_BASE - need : a % 16 = 12})

\* What a new process finds on its stack, for every command line with a word: esp
\* is the highest address, 12 modulo 16, with room below PHYS_BASE; above the return
\* address lie argc and argv, argv is an array of argc pointers to the words of the
\* line, in order, each with its null byte, and a null pointer.  No later part of
\* the layout overwrites an earlier one.  There are two exceptions and no others: a
\* line without words panics the kernel (process.c:271), and so does one whose
\* layout leaves the stack's page for one that is not mapped; the overflow test
\* (process.c:230) never refuses a line.
ArgumentsOnStack ==
  call.fn = "arguments" =>
    LET line == call.arg.line
        m == answer.m
        sp == answer.esp
        argc == WordAt(m, sp + 4)
        argv == WordAt(m, sp + 8)
        nth(k) == CHOOSE i \in Starts(line) : Cardinality({j \in Starts(line) : j < i}) = k
        wordend(i) == Max({j \in i..Len(line) - 1 : \A l \in i..j : line[l] # 32})
    IN  IF Starts(line) = {} THEN answer.outcome = "panic"
        ELSE IF ~call.arg.mapped /\ Bottom(line) < PHYS_BASE - StackPage THEN answer.outcome = "fault"
        ELSE /\ answer.outcome = "started"
             /\ sp = Bottom(line)
             /\ argc = Cardinality(Starts(line))
             /\ \A k \in 0..argc - 1 :
                  StringAt(m, WordAt(m, argv + 4 * k)) = SubSeq(line, nth(k), wordend(nth(k))) \o <<0>>
             /\ WordAt(m, argv + 4 * argc) = 0
             /\ \A k \in 0..argc - 1 : WordAt(m, argv + 4 * k) > argv + 4 * argc + 3
=============================================================================
