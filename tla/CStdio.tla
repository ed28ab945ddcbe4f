-------------------------------- MODULE CStdio --------------------------------
(***************************************************************************)
(* lib/stdio.c: printf's conversions and vsnprintf; lib/ustar.c, which     *)
(* writes and reads archive headers with them; and the argument stack of   *)
(* userprog/process.c.  Characters are ASCII codes.  Bits gives the width  *)
(* of each integer type of printf, BufSize the room for the digits of one  *)
(* number (64 bytes in the code), UlongMax and IntMax the limits of        *)
(* ustar.c's numbers, NameSize and SizeSize the sizes of a header's name   *)
(* and size fields.                                                        *)
(***************************************************************************)
EXTENDS CStdlib

CONSTANTS Bits, BufSize, UlongMax, IntMax, NameSize, SizeSize

Times(ch, cnt) == [i \in 1..cnt |-> ch]                      \* output_dup

MINUS == 45
PLUS == 43
SPACE == 32
POUND == 35
ZERO == 48
GROUP == 39

\* base_o, base_x, base_X and base_d; a is the digit for ten.
Base(conv) == CASE conv = 111 -> [base |-> 8, x |-> 0, group |-> 3, a |-> 97]
                [] conv \in {120, 112} -> [base |-> 16, x |-> 120, group |-> 4, a |-> 97]
                [] conv = 88 -> [base |-> 16, x |-> 88, group |-> 4, a |-> 65]
                [] OTHER -> [base |-> 10, x |-> 0, group |-> 3, a |-> 97]

digit(d, b) == IF d < 10 THEN 48 + d ELSE b.a + d - 10

\* The digits of value, least significant first, as they lie in buf.
Accumulate(value, b, flags) ==
  While(LAMBDA x : x.value > 0,
        LAMBDA x : [value |-> x.value \div b.base, cnt |-> x.cnt + 1,
                    buf |-> x.buf
                      \o (IF GROUP \in flags /\ x.cnt > 0 /\ x.cnt % b.group = 0 THEN <<44>> ELSE <<>>)
                      \o <<digit(x.value % b.base, b)>>],
        [value |-> value, cnt |-> 0, buf |-> <<>>], BufSize).buf

\* The content of buf before it is output.
Rendered(value, b, c) ==
  LET digits == Accumulate(value, b, c.flags)
      precision == IF c.precision < 0 THEN 1 ELSE c.precision
      padded == While(LAMBDA s : Len(s) < precision /\ Len(s) < BufSize - 1,
                      LAMBDA s : Append(s, 48), digits, BufSize)
  IN  IF POUND \in c.flags /\ b.base = 8 /\ (padded = <<>> \/ Last(padded) # 48)
      THEN Append(padded, 48) ELSE padded

\* Sign, prefix and the digits of buf, padded to the width.
Padded(sign, x, buf, c) ==
  LET pad == Max({0, c.width - Len(buf) - Len(x) - Len(sign)})
  IN  (IF c.flags \cap {MINUS, ZERO} = {} THEN Times(32, pad) ELSE <<>>)
      \o sign \o x
      \o (IF ZERO \in c.flags THEN Times(48, pad) ELSE <<>>)
      \o Reverse(buf)
      \o (IF MINUS \in c.flags THEN Times(32, pad) ELSE <<>>)

format_integer(value, is_signed, negative, b, c) ==
  Padded(IF ~is_signed THEN <<>>
         ELSE IF negative THEN <<45>>
         ELSE IF PLUS \in c.flags THEN <<43>>
         ELSE IF SPACE \in c.flags THEN <<32>> ELSE <<>>,
         IF POUND \in c.flags /\ value # 0 /\ b.x # 0 THEN <<48, b.x>> ELSE <<>>,
         Rendered(value, b, c), c)

\* The first length characters of s, in a field.
format_string(s, length, c) ==
  LET pad == Times(32, Max({0, c.width - length}))
      body == SubSeq(s, 1, length)
  IN  IF MINUS \in c.flags THEN body \o pad ELSE pad \o body

\* MINUS overrides ZERO, PLUS overrides SPACE.
Flags(given) == given \ ((IF MINUS \in given THEN {ZERO} ELSE {})
                           \cup (IF PLUS \in given THEN {SPACE} ELSE {}))

\* A number of parse_conversion: an argument for a star, or digits.
Field(s, i, args) ==
  IF at(s, i) = 42 THEN [i |-> i + 1, v |-> Head(args), args |-> Tail(args)]
  ELSE LET d == Digits(s, i) IN [i |-> d.i, v |-> d.v, args |-> args]

\* The type at the end of a conversion whose flags, width and precision are read.
ParseType(s, flags, width, prec) ==
  LET precision == IF prec.v < 0 THEN -1 ELSE prec.v
      letter == at(s, prec.i)
      twice == letter \in {104, 108} /\ at(s, prec.i + 1) = letter
  IN  [flags |-> (flags \cup (IF width.v < 0 THEN {MINUS} ELSE {}))
                   \ (IF precision >= 0 THEN {ZERO} ELSE {}),
       width |-> IF width.v < 0 THEN -width.v ELSE width.v,
       precision |-> precision,
       type |-> CASE letter = 104 -> (IF twice THEN "CHAR" ELSE "SHORT")
                  [] letter = 108 -> (IF twice THEN "LONGLONG" ELSE "LONG")
                  [] letter = 106 -> "INTMAX"
                  [] letter = 116 -> "PTRDIFFT"
                  [] letter = 122 -> "SIZET"
                  [] OTHER -> "INT",
       i |-> IF letter \notin {104, 106, 108, 116, 122} THEN prec.i
             ELSE IF twice THEN prec.i + 2 ELSE prec.i + 1,
       args |-> prec.args]

ParsePrecision(s, flags, width) ==
  ParseType(s, flags, width, IF at(s, width.i) = 46 THEN Field(s, width.i + 1, width.args)
                             ELSE [i |-> width.i, v |-> -1, args |-> width.args])

ParseWidth(s, i, flagged, args) ==
  ParsePrecision(s, Flags({at(s, j) : j \in i..flagged - 1}), Field(s, flagged, args))

\* The conversion that starts at position i: its flags, width, precision and
\* type, where its letter stands, and the arguments that are left.
parse_conversion(s, i, args) ==
  ParseWidth(s, i, Scan(i, LAMBDA j : at(s, j) \notin {MINUS, PLUS, SPACE, POUND, ZERO, GROUP}, Len(s)),
             args)

\* What one conversion outputs for its argument.  An integer argument is the bit
\* pattern that was pushed; %s has a string or 0 for a null pointer.
Conversion(letter, c, arg) ==
  LET modulus == 2 ^ Bits[c.type]
      signed == Signed(arg, modulus)
      s == IF arg = <<>> THEN <<40, 110, 117, 108, 108, 41, 0>> ELSE arg
      length == IF c.precision < 0 THEN strlen(s) ELSE strnlen(s, c.precision)
  IN  CASE letter \in {100, 105} ->
             format_integer(IF signed < 0 THEN -signed ELSE signed, TRUE, signed < 0, Base(letter), c)
        [] letter \in {111, 117, 120, 88} -> format_integer(arg % modulus, FALSE, FALSE, Base(letter), c)
        [] letter = 112 -> format_integer(arg % modulus, FALSE, FALSE, Base(letter), [c EXCEPT !.flags = {POUND}])
        [] letter = 99 -> format_string(<<arg>>, 1, c)
        [] letter = 115 -> format_string(s, length, c)

\* Letters with a conversion; for any other a remark is output, here its first
\* characters, and no argument is taken.
Letters == {100, 105, 111, 117, 120, 88, 99, 115, 112}

\* The loop state of __vprintf after conversion c.
Convert(format, out, c) ==
  LET letter == at(format, c.i)
  IN  IF letter \in Letters
      THEN [i |-> c.i + 1, args |-> Tail(c.args), out |-> out \o Conversion(letter, c, Head(c.args))]
      ELSE [i |-> c.i + 1, args |-> c.args, out |-> out \o <<60, 60, letter>>]

\* Everything __vprintf sends to its output function.
__vprintf(format, args0) ==
  While(LAMBDA x : at(format, x.i) # 0,
        LAMBDA x :
          IF at(format, x.i) # 37 THEN [x EXCEPT !.i = x.i + 1, !.out = Append(@, at(format, x.i))]
          ELSE IF at(format, x.i + 1) = 37 THEN [x EXCEPT !.i = x.i + 2, !.out = Append(@, 37)]
          ELSE Convert(format, x.out, parse_conversion(format, x.i + 1, x.args)),
        [i |-> 0, args |-> args0, out |-> <<>>], Len(format)).out

\* vsnprintf of an output into the memory at buffer, with its helper.
vsnprintf(m, buffer, buf_size, out) ==
  LET n == Min({Len(out), IF buf_size > 0 THEN buf_size - 1 ELSE 0})
  IN  [m |-> IF buf_size > 0 THEN [Copy(m, buffer, out, n) EXCEPT ![buffer + n] = 0] ELSE m,
       length |-> Len(out)]
-----------------------------------------------------------------------------
(* ustar.c: a header is a record of its fields, those that never vary left *)
(* out.                                                                    *)

Magic == <<117, 115, 116, 97, 114, 0>>
USTAR_REGULAR == 48
USTAR_DIRECTORY == 53
USTAR_EOF == -1
ChksumSize == 8

\* snprintf with %0no into a field of n + 1 bytes.
OctalField(value, size) ==
  LET out == format_integer(value, FALSE, FALSE, Base(111),
                            [flags |-> {ZERO}, width |-> size - 1, precision |-> -1])
      m == vsnprintf([a \in 0..size - 1 |-> 0], 0, size, out).m
  IN  [i \in 1..size |-> m[i - 1]]

Sum(s) == FoldLeft(LAMBDA x, y : x + y, 0, s)
\* The checksum field counts as spaces.
calculate_chksum(h) ==
  Sum(h.name) + Sum(h.mode) + Sum(h.size) + Sum(h.magic) + Sum(h.version) + h.typeflag + h.prefix
    + 32 * ChksumSize

WithChecksum(h) == [h EXCEPT !.chksum = OctalField(calculate_chksum(h), ChksumSize)]

\* The header for a stripped name, or <<>> when the name is too long.
HeaderFor(name, type, size) ==
  LET field == strlcpy([a \in 0..NameSize - 1 |-> 0], 0, name, NameSize).m
  IN  IF strlen(name) > NameSize - 1 THEN <<>>
      ELSE WithChecksum([name |-> [i \in 1..NameSize |-> field[i - 1]],
                         mode |-> OctalField(IF type = USTAR_REGULAR THEN 420 ELSE 493, 8),
                         size |-> OctalField(size, SizeSize), typeflag |-> type, magic |-> Magic,
                         version |-> <<48, 48>>, prefix |-> 0, chksum |-> Times(0, ChksumSize)])

ustar_make_header(file_name, type, size) ==
  HeaderFor(strip_antisocial_prefixes(file_name), type, size)

\* The value of a field of octal digits, or NotFound.
parse_octal_field(s, size) ==
  LET end == While(LAMBDA x : x.i < size /\ at(s, x.i) \in 48..55 /\ x.v <= UlongMax \div 8,
                   LAMBDA x : [i |-> x.i + 1, v |-> (x.v * 8 + at(s, x.i) - 48) % (UlongMax + 1)],
                   [i |-> 0, v |-> 0], size)
  IN  IF end.i < size /\ at(s, end.i) \in {0, 32} /\ end.i > 0 THEN end.v ELSE NotFound

is_all_zeros(h) == \A s \in {h.name, h.mode, h.size, h.magic, h.version, h.chksum,
                              <<h.typeflag, h.prefix>>} :
                     \A i \in 1..Len(s) : s[i] = 0

ustar_parse_header(h) ==
  LET chksum == parse_octal_field(h.chksum, ChksumSize)
      size == IF h.typeflag = USTAR_REGULAR THEN parse_octal_field(h.size, SizeSize) ELSE 0
      error(why) == [error |-> why, name |-> <<>>, type |-> 0, size |-> 0]
  IN  CASE is_all_zeros(h) -> [error |-> "none", name |-> <<>>, type |-> USTAR_EOF, size |-> 0]
        [] h.magic # Magic -> error("not a ustar archive")
        [] h.version # <<48, 48>> -> error("invalid ustar version")
        [] chksum = NotFound -> error("corrupt chksum field")
        [] chksum # calculate_chksum(h) -> error("checksum mismatch")
        [] Last(h.name) # 0 \/ h.prefix # 0 -> error("file name too long")
        [] h.typeflag \notin {USTAR_REGULAR, USTAR_DIRECTORY} -> error("unimplemented file type")
        [] size = NotFound -> error("corrupt file size field")
        [] size > IntMax -> error("file too large")
        [] OTHER -> [error |-> "none", name |-> strip_antisocial_prefixes(SubSeq(h.name, 1, strlen(h.name) + 1)),
                     type |-> h.typeflag, size |-> size]

-----------------------------------------------------------------------------
(* process.c: the arguments on the stack of a new process                  *)

\* Mutant of stack_alignment_calc: the return address is not counted.
stack_alignment_calc_short(sp, argc) == (sp - 12 - 4 * argc + 4) % 16

stack_alignment_calc(sp, argc) ==
  LET end == (sp - 16 - 4 * argc) % 16
  IN  IF end = 12 THEN 0 ELSE IF end > 12 THEN end - 12 ELSE end + 4

\* Four bytes, the least significant first.
memset_word(m, sp, value) ==
  [a \in DOMAIN m |-> IF a \in sp..sp + 3 THEN (value \div 256 ^ (a - sp)) % 256 ELSE m[a]]

\* argv from the top of the stack at esp downwards.  Its last test, for a stack
\* that has wrapped around, compares with the address of if_.esp itself, a kernel
\* variable, and only then fails.
load_arguments_to_stack(mem, argv, esp, if_esp) ==
  LET argc == Len(argv)
      words == While(LAMBDA x : x.i <= argc,
                     LAMBDA x : LET sp == x.sp - Len(argv[x.i])
                                IN  [i |-> x.i + 1, sp |-> sp, m |-> Copy(x.m, sp, argv[x.i], Len(argv[x.i])),
                                     address |-> Append(x.address, sp)],
                     [i |-> 1, sp |-> esp, m |-> mem, address |-> <<>>], argc)
      gap == stack_alignment_calc(words.sp, argc)
      null == words.sp - gap - 4
      aligned == memset_word(memset(words.m, words.sp - gap, 0, gap), null, 0)
      pointers == While(LAMBDA x : x.i > 0,
                        LAMBDA x : [i |-> x.i - 1, sp |-> x.sp - 4,
                                    m |-> memset_word(x.m, x.sp - 4, words.address[x.i])],
                        [i |-> argc, sp |-> null, m |-> aligned], argc)
      sp == pointers.sp
  IN  [success |-> sp - 12 <= if_esp,
       esp |-> sp - 12,
       m |-> memset_word(memset_word(memset_word(pointers.m, sp - 4, sp), sp - 8, argc), sp - 12, 69)]
=============================================================================
