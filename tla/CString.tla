------------------------------- MODULE CString -------------------------------
(***************************************************************************)
(* lib/string.c: the string and memory functions, and what userprog's      *)
(* process.c builds from them, the words of a command line.  A string is a *)
(* sequence of bytes with its null byte; positions count from 0.  Memory   *)
(* is a function from addresses to bytes.                                  *)
(***************************************************************************)
EXTENDS Integers, Sequences, SequencesExt, FiniteSetsExt, CLang

NotFound == -1                        \* the null pointer
at(s, i) == s[i + 1]

\* The first i >= from where the loop stops.
Scan(from, stop(_), limit) == While(LAMBDA i : ~stop(i), LAMBDA i : i + 1, from, limit)

strlen(s) == Scan(0, LAMBDA i : at(s, i) = 0, Len(s))
strnlen(s, maxlen) == Scan(0, LAMBDA i : at(s, i) = 0 \/ i >= maxlen, Len(s))

memcmp(a, b, size) ==
  LET i == Scan(0, LAMBDA j : j >= size \/ at(a, j) # at(b, j), size)
  IN  IF i >= size THEN 0 ELSE IF at(a, i) > at(b, i) THEN 1 ELSE -1

strcmp(a, b) ==
  LET i == Scan(0, LAMBDA j : at(a, j) = 0 \/ at(a, j) # at(b, j), Len(a))
  IN  IF at(a, i) < at(b, i) THEN -1 ELSE IF at(a, i) > at(b, i) THEN 1 ELSE 0

memchr(block, ch, size) ==
  LET i == Scan(0, LAMBDA j : j >= size \/ at(block, j) = ch, size)
  IN  IF i >= size THEN NotFound ELSE i

strchr(s, c) ==
  LET i == Scan(0, LAMBDA j : at(s, j) = c \/ at(s, j) = 0, Len(s))
  IN  IF at(s, i) = c THEN i ELSE NotFound

strcspn(s, stop) ==
  Scan(0, LAMBDA i : at(s, i) = 0 \/ strchr(stop, at(s, i)) # NotFound, Len(s))
strspn(s, skip) ==
  Scan(0, LAMBDA i : at(s, i) = 0 \/ strchr(skip, at(s, i)) = NotFound, Len(s))

strpbrk(s, stop) ==
  LET i == Scan(0, LAMBDA j : at(s, j) = 0 \/ strchr(stop, at(s, j)) # NotFound, Len(s))
  IN  IF at(s, i) = 0 THEN NotFound ELSE i

\* The loop keeps the last match; the terminator is not looked at.
strrchr(s, c) ==
  While(LAMBDA x : at(s, x.i) # 0,
        LAMBDA x : [i |-> x.i + 1, p |-> IF at(s, x.i) = c THEN x.i ELSE x.p],
        [i |-> 0, p |-> NotFound], Len(s)).p

strstr(haystack, needle) ==
  LET h == strlen(haystack)
      n == strlen(needle)
      i == Scan(0, LAMBDA j : j > h - n \/ memcmp(SubSeq(haystack, j + 1, Len(haystack)), needle, n) = 0,
                h + 1)
  IN  IF h < n \/ i > h - n THEN NotFound ELSE i

-----------------------------------------------------------------------------
(* Functions that write memory                                             *)

memcpy(m, dst, src, size) ==
  While(LAMBDA x : x.i < size,
        LAMBDA x : [i |-> x.i + 1, m |-> [x.m EXCEPT ![dst + x.i] = x.m[src + x.i]]],
        [i |-> 0, m |-> m], size).m

\* Returns its own dst, which the forward loop has advanced: [m, dst].
memmove(m, dst, src, size) ==
  IF dst < src
  THEN [m |-> memcpy(m, dst, src, size), dst |-> dst + size]
  ELSE [m |-> While(LAMBDA x : x.i > 0,
                    LAMBDA x : [i |-> x.i - 1, m |-> [x.m EXCEPT ![dst + x.i - 1] = x.m[src + x.i - 1]]],
                    [i |-> size, m |-> m], size).m,
        dst |-> dst]

memset(m, dst, value, size) == [a \in DOMAIN m |-> IF a \in dst..dst + size - 1 THEN value ELSE m[a]]

\* Writes n bytes of string s, from its start, to memory.
Copy(m, dst, s, n) == [a \in DOMAIN m |-> IF a \in dst..dst + n - 1 THEN at(s, a - dst) ELSE m[a]]

\* strlcpy and strlcat return [m, len].
strlcpy(m, dst, src, size) ==
  LET n == Min({size - 1, strlen(src)})
  IN  [m |-> IF size > 0 THEN [Copy(m, dst, src, n) EXCEPT ![dst + n] = 0] ELSE m,
       len |-> strlen(src)]

\* The string of at most 16 bytes that starts at an address.
StringAt(m, a) ==
  LET e == Scan(a, LAMBDA i : m[i] = 0, 16) IN [i \in 1..e - a + 1 |-> m[a + i - 1]]

strlcat(m, dst, src, size) ==
  LET d == strlen(StringAt(m, dst))
      n == Min({size - d - 1, strlen(src)})
  IN  [m |-> IF size > 0 /\ d < size THEN [Copy(m, dst + d, src, n) EXCEPT ![dst + d + n] = 0] ELSE m,
       len |-> strlen(src) + d]

-----------------------------------------------------------------------------
(* Words of a line                                                         *)

\* What strtok_r does with the token from start to end.
Token(m, start, end) ==
  IF at(m, start) = 0 THEN [m |-> m, token |-> NotFound, save |-> start]
  ELSE IF at(m, end) = 0 THEN [m |-> m, token |-> start, save |-> end]
  ELSE [m |-> [m EXCEPT ![end + 1] = 0], token |-> start, save |-> end + 1]

TokenFrom(m, start, delimiters) ==
  Token(m, start, Scan(start, LAMBDA i : strchr(delimiters, at(m, i)) # NotFound, Len(m)))

\* strtok_r from position s of the line m: the line with its delimiter
\* overwritten, the token and where to go on.
strtok_r(m, s, delimiters) ==
  TokenFrom(m, Scan(s, LAMBDA i : strchr(delimiters, at(m, i)) = NotFound \/ at(m, i) = 0, Len(m)),
            delimiters)

\* get_word_list of process.c: the positions of the tokens and the line cut up.
AddWord(words, r) ==
  [m |-> r.m, rest |-> r.save, more |-> r.token # NotFound,
   words |-> IF r.token = NotFound THEN words ELSE Append(words, r.token)]
get_word_list(line) ==
  DoWhile(LAMBDA x : x.more, LAMBDA x : AddWord(x.words, strtok_r(x.m, x.rest, <<32, 0>>)),
          [m |-> line, rest |-> 0, more |-> TRUE, words |-> <<>>], Len(line))

\* The argv strings, each with its null byte, where get_word_list found them.
Argv(r) ==
  [i \in 1..Len(r.words) |->
     SubSeq(r.m, r.words[i] + 1, Scan(r.words[i], LAMBDA j : at(r.m, j) = 0, Len(r.m)) + 1)]
get_argv_from_list(line) == Argv(get_word_list(line))

\* descramble_ata_string of devices/ide.c: bytes swapped in pairs, then cut
\* after the last character that is neither white space nor null; the last byte
\* always gives way to the terminator.
isspace(c) == c \in {32, 9, 10, 11, 12, 13}
descramble_ata_string(s) ==
  LET size == Len(s)
      swapped == [i \in 1..size |-> IF i % 2 = 1 THEN (IF i < size THEN s[i + 1] ELSE s[i]) ELSE s[i - 1]]
      end == While(LAMBDA n : n > 0 /\ (swapped[n] = 0 \/ isspace(swapped[n])),
                   LAMBDA n : n - 1, size - 1, size)
  IN  [swapped EXCEPT ![end + 1] = 0]

\* strip_antisocial_prefixes of lib/ustar.c.
StartsWith(s, p) == memcmp(s, p, Len(p)) = 0
DotIfEmpty(s) == IF at(s, 0) = 0 \/ strcmp(s, <<46, 46, 0>>) = 0 THEN <<46, 0>> ELSE s
strip_antisocial_prefixes(name) ==
  DotIfEmpty(While(LAMBDA s : \E p \in {<<47>>, <<46, 47>>, <<46, 46, 47>>} : StartsWith(s, p),
                   LAMBDA s : SubSeq(s, strchr(s, 47) + 2, Len(s)), name, Len(name)))
=============================================================================
