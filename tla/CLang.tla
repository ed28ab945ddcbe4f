------------------------------- MODULE CLang -------------------------------
(***************************************************************************)
(* What the models of C functions share.  A loop is a value: While runs    *)
(* body on a loop state as long as test holds, at most bound times; the    *)
(* bound is an upper limit on the number of iterations the code makes on   *)
(* the inputs it is used for.  The singleton holds the state before an     *)
(* iteration: TLC then computes it before it looks at test and body.       *)
(***************************************************************************)
EXTENDS Integers

While(test(_), body(_), start, bound) ==
  LET after[n \in 0..bound] ==
        IF n = 0 THEN start
        ELSE CHOOSE x \in {IF test(s) THEN body(s) ELSE s : s \in {after[n - 1]}} : TRUE
  IN  after[bound]

DoWhile(test(_), body(_), start, bound) == While(test, body, body(start), bound)

NULL == 0

\* DIV_ROUND_UP and ROUND_UP of lib/round.h.
DIV_ROUND_UP(x, step) == (x + step - 1) \div step
ROUND_UP(x, step) == DIV_ROUND_UP(x, step) * step
ROUND_DOWN(x, step) == (x \div step) * step
=============================================================================
