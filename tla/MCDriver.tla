------------------------------ MODULE MCDriver ------------------------------
(* Traces for TLC: 6-bit words, a heap of eight bytes at 40, alignment 2.  *)
EXTENDS Driver

A(k, size) == [type |-> "a", index |-> k, size |-> size]
R(k, size) == [type |-> "r", index |-> k, size |-> size]
F(k) == [type |-> "f", index |-> k, size |-> 0]

\* As short1-bal.rep and realloc-bal.rep: balanced, with holes reused or not.
Balanced == <<A(0, 3), A(1, 2), F(0), A(2, 1), F(1), F(2)>>
Reallocs == <<A(0, 1), A(1, 2), R(1, 4), F(0), R(1, 3), F(1)>>
Short == <<A(0, 1), A(1, 2), R(0, 3), F(1), F(0)>>
Zeroes == <<A(0, 2), R(0, 4), F(0)>>

\* A block larger than the heap: mem_sbrk fails, its argument is negative, or
\* the new break wraps, to an address below the heap (by 22 in place of 23 it
\* would become zero, which the driver does not notice).
TooLarge == <<A(0, 11)>>
Negative == <<A(0, 31)>>
Wraps == <<A(0, 1), A(1, 23)>>

With(pkg, files) == [package |-> pkg, traces |-> files]

\* mm.c on fresh and on used memory, and the packages the driver judges.
MCTests ==
  { With("mm", <<Zeroes, Balanced, Zeroes>>), With("mm", <<Reallocs, Balanced>>),
    With("mm", <<TooLarge, Negative, Wraps>>),
    With("good", <<Balanced, Reallocs>>),
    With("any", <<Short, Zeroes>>) }

\* No block, the heap, and an address on either side of it.
MCAnswers == {NULL, Failure} \cup 39..48

\* Index 2 of four bytes is 128 of 256.
MCHighIndex == { With("good", <<<<A(0, 1), A(1, 1), A(2, 2), R(2, 2)>>>>) }

=============================================================================
