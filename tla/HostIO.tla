------------------------------- MODULE HostIO -------------------------------
(***************************************************************************)
(* C_ConsoleIO_functions.c and C_GetEnv_functions.c: the C functions that  *)
(* the simulated design calls for its console and its settings.            *)
(* Characters are their codes.                                             *)
(***************************************************************************)
EXTENDS Naturals, Sequences, SequencesExt

EOF == 255

(* What poll and read give: nothing there, the next character, or the end  *)
(* of the file (or an error), for as long as one asks.  The pair is the    *)
(* function's result and what is left of the input.                        *)
c_trygetchar(input, ends) ==
    {<<0, input>>}
      \cup (IF input # << >> THEN {<<Head(input), Tail(input)>>}
            ELSE IF ends THEN {<<EOF, input>>} ELSE {})

Raw(ch) == [escaped |-> FALSE, code |-> ch]
Escaped(ch) == [escaped |-> TRUE, code |-> ch]

(* NUL and codes above 127 are dropped; control codes are spelled out.     *)
c_putchar(ch) ==
    IF ch = 0 \/ ch > 127 THEN << >>
    ELSE IF ch = 10 \/ 32 <= ch THEN <<Raw(ch)>> ELSE <<Escaped(ch)>>

Printed(chars) == FlattenSeq([i \in DOMAIN chars |-> c_putchar(chars[i])])

(* A variable that is unset, or does not begin with a number, counts as 0. *)
c_getenv_u64(value) == IF value.is = "number" THEN value.n ELSE 0
=============================================================================
