---------------------------- MODULE MCFuzzTarget -----------------------------
(***************************************************************************)
(* FuzzTarget for some small designs: the register holds or inverts its    *)
(* value or adds the input to it; the condition looks at it, also together *)
(* with the input, or at the memory.                                       *)
(***************************************************************************)
EXTENDS FuzzTarget

Flip(b) == 1 - b

Hold == [at \in Bit \X Bit \X Bit |-> at[1]]
Invert == [at \in Bit \X Bit \X Bit |-> Flip(at[1])]
Memory == [at \in Bit \X Bit \X Bit |-> at[2]]
Differ == [at \in Bit \X Bit \X Bit |-> IF at[1] = at[3] THEN 0 ELSE 1]
Both == [at \in Bit \X Bit \X Bit |-> at[1] * at[3]]
Never == [at \in Bit \X Bit \X Bit |-> 0]

MCDesigns ==
    [next : {Hold, Invert, Differ}, init : Bit,
     cond : {Hold, Differ, Memory}, fail : {Never, Both},
     write : {Hold}]

WordsUpTo(n) == UNION {[1 .. k -> Bit] : k \in 0 .. n}

MCInputs == [words : WordsUpTo(4), tail : {FALSE}]
    \cup [words : WordsUpTo(1), tail : {TRUE}]
==============================================================================
