------------------------------- MODULE Loops -------------------------------
(***************************************************************************)
(* Loops as operators.  While(step, done, s) takes steps from s until done *)
(* holds; it gives up after 2^16 of them, which no loop of an instance     *)
(* comes near.  Turns doubles their number with each level, so that the    *)
(* depth of an evaluation does not grow with it.                           *)
(***************************************************************************)
EXTENDS Integers, Sequences

While(step(_), done(_), s) ==
  LET RECURSIVE Turns(_, _)
      Turns(level, t) ==
        IF done(t) THEN t
        ELSE IF level = 0 THEN step(t)
        ELSE Turns(level - 1, Turns(level - 1, t))
  IN Turns(16, s)

\* step(s, k) for k from first to last; what is left over is a loop's result.
For(step(_, _), s, first, last) ==
  While(LAMBDA w : [result |-> step(w.result, w.k), k |-> w.k + 1],
        LAMBDA w : w.k > last, [result |-> s, k |-> first]).result
ForEach(step(_, _), s, seq) == For(LAMBDA t, k : step(t, seq[k]), s, 1, Len(seq))
=============================================================================
