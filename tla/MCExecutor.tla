----------------------------- MODULE MCExecutor -----------------------------
(***************************************************************************)
(* Instances of Executor for TLC: numbers 0 to 3, of which 9 wraps around  *)
(* to 1 and 4 is refused, and commands that write, time and delete a key.  *)
(***************************************************************************)
EXTENDS Executor

OneVal == {"word"}
OneEncoded == [v \in Vals |-> v]
MCCommands == {"set", "del", "expire"}
=============================================================================
