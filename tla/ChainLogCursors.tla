-------------------------- MODULE ChainLogCursors --------------------------
(***************************************************************************)
(* The resume cursor of one (module, cursor key) pair, as operators on a   *)
(* record: the in-memory mirror, the value in the local store, and whether *)
(* frontier commits are withheld for the rest of the process.              *)
(*                                                                         *)
(* Reads and writes of the store are best-effort in the code; readable and *)
(* writable say whether the one attempted here succeeds.                   *)
(***************************************************************************)
EXTENDS Integers

\* No cursor: nothing mirrored yet, or nothing stored.
None == -1

Cursor == [mirror : Nat \cup {None}, stored : Nat \cup {None}, held : BOOLEAN]

\* The cursor state of a process that has just started.
FreshCursor(stored) == [mirror |-> None, stored |-> stored, held |-> FALSE]

\* The persisted cursor; None when absent or unreadable.
ReadCursor(c, readable) == IF readable THEN c.stored ELSE None

\* The mirror, seeded from the store the first time the pair is seen.
Current(c, readable) ==
  IF c.mirror # None THEN c.mirror ELSE ReadCursor(c, readable)

\* Additions only move forward, retractions pull back to their height.
Moved(current, block, removed) ==
  CASE current = None -> block
    [] current # None /\ removed -> IF current <= block THEN current ELSE block
    [] OTHER -> IF current >= block THEN current ELSE block

\* commit_chain_log_cursor: the mirror moves first, the store follows when the
\* value changed and the write succeeds; a failed write is only logged.
Commit(c, block, removed, readable, writable) ==
  LET current == Current(c, readable)
      next    == Moved(current, block, removed)
  IN  [c EXCEPT !.mirror = next,
                !.stored = IF next # current /\ writable THEN next ELSE @]

\* Mutant: the frontier is committed whether or not the pair is held.
CommitFrontierIgnoringHold(c, frontier, readable, writable) ==
  Commit(c, frontier, FALSE, readable, writable)

\* commit_chain_log_frontier: a held pair commits nothing.
CommitFrontier(c, frontier, readable, writable) ==
  IF c.held THEN c ELSE Commit(c, frontier, FALSE, readable, writable)

Hold(c) == [c EXCEPT !.held = TRUE]
=============================================================================
