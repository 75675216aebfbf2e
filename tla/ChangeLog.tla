------------------------------ MODULE ChangeLog ------------------------------
(***************************************************************************)
(* What a write-ahead log of database changes promises: every number it    *)
(* hands out names at most one entry, an entry that was taken over is owed *)
(* until it is recorded, an entry is recorded at most once and never       *)
(* changes, and only the end of the process drops what is owed.            *)
(***************************************************************************)
EXTENDS Naturals

CONSTANT Changes

VARIABLES
  issued,    \* the last number handed out
  owed,      \* numbered entries that are not recorded yet
  recorded   \* the log

vars == <<issued, owed, recorded>>

Init == issued = 0 /\ owed = {} /\ recorded = {}

\* The next number goes to a change, unless the answer that carries it is lost.
Issue ==
  /\ issued' = issued + 1
  /\ \/ owed' = owed
     \/ \E c \in Changes : owed' = owed \union {[number |-> issued + 1, change |-> c]}
  /\ UNCHANGED recorded

Record ==
  /\ \E batch \in SUBSET owed :
       /\ owed' = owed \ batch
       /\ recorded' = recorded \union batch
  /\ UNCHANGED issued

ProcessEnds == owed' = {} /\ UNCHANGED <<issued, recorded>>

Next == Issue \/ Record \/ ProcessEnds

Spec == Init /\ [][Next]_vars
=============================================================================
