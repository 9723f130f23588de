------------------------------ MODULE WorkCell ------------------------------
(***************************************************************************)
(* The cell through which the engine hands work to the devices             *)
(* (hansolo-core work.rs, WorkCell).  A set is two atomic steps: the new   *)
(* value is written under the lock, the lock is released, and only then    *)
(* the generation counter is bumped.  Between the two any thread may read  *)
(* either of them, and another setter may run its own two steps.           *)
(*                                                                         *)
(* The counter is accessed with Relaxed ordering.  Interleaving the steps  *)
(* is still exact for the readers, which load the generation and then take *)
(* the lock: a reader that takes the lock before a writer has released it  *)
(* before that writer's fetch_add, so its earlier load cannot see the bump.*)
(***************************************************************************)
EXTENDS Naturals

CONSTANTS
    Setters,    \* threads that may call set
    Work,       \* the works that can be published
    NoWork      \* what an empty cell holds

ASSUME NoWorkIsNoWork == NoWork \notin Work

VARIABLES
    current,    \* what get returns
    generation, \* bumped by every set
    setting     \* setters that have written and not yet bumped

cellVars == <<current, generation, setting>>

CellInit ==
    /\ current = NoWork
    /\ generation = 0
    /\ setting = {}

\* First half of set: *self.current.write() = work
SetWrite(s, w) ==
    /\ s \notin setting
    /\ current' = w
    /\ setting' = setting \cup {s}
    /\ UNCHANGED generation

\* Mutant: the bump is forgotten when the cell is emptied.
SetBumpOnlyForWork(s) ==
    /\ s \in setting
    /\ generation' = IF current = NoWork THEN generation ELSE generation + 1
    /\ setting' = setting \ {s}
    /\ UNCHANGED current

\* Second half of set: self.generation.fetch_add(1)
SetBump(s) ==
    /\ s \in setting
    /\ generation' = generation + 1
    /\ setting' = setting \ {s}
    /\ UNCHANGED current

CellTypeOK ==
    /\ current \in Work \cup {NoWork}
    /\ generation \in Nat
    /\ setting \in SUBSET Setters
=============================================================================
