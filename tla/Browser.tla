------------------------------ MODULE Browser ------------------------------
(***************************************************************************)
(* What the scripts of the static demo and of the web client share: the    *)
(* tabs a person has open on one origin, and localStorage, one value per   *)
(* key for all of them.  A handler, a timer callback or the continuation   *)
(* of an await runs to its end before anything else runs in its tab, and a *)
(* getItem or setItem is atomic; between two handlers of one tab, handlers *)
(* of the other tabs run.                                                  *)
(***************************************************************************)
EXTENDS Naturals, Sequences, FiniteSets

CONSTANTS
    Tabs,       \* browser tabs open on the origin
    Nothing,    \* null: a key not stored, nothing selected, an answer still out
    Failed      \* the outcome of a call that failed

ASSUME TabsAssumption == Tabs # {}

\* array.unshift: the newest row comes first.
Unshift(row, rows) == <<row>> \o rows
=============================================================================
