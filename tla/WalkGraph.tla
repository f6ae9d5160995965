------------------------------ MODULE WalkGraph ------------------------------
(***************************************************************************)
(* Index.walkGraph (pathways.go): the graph of the walks inside stations   *)
(* is read from the database once, by whoever asks for it first, and kept  *)
(* with the outcome of that reading.  Everyone else who asks waits for it. *)
(*                                                                         *)
(* Whether a reading may fail depends on who reads: these are the steps of *)
(* a component that says so (NearbyPlan).                                  *)
(***************************************************************************)
EXTENDS Integers

CONSTANTS
  Readers,   (* Those who may ask for the graph: searches under way.       *)
  Rows       (* The rows of the pathway table.                             *)

ASSUME RowsAssumption == Rows \in Nat

VARIABLES
  at,       (* Where each reader is.                                       *)
  once,     (* The sync.Once: "new", "running" or "done".                  *)
  loaded,   (* How many rows the first reader has read.                    *)
  adj,      (* How many rows the graph that is kept was made from.         *)
  err       (* Whether its reading failed.                                 *)

graphVars == <<at, once, loaded, adj, err>>

GraphInit == once = "new" /\ loaded = 0 /\ adj = 0 /\ err = FALSE

Become(r, pc) == at' = [at EXCEPT ![r] = pc]

(* The first to ask reads the graph itself.                                 *)
LoadGraph(r) ==
  /\ at[r] = "asking" /\ once = "new"
  /\ once' = "running"
  /\ Become(r, "loading")
  /\ UNCHANGED <<loaded, adj, err>>

LoadRow(r) ==
  /\ at[r] = "loading" /\ loaded < Rows
  /\ loaded' = loaded + 1
  /\ UNCHANGED <<at, once, adj, err>>

(* The reading is over, well or badly; the reader goes on as everyone does. *)
Loaded(r, graph, failed) ==
  /\ at[r] = "loading"
  /\ adj' = graph /\ err' = failed
  /\ once' = "done"
  /\ Become(r, "asking")
  /\ UNCHANGED loaded

LoadDone(r) == loaded = Rows /\ Loaded(r, loaded, FALSE)

(* The query, or the scan of a row, fails: there is no graph.               *)
LoadRefused(r) == Loaded(r, 0, TRUE)

(* Mutant of LoadBroken: what ended the rows is not asked (rows.Err).       *)
LoadBrokenUnseen(r) == Loaded(r, loaded, FALSE)

(* Mutant of LoadBroken: the others are not let go.                         *)
LoadBrokenHeld(r) ==
  /\ at[r] = "loading"
  /\ err' = TRUE /\ Become(r, "failed")
  /\ UNCHANGED <<once, loaded, adj>>

(* The rows end before the table does: what was read is kept all the same. *)
LoadBroken(r) == Loaded(r, loaded, TRUE)

(* Mutant of ReadGraph: the others do not wait for the first.               *)
ReadGraphAtOnce(r) ==
  /\ at[r] = "asking" /\ once # "new"
  /\ Become(r, IF err THEN "failed" ELSE "crossing")
  /\ UNCHANGED <<once, loaded, adj, err>>

(* Everyone gets the graph, or the error of its one reading.                *)
ReadGraph(r) ==
  /\ at[r] = "asking" /\ once = "done"
  /\ Become(r, IF err THEN "failed" ELSE "crossing")
  /\ UNCHANGED <<once, loaded, adj, err>>

(***************************************************************************)
(* pathways.go:48: a search that was given the graph was given all of it.  *)
(* A part of it has walks missing, and changes nobody can make in the      *)
(* default time would be offered.                                          *)
(***************************************************************************)
GraphIsWhole ==
  \A r \in Readers : at[r] = "crossing" => once = "done" /\ adj = Rows
=============================================================================
