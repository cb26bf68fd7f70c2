-------------------------- MODULE MCSQLiteRunStore --------------------------
(***************************************************************************)
(* Two processes with two calls and one.                                   *)
(***************************************************************************)
EXTENDS SQLiteRunStore, TLC

CONSTANTS h1, h2, c1, c2, c3

MCHostOf == c1 :> h1 @@ c2 :> h1 @@ c3 :> h2

Request(op, expected, drafts, after) ==
  [op |-> op, expected |-> expected, drafts |-> drafts, after |-> after]

CreateRun == Request("create", 0, 1, 0)
FirstCommit == Request("commit", 0, 2, 0)

MCCallsOf ==
  c1 :> {CreateRun, FirstCommit} @@
  c2 :> {FirstCommit, Request("commit", 1, 0, 0), Request("list_events", 0, 0, 1)} @@
  c3 :> {CreateRun, FirstCommit, Request("load", 0, 0, 0), Request("list_by_status", 0, 0, 0)}
=============================================================================
