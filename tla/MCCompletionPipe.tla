-------------------------- MODULE MCCompletionPipe --------------------------
(***************************************************************************)
(* A small pipeline for TLC: tickets of several weights, among them one of *)
(* weight 0 (charged as 1) and one without Submit.                         *)
(***************************************************************************)
EXTENDS CompletionPipe

\* With three items and weight four, three light tickets fill the items and
\* the heavy one fills the weight.
MCTickets   == 1 .. 6
MCWeight    == <<1, 0, 1, 1, 3, 1>>
MCNilSubmit == {6}
=============================================================================
