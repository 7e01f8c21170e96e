--------------------------- MODULE TextsAndLists ---------------------------
(***************************************************************************)
(* What is taken apart piece by piece, however it comes: texts on their    *)
(* way to a store (TextLines), what servers list (Listing), wildmats and   *)
(* the policies made of them (GroupPolicy).                                *)
(***************************************************************************)
EXTENDS TextLines, Listing, GroupPolicy

\* What texts, lists and wildmats are turned into: TextTrue, ListTrue and
\* PolicyTrue, of which a behaviour concerns one (unixtextreader.go:15-70,
\* client_puller.go:681-806, wildmat.go:150-167).
LinesTrue == TextTrue /\ ListTrue /\ PolicyTrue
=============================================================================
