---------------------------- MODULE MCMemoryStore ----------------------------
(* Small instances of MemoryStore for TLC.                                 *)
EXTENDS MemoryStore

Says(about, label, quality, profile, update, badEdge) ==
  [about |-> about, label |-> label, quality |-> quality, profile |-> profile,
   update |-> update, badEdge |-> badEdge]

MCAnswers == {
  Says("tea", "app", "plain", TRUE, "plain", FALSE),
  Says("tea", "home", "plain", FALSE, "none", FALSE),
  Says("tea", "app", "sensitive", FALSE, "sensitive", FALSE),
  Says("tea", "home", "noise", FALSE, "none", FALSE),
  Says("tea", "app", "long", FALSE, "none", FALSE),
  Says("app", "app", "sensitive", FALSE, "none", FALSE),
  Says("app", "app", "long", FALSE, "none", TRUE),
  Says("nothing", "home", "plain", FALSE, "plain", FALSE) }
=============================================================================
