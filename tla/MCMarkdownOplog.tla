---------------------------- MODULE MCMarkdownOplog ----------------------------
(* MarkdownOplog for TLC. *)
EXTENDS MarkdownOplog, TLC

\* The bullets are interchangeable.
BulletSymmetry == Permutations(Bullets)
================================================================================
