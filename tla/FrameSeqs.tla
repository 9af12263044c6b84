----------------------------- MODULE FrameSeqs ------------------------------
(***************************************************************************)
(* What the properties of connections say of sequences of frames, commands *)
(* and messages. Each is a definition that the provers can unfold, which   *)
(* SelectSeq is not: SeqLemmas holds what is known about them.             *)
(***************************************************************************)
EXTENDS FiniteSets, SequencesExt

\* How often x stands in s.
Count(x, s) == Cardinality({i \in 1 .. Len(s) : s[i] = x})

\* Does x stand in s?
Has(x, s) == \E i \in 1 .. Len(s) : s[i] = x

\* What s becomes when each of its elements is replaced by the sequence that
\* the function f has for it: an empty one leaves the element out.
Expand(f, s) == FlattenSeq([i \in DOMAIN s |-> f[s[i]]])
=============================================================================
