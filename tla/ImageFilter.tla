----------------------------- MODULE ImageFilter -----------------------------
(***************************************************************************)
(* EXCLUDED_IMAGE_NAMES (pkg/imagefilter). A pattern is what comes before  *)
(* its star and what comes after it, as sequences of the parts of a name,  *)
(* and whether glob.Compile takes it; a star is any text, slashes too.     *)
(***************************************************************************)
EXTENDS Naturals, Sequences, SequencesExt

\* One pattern that does not compile is an error for all.
CompileNamePatterns(patterns) == \A p \in patterns : p.compiles

Matches(p, name) == /\ Len(name) > Len(p.before) + Len(p.after)
                    /\ IsPrefix(p.before, name)
                    /\ IsSuffix(p.after, name)

Match(patterns, name) == \E p \in patterns : Matches(p, name)
=============================================================================
