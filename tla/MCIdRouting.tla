---------------------------- MODULE MCIdRouting ----------------------------
(***************************************************************************)
(* Names for model checking: the empty name, separators and parts of them, *)
(* a percent sign with hex digits behind it, a name that extends another   *)
(* by a separator, and a character of two bytes.                           *)
(***************************************************************************)
EXTENDS IdRouting

MCSchemes == {<<>>, <<97>>, <<58, 47, 47>>}

MCNames == {<<>>, <<97>>, <<97, 47>>, <<37, 50, 70>>, <<195, 169>>}

MCPaths == {<<>>, <<47, 97>>, <<37, 67, 51>>, <<58, 47, 47>>, <<240, 159, 152, 128>>}

\* "%C3" and "%C3%A9" in bytes, half an escape, an overlong form, a surrogate,
\* and "%61://a/b", an id of a channel that nobody writes so.
MCTyped == {<<37, 67, 51>>, <<37, 67, 51, 37, 97, 57>>, <<37, 50>>,
            <<37, 67, 48, 37, 56, 48>>, <<37, 69, 68, 37, 65, 48, 37, 56, 48>>,
            <<37, 54, 49, 58, 47, 47, 97, 47, 98>>}
=============================================================================
