---------------------------- MODULE MC_FrameCodec ----------------------------
(* Constants of FrameCodec for TLC. *)
EXTENDS FrameCodec

\* ASCII bodies: the byte count of the header equals the character count.
MCBodiesAscii == {<<"{", "}">>, <<"{", "a", "}">>}

\* Bodies with a two-byte character, as a client sends for a non-ASCII
\* program path or expression.
MCBodiesUtf8 == {<<"{", "u", "}">>, <<"{", "a", "}">>}

=============================================================================
