-------------------------- MODULE MCShaderLibrary --------------------------
(* Instance of ShaderLibrary for TLC.  Two of the three shapes have one key, as   *)
(* two signatures can have one hash; entry points are their own keys.            *)
EXTENDS ShaderLibrary, TLC

CONSTANTS a, b, c, h1, h2

MCShapes == {a, b, c}
MCHashes == {h1, h2}
Hash64   == a :> h1 @@ b :> h1 @@ c :> h2
=============================================================================
