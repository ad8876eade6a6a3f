------------------------------ MODULE MCRouter ------------------------------
(***************************************************************************)
(* Values of the constants of Router for TLC.  Characters: "1" (before the *)
(* colon in the order of a std::map), "a" and "b" (after it).              *)
(***************************************************************************)
EXTENDS Router

\* "/", "/:a", "/a", "/a/b", "/a/:b", "/:a/b", "/1", "/a/", "b"
MCPatterns ==
  { <<47>>, <<47, 58, 97>>, <<47, 97>>, <<47, 97, 47, 98>>,
    <<47, 97, 47, 58, 98>>, <<47, 58, 97, 47, 98>>, <<47, 49>>,
    <<47, 97, 47>>, <<98>> }

\* Up to three segments.
MCUrls ==
  { <<47>> \o u : u \in
      { <<>>, <<97>>, <<98>>, <<49>>, <<97, 98>>, <<97, 47>>, <<97, 47, 97>>,
        <<97, 47, 98>>, <<98, 47, 98>>, <<49, 47, 98>>, <<49, 47, 97>>,
        <<47, 98>>, <<97, 47, 98, 47, 98>> } }
=============================================================================
