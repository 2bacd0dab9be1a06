------------------------------ MODULE MC_Driver ------------------------------
(***************************************************************************)
(* Document sets for checking Driver.  A document is a string; its "api"   *)
(* is given split on "/" exactly as str.split returns it, its "version"   *)
(* split on ".".                                                          *)
(***************************************************************************)
EXTENDS Driver

\* part[0].isdigit() holds for these segments only.
MCNumericSegments == {"1.0"}

MCApi ==
  [d \in {"F1", "F2", "U1", "U2", "X", "C1", "C2", "C3", "K1", "K2",
          "M1", "M2", "E1", "H1", "H2", "H3"} |->
     CASE d = "F1" -> <<"", "api", "1.0", "file", "delete">>
       [] d = "F2" -> <<"", "api", "file", "delete">>
       [] d = "U1" -> <<"", "api", "user", "register">>
       [] d = "U2" -> <<"", "api", "user", "register", "">>
       [] d = "X"  -> <<"", "api", "folder", "create">>
       [] d = "C1" -> <<"", "api", "folder", "move">>
       [] d = "C2" -> <<"", "api", "folder", "move">>
       [] d = "C3" -> <<"", "api", "folder", "copy">>
       [] d = "K1" -> <<"", "api", "file", "delete">>
       [] d = "K2" -> <<"", "api", "file", "file_delete">>
       [] d = "M1" -> <<"", "api", "user", "get_info">>
       [] d = "M2" -> <<"", "">>
       [] d = "E1" -> <<"", "api", "folder", "list">>
       [] d = "H1" -> <<"", "api", "share", "link">>
       [] d = "H2" -> <<"", "api", "share", "link", "v1">>
       [] d = "H3" -> <<"", "api2", "share", "link">>]

MCVersion ==
  [d \in DOMAIN MCApi |->
     CASE d = "F1" -> <<"1", "9">>
       [] d = "F2" -> <<"1", "10">>
       [] d = "U2" -> <<"2">>
       [] d = "C2" -> <<"2">>
       [] d = "H3" -> <<"2">>
       [] OTHER    -> <<"1">>]

MCIsDefault == [d \in DOMAIN MCApi |-> d \in {"U1", "C1", "C2"}]

MCValid == DOMAIN MCApi \ {"X"}

\* E1 returns an enum in an array: create_content_enum_parse raises
\* UnimplementedError.
MCUnsupported == {"E1"}

\* Python compares str by code point: "_" (95) sorts after every digit, so
\* "v1_10" < "v1_9" and "v10" < "v1_9".
VersionRank == ("v1" :> 1) @@ ("v10" :> 2) @@ ("v1_10" :> 3) @@ ("v1_9" :> 4)
                 @@ ("v2" :> 5)
MCStrLess(a, b) == VersionRank[a] < VersionRank[b]

\* Two endpoints in two domains, one with a default_version document, one
\* selecting the lexicographically last version; one invalid document.
CleanDocs     == {"F1", "F2", "U1", "U2", "X"}
\* Two default_version documents in the domain folder/move.
ConflictDocs  == {"C1", "C2", "C3"}
\* file/delete and file/file_delete get the same identifier-safe path.
CollidingDocs == {"K1", "K2"}
\* A document the generator raises on, beside one it generates.
AbortDocs     == {"C3", "E1"}
\* api "/" passes validation (only presence of "api" is checked).
MalformedDocs == {"M1", "M2"}
\* The ways a rerun rewrites files: two documents' paths collide (K1, K2);
\* share/link/v1.hpp is H1's interface file and H2's domain header; H1 and
\* H3 (/api2) share the domain share/link.
RewriteDocs   == CollidingDocs \cup {"H1", "H2", "H3"}
=============================================================================
