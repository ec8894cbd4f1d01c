------------------------------- MODULE MCIndex -------------------------------
(***************************************************************************)
(* Two files and two builders.  A content defines one name from the other, *)
(* or both names, so that a name may be defined twice or not at all.       *)
(***************************************************************************)
EXTENDS IRIndex

Walked == <<"a.go", "b.go">>
FileContents == {"f_by_g", "g_by_f", "both"}
Definitions == [c \in FileContents |->
  CASE c = "f_by_g" -> {"f"} [] c = "g_by_f" -> {"g"} [] c = "both" -> {"f", "g"}]
References == [c \in FileContents |->
  CASE c = "f_by_g" -> {"g"} [] c = "g_by_f" -> {"f"} [] c = "both" -> {"f"}]
=============================================================================
