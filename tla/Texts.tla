------------------------------- MODULE Texts -------------------------------
(***************************************************************************)
(* The algorithms on bytes, ranges and texts of KDUtils and KDFoundation.  *)
(* The three share nothing.                                                *)
(***************************************************************************)
EXTENDS ByteArrays, QuickSort, Urls

textVars == <<baVars, qsVars, urlVars>>

(* Text comes back: base64 and the pieces of an array, local files from    *)
(* their URLs, and sorting loses nothing (ByteArray, quick_sort and Url).  *)
TextAgrees ==
    /\ BaTypeOK /\ NeverOverruns /\ DecodesBack /\ SlicesMakeTheWhole
    /\ LocalFilesComeBack
    /\ SortsTheRest
=============================================================================
