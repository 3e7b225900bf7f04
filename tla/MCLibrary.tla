------------------------------ MODULE MCLibrary ------------------------------
(* Instances for TLC of the parts of KDFoundation and KDUtils that run on  *)
(* one thread: those of Library and Texts, one of them in each behaviour.  *)
EXTENDS Library, Texts, TLC

CONSTANTS object1, object2, object3, object4, filter1, filter2

VARIABLE subject

Symmetric ==
    Permutations({object1, object2}) \cup Permutations({object3, object4})
        \cup Permutations({filter1, filter2})

\* What is not the subject of a behaviour starts, and stays, in one state.
MCInit ==
    /\ subject \in {"tree", "postman", "helpers", "bytes", "sort", "urls", "mappers", "files"}
    /\ Init /\ Post!Init /\ Helpers!Init
    /\ BaInit /\ QsInit /\ UrlInit /\ Mapped!FmInit /\ Disk!FiInit
    /\ subject # "sort" => array = <<>>
    /\ subject # "mappers" => file.exists /\ file.writable /\ file.filled
    /\ subject # "files" => storage = "normal" /\ linked /\ content = <<>>

TreeStep ==
    subject = "tree" /\ Next /\ UNCHANGED <<subject, postVars, helperVars, textVars, fileVars>>

PostStep ==
    subject = "postman" /\ Post!Next /\ UNCHANGED <<subject, vars, helperVars, textVars, fileVars>>

HelperStep ==
    subject = "helpers" /\ Helpers!Next /\ UNCHANGED <<subject, vars, postVars, textVars, fileVars>>

BytesStep ==
    subject = "bytes" /\ BaNext /\ UNCHANGED <<subject, objectVars, qsVars, urlVars, fileVars>>

SortStep ==
    subject = "sort" /\ QsNext /\ UNCHANGED <<subject, objectVars, baVars, urlVars, fileVars>>

UrlStep ==
    subject = "urls" /\ UrlNext /\ UNCHANGED <<subject, objectVars, baVars, qsVars, fileVars>>

MapStep ==
    subject = "mappers" /\ Mapped!FmNext /\ UNCHANGED <<subject, objectVars, textVars, diskVars>>

DiskStep ==
    subject = "files" /\ Disk!FiNext /\ UNCHANGED <<subject, objectVars, textVars, mapVars>>

MCNext ==
    TreeStep \/ PostStep \/ HelperStep \/ BytesStep \/ SortStep \/ UrlStep \/ MapStep \/ DiskStep

MCSpec == MCInit /\ [][MCNext]_<<subject, objectVars, textVars, fileVars>>
=============================================================================
